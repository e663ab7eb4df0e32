---------------------------- MODULE RerunsProofs ----------------------------
(***************************************************************************)
(* Theorems about chains that are walked more than once, for any number of *)
(* chains, nodes, walks, objects and changes.                              *)
(***************************************************************************)
EXTENDS Reruns, TLAPS, SequenceTheorems, FiniteSetTheorems

USE DEF Nothing

NodeKind == {"read", "save", "callback", "edit"}
State    == {"idle", "ready", "calling", "awaited", "stopped", "done"}

Walk(values) == [at : Nat \ {0}, value : values, state : State, no : Nat, length : Nat]

(***************************************************************************)
(* The part of the types the theorems need, without the bounds of TypeOK.  *)
(***************************************************************************)
AssetType ==
  /\ server \in SUBSET Nat
  /\ version \in Nat
  /\ doc \in Seq([has : SUBSET Nat, read : Nat, by : Chain])
  /\ made \in Seq([doc : Nat, after : Nat])

ChainType ==
  /\ nodes \in [Chain -> Seq([kind : NodeKind, doc : 0..Len(doc)])]
  /\ walk \in [Chain -> Walk(0..Len(doc))]
  /\ walks \in Nat

RecordType ==
  /\ failure \in [Chain -> Nat]
  /\ acked \in Seq([by : Chain, walk : Nat, doc : 0..Len(doc), has : SUBSET Nat])

TypeInv == AssetType /\ ChainType /\ RecordType

LEMMA InitTypeInv == Init => TypeInv
BY EmptySeq DEF Init, TypeInv, AssetType, ChainType, RecordType, Idle, State, Walk

LEMMA StarterIsNode ==
  ASSUME TypeInv, NEW n \in Continuing
  PROVE  n \in [kind : NodeKind, doc : 0..Len(doc)]
<1>1. Len(doc) \in Nat /\ DOMAIN doc = 1..Len(doc)
  BY LenProperties DEF TypeInv, AssetType
<1> QED
  BY <1>1 DEF Continuing, Starting, NodeKind

LEMMA EndedType ==
  ASSUME TypeInv, NEW c \in Chain, NEW state \in State, Ended(c, state)
  PROVE  walk' \in [Chain -> Walk(0..Len(doc))]
<1> DEFINE W == Walk(0..Len(doc))
           first == [walk EXCEPT ![c].state = state]
           second == [first EXCEPT ![c].length = Len(nodes[c])]
<1>1. Len(nodes[c]) \in Nat
  BY LenProperties DEF TypeInv, ChainType
<1>2. first \in [Chain -> W]
  BY DEF Walk, TypeInv, ChainType
<1> HIDE DEF first
<1>3. second \in [Chain -> W]
  BY <1>1, <1>2 DEF Walk
<1> QED
  BY <1>3 DEF Ended, first

LEMMA StoppedType ==
  ASSUME TypeInv, NEW c \in Chain, Stopped(c), UNCHANGED <<asset, script>>
  PROVE  TypeInv'
<1>2. walk' \in [Chain -> Walk(0..Len(doc))]
  BY EndedType DEF Stopped, State
<1>3. failure' \in [Chain -> Nat]
  BY DEF Stopped, RecordFailure, TypeInv, ChainType, RecordType, Walk
<1>4. UNCHANGED <<server, version, doc, made, nodes, acked, walks>>
  BY DEF Stopped, asset, script
<1> QED
  BY <1>2, <1>3, <1>4 DEF TypeInv, AssetType, ChainType, RecordType

LEMMA GoesOnType ==
  ASSUME NEW values, walk \in [Chain -> Walk(values)], NEW c \in Chain,
         NEW value \in values, GoesOn(c, value)
  PROVE  /\ walk' \in [Chain -> Walk(values)]
         /\ walk'[c].no = walk[c].no
         /\ \A d \in Chain \ {c} : walk'[d] = walk[d]
<1> DEFINE Same(w) == /\ w \in [Chain -> Walk(values)]
                      /\ w[c].no = walk[c].no
                      /\ \A d \in Chain \ {c} : w[d] = walk[d]
           atNext  == [walk EXCEPT ![c].at = @ + 1]
           withIt  == [atNext EXCEPT ![c].value = value]
           ready   == [withIt EXCEPT ![c].state = "ready"]
<1>1. Same(atNext)
  BY DEF Walk
<1>2. Same(withIt)
  <2> HIDE DEF atNext
  <2> QED
    BY <1>1 DEF Walk
<1>3. Same(ready)
  <2> HIDE DEF withIt
  <2> QED
    BY <1>2 DEF Walk, State
<1>4. walk' = ready
  BY DEF GoesOn
<1> QED
  BY <1>3, <1>4

LEMMA GoesOnElsewhere ==
  ASSUME TypeInv, NEW c \in Chain, NEW value, GoesOn(c, value)
  PROVE  walk'[c].no = walk[c].no /\ \A d \in Chain \ {c} : walk'[d] = walk[d]
<1> DEFINE values == 0..Len(doc) \cup {value}
<1>1. walk \in [Chain -> Walk(values)]
  BY DEF TypeInv, ChainType, Walk
<1> HIDE DEF values
<1>2. value \in values
  BY DEF values
<1> QED
  BY <1>1, <1>2, GoesOnType

LEMMA BeginType ==
  ASSUME TypeInv, NEW cs, Begin(cs)
  PROVE  walks' \in Nat \ {0} /\ walk' \in [Chain -> Walk(0..Len(doc))]
<1>1. walks' \in Nat \ {0}
  BY DEF Begin, TypeInv, ChainType
<1>2. Len(doc) \in Nat
  BY LenProperties DEF TypeInv, AssetType
<1> DEFINE begun == [Idle EXCEPT !.state = "ready", !.no = walks']
<1>3. begun \in Walk(0..Len(doc))
  <2>1. Idle \in Walk(0..Len(doc))
    BY <1>2 DEF Idle, Walk, State
  <2> QED
    BY <1>1, <2>1 DEF Walk, State
<1>4. walk' = [c \in Chain |-> IF c \in cs THEN begun ELSE walk[c]]
  BY DEF Begin
<1> HIDE DEF begun
<1> QED
  BY <1>1, <1>3, <1>4 DEF TypeInv, ChainType

\* What is written is an object that has been read.
LEMMA PayloadType ==
  ASSUME TypeInv, NEW c \in Chain, Write(c)
  PROVE  Payload(c) = Meant(c) /\ Payload(c) \in 1..Len(doc)
<1>1. nodes[c] \in Seq([kind : NodeKind, doc : 0..Len(doc)]) /\ walk[c].at \in Nat \ {0}
  BY DEF TypeInv, ChainType, Walk
<1>2. walk[c].at \in 1..Len(nodes[c])
  BY <1>1, LenProperties DEF Write, Reaches, Over
<1>3. Node(c) \in [kind : NodeKind, doc : 0..Len(doc)]
  BY <1>1, <1>2, ElementOfSeq DEF Node
<1>4. Meant(c) \in 0..Len(doc)
  BY <1>3 DEF Meant, Walk, TypeInv, ChainType
<1>5. Len(doc) \in Nat
  BY LenProperties DEF TypeInv, AssetType
<1> QED
  BY <1>4, <1>5 DEF Payload, Write

LEMMA StepType ==
  ASSUME TypeInv, [Next]_vars
  PROVE  TypeInv'
<1>0. Len(doc) \in Nat /\ DOMAIN doc = 1..Len(doc) /\ Len(acked) \in Nat
  BY LenProperties DEF TypeInv, AssetType, RecordType
<1> DEFINE Values == 0..Len(doc)
<1>1. ASSUME NEW c \in Chain, NEW n \in Continuing, Build(c, n) \/ Extend(c, n)
      PROVE  TypeInv'
  <2>1. n \in [kind : NodeKind, doc : 0..Len(doc)]
    BY StarterIsNode
  <2>2. UNCHANGED <<asset, record, walk, walks>>
    BY <1>1 DEF Build, Extend
  <2>3. nodes' \in [Chain -> Seq([kind : NodeKind, doc : 0..Len(doc)])]
    <3>1. CASE Build(c, n)
      <4>1. <<n>> \in Seq([kind : NodeKind, doc : 0..Len(doc)])
        BY <2>1
      <4> QED
        BY <3>1, <4>1 DEF Build, TypeInv, ChainType
    <3>2. CASE Extend(c, n)
      BY <2>1, <3>2, AppendProperties DEF Extend, TypeInv, ChainType
    <3> QED
      BY <1>1, <3>1, <3>2
  <2> QED
    BY <2>2, <2>3 DEF asset, record, TypeInv, AssetType, ChainType, RecordType
<1>2. ASSUME NEW c \in Chain, Execute(c)
      PROVE  TypeInv'
  <2>1. walks' \in Nat /\ walk' \in [Chain -> Walk(Values)]
    BY <1>2, BeginType DEF Execute
  <2>2. UNCHANGED <<asset, script, record>>
    BY <1>2 DEF Execute
  <2> QED
    BY <2>1, <2>2 DEF asset, script, record, TypeInv, AssetType, ChainType, RecordType
<1>3. ASSUME NEW c \in Chain, ExecuteFails(c)
      PROVE  TypeInv'
  <2>1. walks' \in Nat /\ failure' \in [Chain -> Nat]
    BY <1>3 DEF ExecuteFails, RecordFailure, TypeInv, ChainType, RecordType
  <2>2. UNCHANGED <<asset, script, acked, walk>>
    BY <1>3 DEF ExecuteFails
  <2> QED
    BY <2>1, <2>2 DEF asset, script, TypeInv, AssetType, ChainType, RecordType
<1>4. ASSUME NEW c \in Chain, WalkEnds(c)
      PROVE  TypeInv'
  <2>2. walk' \in [Chain -> Walk(Values)]
    BY <1>4, EndedType DEF WalkEnds, State
  <2>3. UNCHANGED <<asset, script, failure, acked, walks>>
    BY <1>4 DEF WalkEnds
  <2> QED
    BY <2>2, <2>3 DEF asset, script, TypeInv, AssetType, ChainType, RecordType
<1>5. ASSUME NEW c \in Chain, Read(c)
      PROVE  TypeInv'
  <2>1. /\ doc' \in Seq([has : SUBSET Nat, read : Nat, by : Chain])
        /\ Len(doc') = Len(doc) + 1
    BY <1>5, AppendProperties DEF Read, TypeInv, AssetType
  <2>2. 0..Len(doc) \subseteq 0..Len(doc')
    BY <1>0, <2>1
  <2>3. nodes' \in [Chain -> Seq([kind : NodeKind, doc : 0..Len(doc')])]
    <3>1. \A d \in Chain : nodes[d] \in Seq([kind : NodeKind, doc : 0..Len(doc')])
      <4>1. [kind : NodeKind, doc : 0..Len(doc)] \subseteq [kind : NodeKind, doc : 0..Len(doc')]
        BY <2>2
      <4> QED
        <5> TAKE d \in Chain
        <5>1. nodes[d] \in Seq([kind : NodeKind, doc : 0..Len(doc)])
          BY DEF TypeInv, ChainType
        <5> QED
          BY <4>1, <5>1, SeqMonotonic
    <3> QED
      BY <1>5, <3>1 DEF Read, script, TypeInv, ChainType
  <2>4. walk' \in [Chain -> Walk(0..Len(doc'))]
    <3>1. walk \in [Chain -> Walk(0..Len(doc'))]
      BY <2>2 DEF TypeInv, ChainType, Walk
    <3>2. Len(doc') \in 0..Len(doc')
      BY <1>0, <2>1
    <3>3. GoesOn(c, Len(doc'))
      BY <1>5 DEF Read
    <3> QED
      BY <3>1, <3>2, <3>3, GoesOnType
  <2>5. acked' \in Seq([by : Chain, walk : Nat, doc : 0..Len(doc'), has : SUBSET Nat])
    <3>1. [by : Chain, walk : Nat, doc : 0..Len(doc), has : SUBSET Nat]
            \subseteq [by : Chain, walk : Nat, doc : 0..Len(doc'), has : SUBSET Nat]
      BY <2>2
    <3>2. acked' = acked
      BY <1>5 DEF Read, record
    <3> QED
      BY <3>1, <3>2, SeqMonotonic DEF TypeInv, RecordType
  <2>6. UNCHANGED <<server, version, made, walks, failure>>
    BY <1>5 DEF Read, record
  <2> QED
    BY <2>1, <2>3, <2>4, <2>5, <2>6 DEF TypeInv, AssetType, ChainType, RecordType
<1>6. ASSUME NEW c \in Chain, Write(c)
      PROVE  TypeInv'
  <2>1. Meant(c) \in 0..Len(doc) /\ doc[Payload(c)] \in [has : SUBSET Nat, read : Nat, by : Chain]
    <3>1. Payload(c) = Meant(c) /\ Payload(c) \in 1..Len(doc)
      BY <1>6, PayloadType
    <3>2. doc \in Seq([has : SUBSET Nat, read : Nat, by : Chain])
      BY DEF TypeInv, AssetType
    <3>3. doc[Payload(c)] \in [has : SUBSET Nat, read : Nat, by : Chain]
      BY <3>1, <3>2, ElementOfSeq
    <3> QED
      BY <1>0, <3>1, <3>3
  <2>2. server' \in SUBSET Nat /\ version' \in Nat
    BY <1>6, <2>1 DEF Write, TypeInv, AssetType
  <2>3. acked' \in Seq([by : Chain, walk : Nat, doc : 0..Len(doc), has : SUBSET Nat])
    <3>1. [by |-> c, walk |-> walk[c].no, doc |-> Meant(c), has |-> server']
            \in [by : Chain, walk : Nat, doc : 0..Len(doc), has : SUBSET Nat]
      BY <2>1, <2>2 DEF Walk, TypeInv, ChainType
    <3> QED
      BY <1>6, <3>1, AppendProperties DEF Write, TypeInv, RecordType
  <2>4. walk' \in [Chain -> Walk(Values)]
    <3>1. GoesOn(c, 0)
      BY <1>6 DEF Write
    <3>2. 0 \in Values
      BY <1>0
    <3> QED
      BY <3>1, <3>2, GoesOnType DEF TypeInv, ChainType
  <2>5. UNCHANGED <<doc, made, script, failure, walks>>
    BY <1>6 DEF Write
  <2> QED
    BY <2>2, <2>3, <2>4, <2>5 DEF script, TypeInv, AssetType, ChainType, RecordType
<1>7. ASSUME NEW c \in Chain, Refused(c) \/ BuilderRaises(c) \/ CallbackRaises(c)
      PROVE  TypeInv'
  BY <1>7, StoppedType DEF Refused, BuilderRaises, CallbackRaises
<1>8. ASSUME NEW c \in Chain, CallbackStarts(c) \/ CallbackReturns(c)
      PROVE  TypeInv'
  <2>1. walk' \in [Chain -> Walk(Values)]
    <3>1. CASE CallbackStarts(c)
      <4>1. PICK how \in {"calling", "awaited"} : walk' = [walk EXCEPT ![c].state = how]
        BY <3>1 DEF CallbackStarts
      <4> QED
        BY <4>1 DEF State, Walk, TypeInv, ChainType
    <3>2. CASE CallbackReturns(c)
      <4>1. walk[c].value \in Values
        BY DEF TypeInv, ChainType, Walk
      <4> QED
        BY <3>2, <4>1, GoesOnType DEF CallbackReturns, TypeInv, ChainType
    <3> QED
      BY <1>8, <3>1, <3>2
  <2>2. UNCHANGED <<asset, script, record, walks>>
    BY <1>8 DEF CallbackStarts, CallbackReturns
  <2> QED
    BY <2>1, <2>2 DEF asset, script, record, TypeInv, AssetType, ChainType, RecordType
<1>9. ASSUME NEW d \in DOMAIN doc, Change(d)
      PROVE  TypeInv'
  <2>1. made' \in Seq([doc : Nat, after : Nat]) /\ Len(made') \in Nat
    <3>1. [doc |-> d, after |-> Len(acked)] \in [doc : Nat, after : Nat]
      BY <1>0
    <3> QED
      BY <1>9, <3>1, AppendProperties, LenProperties DEF Change, TypeInv, AssetType
  <2>2. /\ doc' \in Seq([has : SUBSET Nat, read : Nat, by : Chain])
        /\ Len(doc') = Len(doc)
    <3>1. doc[d] \in [has : SUBSET Nat, read : Nat, by : Chain]
      BY <1>0, ElementOfSeq DEF TypeInv, AssetType
    <3>2. [doc[d] EXCEPT !.has = @ \cup {Len(made')}] \in [has : SUBSET Nat, read : Nat, by : Chain]
      BY <2>1, <3>1
    <3> QED
      BY <1>0, <1>9, <3>2, ExceptSeq DEF Change, TypeInv, AssetType
  <2>3. UNCHANGED <<server, version, script, record, walk, walks>>
    BY <1>9 DEF Change
  <2> QED
    BY <2>1, <2>2, <2>3 DEF script, record, TypeInv, AssetType, ChainType, RecordType
<1>10. CASE Submit
  <2>1. walks' \in Nat /\ walk' \in [Chain -> Walk(Values)]
    BY <1>10, BeginType DEF Submit
  <2>2. UNCHANGED <<asset, script, record>>
    BY <1>10 DEF Submit
  <2> QED
    BY <2>1, <2>2 DEF asset, script, record, TypeInv, AssetType, ChainType, RecordType
<1>11. CASE SubmitBreaks \/ BatchReturns
  <2>1. UNCHANGED <<asset, nodes, record, walk, walks>>
    BY <1>11 DEF SubmitBreaks, BatchReturns
  <2> QED
    BY <2>1 DEF asset, record, TypeInv, AssetType, ChainType, RecordType
<1>12. CASE UNCHANGED vars
  BY <1>12 DEF vars, TypeInv, AssetType, ChainType, RecordType
<1> QED
  BY <1>1, <1>2, <1>3, <1>4, <1>5, <1>6, <1>7, <1>8, <1>9, <1>10, <1>11, <1>12
     DEF Next, ScriptEnds

(***************************************************************************)
(* The record of failures.  A walk that is under way has a number, so what *)
(* it puts on the record is a failure; every failed walk puts one there,   *)
(* and nothing takes it off.                                               *)
(***************************************************************************)
OnRecord ==
  \A c \in Chain :
    /\ failure[c] # 0 <=> c \in failed
    /\ Walked(c) => walk[c].no # 0

LEMMA OnRecordStep ==
  ASSUME TypeInv, OnRecord, [Next]_vars
  PROVE  OnRecord'
<1> USE DEF OnRecord, Walked, TypeInv, ChainType, RecordType, Walk
<1>1. ASSUME NEW c \in Chain, Stopped(c), Walked(c)
      PROVE  OnRecord'
  <2>1. /\ \A d \in Chain : walk'[d].no = walk[d].no
        /\ \A d \in Chain \ {c} : walk'[d].state = walk[d].state
        /\ walk'[c].state = "stopped"
    BY <1>1 DEF Stopped, Ended
  <2>2. /\ \A d \in Chain \ {c} : failure'[d] = failure[d]
        /\ failure'[c] # 0
        /\ failed' = failed \cup {c}
    BY <1>1 DEF Stopped, RecordFailure
  <2> QED
    BY <2>1, <2>2
<1>2. ASSUME NEW c \in Chain, Refused(c) \/ BuilderRaises(c) \/ CallbackRaises(c)
      PROVE  OnRecord'
  BY <1>1, <1>2 DEF Refused, BuilderRaises, CallbackRaises, Reaches, Turn, Returning, InCall
<1>3. ASSUME NEW cs, Begin(cs), UNCHANGED record
      PROVE  OnRecord'
  <2>1. walks' # 0
    BY <1>3, BeginType
  <2>2. \A d \in Chain : IF d \in cs THEN walk'[d].no = walks' ELSE walk'[d] = walk[d]
    BY <1>3 DEF Begin, Idle
  <2> QED
    BY <1>3, <2>1, <2>2 DEF record
<1>4. ASSUME NEW c \in Chain, ExecuteFails(c)
      PROVE  OnRecord'
  <2>1. /\ \A d \in Chain \ {c} : failure'[d] = failure[d]
        /\ failure'[c] # 0
        /\ failed' = failed \cup {c}
        /\ walk' = walk
    BY <1>4 DEF ExecuteFails, RecordFailure
  <2> QED
    BY <2>1
<1>5. ASSUME NEW c \in Chain, WalkEnds(c)
      PROVE  OnRecord'
  <2>1. /\ \A d \in Chain : walk'[d].no = walk[d].no
        /\ \A d \in Chain \ {c} : walk'[d].state = walk[d].state
        /\ walk'[c].state = "done"
        /\ UNCHANGED <<failure, failed>>
    BY <1>5 DEF WalkEnds, Ended
  <2> QED
    BY <2>1
<1>6. ASSUME NEW c \in Chain, Read(c) \/ Write(c) \/ CallbackStarts(c) \/ CallbackReturns(c)
      PROVE  OnRecord'
  <2>1. /\ Walked(c)
        /\ \A d \in Chain : walk'[d].no = walk[d].no
        /\ \A d \in Chain \ {c} : walk'[d].state = walk[d].state
    <3>1. Walked(c)
      BY <1>6 DEF Read, Write, CallbackStarts, CallbackReturns, Reaches, Turn, Returning,
                  InCall
    <3>2. CASE CallbackStarts(c)
      BY <3>1, <3>2 DEF CallbackStarts
    <3>3. CASE Read(c) \/ Write(c) \/ CallbackReturns(c)
      BY <3>1, <3>3, GoesOnElsewhere DEF Read, Write, CallbackReturns
    <3> QED
      BY <1>6, <3>2, <3>3
  <2>2. UNCHANGED <<failure, failed>>
    BY <1>6 DEF Read, Write, CallbackStarts, CallbackReturns, record
  <2> QED
    BY <2>1, <2>2
<1>7. ASSUME UNCHANGED <<failure, failed, walk>>
      PROVE  OnRecord'
  BY <1>7
<1> QED
  BY <1>2, <1>3, <1>4, <1>5, <1>6, <1>7
     DEF Next, Build, Extend, Execute, Submit, SubmitBreaks, BatchReturns, Change,
         ScriptEnds, record, vars

\* submit_requests() returns a failure for exactly the chains of which some walk
\* has failed: what it reads is the record, which a later walk does not clear.
THEOREM FailuresAreReported == Spec => FailureReported
<1>1. Init => TypeInv /\ OnRecord
  BY InitTypeInv DEF Init, OnRecord, Walked, Idle
<1>2. TypeInv /\ OnRecord /\ [Next]_vars => (TypeInv /\ OnRecord)'
  BY StepType, OnRecordStep
<1>3. ASSUME OnRecord, [Next]_vars, NEW c \in Chain, told'[c] # told[c]
      PROVE  told'[c] = "failure" <=> c \in failed
  <2>1. BatchReturns
    <3>1. ASSUME NEW d \in Chain,
                 Execute(d) \/ ExecuteFails(d) \/ WalkEnds(d) \/ Read(d) \/ Write(d)
          PROVE  FALSE
      BY <1>3, <3>1 DEF Execute, ExecuteFails, WalkEnds, Read, Write
    <3>2. ASSUME NEW d \in Chain, Refused(d) \/ BuilderRaises(d) \/ CallbackRaises(d)
          PROVE  FALSE
      BY <1>3, <3>2 DEF Refused, BuilderRaises, CallbackRaises, Stopped
    <3>3. ASSUME NEW d \in Chain, CallbackStarts(d) \/ CallbackReturns(d)
          PROVE  FALSE
      BY <1>3, <3>3 DEF CallbackStarts, CallbackReturns
    <3>4. ASSUME NEW d \in Chain, NEW n \in Continuing, Build(d, n) \/ Extend(d, n)
          PROVE  FALSE
      BY <1>3, <3>4 DEF Build, Extend
    <3>5. ASSUME NEW d \in DOMAIN doc, Change(d)
          PROVE  FALSE
      BY <1>3, <3>5 DEF Change
    <3>6. ~Submit /\ ~SubmitBreaks
      BY <1>3 DEF Submit, SubmitBreaks
    <3>7. ~UNCHANGED vars
      BY <1>3 DEF vars
    <3> QED
      BY <1>3, <3>1, <3>2, <3>3, <3>4, <3>5, <3>6, <3>7 DEF Next, ScriptEnds
  <2> QED
    BY <1>3, <2>1 DEF BatchReturns, OnRecord
<1>4. OnRecord /\ [Next]_vars =>
        [ \A c \in Chain :
            told'[c] # told[c] => (told'[c] = "failure" <=> c \in failed) ]_vars
  BY <1>3
<1> QED
  BY <1>1, <1>2, <1>4, PTL DEF Spec, FailureReported

(***************************************************************************)
(* The asset.  Whoever has read it after the last write holds all that is  *)
(* on the server, and every change that was made to an object is in it.    *)
(***************************************************************************)
Fresh ==
  \A d \in DOMAIN doc :
    /\ doc[d].read <= version
    /\ doc[d].read = version => server \subseteq doc[d].has

Kept ==
  \A m \in DOMAIN made :
    /\ made[m].doc \in DOMAIN doc
    /\ m \in doc[made[m].doc].has
    /\ made[m].after <= Len(acked)

Held == Fresh /\ Kept /\ WritesWhatIsHeld

LEMMA TimesType ==
  ASSUME TypeInv
  PROVE  /\ \A d \in DOMAIN doc : doc[d].read \in Nat
         /\ \A m \in DOMAIN made : made[m].after \in Nat
<1>1. ASSUME NEW d \in DOMAIN doc
      PROVE  doc[d].read \in Nat
  <2>1. doc \in Seq([has : SUBSET Nat, read : Nat, by : Chain])
    BY DEF TypeInv, AssetType
  <2>2. doc[d] \in [has : SUBSET Nat, read : Nat, by : Chain]
    BY <2>1, LenProperties, ElementOfSeq
  <2> QED
    BY <2>2
<1>2. ASSUME NEW m \in DOMAIN made
      PROVE  made[m].after \in Nat
  <2>1. made \in Seq([doc : Nat, after : Nat])
    BY DEF TypeInv, AssetType
  <2>2. made[m] \in [doc : Nat, after : Nat]
    BY <2>1, LenProperties, ElementOfSeq
  <2> QED
    BY <2>2
<1> QED
  BY <1>1, <1>2

LEMMA HeldStep ==
  ASSUME TypeInv, Held, [Next]_vars
  PROVE  Held'
<1> USE DEF Held
<1>0. /\ Len(doc) \in Nat /\ DOMAIN doc = 1..Len(doc)
      /\ Len(made) \in Nat /\ DOMAIN made = 1..Len(made)
      /\ Len(acked) \in Nat /\ DOMAIN acked = 1..Len(acked)
  BY LenProperties DEF TypeInv, AssetType, RecordType
<1>1. ASSUME UNCHANGED <<server, version, doc, made, acked>>
      PROVE  Held'
  BY <1>1 DEF Fresh, Kept, WritesWhatIsHeld
<1>2. ASSUME NEW c \in Chain, Read(c)
      PROVE  Held'
  <2>1. /\ Len(doc') = Len(doc) + 1 /\ DOMAIN doc' = 1..(Len(doc) + 1)
        /\ \A d \in DOMAIN doc : doc'[d] = doc[d]
        /\ doc'[Len(doc) + 1] = [has |-> server, read |-> version, by |-> c]
    BY <1>0, <1>2, AppendProperties DEF Read, TypeInv, AssetType
  <2>2. UNCHANGED <<server, version, made, acked>>
    BY <1>2 DEF Read, record
  <2>3. Fresh'
    <3>1. Fresh /\ version \in Nat
      BY DEF TypeInv, AssetType
    <3> QED
      BY <1>0, <2>1, <2>2, <3>1 DEF Fresh
  <2>4. Kept'
    BY <1>0, <2>1, <2>2 DEF Kept
  <2> QED
    BY <2>2, <2>3, <2>4 DEF WritesWhatIsHeld
<1>3. ASSUME NEW c \in Chain, Write(c)
      PROVE  Held'
  <2> DEFINE new == [by |-> c, walk |-> walk[c].no, doc |-> Meant(c), has |-> server']
  <2>1. /\ Len(acked') = Len(acked) + 1 /\ DOMAIN acked' = 1..(Len(acked) + 1)
        /\ \A n \in DOMAIN acked : acked'[n] = acked[n]
        /\ acked'[Len(acked) + 1] = new
    <3>1. acked' = Append(acked, new)
      BY <1>3 DEF Write
    <3>2. acked' \in Seq([by : Chain, walk : Nat, doc : 0..Len(doc), has : SUBSET Nat])
      BY <1>3, StepType DEF Next, TypeInv, RecordType, Write
    <3>3. DOMAIN acked' = 1..Len(acked')
      BY <3>2, LenProperties
    <3> HIDE DEF new
    <3> QED
      BY <1>0, <3>1, <3>3
  <2>2. UNCHANGED <<doc, made>> /\ version' = version + 1 /\ server' = doc[Payload(c)].has
    <3>1. UNCHANGED <<doc, made>>
      BY <1>3 DEF Write
    <3>2. version' = version + 1 /\ server' = doc[Payload(c)].has
      BY <1>3 DEF Write
    <3> QED
      BY <3>1, <3>2
  <2>3. Fresh'
    BY <2>2, TimesType DEF Fresh, TypeInv, AssetType
  <2>4. Kept'
    BY <1>0, <2>1, <2>2, TimesType DEF Kept
  <2>5. WritesWhatIsHeld'
    <3> SUFFICES ASSUME NEW n \in DOMAIN acked', NEW m \in DOMAIN made,
                        made[m].doc = acked'[n].doc, made[m].after < n
                 PROVE  m \in acked'[n].has
      BY <2>2 DEF WritesWhatIsHeld
    <3>1. CASE n \in DOMAIN acked
      BY <2>1, <3>1 DEF WritesWhatIsHeld
    <3>2. CASE n = Len(acked) + 1
      BY <1>3, <2>1, <2>2, <3>2, PayloadType DEF Kept
    <3> QED
      BY <1>0, <2>1, <3>1, <3>2
  <2> QED
    BY <2>3, <2>4, <2>5
<1>4. ASSUME NEW d \in DOMAIN doc, Change(d)
      PROVE  Held'
  <2>1. /\ Len(made') = Len(made) + 1 /\ DOMAIN made' = 1..(Len(made) + 1)
        /\ \A m \in DOMAIN made : made'[m] = made[m]
        /\ made'[Len(made) + 1] = [doc |-> d, after |-> Len(acked)]
    BY <1>0, <1>4, AppendProperties DEF Change, TypeInv, AssetType
  <2>2. /\ DOMAIN doc' = DOMAIN doc
        /\ \A e \in DOMAIN doc : doc'[e].read = doc[e].read /\ doc[e].has \subseteq doc'[e].has
        /\ Len(made') \in doc'[d].has
    BY <1>0, <1>4, ElementOfSeq DEF Change, TypeInv, AssetType
  <2>3. UNCHANGED <<server, version, acked>>
    BY <1>4 DEF Change, record
  <2>4. Fresh'
    BY <2>2, <2>3 DEF Fresh
  <2>5. Kept'
    BY <1>0, <2>1, <2>2, <2>3 DEF Kept
  <2>6. WritesWhatIsHeld'
    <3> SUFFICES ASSUME NEW n \in DOMAIN acked, NEW m \in DOMAIN made',
                        made'[m].doc = acked[n].doc, made'[m].after < n
                 PROVE  m \in acked[n].has
      BY <2>3 DEF WritesWhatIsHeld
    <3>1. m \in DOMAIN made
      BY <1>0, <2>1
    <3> QED
      BY <2>1, <3>1 DEF WritesWhatIsHeld
  <2> QED
    BY <2>4, <2>5, <2>6
<1>5. ASSUME NEW c \in Chain,
             \/ Execute(c) \/ ExecuteFails(c) \/ WalkEnds(c) \/ Refused(c)
             \/ BuilderRaises(c) \/ CallbackStarts(c) \/ CallbackReturns(c) \/ CallbackRaises(c)
             \/ \E n \in Continuing : Build(c, n) \/ Extend(c, n)
      PROVE  UNCHANGED <<server, version, doc, made, acked>>
  BY <1>5 DEF Execute, ExecuteFails, WalkEnds, Refused, BuilderRaises, CallbackStarts,
              CallbackReturns, CallbackRaises, Build, Extend, Stopped, asset, record
<1>6. ASSUME Submit \/ SubmitBreaks \/ BatchReturns \/ UNCHANGED vars
      PROVE  UNCHANGED <<server, version, doc, made, acked>>
  BY <1>6 DEF Submit, SubmitBreaks, BatchReturns, asset, record, vars
<1> QED
  BY <1>1, <1>2, <1>3, <1>4, <1>5, <1>6 DEF Next, ScriptEnds

LEMMA HeldInvariant == Spec => [](TypeInv /\ Held)
<1>1. Init => TypeInv /\ Held
  BY InitTypeInv DEF Init, Held, Fresh, Kept, WritesWhatIsHeld
<1>2. TypeInv /\ Held /\ [Next]_vars => (TypeInv /\ Held)'
  BY StepType, HeldStep
<1> QED
  BY <1>1, <1>2, PTL DEF Spec

\* A write carries every change the script has made to its object before, since
\* a request holds on to the object and is made into bytes when it is sent.
THEOREM ChangesAreWritten == Spec => []WritesWhatIsHeld
BY HeldInvariant, PTL DEF Held

\* edit(callable) of what its own walk has read drops no change, unless another
\* write came in between.
THEOREM AloneNothingIsLost == Spec => EditAloneKeepsChanges
<1>1. ASSUME TypeInv, Held, [Next]_vars, NEW c \in Chain, Reaches(c, {"edit"}),
             version' # version, walk'[c] # walk[c], walk[c].value # Nothing,
             doc[walk[c].value].read = version
      PROVE  server \subseteq server'
  <2>1. PICK d \in Chain : Write(d)
    BY <1>1 DEF Next, ScriptEnds, vars, asset, Build, Extend, Execute, ExecuteFails, WalkEnds, Read,
                Refused, BuilderRaises, CallbackStarts, CallbackReturns, CallbackRaises,
                Change, Submit, SubmitBreaks, BatchReturns
  <2>2. d = c
    BY <1>1, <2>1, GoesOnElsewhere DEF Write
  <2>3. Payload(c) = walk[c].value /\ Payload(c) \in DOMAIN doc
    BY <1>1, <2>1, <2>2, PayloadType, LenProperties
       DEF Reaches, Meant, TypeInv, AssetType
  <2> QED
    BY <1>1, <2>1, <2>2, <2>3 DEF Write, Held, Fresh
<1>2. TypeInv /\ Held /\ [Next]_vars =>
        [ \A c \in Chain :
            LET d == walk[c].value IN
            /\ Reaches(c, {"edit"}) /\ version' # version /\ walk'[c] # walk[c]
            /\ d # Nothing /\ doc[d].read = version
            => server \subseteq server' ]_vars
  BY <1>1
<1> QED
  BY <1>2, HeldInvariant, PTL DEF Spec, EditAloneKeepsChanges

(***************************************************************************)
(* What a step does to the walks.                                          *)
(***************************************************************************)
LEMMA GoesOnFields ==
  ASSUME TypeInv, NEW c \in Chain, NEW value, GoesOn(c, value)
  PROVE  /\ walk'[c].at = walk[c].at + 1 /\ walk'[c].state = "ready"
         /\ walk'[c].no = walk[c].no
         /\ \A d \in Chain \ {c} : walk'[d] = walk[d]
<1>1. walk'[c].at = walk[c].at + 1 /\ walk'[c].state = "ready"
  BY DEF GoesOn, TypeInv, ChainType, Walk
<1> QED
  BY <1>1, GoesOnElsewhere

LEMMA EndedFields ==
  ASSUME TypeInv, NEW c \in Chain, NEW state \in State, Ended(c, state)
  PROVE  /\ walk'[c].state = state /\ walk'[c].length = Len(nodes[c])
         /\ walk'[c].no = walk[c].no
         /\ \A d \in Chain \ {c} : walk'[d] = walk[d]
BY DEF Ended, TypeInv, ChainType, Walk

LEMMA BeginFields ==
  ASSUME TypeInv, NEW cs, Begin(cs)
  PROVE  /\ walks' = walks + 1
         /\ \A c \in Chain : c \in cs => /\ ~Walked(c) /\ walk'[c].state = "ready"
                                         /\ walk'[c].no = walks' /\ walk'[c].at = 1
         /\ \A c \in Chain : c \notin cs => walk'[c] = walk[c]
BY DEF Begin, Idle

(***************************************************************************)
(* The [RESULT] lines.  A confirmed write has its line, or it has none yet *)
(* and is in the queue of the chain that made it, once, and the walk that  *)
(* made it is under way: so no walk begins with anything in the queue.     *)
(***************************************************************************)
LinesType == queue \in [Chain -> Seq(Nat)] /\ logged \in Seq(Nat) /\ Len(logged) = Len(acked)

Waiting(c, k) ==
  /\ queue[c][k] \in 1..Len(acked)
  /\ acked[queue[c][k]].by = c
  /\ acked[queue[c][k]].walk = walk[c].no
  /\ logged[queue[c][k]] = 0

Queues ==
  \A c \in Chain : \A k \in DOMAIN queue[c] :
    /\ Walked(c) /\ Waiting(c, k)
    /\ \A j \in DOMAIN queue[c] : queue[c][j] = queue[c][k] => j = k

Settled ==
  \A n \in 1..Len(acked) :
    \/ logged[n] = 1
    \/ logged[n] = 0 /\ \E k \in DOMAIN queue[acked[n].by] : queue[acked[n].by][k] = n

Lines == LinesType /\ Queues /\ Settled

LEMMA AckedType ==
  ASSUME TypeInv
  PROVE  /\ Len(acked) \in Nat /\ DOMAIN acked = 1..Len(acked)
         /\ \A n \in 1..Len(acked) : acked[n].by \in Chain /\ acked[n].walk \in Nat
<1>1. acked \in Seq([by : Chain, walk : Nat, doc : 0..Len(doc), has : SUBSET Nat])
  BY DEF TypeInv, RecordType
<1>2. Len(acked) \in Nat /\ DOMAIN acked = 1..Len(acked)
  BY <1>1, LenProperties
<1>3. ASSUME NEW n \in 1..Len(acked)
      PROVE  acked[n].by \in Chain /\ acked[n].walk \in Nat
  <2>1. acked[n] \in [by : Chain, walk : Nat, doc : 0..Len(doc), has : SUBSET Nat]
    BY <1>1, <1>3, ElementOfSeq
  <2> QED
    BY <2>1
<1> QED
  BY <1>2, <1>3

\* The queue of a chain is written to the log, and is empty then.
LEMMA FlushedLines ==
  ASSUME TypeInv, Lines, NEW c \in Chain, Flushed(c), acked' = acked,
         \A d \in Chain \ {c} : walk'[d] = walk[d]
  PROVE  Lines'
<1> DEFINE Hits(n) == { k \in DOMAIN queue[c] : queue[c][k] = n }
<1>0. /\ Len(acked) \in Nat /\ logged \in Seq(Nat) /\ DOMAIN logged = 1..Len(acked)
      /\ \A n \in 1..Len(acked) : acked[n].by \in Chain /\ logged[n] \in Nat
  BY AckedType, LenProperties, ElementOfSeq DEF Lines, LinesType
<1>1. ASSUME NEW n \in 1..Len(acked)
      PROVE  /\ \A k \in DOMAIN queue[c] : queue[c][k] = n => logged'[n] = 1
             /\ (\A k \in DOMAIN queue[c] : queue[c][k] # n) => logged'[n] = logged[n]
  <2>1. logged'[n] = logged[n] + Cardinality(Hits(n))
    BY <1>0, <1>1 DEF Flushed
  <2>2. ASSUME NEW k \in DOMAIN queue[c], queue[c][k] = n
        PROVE  logged'[n] = 1
    <3>1. Hits(n) = {k} /\ logged[n] = 0
      BY <2>2 DEF Lines, Queues, Waiting
    <3>2. Cardinality({k}) = 1
      BY FS_Singleton
    <3> HIDE DEF Hits
    <3> QED
      BY <2>1, <3>1, <3>2
  <2>3. ASSUME \A k \in DOMAIN queue[c] : queue[c][k] # n
        PROVE  logged'[n] = logged[n]
    <3>1. Hits(n) = {}
      BY <2>3
    <3>2. Cardinality({}) = 0
      BY FS_EmptySet
    <3> HIDE DEF Hits
    <3> QED
      BY <1>0, <2>1, <3>1, <3>2
  <2> QED
    BY <2>2, <2>3
<1>2. LinesType'
  <2>1. /\ DOMAIN logged' = 1..Len(acked)
        /\ \A n \in 1..Len(acked) : logged'[n] \in Nat
    <3>1. DOMAIN logged' = 1..Len(acked)
      BY <1>0 DEF Flushed
    <3>2. ASSUME NEW n \in 1..Len(acked)
          PROVE  logged'[n] \in Nat
      BY <1>0, <1>1, <3>2
    <3> QED
      BY <3>1, <3>2
  <2>2. logged' \in [1..Len(acked) -> Nat]
    BY <2>1 DEF Flushed
  <2>3. logged' \in Seq(Nat) /\ Len(logged') = Len(acked)
    BY <1>0, <2>2, IsASeq, LenProperties
  <2>4. queue' \in [Chain -> Seq(Nat)]
    BY EmptySeq DEF Flushed, Lines, LinesType
  <2> QED
    BY <2>3, <2>4 DEF LinesType
<1>3. queue'[c] = <<>> /\ \A d \in Chain \ {c} : queue'[d] = queue[d]
  BY DEF Flushed, Lines, LinesType
<1>4. Queues'
  <2> SUFFICES ASSUME NEW d \in Chain, NEW k \in DOMAIN queue'[d]
               PROVE  /\ Walked(d)' /\ Waiting(d, k)'
                      /\ \A j \in DOMAIN queue'[d] : queue'[d][j] = queue'[d][k] => j = k
    BY DEF Queues
  <2>1. d # c
    BY <1>3
  <2>2. queue'[d] = queue[d] /\ walk'[d] = walk[d]
    BY <1>3, <2>1
  <2>3. /\ Walked(d) /\ Waiting(d, k)
        /\ \A j \in DOMAIN queue[d] : queue[d][j] = queue[d][k] => j = k
    BY <2>2 DEF Lines, Queues
  <2>4. \A i \in DOMAIN queue[c] : queue[c][i] # queue[d][k]
    BY <2>1, <2>3 DEF Lines, Queues, Waiting
  <2>5. logged'[queue[d][k]] = 0
    BY <1>1, <2>3, <2>4 DEF Waiting
  <2> QED
    BY <2>2, <2>3, <2>5 DEF Waiting, Walked
<1>5. Settled'
  <2> SUFFICES ASSUME NEW n \in 1..Len(acked)
               PROVE  \/ logged'[n] = 1
                      \/ logged'[n] = 0 /\ \E k \in DOMAIN queue'[acked[n].by] :
                                              queue'[acked[n].by][k] = n
    BY DEF Settled
  <2>1. CASE \E k \in DOMAIN queue[c] : queue[c][k] = n
    BY <1>1, <2>1
  <2>2. CASE \A k \in DOMAIN queue[c] : queue[c][k] # n
    <3>1. logged'[n] = logged[n]
      BY <1>1, <2>2
    <3> QED
      BY <1>0, <1>3, <2>2, <3>1 DEF Lines, Settled
  <2> QED
    BY <2>1, <2>2
<1> QED
  BY <1>2, <1>4, <1>5 DEF Lines

\* A step that confirms and logs nothing, and ends no walk, changes nothing here:
\* it may begin walks of chains whose queues are empty.
LEMMA QuietLines ==
  ASSUME Lines, UNCHANGED <<acked, queue, logged>>,
         \A c \in Chain : Walked(c) => Walked(c)' /\ walk'[c].no = walk[c].no
  PROVE  Lines'
<1>1. LinesType' /\ Settled'
  BY DEF Lines, LinesType, Settled
<1>2. Queues'
  BY DEF Lines, Queues, Waiting
<1> QED
  BY <1>1, <1>2 DEF Lines

LEMMA WriteLines ==
  ASSUME TypeInv, Lines, NEW c \in Chain, Write(c)
  PROVE  Lines'
<1> DEFINE n == Len(acked) + 1
           new == [by |-> c, walk |-> walk[c].no, doc |-> Meant(c), has |-> server']
<1>1. /\ Len(acked) \in Nat /\ logged \in Seq(Nat) /\ DOMAIN logged = 1..Len(acked)
      /\ queue[c] \in Seq(Nat) /\ Len(queue[c]) \in Nat /\ DOMAIN queue[c] = 1..Len(queue[c])
  BY AckedType, LenProperties DEF Lines, LinesType
<1>2. Len(acked') = n /\ acked'[n].by = c /\ acked'[n].walk = walk[c].no
      /\ \A i \in 1..Len(acked) : acked'[i] = acked[i]
  <2>1. acked' = Append(acked, new)
    BY DEF Write
  <2>2. acked' \in Seq([by : Chain, walk : Nat, doc : 0..Len(doc), has : SUBSET Nat])
    BY StepType DEF Next, TypeInv, RecordType, Write
  <2>3. new.by = c /\ new.walk = walk[c].no
    OBVIOUS
  <2> HIDE DEF new
  <2> QED
    BY <1>1, <2>1, <2>2, <2>3, AckedType, AppendProperties DEF TypeInv, RecordType
<1>3. /\ logged' \in Seq(Nat) /\ Len(logged') = n /\ logged'[n] = 0
      /\ \A i \in 1..Len(acked) : logged'[i] = logged[i]
  <2>1. logged' = Append(logged, 0)
    BY DEF Write
  <2> QED
    BY <1>1, <2>1, AppendProperties, LenProperties DEF Lines, LinesType
<1>4. /\ queue'[c] = Append(queue[c], n)
      /\ \A d \in Chain \ {c} : queue'[d] = queue[d]
      /\ queue' \in [Chain -> Seq(Nat)]
  <2>1. queue' = [queue EXCEPT ![c] = Append(@, n)]
    BY <1>2 DEF Write
  <2>2. Append(queue[c], n) \in Seq(Nat)
    BY <1>1, AppendProperties
  <2> QED
    BY <2>1, <2>2 DEF Lines, LinesType
<1>5. /\ DOMAIN queue'[c] = DOMAIN queue[c] \cup {Len(queue[c]) + 1}
      /\ \A k \in DOMAIN queue[c] : queue'[c][k] = queue[c][k]
      /\ queue'[c][Len(queue[c]) + 1] = n
  BY <1>1, <1>4, AppendProperties, LenProperties
<1>6. /\ Walked(c) /\ Walked(c)' /\ walk'[c].no = walk[c].no
      /\ \A d \in Chain \ {c} : walk'[d] = walk[d]
  BY GoesOnFields DEF Write, Reaches, Turn, Walked
<1>7. LinesType'
  BY <1>2, <1>3, <1>4 DEF LinesType
<1>8. Queues'
  <2> HIDE DEF n
  <2>0. n \in Nat /\ n = Len(acked) + 1
    BY <1>1 DEF n
  <2>1. ASSUME NEW d \in Chain, NEW k \in DOMAIN queue[d], queue'[d][k] = queue[d][k],
               Walked(d)', walk'[d].no = walk[d].no
        PROVE  Waiting(d, k)' /\ queue'[d][k] # n
    <3>1. Waiting(d, k)
      BY <2>1 DEF Lines, Queues
    <3> QED
      BY <1>1, <1>2, <1>3, <2>0, <2>1, <3>1 DEF Waiting
  <2>2. ASSUME NEW d \in Chain \ {c}, NEW k \in DOMAIN queue'[d]
        PROVE  /\ Walked(d)' /\ Waiting(d, k)'
               /\ \A j \in DOMAIN queue'[d] : queue'[d][j] = queue'[d][k] => j = k
    <3>1. queue'[d] = queue[d] /\ walk'[d] = walk[d]
      BY <1>4, <1>6
    <3>2. Walked(d) /\ \A j \in DOMAIN queue[d] : queue[d][j] = queue[d][k] => j = k
      BY <3>1 DEF Lines, Queues
    <3> QED
      BY <2>1, <3>1, <3>2 DEF Walked
  <2>3. ASSUME NEW k \in DOMAIN queue'[c]
        PROVE  /\ Waiting(c, k)'
               /\ \A j \in DOMAIN queue'[c] : queue'[c][j] = queue'[c][k] => j = k
    <3>1. \A j \in DOMAIN queue[c] : queue'[c][j] # n
      BY <1>1, <1>5, <1>6, <2>1
    <3>2. CASE k = Len(queue[c]) + 1
      BY <1>1, <1>2, <1>3, <1>5, <1>6, <2>0, <3>1, <3>2 DEF Waiting
    <3>3. CASE k \in DOMAIN queue[c]
      <4>1. Waiting(c, k)'
        BY <1>1, <1>5, <1>6, <2>1, <3>3
      <4>2. \A j \in DOMAIN queue[c] : queue[c][j] = queue[c][k] => j = k
        BY <3>3 DEF Lines, Queues
      <4>3. queue'[c][k] = queue[c][k] /\ queue'[c][k] # n
        BY <1>5, <3>1, <3>3
      <4>4. \A j \in DOMAIN queue'[c] : queue'[c][j] = queue'[c][k] => j = k
        BY <1>5, <4>2, <4>3
      <4> QED
        BY <4>1, <4>4
    <3> QED
      BY <1>5, <3>2, <3>3
  <2> QED
    BY <1>6, <2>2, <2>3 DEF Queues
<1>9. Settled'
  <2> SUFFICES ASSUME NEW i \in 1..n
               PROVE  \/ logged'[i] = 1
                      \/ logged'[i] = 0 /\ \E k \in DOMAIN queue'[acked'[i].by] :
                                              queue'[acked'[i].by][k] = i
    BY <1>2 DEF Settled
  <2>1. CASE i = n
    <3>1. Len(queue[c]) + 1 \in DOMAIN queue'[c]
      BY <1>1, <1>5
    <3> QED
      BY <1>2, <1>3, <1>5, <2>1, <3>1
  <2>2. CASE i \in 1..Len(acked)
    <3>1. acked'[i] = acked[i] /\ logged'[i] = logged[i] /\ acked[i].by \in Chain
      BY <1>2, <1>3, <2>2, AckedType
    <3>2. CASE logged[i] = 1
      BY <3>1, <3>2
    <3>3. CASE logged[i] = 0 /\ \E k \in DOMAIN queue[acked[i].by] : queue[acked[i].by][k] = i
      <4>1. PICK k \in DOMAIN queue[acked[i].by] : queue[acked[i].by][k] = i
        BY <3>3
      <4>2. k \in DOMAIN queue'[acked[i].by] /\ queue'[acked[i].by][k] = i
        <5>1. CASE acked[i].by = c
          BY <1>5, <4>1, <5>1
        <5>2. CASE acked[i].by # c
          BY <1>4, <3>1, <4>1, <5>2
        <5> QED
          BY <5>1, <5>2
      <4> QED
        BY <3>1, <3>3, <4>2
    <3> QED
      BY <2>2, <3>2, <3>3 DEF Lines, Settled
  <2>3. i = n \/ i \in 1..Len(acked)
    BY <1>1
  <2> QED
    BY <2>1, <2>2, <2>3
<1> QED
  BY <1>7, <1>8, <1>9 DEF Lines

LEMMA LinesStep ==
  ASSUME TypeInv, Lines, [Next]_vars
  PROVE  Lines'
<1>1. ASSUME NEW c \in Chain, Refused(c) \/ BuilderRaises(c) \/ CallbackRaises(c) \/ WalkEnds(c)
      PROVE  Lines'
  <2>1. Flushed(c) /\ acked' = acked /\ \E state \in State : Ended(c, state)
    BY <1>1 DEF Refused, BuilderRaises, CallbackRaises, WalkEnds, Stopped, State
  <2> QED
    BY <2>1, EndedFields, FlushedLines
<1>2. ASSUME NEW c \in Chain, ExecuteFails(c)
      PROVE  Lines'
  BY <1>2, FlushedLines DEF ExecuteFails
<1>3. ASSUME NEW c \in Chain, Read(c) \/ CallbackReturns(c)
      PROVE  Lines'
  <2>1. PICK value : GoesOn(c, value)
    BY <1>3 DEF Read, CallbackReturns
  <2>2. UNCHANGED <<acked, queue, logged>>
    BY <1>3 DEF Read, CallbackReturns, record
  <2> QED
    BY <2>1, <2>2, GoesOnFields, QuietLines DEF Walked
<1>4. ASSUME NEW c \in Chain, CallbackStarts(c)
      PROVE  Lines'
  <2>1. UNCHANGED <<acked, queue, logged>>
    BY <1>4 DEF CallbackStarts, record
  <2>2. \A d \in Chain : Walked(d) => Walked(d)' /\ walk'[d].no = walk[d].no
    BY <1>4 DEF CallbackStarts, Walked, TypeInv, ChainType, Walk
  <2> QED
    BY <2>1, <2>2, QuietLines
<1>5. ASSUME NEW cs, Begin(cs), record' = record
      PROVE  Lines'
  <2>1. \A d \in Chain : Walked(d) => Walked(d)' /\ walk'[d].no = walk[d].no
    BY <1>5, BeginFields DEF Walked
  <2> QED
    BY <1>5, <2>1, QuietLines DEF record
<1>6. ASSUME UNCHANGED <<walk, record>>
      PROVE  Lines'
  BY <1>6, QuietLines DEF Walked, record
<1>7. \/ \E c \in Chain : \/ Refused(c) \/ BuilderRaises(c) \/ CallbackRaises(c)
                          \/ WalkEnds(c) \/ ExecuteFails(c) \/ Read(c) \/ Write(c)
                          \/ CallbackStarts(c) \/ CallbackReturns(c)
      \/ record' = record /\ \E cs \in {registered} \cup { {c} : c \in Chain } : Begin(cs)
      \/ UNCHANGED <<walk, record>>
  BY DEF Next, Build, Extend, Execute, Submit, SubmitBreaks, BatchReturns, Change,
         ScriptEnds, record, vars
<1> QED
  BY <1>1, <1>2, <1>3, <1>4, <1>5, <1>6, <1>7, WriteLines

LEMMA LinesInvariant == Spec => [](TypeInv /\ Lines)
<1>1. Init => TypeInv /\ Lines
  <2>1. Init => LinesType /\ Queues /\ Settled
    BY EmptySeq DEF Init, LinesType, Queues, Settled
  <2> QED
    BY <2>1, InitTypeInv DEF Lines
<1>2. TypeInv /\ Lines /\ [Next]_vars => (TypeInv /\ Lines)'
  BY StepType, LinesStep
<1> QED
  BY <1>1, <1>2, PTL DEF Spec

\* However often its chain is walked, a confirmed write has one [RESULT] line from
\* the end of the walk that made it on, and never two.
THEOREM OneLinePerWrite == Spec => []ResultLinesOnce
<1>1. ASSUME TypeInv, Lines, NEW n \in DOMAIN acked
      PROVE  logged[n] = IF /\ Walked(acked[n].by) /\ walk[acked[n].by].no = acked[n].walk
                            /\ logged[n] = 0
                         THEN 0 ELSE 1
  <2>1. n \in 1..Len(acked) /\ acked[n].by \in Chain
    BY <1>1, AckedType
  <2>2. CASE logged[n] = 1
    BY <2>2
  <2>3. CASE logged[n] = 0 /\ \E k \in DOMAIN queue[acked[n].by] : queue[acked[n].by][k] = n
    BY <1>1, <2>1, <2>3 DEF Lines, Queues, Waiting
  <2> QED
    BY <1>1, <2>1, <2>2, <2>3 DEF Lines, Settled
<1>2. TypeInv /\ Lines => ResultLinesOnce
  BY <1>1 DEF ResultLinesOnce
<1> QED
  BY <1>2, LinesInvariant, PTL

(***************************************************************************)
(* How far a walk is.  The writes it has had confirmed are as many as the  *)
(* write nodes it has passed; what is appended to the chain meanwhile is   *)
(* still before it, and no confirmed write has the number of a later walk. *)
(***************************************************************************)
Confirmed(c) == { n \in 1..Len(acked) : acked[n].by = c /\ acked[n].walk = walk[c].no }
Due(c, m)    == { k \in 1..m : nodes[c][k].kind \in Writes }

Even(c, m) == m <= Len(nodes[c]) /\ Cardinality(Confirmed(c)) = Cardinality(Due(c, m))

\* The walk has passed the first m nodes.
Passed(c, m) ==
  \/ Walked(c) /\ walk[c].at = m + 1
  \/ walk[c].state = "done" /\ walk[c].length = m

Progress(c) ==
  /\ walk[c].no <= walks
  /\ InCall(c) => walk[c].at <= Len(nodes[c]) /\ nodes[c][walk[c].at].kind = "callback"
  /\ \A m \in Nat : Passed(c, m) => Even(c, m)

Numbered == \A n \in 1..Len(acked) : acked[n].walk <= walks

Advancing == Numbered /\ \A c \in Chain : Progress(c)

LEMMA ChainFields ==
  ASSUME TypeInv, NEW c \in Chain
  PROVE  /\ walk[c].at \in Nat \ {0} /\ walk[c].no \in Nat /\ walk[c].length \in Nat
         /\ walk[c].state \in State /\ walks \in Nat
         /\ Len(nodes[c]) \in Nat /\ DOMAIN nodes[c] = 1..Len(nodes[c])
BY LenProperties DEF TypeInv, ChainType, Walk

LEMMA AtIsNext ==
  ASSUME TypeInv, NEW c \in Chain
  PROVE  \E p \in Nat : walk[c].at = p + 1
<1>1. \A i \in Nat \ {0} : i - 1 \in Nat /\ i = (i - 1) + 1
  OBVIOUS
<1>2. walk[c].at \in Nat \ {0}
  BY ChainFields
<1> QED
  BY <1>1, <1>2, Zenon

LEMMA CountsAreFinite ==
  ASSUME TypeInv, NEW c \in Chain, NEW m \in Nat
  PROVE  /\ IsFiniteSet(Confirmed(c)) /\ Cardinality(Confirmed(c)) \in Nat
         /\ IsFiniteSet(Due(c, m)) /\ Cardinality(Due(c, m)) \in Nat
<1>1. Len(acked) \in Nat
  BY AckedType
<1>2. IsFiniteSet(1..Len(acked)) /\ IsFiniteSet(1..m)
  BY <1>1, FS_Interval
<1>3. Confirmed(c) \subseteq 1..Len(acked) /\ Due(c, m) \subseteq 1..m
  BY DEF Confirmed, Due
<1>4. IsFiniteSet(Confirmed(c)) /\ IsFiniteSet(Due(c, m))
  BY <1>2, <1>3, FS_Subset
<1> QED
  BY <1>4, FS_CardinalityType

LEMMA DueNext ==
  ASSUME TypeInv, NEW c \in Chain, NEW m \in Nat
  PROVE  /\ nodes[c][m + 1].kind \in Writes =>
              Cardinality(Due(c, m + 1)) = Cardinality(Due(c, m)) + 1
         /\ nodes[c][m + 1].kind \notin Writes => Due(c, m + 1) = Due(c, m)
<1>1. CASE nodes[c][m + 1].kind \in Writes
  <2>1. Due(c, m + 1) = Due(c, m) \cup {m + 1} /\ m + 1 \notin Due(c, m)
    BY <1>1 DEF Due
  <2> QED
    BY <1>1, <2>1, CountsAreFinite, FS_AddElement
<1>2. CASE nodes[c][m + 1].kind \notin Writes
  BY <1>2 DEF Due
<1> QED
  BY <1>1, <1>2

\* Nodes that are appended to a chain are not yet due.
LEMMA DueSame ==
  ASSUME NEW c \in Chain, NEW m \in Nat, \A k \in 1..m : nodes'[c][k] = nodes[c][k]
  PROVE  Due(c, m)' = Due(c, m)
BY DEF Due

LEMMA ProgressSame ==
  ASSUME TypeInv, NEW c \in Chain, Progress(c),
         walk'[c] = walk[c], walks' \in Nat, walks <= walks', Confirmed(c)' = Confirmed(c),
         Len(nodes'[c]) \in Nat, Len(nodes[c]) <= Len(nodes'[c]),
         \A k \in 1..Len(nodes[c]) : nodes'[c][k] = nodes[c][k]
  PROVE  Progress(c)'
<1>0. /\ walk[c].at \in Nat \ {0} /\ walk[c].no \in Nat /\ walk[c].length \in Nat
      /\ walks \in Nat /\ walks' \in Nat /\ Len(nodes[c]) \in Nat /\ Len(nodes'[c]) \in Nat
  BY ChainFields
<1>1. ASSUME NEW m \in Nat, Even(c, m)
      PROVE  Even(c, m)'
  <2>1. \A k \in 1..m : nodes'[c][k] = nodes[c][k]
    BY <1>0, <1>1 DEF Even
  <2>2. Due(c, m)' = Due(c, m)
    BY <2>1, DueSame
  <2> QED
    BY <1>0, <1>1, <2>2 DEF Even
<1>2. Walked(c)' = Walked(c) /\ InCall(c)' = InCall(c)
  BY DEF Walked, InCall
<1>3. ASSUME NEW m \in Nat, Passed(c, m)'
      PROVE  Even(c, m)'
  <2>1. Passed(c, m)
    BY <1>2, <1>3 DEF Passed
  <2> QED
    BY <1>1, <2>1 DEF Progress
<1>4. InCall(c)' => /\ walk'[c].at <= Len(nodes'[c])
                    /\ nodes'[c][walk'[c].at].kind = "callback"
  BY <1>0, <1>2 DEF Progress
<1>5. walk'[c].no <= walks'
  BY <1>0 DEF Progress
<1> QED
  BY <1>3, <1>4, <1>5, Zenon DEF Progress

\* Nodes are only appended.
LEMMA NodesGrow ==
  ASSUME TypeInv, [Next]_vars, NEW c \in Chain
  PROVE  /\ Len(nodes'[c]) \in Nat /\ Len(nodes[c]) <= Len(nodes'[c])
         /\ \A k \in 1..Len(nodes[c]) : nodes'[c][k] = nodes[c][k]
<1>1. Len(nodes[c]) \in Nat
  BY ChainFields
<1>2. ASSUME nodes'[c] = nodes[c]
      PROVE  /\ Len(nodes'[c]) \in Nat /\ Len(nodes[c]) <= Len(nodes'[c])
             /\ \A k \in 1..Len(nodes[c]) : nodes'[c][k] = nodes[c][k]
  BY <1>1, <1>2
<1>3. ASSUME NEW d \in Chain, NEW n \in Continuing, Build(d, n)
      PROVE  /\ Len(nodes'[c]) \in Nat /\ Len(nodes[c]) <= Len(nodes'[c])
             /\ \A k \in 1..Len(nodes[c]) : nodes'[c][k] = nodes[c][k]
  <2>1. CASE d = c
    <3>1. nodes[c] = <<>> /\ nodes'[c] = <<n>>
      BY <1>3, <2>1 DEF Build, TypeInv, ChainType
    <3> QED
      BY <3>1
  <2>2. CASE d # c
    BY <1>2, <1>3, <2>2 DEF Build, TypeInv, ChainType
  <2> QED
    BY <2>1, <2>2
<1>4. ASSUME NEW d \in Chain, NEW n \in Continuing, Extend(d, n)
      PROVE  /\ Len(nodes'[c]) \in Nat /\ Len(nodes[c]) <= Len(nodes'[c])
             /\ \A k \in 1..Len(nodes[c]) : nodes'[c][k] = nodes[c][k]
  <2>1. CASE d = c
    <3>1. nodes'[c] = Append(nodes[c], n)
      BY <1>4, <2>1 DEF Extend, TypeInv, ChainType
    <3>2. nodes[c] \in Seq([kind : NodeKind, doc : 0..Len(doc)])
      BY DEF TypeInv, ChainType
    <3>3. n \in [kind : NodeKind, doc : 0..Len(doc)]
      BY StarterIsNode
    <3> QED
      BY <1>1, <3>1, <3>2, <3>3, AppendProperties
  <2>2. CASE d # c
    BY <1>2, <1>4, <2>2 DEF Extend, TypeInv, ChainType
  <2> QED
    BY <2>1, <2>2
<1>5. \/ \E d \in Chain : \E n \in Continuing : Build(d, n) \/ Extend(d, n)
      \/ nodes' = nodes
  BY DEF Next, Execute, ExecuteFails, WalkEnds, Read, Refused, Write, BuilderRaises,
         CallbackStarts, CallbackReturns, CallbackRaises, Change, Submit, SubmitBreaks,
         BatchReturns, ScriptEnds, script, vars
<1> QED
  BY <1>2, <1>3, <1>4, <1>5

\* What a walk that begins, ends, goes on without a write or with one has passed.
LEMMA ProgressBegun ==
  ASSUME TypeInv, Advancing, NEW cs, Begin(cs), UNCHANGED <<nodes, acked>>, NEW c \in cs,
         c \in Chain
  PROVE  Progress(c)'
<1>1. /\ walks' = walks + 1 /\ walks \in Nat
      /\ walk'[c].no = walks' /\ walk'[c].at = 1 /\ walk'[c].state = "ready"
  BY BeginFields, ChainFields
<1>2. ASSUME NEW m \in Nat, Passed(c, m)'
      PROVE  Even(c, m)'
  <2>1. m = 0 /\ Len(nodes'[c]) \in Nat
    BY <1>1, <1>2, ChainFields DEF Passed
  <2>2. Due(c, m)' = {}
    BY <2>1 DEF Due
  <2>3. Confirmed(c)' = {}
    BY <1>1, AckedType DEF Advancing, Numbered, Confirmed
  <2>4. m <= Len(nodes'[c])
    BY <2>1
  <2> QED
    BY <2>2, <2>3, <2>4 DEF Even
<1>3. ~InCall(c)'
  BY <1>1 DEF InCall
<1> QED
  BY <1>1, <1>2, <1>3 DEF Progress

LEMMA ProgressEnded ==
  ASSUME TypeInv, Advancing, NEW c \in Chain, WalkEnds(c)
  PROVE  Progress(c)'
<1>1. /\ walk'[c].state = "done" /\ walk'[c].length = Len(nodes[c])
      /\ walk'[c].no = walk[c].no
  BY EndedFields DEF WalkEnds, State
<1>2. UNCHANGED <<nodes, acked, walks>>
  BY DEF WalkEnds, script
<1>3. ASSUME NEW m \in Nat, Passed(c, m)'
      PROVE  Even(c, m)'
  <2>1. m = Len(nodes[c]) /\ Walked(c) /\ walk[c].at > Len(nodes[c])
    BY <1>1, <1>3 DEF Passed, Walked, WalkEnds, Turn, Over
  <2>2. PICK p \in Nat : walk[c].at = p + 1
    BY AtIsNext
  <2>3. Even(c, p)
    BY <2>1, <2>2 DEF Advancing, Progress, Passed
  <2>4. p = m
    BY <2>1, <2>2, <2>3 DEF Even
  <2>5. Due(c, m)' = Due(c, m) /\ Confirmed(c)' = Confirmed(c)
    BY <1>1, <1>2 DEF Due, Confirmed
  <2> QED
    BY <1>2, <2>3, <2>4, <2>5 DEF Even
<1>4. ~InCall(c)'
  BY <1>1 DEF InCall
<1> QED
  BY <1>1, <1>2, <1>3, <1>4 DEF Advancing, Progress

LEMMA ProgressOn ==
  ASSUME TypeInv, Advancing, NEW c \in Chain, NEW value, GoesOn(c, value),
         UNCHANGED <<nodes, acked, walks>>, Walked(c), walk[c].at <= Len(nodes[c]),
         nodes[c][walk[c].at].kind \notin Writes
  PROVE  Progress(c)'
<1>1. /\ walk'[c].at = walk[c].at + 1 /\ walk'[c].state = "ready"
      /\ walk'[c].no = walk[c].no
  BY GoesOnFields
<1>2. ASSUME NEW m \in Nat, Passed(c, m)'
      PROVE  Even(c, m)'
  <2>1. m = walk[c].at /\ Len(nodes[c]) \in Nat
    BY <1>1, <1>2, ChainFields DEF Passed
  <2>2. PICK p \in Nat : walk[c].at = p + 1
    BY AtIsNext
  <2>3. Even(c, p)
    BY <2>2 DEF Advancing, Progress, Passed
  <2>4. Due(c, m) = Due(c, p)
    BY <2>1, <2>2, DueNext
  <2>5. Due(c, m)' = Due(c, m) /\ Confirmed(c)' = Confirmed(c)
    BY <1>1 DEF Due, Confirmed
  <2> QED
    BY <2>1, <2>3, <2>4, <2>5 DEF Even
<1>3. ~InCall(c)'
  BY <1>1 DEF InCall
<1> QED
  BY <1>1, <1>2, <1>3 DEF Advancing, Progress

LEMMA ProgressWritten ==
  ASSUME TypeInv, Advancing, NEW c \in Chain, Write(c)
  PROVE  /\ Progress(c)' /\ Numbered'
         /\ \A d \in Chain \ {c} : Confirmed(d)' = Confirmed(d)
<1> DEFINE n == Len(acked) + 1
           new == [by |-> c, walk |-> walk[c].no, doc |-> Meant(c), has |-> server']
<1>1. /\ walk'[c].at = walk[c].at + 1 /\ walk'[c].state = "ready"
      /\ walk'[c].no = walk[c].no
      /\ \A d \in Chain \ {c} : walk'[d] = walk[d]
  BY GoesOnFields DEF Write
<1>2. /\ Len(acked) \in Nat /\ Len(acked') = n /\ acked'[n].by = c
      /\ acked'[n].walk = walk[c].no
      /\ \A i \in 1..Len(acked) : acked'[i] = acked[i]
  <2>1. acked' = Append(acked, new)
    BY DEF Write
  <2>2. new \in [by : Chain, walk : Nat, doc : 0..Len(doc), has : SUBSET Nat]
    <3>1. acked' \in Seq([by : Chain, walk : Nat, doc : 0..Len(doc), has : SUBSET Nat])
      BY StepType DEF Next, TypeInv, RecordType, Write
    <3>2. Len(acked') = n /\ acked'[n] = new /\ n \in Nat
      <4> HIDE DEF new
      <4> QED
        BY <2>1, AckedType, AppendProperties DEF TypeInv, RecordType
    <3>3. n \in 1..Len(acked')
      BY <3>2
    <3> HIDE DEF new, n
    <3> QED
      BY <3>1, <3>2, <3>3, ElementOfSeq
  <2>3. new.by = c /\ new.walk = walk[c].no
    OBVIOUS
  <2> HIDE DEF new
  <2> QED
    BY <2>1, <2>2, <2>3, AckedType, AppendProperties DEF TypeInv, RecordType
<1>3. UNCHANGED <<nodes, walks>>
  BY DEF Write, script
<1> HIDE DEF n
<1>4. n \in Nat /\ n = Len(acked) + 1
  BY <1>2 DEF n
<1>5. \A d \in Chain \ {c} : Confirmed(d)' = Confirmed(d)
  BY <1>1, <1>2, <1>4 DEF Confirmed
<1>6. Confirmed(c)' = Confirmed(c) \cup {n} /\ n \notin Confirmed(c)
  BY <1>1, <1>2, <1>4 DEF Confirmed
<1>7. Numbered'
  BY <1>2, <1>3, <1>4 DEF Advancing, Numbered, Progress
<1>8. ASSUME NEW m \in Nat, Passed(c, m)'
      PROVE  Even(c, m)'
  <2>1. m = walk[c].at /\ Len(nodes[c]) \in Nat
    BY <1>1, <1>8, ChainFields DEF Passed
  <2>2. PICK p \in Nat : walk[c].at = p + 1
    BY AtIsNext
  <2>3. Even(c, p)
    BY <2>2 DEF Advancing, Progress, Passed, Write, Reaches, Turn, Walked
  <2>4. walk[c].at <= Len(nodes[c]) /\ nodes[c][p + 1].kind \in Writes
    BY <2>1, <2>2 DEF Write, Reaches, Over, Node
  <2>5. Cardinality(Due(c, m)) = Cardinality(Due(c, p)) + 1
    BY <2>1, <2>2, <2>4, DueNext
  <2>6. Cardinality(Confirmed(c) \cup {n}) = Cardinality(Confirmed(c)) + 1
    BY <1>6, CountsAreFinite, FS_AddElement
  <2>7. Due(c, m)' = Due(c, m)
    BY <1>3 DEF Due
  <2> QED
    BY <1>3, <1>6, <2>1, <2>3, <2>4, <2>5, <2>6, <2>7 DEF Even
<1>9. ~InCall(c)'
  BY <1>1 DEF InCall
<1> QED
  BY <1>1, <1>3, <1>5, <1>7, <1>8, <1>9 DEF Advancing, Progress

LEMMA AdvancingStep ==
  ASSUME TypeInv, Advancing, [Next]_vars
  PROVE  Advancing'
<1>1. ASSUME NEW c \in Chain, walk'[c] = walk[c], Confirmed(c)' = Confirmed(c),
             walks' = walks \/ walks' = walks + 1
      PROVE  Progress(c)'
  <2>1. walks' \in Nat /\ walks <= walks'
    BY <1>1, ChainFields
  <2> QED
    BY <1>1, <2>1, NodesGrow, ProgressSame DEF Advancing
<1>2. ASSUME acked' = acked, walks' = walks \/ walks' = walks + 1
      PROVE  /\ Numbered'
             /\ \A c \in Chain : walk'[c].no = walk[c].no => Confirmed(c)' = Confirmed(c)
  <2>1. walks' \in Nat /\ walks <= walks' /\ walks \in Nat
    <3>1. CASE Chain = {}
      BY <1>2, <3>1 DEF TypeInv, ChainType
    <3>2. CASE Chain # {}
      BY <1>2, <3>2, ChainFields
    <3> QED
      BY <3>1, <3>2
  <2>2. Numbered'
    BY <1>2, <2>1, AckedType DEF Advancing, Numbered
  <2>3. ASSUME NEW c \in Chain, walk'[c].no = walk[c].no
        PROVE  Confirmed(c)' = Confirmed(c)
    BY <1>2, <2>3 DEF Confirmed
  <2> QED
    BY <2>2, <2>3
<1>3. ASSUME NEW c \in Chain, \A d \in Chain \ {c} : walk'[d] = walk[d],
             walk'[c].no = walk[c].no, UNCHANGED <<acked, walks>>, Progress(c)'
      PROVE  Advancing'
  BY <1>1, <1>2, <1>3 DEF Advancing
<1>4. ASSUME acked' = acked, walk' = walk, walks' = walks \/ walks' = walks + 1
      PROVE  Advancing'
  BY <1>1, <1>2, <1>4 DEF Advancing
<1>5. ASSUME NEW cs, Begin(cs), UNCHANGED <<nodes, acked>>
      PROVE  Advancing'
  <2>1. walks' = walks + 1 /\ \A c \in Chain : c \notin cs => walk'[c] = walk[c]
    BY <1>5, BeginFields
  <2>2. Numbered'
    BY <1>2, <1>5, <2>1
  <2>3. ASSUME NEW c \in Chain
        PROVE  Progress(c)'
    <3>1. CASE c \in cs
      BY <1>5, <3>1, ProgressBegun
    <3>2. CASE c \notin cs
      BY <1>1, <1>2, <1>5, <2>1, <3>2
    <3> QED
      BY <3>1, <3>2
  <2> QED
    BY <2>2, <2>3 DEF Advancing
<1>6. ASSUME NEW c \in Chain, Stopped(c), UNCHANGED <<asset, script>>
      PROVE  Advancing'
  <2>1. /\ walk'[c].state = "stopped" /\ walk'[c].no = walk[c].no
        /\ \A d \in Chain \ {c} : walk'[d] = walk[d]
    BY <1>6, EndedFields DEF Stopped, State
  <2>2. UNCHANGED <<acked, walks>>
    BY <1>6 DEF Stopped
  <2>3. Progress(c)'
    BY <2>1, <2>2 DEF Advancing, Progress, Passed, Walked, InCall
  <2> QED
    BY <1>3, <2>1, <2>2, <2>3
<1>7. ASSUME NEW c \in Chain, WalkEnds(c)
      PROVE  Advancing'
  <2>1. walk'[c].no = walk[c].no /\ \A d \in Chain \ {c} : walk'[d] = walk[d]
    BY <1>7, EndedFields DEF WalkEnds, State
  <2>2. UNCHANGED <<acked, walks>>
    BY <1>7 DEF WalkEnds
  <2> QED
    BY <1>3, <1>7, <2>1, <2>2, ProgressEnded
<1>8. ASSUME NEW c \in Chain, Read(c) \/ CallbackReturns(c)
      PROVE  Advancing'
  <2>1. PICK value : GoesOn(c, value)
    BY <1>8 DEF Read, CallbackReturns
  <2>2. UNCHANGED <<nodes, acked, walks>>
    BY <1>8 DEF Read, CallbackReturns, script, record
  <2>3. /\ Walked(c) /\ walk[c].at <= Len(nodes[c])
        /\ nodes[c][walk[c].at].kind \notin Writes
    <3>1. CASE Read(c)
      BY <3>1, ChainFields DEF Read, Reaches, Turn, Over, Node, Walked, Writes
    <3>2. CASE CallbackReturns(c)
      BY <3>2 DEF CallbackReturns, Returning, InCall, Walked, Writes, Advancing, Progress
    <3> QED
      BY <1>8, <3>1, <3>2
  <2>4. Progress(c)'
    BY <2>1, <2>2, <2>3, ProgressOn
  <2> QED
    BY <1>3, <2>1, <2>2, <2>4, GoesOnFields
<1>9. ASSUME NEW c \in Chain, Write(c)
      PROVE  Advancing'
  <2>1. \A d \in Chain \ {c} : walk'[d] = walk[d]
    BY <1>9, GoesOnFields DEF Write
  <2>2. walks' = walks
    BY <1>9 DEF Write
  <2> QED
    BY <1>1, <1>9, <2>1, <2>2, ProgressWritten DEF Advancing
<1>10. ASSUME NEW c \in Chain, CallbackStarts(c)
       PROVE  Advancing'
  <2>1. UNCHANGED <<nodes, acked, walks>>
    BY <1>10 DEF CallbackStarts, script, record
  <2>2. /\ \A d \in Chain \ {c} : walk'[d] = walk[d]
        /\ walk'[c].state \in {"calling", "awaited"}
        /\ walk'[c].at = walk[c].at /\ walk'[c].no = walk[c].no
    BY <1>10 DEF CallbackStarts, TypeInv, ChainType, Walk
  <2>3. Walked(c) /\ walk[c].at <= Len(nodes[c]) /\ nodes[c][walk[c].at].kind = "callback"
    BY <1>10, ChainFields DEF CallbackStarts, Reaches, Turn, Over, Node, Walked
  <2>4. ASSUME NEW m \in Nat, Passed(c, m)'
        PROVE  Even(c, m)'
    <3>1. Passed(c, m)
      BY <2>2, <2>3, <2>4 DEF Passed
    <3>2. Due(c, m)' = Due(c, m) /\ Confirmed(c)' = Confirmed(c)
      BY <2>1, <2>2 DEF Due, Confirmed
    <3> QED
      BY <2>1, <3>1, <3>2 DEF Even, Advancing, Progress
  <2>5. Progress(c)'
    BY <2>1, <2>2, <2>3, <2>4 DEF Advancing, Progress
  <2> QED
    BY <1>3, <2>1, <2>2, <2>5
<1>11. \/ \E c \in Chain : \/ Refused(c) \/ BuilderRaises(c) \/ CallbackRaises(c)
                           \/ WalkEnds(c) \/ Read(c) \/ CallbackReturns(c) \/ Write(c)
                           \/ CallbackStarts(c)
       \/ /\ UNCHANGED <<script, record>>
          /\ \E cs \in {registered} \cup { {c} : c \in Chain } : Begin(cs)
       \/ acked' = acked /\ walk' = walk /\ (walks' = walks \/ walks' = walks + 1)
  BY DEF Next, Build, Extend, Execute, ExecuteFails, Submit, SubmitBreaks, BatchReturns,
         Change, ScriptEnds, script, record, vars
<1> QED
  BY <1>4, <1>5, <1>6, <1>7, <1>8, <1>9, <1>10, <1>11
     DEF Refused, BuilderRaises, CallbackRaises, script, record

LEMMA AdvancingInvariant == Spec => [](TypeInv /\ Advancing)
<1>1. ASSUME Init
      PROVE  Advancing
  <2>1. acked = <<>> /\ walks = 0 /\ \A c \in Chain : walk[c] = Idle
    BY <1>1 DEF Init
  <2>2. Numbered
    BY <2>1 DEF Numbered
  <2>3. ASSUME NEW c \in Chain
        PROVE  Progress(c)
    BY <2>1 DEF Progress, Passed, Walked, InCall, Idle
  <2> QED
    BY <2>2, <2>3 DEF Advancing
<1>2. Init => TypeInv /\ Advancing
  BY <1>1, InitTypeInv
<1>3. TypeInv /\ Advancing /\ [Next]_vars => (TypeInv /\ Advancing)'
  BY StepType, AdvancingStep
<1> QED
  BY <1>2, <1>3, PTL DEF Spec

\* A walk that ends without a failure has had every write of the chain confirmed,
\* the nodes appended while it was under way included.
THEOREM DoneIsDone == Spec => []DoneMeansAll
<1>1. ASSUME TypeInv, Advancing, NEW c \in Chain, walk[c].state = "done"
      PROVE  Cardinality({ n \in DOMAIN acked : acked[n].by = c /\ acked[n].walk = walk[c].no })
               = Cardinality({ k \in 1..walk[c].length : nodes[c][k].kind \in Writes })
  <2>1. walk[c].length \in Nat /\ DOMAIN acked = 1..Len(acked)
    BY <1>1, ChainFields, AckedType
  <2>2. PICK m \in Nat : m = walk[c].length
    BY <2>1
  <2>3. Even(c, m)
    BY <1>1, <2>2 DEF Advancing, Progress, Passed
  <2> QED
    BY <2>1, <2>2, <2>3 DEF Even, Confirmed, Due
<1>2. TypeInv /\ Advancing => DoneMeansAll
  BY <1>1 DEF DoneMeansAll
<1> QED
  BY <1>2, AdvancingInvariant, PTL

(***************************************************************************)
(* The bounds.  Guards keep the counters within them; what is made of the  *)
(* counters, the changes an object or the asset carries and the place of a *)
(* walk in its chain, stays within them for that.                          *)
(***************************************************************************)
Contents ==
  /\ server \subseteq 1..Len(made)
  /\ \A d \in 1..Len(doc) : doc[d].has \subseteq 1..Len(made)
  /\ \A n \in 1..Len(acked) : acked[n].has \subseteq 1..Len(made) /\ acked[n].doc # Nothing

Counts ==
  /\ IsFiniteSet(Built) /\ Cardinality(Built) <= MaxNodes
  /\ walks <= MaxWalks /\ Len(doc) <= MaxReads /\ Len(made) <= MaxChanges

Places ==
  /\ \A c \in Chain : /\ walk[c].at <= Len(nodes[c]) + 1
                      /\ walk[c].length <= Len(nodes[c])
                      /\ failure[c] <= walks
  /\ \A n \in 1..Len(acked) : acked[n].walk # 0

Calls ==
  /\ registered \subseteq Chain /\ members \subseteq Chain /\ failed \subseteq Chain
  /\ stack \in Seq(Chain \cup {Script, Batch}) /\ stack # <<>> /\ stack[1] = Script
  /\ told \in [Chain -> {"nothing", "success", "failure"}]

Bounds == Contents /\ Counts /\ Places /\ Calls

LEMMA CallsStep ==
  ASSUME TypeInv, Calls, [Next]_vars
  PROVE  Calls'
<1> DEFINE S == Chain \cup {Script, Batch}
<1>0. stack \in Seq(S) /\ Len(stack) \in Nat \ {0} /\ stack[1] = Script
  BY LenProperties, EmptySeq DEF Calls
<1>1. ASSUME NEW x \in S
      PROVE  LET s == Append(stack, x) IN s \in Seq(S) /\ s # <<>> /\ s[1] = Script
  BY <1>0, AppendProperties
<1>2. ASSUME Top # Script
      PROVE  Popped \in Seq(S) /\ Popped # <<>> /\ Popped[1] = Script
  <2>1. Len(stack) # 1
    BY <1>2 DEF Top, Calls
  <2>2. PICK n \in Nat : n = Len(stack)
    BY <1>0
  <2>3. n - 1 \in 1..n /\ 1 \in 1..(n + 1) /\ n - 1 \in (1 - 1)..n
    BY <1>0, <2>1, <2>2
  <2>4. Popped = SubSeq(stack, 1, n - 1)
    BY <2>2 DEF Popped
  <2> HIDE DEF S
  <2>5. /\ Popped \in Seq(S)
        /\ Len(Popped) = IF 1 <= n - 1 THEN (n - 1) - 1 + 1 ELSE 0
        /\ \A i \in 1..((n - 1) - 1 + 1) : Popped[i] = stack[1 + i - 1]
    BY <1>0, <2>2, <2>3, <2>4, SubSeqProperties
  <2> QED
    BY <1>0, <2>3, <2>5, EmptySeq
<1>3. ASSUME NEW c \in Chain, NEW state, Ended(c, state)
      PROVE  stack' \in Seq(S) /\ stack' # <<>> /\ stack'[1] = Script
  <2>1. CASE Top = c
    BY <1>2, <1>3, <2>1, RerunsAssumption DEF Ended
  <2>2. CASE Top # c
    BY <1>3, <2>2 DEF Ended, Calls
  <2> QED
    BY <2>1, <2>2
<1>4. ASSUME NEW c \in Chain, Stopped(c), UNCHANGED script
      PROVE  Calls'
  <2>1. stack' \in Seq(S) /\ stack' # <<>> /\ stack'[1] = Script
    BY <1>3, <1>4 DEF Stopped
  <2> QED
    BY <1>4, <2>1 DEF Stopped, script, Calls
<1>5. ASSUME NEW c \in Chain, WalkEnds(c)
      PROVE  Calls'
  <2>1. stack' \in Seq(S) /\ stack' # <<>> /\ stack'[1] = Script
    BY <1>3, <1>5 DEF WalkEnds
  <2> QED
    BY <1>5, <2>1 DEF WalkEnds, script, Calls
<1>6. ASSUME NEW c \in Chain, Execute(c)
      PROVE  Calls'
  <2>1. stack' \in Seq(S) /\ stack' # <<>> /\ stack'[1] = Script
    BY <1>1, <1>6 DEF Execute
  <2> QED
    BY <1>6, <2>1 DEF Execute, script, record, Calls
<1>7. CASE Submit
  <2>1. stack' \in Seq(S) /\ stack' # <<>> /\ stack'[1] = Script
    BY <1>1, <1>7 DEF Submit
  <2> QED
    BY <1>7, <2>1 DEF Submit, script, record, Calls
<1>8. CASE BatchReturns
  <2>1. stack' \in Seq(S) /\ stack' # <<>> /\ stack'[1] = Script
    BY <1>2, <1>8, RerunsAssumption DEF BatchReturns
  <2>2. told' \in [Chain -> {"nothing", "success", "failure"}]
    BY <1>8 DEF BatchReturns, Calls
  <2> QED
    BY <1>8, <2>1, <2>2 DEF BatchReturns, record, Calls
<1>9. ASSUME NEW c \in Chain,
             \/ ExecuteFails(c) \/ Read(c) \/ Write(c) \/ CallbackStarts(c)
             \/ CallbackReturns(c)
      PROVE  Calls'
  BY <1>9 DEF ExecuteFails, Read, Write, CallbackStarts, CallbackReturns, script, record, Calls
<1>10. ASSUME NEW c \in Chain, NEW n \in Continuing, Build(c, n) \/ Extend(c, n)
       PROVE  Calls'
  BY <1>10 DEF Build, Extend, record, Calls
<1>11. ASSUME NEW d \in DOMAIN doc, Change(d)
       PROVE  Calls'
  BY <1>11 DEF Change, script, record, Calls
<1>12. CASE SubmitBreaks \/ UNCHANGED vars
  BY <1>12 DEF SubmitBreaks, record, vars, Calls
<1> QED
  BY <1>4, <1>5, <1>6, <1>7, <1>8, <1>9, <1>10, <1>11, <1>12
     DEF Next, Refused, BuilderRaises, CallbackRaises, ScriptEnds

LEMMA ContentsStep ==
  ASSUME TypeInv, Contents, [Next]_vars
  PROVE  Contents'
<1>0. /\ Len(doc) \in Nat /\ DOMAIN doc = 1..Len(doc) /\ Len(made) \in Nat
      /\ Len(acked) \in Nat
  BY LenProperties DEF TypeInv, AssetType, RecordType
<1>1. ASSUME UNCHANGED <<server, doc, made, acked>>
      PROVE  Contents'
  BY <1>1 DEF Contents
<1>2. ASSUME NEW c \in Chain, Read(c)
      PROVE  Contents'
  <2>1. /\ Len(doc') = Len(doc) + 1
        /\ \A d \in 1..Len(doc) : doc'[d] = doc[d]
        /\ doc'[Len(doc) + 1] = [has |-> server, read |-> version, by |-> c]
    BY <1>0, <1>2, AppendProperties DEF Read, TypeInv, AssetType
  <2>2. UNCHANGED <<server, made, acked>>
    BY <1>2 DEF Read, record
  <2> QED
    BY <1>0, <2>1, <2>2 DEF Contents
<1>3. ASSUME NEW c \in Chain, Write(c)
      PROVE  Contents'
  <2>1. Payload(c) = Meant(c) /\ Payload(c) \in 1..Len(doc)
    BY <1>3, PayloadType
  <2>2. server' \subseteq 1..Len(made) /\ UNCHANGED <<doc, made>>
    BY <1>3, <2>1 DEF Write, Contents
  <2>3. /\ Len(acked') = Len(acked) + 1
        /\ \A n \in 1..Len(acked) : acked'[n] = acked[n]
        /\ acked'[Len(acked) + 1].has = server' /\ acked'[Len(acked) + 1].doc = Meant(c)
    <3> DEFINE new == [by |-> c, walk |-> walk[c].no, doc |-> Meant(c), has |-> server']
    <3>1. acked' = Append(acked, new)
      BY <1>3 DEF Write
    <3>2. acked' \in Seq([by : Chain, walk : Nat, doc : 0..Len(doc), has : SUBSET Nat])
      BY <1>3, StepType DEF Next, TypeInv, RecordType, Write
    <3>3. DOMAIN acked' = 1..Len(acked')
      BY <3>2, LenProperties
    <3>4. new.has = server' /\ new.doc = Meant(c)
      OBVIOUS
    <3> HIDE DEF new
    <3> QED
      BY <1>0, <3>1, <3>3, <3>4, AckedType
  <2> QED
    BY <1>0, <1>3, <2>1, <2>2, <2>3 DEF Contents, Write
<1>4. ASSUME NEW d \in DOMAIN doc, Change(d)
      PROVE  Contents'
  <2>1. Len(made') = Len(made) + 1 /\ UNCHANGED <<server, acked>>
    BY <1>4, AppendProperties DEF Change, record, TypeInv, AssetType
  <2>2. /\ Len(doc') = Len(doc)
        /\ \A e \in 1..Len(doc) : doc'[e].has \subseteq doc[e].has \cup {Len(made')}
    <3>1. \A e \in 1..Len(doc) : doc'[e].has \subseteq doc[e].has \cup {Len(made')}
      BY <1>0, <1>4, ElementOfSeq DEF Change, TypeInv, AssetType
    <3>2. DOMAIN doc' = DOMAIN doc
      BY <1>4 DEF Change
    <3>3. Len(doc') = Len(doc)
      <4>1. doc' \in Seq([has : SUBSET Nat, read : Nat, by : Chain])
        BY <1>4, StepType DEF Next, TypeInv, AssetType
      <4> QED
        BY <1>0, <3>2, <4>1, LenProperties
    <3> QED
      BY <3>1, <3>3
  <2>3. 1..Len(made) \subseteq 1..Len(made') /\ Len(made') \in 1..Len(made')
    BY <1>0, <2>1
  <2>4. server' \subseteq 1..Len(made')
    BY <2>1, <2>3 DEF Contents
  <2>5. \A e \in 1..Len(doc') : doc'[e].has \subseteq 1..Len(made')
    BY <2>2, <2>3 DEF Contents
  <2>6. \A n \in 1..Len(acked') : acked'[n].has \subseteq 1..Len(made') /\ acked'[n].doc # Nothing
    BY <2>1, <2>3 DEF Contents
  <2> QED
    BY <2>4, <2>5, <2>6 DEF Contents
<1>5. ASSUME NEW c \in Chain,
             \/ Execute(c) \/ ExecuteFails(c) \/ WalkEnds(c) \/ Refused(c)
             \/ BuilderRaises(c) \/ CallbackStarts(c) \/ CallbackReturns(c) \/ CallbackRaises(c)
             \/ \E n \in Continuing : Build(c, n) \/ Extend(c, n)
      PROVE  UNCHANGED <<server, doc, made, acked>>
  BY <1>5 DEF Execute, ExecuteFails, WalkEnds, Refused, BuilderRaises, CallbackStarts,
              CallbackReturns, CallbackRaises, Build, Extend, Stopped, asset, record
<1>6. ASSUME Submit \/ SubmitBreaks \/ BatchReturns \/ UNCHANGED vars
      PROVE  UNCHANGED <<server, doc, made, acked>>
  BY <1>6 DEF Submit, SubmitBreaks, BatchReturns, asset, record, vars
<1> QED
  BY <1>1, <1>2, <1>3, <1>4, <1>5, <1>6 DEF Next, ScriptEnds

LEMMA BuiltGrows ==
  ASSUME TypeInv, NEW c \in Chain, NEW s, NEW k, DOMAIN s = DOMAIN nodes[c] \cup {k},
         nodes' = [nodes EXCEPT ![c] = s], IsFiniteSet(Built)
  PROVE  /\ IsFiniteSet(Built') /\ Cardinality(Built) \in Nat
         /\ Cardinality(Built') <= Cardinality(Built) + 1
<1>1. Built' = Built \cup {<<c, k>>}
  <2>1. nodes'[c] = s /\ \A d \in Chain \ {c} : nodes'[d] = nodes[d]
    BY DEF TypeInv, ChainType
  <2>2. ASSUME NEW p
        PROVE  p \in Built' <=> p \in Built \/ p = <<c, k>>
    <3>1. p \in Built' <=> \E d \in Chain : p \in {d} \X DOMAIN nodes'[d]
      BY DEF Built
    <3>2. p \in Built <=> \E d \in Chain : p \in {d} \X DOMAIN nodes[d]
      BY DEF Built
    <3>3. p \in {c} \X DOMAIN nodes'[c] <=> p \in {c} \X DOMAIN nodes[c] \/ p = <<c, k>>
      BY <2>1
    <3>4. \A d \in Chain \ {c} : p \in {d} \X DOMAIN nodes'[d] <=> p \in {d} \X DOMAIN nodes[d]
      BY <2>1
    <3> QED
      BY <3>1, <3>2, <3>3, <3>4
  <2> QED
    BY <2>2
<1>2. Cardinality(Built) \in Nat
  BY FS_CardinalityType
<1>3. /\ IsFiniteSet(Built \cup {<<c, k>>})
      /\ Cardinality(Built \cup {<<c, k>>})
           = IF <<c, k>> \in Built THEN Cardinality(Built) ELSE Cardinality(Built) + 1
  BY FS_AddElement
<1> QED
  BY <1>1, <1>2, <1>3

LEMMA CountsStep ==
  ASSUME TypeInv, Counts, [Next]_vars
  PROVE  Counts'
<1>0. /\ Len(doc) \in Nat /\ Len(made) \in Nat /\ walks \in Nat
      /\ MaxNodes \in Nat /\ MaxWalks \in Nat /\ MaxReads \in Nat /\ MaxChanges \in Nat
  BY RerunsAssumption, LenProperties DEF TypeInv, AssetType, ChainType
<1>1. ASSUME nodes' = nodes, walks' = walks \/ (walks < MaxWalks /\ walks' = walks + 1),
             Len(doc') = Len(doc) \/ (Len(doc) < MaxReads /\ Len(doc') = Len(doc) + 1),
             Len(made') = Len(made) \/ (Len(made) < MaxChanges /\ Len(made') = Len(made) + 1)
      PROVE  Counts'
  <2>1. Built' = Built
    BY <1>1 DEF Built
  <2> QED
    BY <1>0, <1>1, <2>1 DEF Counts
<1>2. ASSUME NEW c \in Chain, NEW n \in Continuing, Build(c, n) \/ Extend(c, n)
      PROVE  Counts'
  <2> DEFINE s == Append(nodes[c], n)
  <2>1. /\ nodes' = [nodes EXCEPT ![c] = s]
        /\ DOMAIN s = DOMAIN nodes[c] \cup {Len(nodes[c]) + 1}
    <3>1. nodes[c] \in Seq([kind : NodeKind, doc : 0..Len(doc)]) /\ Len(nodes[c]) \in Nat
      BY LenProperties DEF TypeInv, ChainType
    <3>2. n \in [kind : NodeKind, doc : 0..Len(doc)]
      BY StarterIsNode
    <3>3. DOMAIN s = 1..(Len(nodes[c]) + 1) /\ DOMAIN nodes[c] = 1..Len(nodes[c])
      BY <3>1, <3>2, AppendProperties, LenProperties
    <3>4. CASE Build(c, n)
      <4>1. nodes[c] = <<>> /\ nodes' = [nodes EXCEPT ![c] = <<n>>]
        BY <3>4 DEF Build
      <4>2. Append(<<>>, n) = <<n>>
        OBVIOUS
      <4> QED
        BY <3>1, <3>3, <4>1, <4>2
    <3>5. CASE Extend(c, n)
      <4>1. nodes' = [nodes EXCEPT ![c] = s]
        BY <3>5 DEF Extend
      <4> QED
        BY <3>1, <3>3, <4>1
    <3> QED
      BY <1>2, <3>4, <3>5
  <2> HIDE DEF s
  <2>2. /\ IsFiniteSet(Built') /\ Cardinality(Built) \in Nat
        /\ Cardinality(Built') <= Cardinality(Built) + 1
    BY <2>1, BuiltGrows DEF Counts
  <2>3. Cardinality(Built) < MaxNodes /\ UNCHANGED <<walks, doc, made>>
    BY <1>2 DEF Build, Extend, asset
  <2>4. Cardinality(Built') \in Nat
    BY <2>2, FS_CardinalityType
  <2>5. Cardinality(Built') <= MaxNodes
    BY <1>0, <2>2, <2>3, <2>4
  <2> QED
    BY <2>2, <2>3, <2>5 DEF Counts
<1>3. ASSUME NEW c \in Chain, Read(c)
      PROVE  Counts'
  <2>1. Len(doc) < MaxReads /\ Len(doc') = Len(doc) + 1
    BY <1>3, AppendProperties DEF Read, TypeInv, AssetType
  <2> QED
    BY <1>1, <1>3, <2>1 DEF Read, script
<1>4. ASSUME NEW d \in DOMAIN doc, Change(d)
      PROVE  Counts'
  <2>1. Len(made) < MaxChanges /\ Len(made') = Len(made) + 1
    BY <1>4, AppendProperties DEF Change, TypeInv, AssetType
  <2>2. Len(doc') = Len(doc)
    <3>1. doc' \in Seq([has : SUBSET Nat, read : Nat, by : Chain])
      BY <1>4, StepType DEF Next, TypeInv, AssetType
    <3>2. DOMAIN doc' = DOMAIN doc
      BY <1>4 DEF Change
    <3>3. doc \in Seq([has : SUBSET Nat, read : Nat, by : Chain])
      BY DEF TypeInv, AssetType
    <3> QED
      BY <1>0, <3>1, <3>2, <3>3, LenProperties
  <2> QED
    BY <1>1, <1>4, <2>1, <2>2 DEF Change, script
<1>5. ASSUME NEW c \in Chain,
             \/ Execute(c) \/ ExecuteFails(c) \/ WalkEnds(c) \/ Refused(c) \/ Write(c)
             \/ BuilderRaises(c) \/ CallbackStarts(c) \/ CallbackReturns(c) \/ CallbackRaises(c)
      PROVE  Counts'
  <2>1. UNCHANGED <<nodes, doc, made>>
    BY <1>5 DEF Execute, ExecuteFails, WalkEnds, Refused, Write, BuilderRaises,
                CallbackStarts, CallbackReturns, CallbackRaises, asset, script
  <2>2. walks' = walks \/ (walks < MaxWalks /\ walks' = walks + 1)
    BY <1>5 DEF Execute, ExecuteFails, WalkEnds, Refused, Write, BuilderRaises,
                CallbackStarts, CallbackReturns, CallbackRaises, Stopped, Begin
  <2> QED
    BY <1>1, <2>1, <2>2
<1>6. CASE Submit \/ SubmitBreaks \/ BatchReturns \/ UNCHANGED vars
  <2>1. UNCHANGED <<nodes, doc, made>>
    BY <1>6 DEF Submit, SubmitBreaks, BatchReturns, asset, script, vars
  <2>2. walks' = walks \/ (walks < MaxWalks /\ walks' = walks + 1)
    BY <1>6 DEF Submit, SubmitBreaks, BatchReturns, Begin, vars
  <2> QED
    BY <1>1, <2>1, <2>2
<1> QED
  BY <1>2, <1>3, <1>4, <1>5, <1>6 DEF Next, ScriptEnds

LEMMA PlacesStep ==
  ASSUME TypeInv, Advancing, OnRecord, Places, [Next]_vars
  PROVE  Places'
<1> DEFINE In(c) == /\ walk[c].at <= Len(nodes[c]) + 1
                    /\ walk[c].length <= Len(nodes[c])
                    /\ failure[c] <= walks
           Marked == \A n \in 1..Len(acked) : acked[n].walk # 0
<1>0. ASSUME NEW c \in Chain
      PROVE  /\ walk[c].at \in Nat /\ walk[c].length \in Nat /\ failure[c] \in Nat
             /\ Len(nodes[c]) \in Nat /\ Len(nodes'[c]) \in Nat
             /\ Len(nodes[c]) <= Len(nodes'[c]) /\ walks \in Nat
             /\ walk[c].no <= walks /\ walk[c].no \in Nat
  BY NodesGrow, ChainFields DEF TypeInv, RecordType, Advancing, Progress
<1>1. ASSUME NEW c \in Chain, walks' \in Nat, walks <= walks',
             \/ walk'[c].at = walk[c].at
             \/ walk'[c].at = 1
             \/ walk'[c].at = walk[c].at + 1 /\ walk[c].at <= Len(nodes[c]),
             \/ walk'[c].length = walk[c].length
             \/ walk'[c].length \in {0, Len(nodes[c])},
             failure'[c] \in {failure[c], walk[c].no, walks'}
      PROVE  In(c)'
  <2>1. In(c)
    BY DEF Places
  <2>2. walk'[c].at <= Len(nodes'[c]) + 1
    <3> DEFINE a == walk[c].at
               n == Len(nodes[c])
               m == Len(nodes'[c])
    <3>1. a \in Nat /\ n \in Nat /\ m \in Nat /\ n <= m /\ a <= n + 1
      BY <1>0, <2>1
    <3>2. walk'[c].at = a \/ walk'[c].at = 1 \/ (walk'[c].at = a + 1 /\ a <= n)
      BY <1>1
    <3> HIDE DEF a, n, m
    <3>3. walk'[c].at <= m + 1
      BY <3>1, <3>2
    <3> QED
      BY <3>3 DEF m
  <2>3. walk'[c].length <= Len(nodes'[c])
    <3> DEFINE l == walk[c].length
               n == Len(nodes[c])
               m == Len(nodes'[c])
    <3>1. l \in Nat /\ n \in Nat /\ m \in Nat /\ n <= m /\ l <= n
      BY <1>0, <2>1
    <3>2. walk'[c].length \in {l, 0, n}
      BY <1>1
    <3> HIDE DEF l, n, m
    <3>3. walk'[c].length <= m
      BY <3>1, <3>2
    <3> QED
      BY <3>3 DEF m
  <2>4. failure'[c] <= walks'
    BY <1>0, <1>1, <2>1
  <2> QED
    BY <2>2, <2>3, <2>4
<1>2. ASSUME walk' = walk, failure' = failure, walks' = walks, acked' = acked
      PROVE  Places'
  BY <1>0, <1>1, <1>2 DEF Places
<1>3. ASSUME NEW cs, Begin(cs), UNCHANGED record
      PROVE  Places'
  <2>1. \A c \in Chain : \/ walk'[c] = walk[c]
                         \/ walk'[c].at = 1 /\ walk'[c].length = 0
    BY <1>3 DEF Begin, Idle
  <2>2. walks' = walks + 1 /\ UNCHANGED <<failure, acked>>
    BY <1>3, BeginFields DEF record
  <2>3. ASSUME NEW c \in Chain
        PROVE  In(c)'
    BY <1>0, <1>1, <2>1, <2>2
  <2> QED
    BY <2>2, <2>3 DEF Places
<1>4. ASSUME NEW c \in Chain, NEW state \in State, Ended(c, state), UNCHANGED <<acked, walks>>,
             \A d \in Chain : failure'[d] \in {failure[d], walk[d].no}
      PROVE  Places'
  <2>1. /\ walk'[c].at = walk[c].at /\ walk'[c].length = Len(nodes[c])
        /\ \A d \in Chain \ {c} : walk'[d] = walk[d]
    BY <1>4 DEF Ended, TypeInv, ChainType, Walk
  <2>2. ASSUME NEW d \in Chain
        PROVE  In(d)'
    BY <1>0, <1>1, <1>4, <2>1
  <2> QED
    BY <1>4, <2>2 DEF Places
<1>5. ASSUME NEW c \in Chain, Refused(c) \/ BuilderRaises(c) \/ CallbackRaises(c)
      PROVE  Places'
  <2>1. Stopped(c)
    BY <1>5 DEF Refused, BuilderRaises, CallbackRaises
  <2>2. Ended(c, "stopped") /\ UNCHANGED <<acked, walks>>
    BY <2>1 DEF Stopped
  <2>3. \A d \in Chain : failure'[d] \in {failure[d], walk[d].no}
    BY <2>1 DEF Stopped, RecordFailure, TypeInv, RecordType
  <2> QED
    BY <1>4, <2>2, <2>3 DEF State
<1>6. ASSUME NEW c \in Chain, WalkEnds(c)
      PROVE  Places'
  <2>1. Ended(c, "done") /\ UNCHANGED <<acked, walks, failure>>
    BY <1>6 DEF WalkEnds
  <2> QED
    BY <1>4, <2>1 DEF State
<1>7. ASSUME NEW c \in Chain, ExecuteFails(c)
      PROVE  Places'
  <2>1. /\ walks' = walks + 1 /\ UNCHANGED <<walk, acked>>
        /\ \A d \in Chain : failure'[d] \in {failure[d], walks'}
    BY <1>7 DEF ExecuteFails, RecordFailure, TypeInv, RecordType
  <2>2. ASSUME NEW d \in Chain
        PROVE  In(d)'
    BY <1>0, <1>1, <2>1
  <2> QED
    BY <2>1, <2>2 DEF Places
<1>8. ASSUME NEW c \in Chain, NEW value, GoesOn(c, value), UNCHANGED <<failure, walks>>,
             walk[c].at <= Len(nodes[c]), Marked'
      PROVE  Places'
  <2>1. /\ walk'[c].at = walk[c].at + 1 /\ walk'[c].length = walk[c].length
        /\ \A d \in Chain \ {c} : walk'[d] = walk[d]
    <3>1. walk'[c].length = walk[c].length
      BY <1>8 DEF GoesOn, TypeInv, ChainType, Walk
    <3> QED
      BY <1>8, <3>1, GoesOnFields
  <2>2. ASSUME NEW d \in Chain
        PROVE  In(d)'
    BY <1>0, <1>1, <1>8, <2>1
  <2> QED
    BY <1>8, <2>2 DEF Places
<1>9. ASSUME NEW c \in Chain, Read(c) \/ CallbackReturns(c)
      PROVE  Places'
  <2>1. PICK value : GoesOn(c, value)
    BY <1>9 DEF Read, CallbackReturns
  <2>2. UNCHANGED <<failure, walks, acked>>
    BY <1>9 DEF Read, CallbackReturns, record
  <2>3. walk[c].at <= Len(nodes[c])
    BY <1>9, ChainFields DEF Read, Reaches, Over, CallbackReturns, Returning, Advancing, Progress
  <2>4. Marked'
    BY <2>2 DEF Places
  <2> QED
    BY <1>8, <2>1, <2>2, <2>3, <2>4
<1>10. ASSUME NEW c \in Chain, Write(c)
       PROVE  Places'
  <2>1. Marked'
    <3> DEFINE new == [by |-> c, walk |-> walk[c].no, doc |-> Meant(c), has |-> server']
    <3>1. acked' = Append(acked, new)
      BY <1>10 DEF Write
    <3>2. acked' \in Seq([by : Chain, walk : Nat, doc : 0..Len(doc), has : SUBSET Nat])
      BY <1>10, StepType DEF Next, TypeInv, RecordType, Write
    <3>3. DOMAIN acked' = 1..Len(acked')
      BY <3>2, LenProperties
    <3>4. new.walk # 0
      BY <1>10 DEF Write, Reaches, Turn, Walked, OnRecord
    <3> HIDE DEF new
    <3>5. /\ Len(acked') = Len(acked) + 1 /\ acked'[Len(acked) + 1] = new
          /\ \A n \in 1..Len(acked) : acked'[n] = acked[n]
      BY <3>1, <3>3, AckedType
    <3> QED
      BY <3>4, <3>5, AckedType DEF Places
  <2>2. walk[c].at <= Len(nodes[c])
    BY <1>10, ChainFields DEF Write, Reaches, Over
  <2>3. GoesOn(c, Nothing) /\ UNCHANGED <<failure, walks>>
    BY <1>10 DEF Write
  <2> QED
    BY <1>8, <2>1, <2>2, <2>3
<1>11. ASSUME NEW c \in Chain, CallbackStarts(c)
       PROVE  Places'
  <2>1. UNCHANGED <<failure, walks, acked>>
    BY <1>11 DEF CallbackStarts, record
  <2>2. \A d \in Chain : walk'[d].at = walk[d].at /\ walk'[d].length = walk[d].length
    BY <1>11 DEF CallbackStarts, TypeInv, ChainType, Walk
  <2>3. ASSUME NEW d \in Chain
        PROVE  In(d)'
    BY <1>0, <1>1, <2>1, <2>2
  <2> QED
    BY <2>1, <2>3 DEF Places
<1>12. \/ \E c \in Chain : \/ Refused(c) \/ BuilderRaises(c) \/ CallbackRaises(c)
                           \/ WalkEnds(c) \/ ExecuteFails(c) \/ Read(c) \/ CallbackReturns(c)
                           \/ Write(c) \/ CallbackStarts(c)
       \/ record' = record /\ \E cs \in {registered} \cup { {c} : c \in Chain } : Begin(cs)
       \/ UNCHANGED <<walk, walks, failure, acked>>
  BY DEF Next, Build, Extend, Execute, Submit, SubmitBreaks, BatchReturns, Change,
         ScriptEnds, record, vars
<1> QED
  BY <1>2, <1>3, <1>5, <1>6, <1>7, <1>9, <1>10, <1>11, <1>12

LEMMA BoundsInvariant == Spec => [](TypeInv /\ OnRecord /\ Held /\ Lines /\ Advancing /\ Bounds)
<1>1. ASSUME Init
      PROVE  OnRecord /\ Contents /\ Counts /\ Places /\ Calls
  <2>1. OnRecord
    BY <1>1 DEF Init, OnRecord, Walked, Idle
  <2>2. Contents
    BY <1>1 DEF Init, Contents
  <2>3. Counts
    <3>1. Built = {}
      BY <1>1 DEF Init, Built
    <3>2. IsFiniteSet({}) /\ Cardinality({}) = 0
      BY FS_EmptySet
    <3> QED
      BY <1>1, <3>1, <3>2, RerunsAssumption DEF Init, Counts
  <2>4. Places
    BY <1>1 DEF Init, Places, Idle
  <2>5. Calls
    <3>1. <<Script>> \in Seq(Chain \cup {Script, Batch})
      OBVIOUS
    <3> QED
      BY <1>1, <3>1 DEF Init, Calls
  <2> QED
    BY <2>1, <2>2, <2>3, <2>4, <2>5
<1>2. Init => OnRecord /\ Bounds
  BY <1>1 DEF Bounds
<1>3. TypeInv /\ OnRecord /\ Advancing /\ Bounds /\ [Next]_vars => (OnRecord /\ Bounds)'
  BY OnRecordStep, ContentsStep, CountsStep, PlacesStep, CallsStep DEF Bounds
<1> QED
  BY <1>2, <1>3, HeldInvariant, LinesInvariant, AdvancingInvariant, PTL DEF Spec

LEMMA SeqOver ==
  ASSUME NEW S, NEW R, NEW s \in Seq(S), \A i \in 1..Len(s) : s[i] \in R
  PROVE  s \in Seq(R)
<1>1. Len(s) \in Nat /\ s = [i \in 1..Len(s) |-> s[i]]
  BY LenProperties
<1> QED
  BY <1>1, IsASeq

\* The values are of the kinds the module says, within the bounds it names.
THEOREM Typing == Spec => []TypeOK
<1>1. ASSUME TypeInv, OnRecord, Held, Lines, Advancing, Bounds
      PROVE  TypeOK
  <2> USE <1>1
  <2>0. /\ Len(doc) \in Nat /\ DOMAIN doc = 1..Len(doc) /\ Len(made) \in Nat
        /\ Len(acked) \in Nat /\ DOMAIN acked = 1..Len(acked)
        /\ MaxNodes \in Nat /\ MaxWalks \in Nat /\ MaxReads \in Nat /\ MaxChanges \in Nat
        /\ Len(doc) <= MaxReads /\ Len(made) <= MaxChanges
        /\ walks \in 0..MaxWalks /\ version \in Nat
    BY RerunsAssumption, LenProperties
       DEF TypeInv, AssetType, ChainType, RecordType, Bounds, Counts
  <2>1. 1..Len(made) \subseteq 1..MaxChanges /\ 0..Len(doc) \subseteq 0..MaxReads
    BY <2>0
  <2>2. server \in Content
    BY <2>1 DEF Bounds, Contents, Content
  <2>3. doc \in Seq([has : Content, read : 0..version, by : Chain])
    <3>1. doc \in Seq([has : SUBSET Nat, read : Nat, by : Chain])
      BY DEF TypeInv, AssetType
    <3>2. ASSUME NEW d \in 1..Len(doc)
          PROVE  doc[d] \in [has : Content, read : 0..version, by : Chain]
      <4>1. doc[d] \in [has : SUBSET Nat, read : Nat, by : Chain]
        BY <3>1, <3>2, ElementOfSeq
      <4>2. doc[d].has \in Content
        BY <2>1, <3>2 DEF Bounds, Contents, Content
      <4>3. doc[d].read \in 0..version
        BY <2>0, <3>2, <4>1 DEF Held, Fresh
      <4> QED
        BY <4>1, <4>2, <4>3
    <3> QED
      BY <3>1, <3>2, SeqOver
  <2>4. made \in Seq([doc : DOMAIN doc, after : 0..Len(acked)])
    <3>1. made \in Seq([doc : Nat, after : Nat])
      BY DEF TypeInv, AssetType
    <3>2. ASSUME NEW m \in 1..Len(made)
          PROVE  made[m] \in [doc : DOMAIN doc, after : 0..Len(acked)]
      <4>1. made[m] \in [doc : Nat, after : Nat] /\ m \in DOMAIN made
        BY <3>1, <3>2, ElementOfSeq, LenProperties
      <4>2. made[m].doc \in DOMAIN doc /\ made[m].after \in 0..Len(acked)
        BY <2>0, <4>1 DEF Held, Kept
      <4> QED
        BY <4>1, <4>2
    <3> QED
      BY <3>1, <3>2, SeqOver
  <2>5. nodes \in [Chain -> Seq([kind : {"read", "callback"} \cup Writes, doc : Object])]
    <3>1. [kind : NodeKind, doc : 0..Len(doc)]
            \subseteq [kind : {"read", "callback"} \cup Writes, doc : Object]
      BY <2>1 DEF NodeKind, Writes, Object
    <3>2. ASSUME NEW c \in Chain
          PROVE  nodes[c] \in Seq([kind : {"read", "callback"} \cup Writes, doc : Object])
      <4>1. nodes[c] \in Seq([kind : NodeKind, doc : 0..Len(doc)])
        BY DEF TypeInv, ChainType
      <4> QED
        BY <3>1, <4>1, SeqMonotonic
    <3> QED
      BY <3>2 DEF TypeInv, ChainType
  <2>6. ASSUME NEW c \in Chain
        PROVE  Len(nodes[c]) \in 0..MaxNodes
    <3>1. {c} \X (1..Len(nodes[c])) \subseteq Built
      BY ChainFields DEF Built
    <3>2. Len(nodes[c]) \in Nat /\ IsFiniteSet(Built) /\ Cardinality(Built) <= MaxNodes
      BY ChainFields DEF Bounds, Counts
    <3>3. /\ IsFiniteSet({c}) /\ Cardinality({c}) = 1
          /\ IsFiniteSet(1..Len(nodes[c])) /\ Cardinality(1..Len(nodes[c])) = Len(nodes[c])
      <4>1. IsFiniteSet({c}) /\ Cardinality({c}) = 1
        BY FS_Singleton
      <4>2. \A n \in Nat : IsFiniteSet(1..n) /\ Cardinality(1..n) = n
        BY FS_Interval
      <4> QED
        BY <3>2, <4>1, <4>2
    <3>4. Cardinality({c} \X (1..Len(nodes[c]))) = 1 * Len(nodes[c])
      <4> DEFINE S == {c}
                 T == 1..Len(nodes[c])
      <4>1. IsFiniteSet(S) /\ IsFiniteSet(T)
        BY <3>3
      <4> HIDE DEF S, T
      <4>2. Cardinality(S \X T) = Cardinality(S) * Cardinality(T)
        BY <4>1, FS_Product
      <4> QED
        BY <3>3, <4>2 DEF S, T
    <3>5. Cardinality({c} \X (1..Len(nodes[c]))) <= Cardinality(Built)
      BY <3>1, <3>2, FS_Subset
    <3>6. Cardinality(Built) \in Nat
      BY <3>2, FS_CardinalityType
    <3> QED
      BY <2>0, <3>2, <3>4, <3>5, <3>6
  <2>7. walk \in [Chain -> [at : 1..(MaxNodes + 1), value : 0..Len(doc), state : State,
                            no : 0..walks, length : 0..MaxNodes]]
    <3>1. ASSUME NEW c \in Chain
          PROVE  walk[c] \in [at : 1..(MaxNodes + 1), value : 0..Len(doc), state : State,
                              no : 0..walks, length : 0..MaxNodes]
      <4>1. walk[c] \in Walk(0..Len(doc))
        BY DEF TypeInv, ChainType
      <4>2. /\ walk[c].at <= Len(nodes[c]) + 1 /\ walk[c].length <= Len(nodes[c])
            /\ walk[c].no <= walks
        BY DEF Bounds, Places, Advancing, Progress
      <4>3. walk[c].at \in 1..(MaxNodes + 1) /\ walk[c].length \in 0..MaxNodes
        <5>1. PICK n \in 0..MaxNodes : n = Len(nodes[c])
          BY <2>6
        <5>2. PICK a \in Nat \ {0} : a = walk[c].at
          BY ChainFields
        <5>3. PICK l \in Nat : l = walk[c].length
          BY ChainFields
        <5>4. a <= n + 1 /\ l <= n
          BY <4>2, <5>1, <5>2, <5>3
        <5>5. a \in 1..(MaxNodes + 1) /\ l \in 0..MaxNodes
          BY <2>0, <5>4
        <5> QED
          BY <5>2, <5>3, <5>5
      <4>4. walk[c].no \in 0..walks
        BY <4>2, ChainFields
      <4> QED
        BY <4>1, <4>3, <4>4 DEF Walk
    <3> QED
      BY <3>1 DEF TypeInv, ChainType
  <2>8. failure \in [Chain -> 0..walks]
    BY <2>0 DEF TypeInv, RecordType, Bounds, Places
  <2>9. acked \in Seq([by : Chain, walk : 1..walks, doc : DOMAIN doc, has : Content])
    <3>1. acked \in Seq([by : Chain, walk : Nat, doc : 0..Len(doc), has : SUBSET Nat])
      BY DEF TypeInv, RecordType
    <3>2. ASSUME NEW n \in 1..Len(acked)
          PROVE  acked[n] \in [by : Chain, walk : 1..walks, doc : DOMAIN doc, has : Content]
      <4>1. acked[n] \in [by : Chain, walk : Nat, doc : 0..Len(doc), has : SUBSET Nat]
        BY <3>1, <3>2, ElementOfSeq
      <4>2. acked[n].has \in Content
        BY <2>1, <3>2 DEF Bounds, Contents, Content
      <4>3. acked[n].doc \in DOMAIN doc
        BY <2>0, <3>2, <4>1 DEF Bounds, Contents
      <4>4. acked[n].walk \in 1..walks
        BY <2>0, <3>2, <4>1 DEF Bounds, Places, Advancing, Numbered
      <4> QED
        BY <4>1, <4>2, <4>3, <4>4
    <3> QED
      BY <3>1, <3>2, SeqOver
  <2>10. queue \in [Chain -> Seq(DOMAIN acked)]
    <3>1. ASSUME NEW c \in Chain
          PROVE  queue[c] \in Seq(DOMAIN acked)
      <4>1. queue[c] \in Seq(Nat)
        BY DEF Lines, LinesType
      <4>2. \A k \in 1..Len(queue[c]) : queue[c][k] \in DOMAIN acked
        BY <2>0, <4>1, LenProperties DEF Lines, Queues, Waiting
      <4> QED
        BY <4>1, <4>2, SeqOver
    <3> QED
      BY <3>1 DEF Lines, LinesType
  <2>11. logged \in [DOMAIN acked -> Nat]
    <3>1. logged \in Seq(Nat) /\ Len(logged) = Len(acked)
      BY DEF Lines, LinesType
    <3> QED
      BY <2>0, <3>1
  <2> QED
    BY <2>0, <2>2, <2>3, <2>4, <2>5, <2>7, <2>8, <2>9, <2>10, <2>11
       DEF TypeOK, State, Bounds, Calls
<1> QED
  BY <1>1, BoundsInvariant, PTL
=============================================================================
