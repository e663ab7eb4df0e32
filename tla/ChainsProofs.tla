---------------------------- MODULE ChainsProofs ----------------------------
(***************************************************************************)
(* Theorems about the chains of a batch, for every number of chains, every *)
(* program, every semaphore and pool size and every set of faults.         *)
(***************************************************************************)
EXTENDS Chains, TLAPS, FiniteSetTheorems, SequenceTheorems

USE DEF Failed, Answers, Status

(***************************************************************************)
(* The program of a chain.                                                 *)
(***************************************************************************)
LEMMA ProgramType ==
  ASSUME NEW c \in Chain
  PROVE  /\ Len(Program[c]) \in Nat
         /\ DOMAIN Program[c] = 1..Len(Program[c])
         /\ \A s \in 1..Len(Program[c]) : Program[c][s] \in Operation \cup Callback
<1>1. Program[c] \in Seq(Operation \cup Callback)
  BY ProgramAssumption
<1> QED
  BY <1>1, LenProperties, ElementOfSeq

LEMMA OperationType ==
  ASSUME NEW c \in Chain, NEW s \in 1..Len(Program[c]),
         Program[c][s].kind = "operation"
  PROVE  /\ Program[c][s] \in Operation
         /\ Program[c][s].size \in Nat
         /\ Program[c][s].write \in BOOLEAN
<1>1. Program[c][s] \in Operation \cup Callback
  BY ProgramType
<1>2. Program[c][s] \notin Callback
  BY DEF Callback
<1>3. Program[c][s] \in Operation
  BY <1>1, <1>2
<1> QED
  BY <1>3 DEF Operation

LEMMA ClassifyType ==
  ASSUME NEW answer
  PROVE  Classify(answer) \in Category
BY DEF Classify, Category

(***************************************************************************)
(* The invariant that makes TypeOK inductive: what a chain waits for       *)
(* belongs to a node of its program, and a node never has more requests    *)
(* than its payload asks for.                                              *)
(***************************************************************************)
Located ==
  \A c \in Chain :
    /\ pc[c] \in {"waiting", "submitted", "callback"} => step[c] > 0
    /\ pc[c] = "waiting" => Node(c).kind = "operation"

Sized ==
  \A c \in Chain : \A s \in 1..step[c] :
    Program[c][s].kind = "operation" => Len(reqs[c][s]) <= Program[c][s].size

TypeInv == TypeOK /\ Located /\ Sized

LEMMA InitTypeInv == Init => TypeInv
<1> SUFFICES ASSUME Init PROVE TypeInv
  OBVIOUS
<1>1. TypeOK
  <2>1. \A c \in Chain : reqs[c] = <<>> /\ Len(reqs[c]) = 0 /\ step[c] = 0
    BY EmptySeq DEF Init
  <2>2. reqs \in [Chain -> Seq(Seq(Status))] /\ log \in Seq(Line)
        /\ queued \in [Chain -> Seq([step : Nat, items : SUBSET Nat])]
    BY EmptySeq DEF Init
  <2> QED
    BY <2>1, <2>2, ProgramType DEF Init, TypeOK
<1>2. Located /\ Sized
  BY DEF Init, Located, Sized
<1> QED
  BY <1>1, <1>2 DEF TypeInv

(***************************************************************************)
(* What the operators the actions share do to the types.                   *)
(***************************************************************************)
LEMMA WriteLineType ==
  ASSUME log \in Seq(Line),
         NEW kind \in {"line", "error", "result", "note"}, NEW c \in Chain,
         NEW s \in Nat, NEW n \in Nat, WriteLine(kind, c, s, n)
  PROVE  log' \in Seq(Line)
<1> DEFINE new == [kind |-> kind, chain |-> c, step |-> s, item |-> n]
<1>1. new \in Line
  BY DEF Line
<1>2. log' = Append(log, new)
  BY DEF WriteLine
<1> HIDE DEF new
<1> QED
  BY <1>1, <1>2, AppendProperties

LEMMA StoppedType ==
  ASSUME TypeOK, NEW c \in Chain, NEW s \in DOMAIN Program[c], NEW n \in Nat,
         NEW category \in Category, Stopped(c, s, n, category)
  PROVE  /\ failure' \in [Chain -> Failure \cup {NoFailure}]
         /\ result' \in [Chain -> {"none", "value", "list", "error", "raised"}]
         /\ pc' = [pc EXCEPT ![c] = "flushing"]
         /\ log' \in Seq(Line)
<1> DEFINE new == [step |-> s, category |-> category]
<1>1. new \in Failure
  BY DEF Failure
<1>2. failure' = [failure EXCEPT ![c] = FirstFailure(@, new)]
  BY DEF Stopped
<1>3. s \in Nat
  BY ProgramType
<1> HIDE DEF new
<1>4. failure' \in [Chain -> Failure \cup {NoFailure}]
  BY <1>1, <1>2 DEF TypeOK, FirstFailure
<1>5. log' \in Seq(Line)
  BY <1>3, WriteLineType DEF TypeOK, Stopped
<1> QED
  BY <1>4, <1>5 DEF Stopped, TypeOK

\* The beginning of an operation node, with any admissible list of requests.
LEMMA BeginOperationType ==
  ASSUME TypeInv, NEW c \in Chain, AtOperation(c),
         NEW requests \in Seq(Status), BeginOperation(c, requests),
         Len(requests) <= Program[c][step[c] + 1].size
  PROVE  /\ step[c] + 1 \in 1..Len(Program[c])
         /\ Program[c][step[c] + 1].kind = "operation"
         /\ step' \in [Chain -> Nat]
         /\ step' = [step EXCEPT ![c] = step[c] + 1]
         /\ reqs' \in [Chain -> Seq(Seq(Status))]
         /\ \A d \in Chain : Len(reqs'[d]) = step'[d] /\ step'[d] <= Len(Program[d])
         /\ segments' \in [Chain -> Nat]
         /\ Sized'
<1>1. step[c] + 1 \in 1..Len(Program[c]) /\ Program[c][step[c] + 1].kind = "operation"
  BY ProgramType DEF AtOperation, NextIs, TypeInv, TypeOK
<1>2. step' = [step EXCEPT ![c] = step[c] + 1] /\ step' \in [Chain -> Nat]
        /\ segments' \in [Chain -> Nat]
  BY DEF BeginOperation, TypeInv, TypeOK
<1>3. reqs' = [reqs EXCEPT ![c] = Append(reqs[c], requests)]
  BY DEF BeginOperation
<1>4. reqs[c] \in Seq(Seq(Status)) /\ Len(reqs[c]) = step[c]
  BY DEF TypeInv, TypeOK
<1>5. /\ Append(reqs[c], requests) \in Seq(Seq(Status))
      /\ Len(Append(reqs[c], requests)) = step[c] + 1
      /\ \A s \in 1..step[c] : Append(reqs[c], requests)[s] = reqs[c][s]
      /\ Append(reqs[c], requests)[step[c] + 1] = requests
  BY <1>4, AppendProperties
<1>6. reqs' = [reqs EXCEPT ![c] = Append(reqs[c], requests)]
      /\ reqs' \in [Chain -> Seq(Seq(Status))]
  BY <1>3, <1>5 DEF TypeInv, TypeOK
<1>7. ASSUME NEW d \in Chain
      PROVE  Len(reqs'[d]) = step'[d] /\ step'[d] <= Len(Program[d])
  <2>1. CASE d = c
    BY <2>1, <1>1, <1>2, <1>5, <1>6 DEF TypeInv, TypeOK
  <2>2. CASE d # c
    BY <2>2, <1>2, <1>6 DEF TypeInv, TypeOK
  <2> QED
    BY <2>1, <2>2
<1>8. ASSUME NEW d \in Chain, NEW s \in 1..step'[d], Program[d][s].kind = "operation"
      PROVE  Len(reqs'[d][s]) <= Program[d][s].size
  <2>1. CASE d = c /\ s = step[c] + 1
    BY <2>1, <1>2, <1>5, <1>6 DEF TypeInv, TypeOK
  <2>2. CASE d = c /\ s # step[c] + 1
    <3>1. s \in 1..step[c]
      BY <2>2, <1>2 DEF TypeInv, TypeOK
    <3>2. reqs'[d][s] = reqs[d][s]
      BY <3>1, <2>2, <1>5, <1>6 DEF TypeInv, TypeOK
    <3> QED
      BY <3>1, <3>2, <2>2, <1>8 DEF TypeInv, Sized
  <2>3. CASE d # c
    BY <2>3, <1>2, <1>6, <1>8 DEF TypeInv, TypeOK, Sized
  <2> QED
    BY <2>1, <2>2, <2>3
<1>9. Sized'
  BY <1>8 DEF Sized
<1> QED
  BY <1>1, <1>2, <1>6, <1>7, <1>9
LEMMA NoRequests ==
  <<>> \in Seq(Status) /\ Len(<<>>) = 0
BY EmptySeq

LEMMA NewRequestsType ==
  ASSUME TypeInv, NEW c \in Chain, AtOperation(c), NEW requests \in NewRequests(c)
  PROVE  requests \in Seq(Status) /\ Len(requests) <= Program[c][step[c] + 1].size
<1> DEFINE node == Program[c][step[c] + 1]
<1>1. node.size \in Nat
  BY OperationType, ProgramType DEF AtOperation, NextIs, TypeInv, TypeOK
<1>2. PICK n \in 0..node.size : requests = [i \in 1..n |-> "queued"]
  BY <1>1 DEF NewRequests
<1>3. "queued" \in Status
  OBVIOUS
<1> HIDE DEF node
<1>4. requests \in [1..n -> Status] /\ n \in Nat
  BY <1>1, <1>2, <1>3
<1>5. requests \in Seq(Status) /\ Len(requests) = n
  BY <1>1, <1>2, <1>4
<1> QED
  BY <1>1, <1>5 DEF node

(***************************************************************************)
(* One lemma per action.                                                   *)
(***************************************************************************)
LEMMA BuilderRaisesType ==
  ASSUME TypeInv, NEW c \in Chain, NEW exception, BuilderRaises(c, exception)
  PROVE  TypeInv'
<1>1. AtOperation(c) /\ BeginOperation(c, <<>>)
      /\ Stopped(c, step[c] + 1, segments[c] + 1, Classify(exception))
  BY DEF BuilderRaises
<1>2. Program[c][step[c] + 1].size \in Nat /\ step[c] + 1 \in DOMAIN Program[c]
      /\ segments[c] + 1 \in Nat /\ Len(<<>>) <= Program[c][step[c] + 1].size
  BY <1>1, NoRequests, OperationType, ProgramType DEF AtOperation, NextIs, TypeInv, TypeOK
<1>3. /\ step' \in [Chain -> Nat]
      /\ reqs' \in [Chain -> Seq(Seq(Status))]
      /\ \A d \in Chain : Len(reqs'[d]) = step'[d] /\ step'[d] <= Len(Program[d])
      /\ segments' \in [Chain -> Nat]
      /\ step' = [step EXCEPT ![c] = step[c] + 1]
      /\ Sized'
  BY <1>1, <1>2, NoRequests, BeginOperationType
<1>4. /\ failure' \in [Chain -> Failure \cup {NoFailure}]
      /\ result' \in [Chain -> {"none", "value", "list", "error", "raised"}]
      /\ pc' = [pc EXCEPT ![c] = "flushing"]
      /\ log' \in Seq(Line)
  BY <1>1, <1>2, ClassifyType, StoppedType DEF TypeInv
<1>5. TypeOK'
  BY <1>1, <1>3, <1>4 DEF TypeInv, TypeOK, BeginOperation
<1>6. Located'
  BY <1>3, <1>4 DEF TypeInv, TypeOK, Located, Node
<1> QED
  BY <1>3, <1>5, <1>6 DEF TypeInv

LEMMA RequestLogRaisesType ==
  ASSUME TypeInv, NEW c \in Chain, RequestLogRaises(c)
  PROVE  TypeInv'
<1>1. AtOperation(c) /\ BeginOperation(c, <<>>) /\ Escapes(c)
  BY DEF RequestLogRaises
<1>2. Len(<<>>) <= Program[c][step[c] + 1].size
  BY <1>1, NoRequests, OperationType, ProgramType DEF AtOperation, NextIs, TypeInv, TypeOK
<1>3. /\ step' \in [Chain -> Nat]
      /\ reqs' \in [Chain -> Seq(Seq(Status))]
      /\ \A d \in Chain : Len(reqs'[d]) = step'[d] /\ step'[d] <= Len(Program[d])
      /\ segments' \in [Chain -> Nat]
      /\ step' = [step EXCEPT ![c] = step[c] + 1]
      /\ Sized'
  BY <1>1, <1>2, NoRequests, BeginOperationType
<1>4. TypeOK'
  BY <1>1, <1>3 DEF TypeInv, TypeOK, BeginOperation, Escapes
<1>5. Located'
  BY <1>1, <1>3 DEF TypeInv, TypeOK, Located, Node, Escapes
<1> QED
  BY <1>3, <1>4, <1>5 DEF TypeInv

LEMMA IssueRequestsType ==
  ASSUME TypeInv, NEW c \in Chain, IssueRequests(c)
  PROVE  TypeInv'
<1>1. AtOperation(c) /\ pc' = [pc EXCEPT ![c] = "waiting"]
      /\ UNCHANGED <<result, failure, log>>
  BY DEF IssueRequests
<1>2. PICK requests \in NewRequests(c) : BeginOperation(c, requests)
  BY DEF IssueRequests
<1>3. /\ step[c] + 1 \in 1..Len(Program[c])
      /\ Program[c][step[c] + 1].kind = "operation"
      /\ step' \in [Chain -> Nat]
      /\ reqs' \in [Chain -> Seq(Seq(Status))]
      /\ \A d \in Chain : Len(reqs'[d]) = step'[d] /\ step'[d] <= Len(Program[d])
      /\ segments' \in [Chain -> Nat]
      /\ step' = [step EXCEPT ![c] = step[c] + 1]
      /\ Sized'
  BY <1>1, <1>2, NewRequestsType, BeginOperationType
<1>4. TypeOK'
  BY <1>1, <1>2, <1>3 DEF TypeInv, TypeOK, BeginOperation
<1>5. Located'
  BY <1>1, <1>3 DEF TypeInv, TypeOK, Located, Node
<1> QED
  BY <1>3, <1>4, <1>5 DEF TypeInv
\* Where a chain is that waits for the requests of a node.
LEMMA WaitingAt ==
  ASSUME TypeInv, NEW c \in Chain, pc[c] = "waiting"
  PROVE  /\ step[c] \in 1..Len(Program[c]) /\ step[c] \in DOMAIN Program[c]
         /\ Node(c).kind = "operation"
         /\ reqs[c] \in Seq(Seq(Status)) /\ step[c] \in DOMAIN reqs[c]
         /\ reqs[c][step[c]] \in Seq(Status)
         /\ Items(c) = 1..Len(reqs[c][step[c]])
         /\ Len(reqs[c][step[c]]) <= Node(c).size
<1>1. step[c] > 0 /\ step[c] \in Nat /\ Node(c).kind = "operation"
  BY DEF TypeInv, TypeOK, Located
<1>2. reqs[c] \in Seq(Seq(Status)) /\ Len(reqs[c]) = step[c] /\ step[c] <= Len(Program[c])
  BY DEF TypeInv, TypeOK
<1>3. step[c] \in 1..Len(Program[c]) /\ step[c] \in DOMAIN Program[c]
  BY <1>1, <1>2, ProgramType
<1>4. step[c] \in DOMAIN reqs[c] /\ reqs[c][step[c]] \in Seq(Status)
  BY <1>1, <1>2, ElementOfSeq, LenProperties
<1>5. Items(c) = 1..Len(reqs[c][step[c]])
  BY <1>4, LenProperties DEF Items
<1>6. Len(reqs[c][step[c]]) <= Node(c).size
  <2>1. step[c] \in 1..step[c] /\ Program[c][step[c]].kind = "operation"
    BY <1>1 DEF Node
  <2> QED
    BY <2>1 DEF TypeInv, Sized, Node
<1> QED
  BY <1>1, <1>2, <1>3, <1>4, <1>5, <1>6

LEMMA SetStatusType ==
  ASSUME TypeInv, NEW c \in Chain, pc[c] = "waiting", NEW i \in Items(c),
         NEW status \in Status,
         reqs' = [reqs EXCEPT ![c][step[c]][i] = status],
         UNCHANGED <<pc, step, result, failure, segments, queued, log, applied>>
  PROVE  TypeInv'
<1> DEFINE old == reqs[c][step[c]]
           new == [old EXCEPT ![i] = status]
           row == [reqs[c] EXCEPT ![step[c]] = new]
<1>1. /\ reqs[c] \in Seq(Seq(Status)) /\ step[c] \in DOMAIN reqs[c] /\ step[c] \in 1..Len(reqs[c])
      /\ old \in Seq(Status) /\ i \in 1..Len(old) /\ Len(reqs[c]) = step[c]
  BY WaitingAt, LenProperties DEF TypeInv, TypeOK
<1>2. new \in Seq(Status) /\ Len(new) = Len(old)
  BY <1>1, ExceptSeq
<1>3. reqs' = [reqs EXCEPT ![c] = row]
  BY DEF TypeInv, TypeOK
<1> HIDE DEF old, new
<1>4. /\ row \in Seq(Seq(Status)) /\ Len(row) = Len(reqs[c])
      /\ \A s \in 1..Len(reqs[c]) : row[s] = IF s = step[c] THEN new ELSE reqs[c][s]
  BY <1>1, <1>2, ExceptSeq
<1> HIDE DEF row
<1>5. reqs' \in [Chain -> Seq(Seq(Status))]
      /\ \A d \in Chain : Len(reqs'[d]) = Len(reqs[d])
  <2> DEFINE Rows == Seq(Seq(Status))
  <2>1. reqs \in [Chain -> Rows] /\ row \in Rows
    BY <1>4 DEF TypeInv, TypeOK
  <2> HIDE DEF Rows
  <2>2. reqs' \in [Chain -> Rows]
    BY <1>3, <2>1
  <2>3. \A d \in Chain : Len(reqs'[d]) = Len(reqs[d])
    BY <1>3, <1>4, <2>1
  <2> QED
    BY <2>2, <2>3 DEF Rows
<1>6. ASSUME NEW d \in Chain, NEW s \in 1..step[d]
      PROVE  Len(reqs'[d][s]) = Len(reqs[d][s])
  <2>1. CASE d = c
    BY <2>1, <1>1, <1>2, <1>3, <1>4 DEF TypeInv, TypeOK, old
  <2>2. CASE d # c
    BY <2>2, <1>3 DEF TypeInv, TypeOK
  <2> QED
    BY <2>1, <2>2
<1>7. TypeOK'
  BY <1>5 DEF TypeInv, TypeOK
<1>8. Located' /\ Sized'
  BY <1>6 DEF TypeInv, Located, Sized, Node
<1> QED
  BY <1>7, <1>8 DEF TypeInv

LEMMA RequestStepType ==
  ASSUME TypeInv, NEW c \in Chain, RequestStep(c)
  PROVE  TypeInv'
<1>1. pc[c] = "waiting"
  BY DEF RequestStep
<1>2. PICK i \in Items(c) : \/ Acquire(c, i)
                            \/ ServerApplies(c, i)
                            \/ \E answer \in Answers : Answer(c, i, answer)
  BY DEF RequestStep
<1>3. CASE Acquire(c, i)
  <2>1. "sent" \in Status
    OBVIOUS
  <2> QED
    BY <1>1, <1>3, <2>1, SetStatusType DEF Acquire
<1>4. CASE ServerApplies(c, i)
  <2>1. step[c] \in DOMAIN Program[c] /\ Writing(c, step[c]) /\ i \in 1..Program[c][step[c]].size
    <3>1. Node(c).size \in Nat /\ Node(c).write
      BY <1>1, <1>4, WaitingAt, OperationType DEF Node, ServerApplies
    <3>2. Len(reqs[c][step[c]]) \in Nat
      BY <1>1, WaitingAt, LenProperties
    <3>3. /\ step[c] \in DOMAIN Program[c] /\ Node(c).kind = "operation"
          /\ i \in 1..Len(reqs[c][step[c]]) /\ Len(reqs[c][step[c]]) <= Node(c).size
      BY <1>1, WaitingAt
    <3>4. i \in 1..Node(c).size
      BY <3>1, <3>2, <3>3
    <3> QED
      BY <3>1, <3>3, <3>4 DEF Node, Writing
  <2>2. <<step[c], i>> \in Effect(c)
    BY <2>1 DEF Effect
  <2>3. applied' = applied \cup {<<c, step[c], i>>}
        /\ UNCHANGED <<pc, step, reqs, result, failure, segments, queued, log>>
    BY <1>4 DEF ServerApplies
  <2>4. \A w \in applied' : w[1] \in Chain /\ <<w[2], w[3]>> \in Effect(w[1])
    <3>1. ASSUME NEW w \in applied'
          PROVE  w[1] \in Chain /\ <<w[2], w[3]>> \in Effect(w[1])
      <4>1. CASE w \in applied
        BY <4>1 DEF TypeInv, TypeOK
      <4>2. CASE w = <<c, step[c], i>>
        BY <4>2, <2>2
      <4> QED
        BY <4>1, <4>2, <2>3
    <3> QED
      BY <3>1
  <2>5. TypeOK'
    BY <2>3, <2>4 DEF TypeInv, TypeOK
  <2>6. Located' /\ Sized'
    BY <2>3 DEF TypeInv, Located, Sized, Node
  <2> QED
    BY <2>5, <2>6 DEF TypeInv
<1>5. CASE \E answer \in Answers : Answer(c, i, answer)
  <2>1. PICK answer \in Answers : Answer(c, i, answer)
    BY <1>5
  <2>2. answer \in Status
    BY <2>1
  <2> QED
    BY <1>1, <2>1, <2>2, SetStatusType DEF Answer
<1> QED
  BY <1>2, <1>3, <1>4, <1>5
LEMMA ResultLinesType ==
  ASSUME TypeInv, NEW c \in Chain, pc[c] = "waiting"
  PROVE  ResultLines(c, step[c], reqs[c][step[c]]) \in Seq([step : Nat, items : SUBSET Nat])
<1> DEFINE answers == reqs[c][step[c]]
           entry   == [step |-> step[c], items |-> Succeeded(answers)]
           Entry   == [step : Nat, items : SUBSET Nat]
<1>1. answers \in Seq(Status)
  BY WaitingAt
<1>2. DOMAIN answers \subseteq Nat
  BY <1>1, LenProperties
<1>3. Succeeded(answers) \in SUBSET Nat
  BY <1>2 DEF Succeeded
<1>4. entry \in Entry
  BY <1>3 DEF TypeInv, TypeOK
<1> HIDE DEF entry, Entry
<1>5. <<entry>> \in Seq(Entry) /\ <<>> \in Seq(Entry)
  BY <1>4, EmptySeq
<1> QED
  BY <1>5 DEF ResultLines, entry, Entry

LEMMA OperationStopsType ==
  ASSUME TypeInv, NEW c \in Chain, OperationStops(c)
  PROVE  TypeInv'
<1> DEFINE category == Classify(reqs[c][step[c]][LeastOf(Errors(reqs[c][step[c]]))])
<1>1. pc[c] = "waiting" /\ Stopped(c, step[c], segments[c], category)
      /\ UNCHANGED <<step, reqs, segments, queued, applied>>
  BY DEF OperationStops, Resumes
<1>2. category \in Category
  BY ClassifyType
<1>3. step[c] \in DOMAIN Program[c] /\ segments[c] \in Nat
  BY <1>1, WaitingAt DEF TypeInv, TypeOK
<1> HIDE DEF category
<1>4. /\ failure' \in [Chain -> Failure \cup {NoFailure}]
      /\ result' \in [Chain -> {"none", "value", "list", "error", "raised"}]
      /\ pc' = [pc EXCEPT ![c] = "flushing"]
      /\ log' \in Seq(Line)
  BY <1>1, <1>2, <1>3, StoppedType DEF TypeInv
<1>5. TypeOK'
  BY <1>1, <1>4 DEF TypeInv, TypeOK
<1>6. Located' /\ Sized'
  BY <1>1, <1>4 DEF TypeInv, TypeOK, Located, Sized, Node
<1> QED
  BY <1>5, <1>6 DEF TypeInv

LEMMA OperationReturnsType ==
  ASSUME TypeInv, NEW c \in Chain, OperationReturns(c)
  PROVE  TypeInv'
<1> DEFINE answers == reqs[c][step[c]]
           new     == [step     |-> step[c],
                       category |-> Classify(answers[LeastOf(Errors(answers))])]
           lines   == ResultLines(c, step[c], answers)
           Entry   == [step : Nat, items : SUBSET Nat]
<1>1. /\ pc[c] = "waiting"
      /\ UNCHANGED <<step, reqs, segments, applied, log>>
      /\ failure' = [failure EXCEPT ![c] =
                       IF Errors(answers) = {} THEN @ ELSE FirstFailure(@, new)]
      /\ result' = [result EXCEPT ![c] = IF Multi(c, step[c]) THEN "list" ELSE "value"]
      /\ queued' = [queued EXCEPT ![c] = queued[c] \o lines]
      /\ pc' = [pc EXCEPT ![c] = "ready"]
  BY DEF OperationReturns, Resumes, TypeInv, TypeOK
<1>2. new \in Failure
  BY <1>1, ClassifyType, WaitingAt DEF Failure
<1>3. lines \in Seq(Entry)
  BY <1>1, ResultLinesType
<1> HIDE DEF new, lines, Entry
<1>4. failure' \in [Chain -> Failure \cup {NoFailure}]
  BY <1>1, <1>2 DEF TypeInv, TypeOK, FirstFailure
<1>5. queued' \in [Chain -> Seq(Entry)]
  <2>1. queued \in [Chain -> Seq(Entry)]
    BY DEF TypeInv, TypeOK, Entry
  <2>2. queued[c] \o lines \in Seq(Entry)
    BY <1>3, <2>1, ConcatProperties
  <2> QED
    BY <1>1, <2>1, <2>2
<1>6. result' \in [Chain -> {"none", "value", "list", "error", "raised"}]
      /\ pc' \in [Chain -> {"ready", "waiting", "submitted", "callback", "flushing", "done"}]
  BY <1>1 DEF TypeInv, TypeOK
<1>7. TypeOK'
  BY <1>1, <1>4, <1>5, <1>6 DEF TypeInv, TypeOK, Entry
<1>8. Located' /\ Sized'
  BY <1>1 DEF TypeInv, TypeOK, Located, Sized, Node
<1> QED
  BY <1>7, <1>8 DEF TypeInv

LEMMA StartCallbackType ==
  ASSUME TypeInv, NEW c \in Chain, StartCallback(c)
  PROVE  TypeInv'
<1>1. /\ step[c] < Len(Program[c]) /\ Program[c][step[c] + 1].kind = "callback"
      /\ step' = [step EXCEPT ![c] = step[c] + 1]
      /\ reqs' = [reqs EXCEPT ![c] = Append(reqs[c], <<>>)]
      /\ pc' = [pc EXCEPT ![c] =
                  IF Program[c][step[c] + 1].async THEN "callback" ELSE "submitted"]
      /\ UNCHANGED <<result, failure, segments, queued, log, applied>>
  BY DEF StartCallback, NextIs, TypeInv, TypeOK
<1>2. reqs[c] \in Seq(Seq(Status)) /\ Len(reqs[c]) = step[c]
  BY DEF TypeInv, TypeOK
<1>3. /\ Append(reqs[c], <<>>) \in Seq(Seq(Status))
      /\ Len(Append(reqs[c], <<>>)) = step[c] + 1
      /\ \A s \in 1..step[c] : Append(reqs[c], <<>>)[s] = reqs[c][s]
  BY <1>2, NoRequests, AppendProperties
<1>4. \A d \in Chain : Len(reqs'[d]) = step'[d] /\ step'[d] <= Len(Program[d])
  <2>1. ASSUME NEW d \in Chain
        PROVE  Len(reqs'[d]) = step'[d] /\ step'[d] <= Len(Program[d])
    <3>1. CASE d = c
      BY <3>1, <1>1, <1>3, ProgramType DEF TypeInv, TypeOK
    <3>2. CASE d # c
      BY <3>2, <1>1 DEF TypeInv, TypeOK
    <3> QED
      BY <3>1, <3>2
  <2> QED
    BY <2>1
<1>5. /\ reqs' \in [Chain -> Seq(Seq(Status))]
      /\ step' \in [Chain -> Nat]
      /\ pc' \in [Chain -> {"ready", "waiting", "submitted", "callback", "flushing", "done"}]
  BY <1>1, <1>3 DEF TypeInv, TypeOK
<1>6. TypeOK'
  BY <1>1, <1>4, <1>5 DEF TypeInv, TypeOK
<1>7. Located'
  BY <1>1 DEF TypeInv, TypeOK, Located, Node
<1>8. ASSUME NEW d \in Chain, NEW s \in 1..step'[d], Program[d][s].kind = "operation"
      PROVE  Len(reqs'[d][s]) <= Program[d][s].size
  <2>1. s \in 1..step[d]
    BY <1>1, <1>8 DEF TypeInv, TypeOK
  <2>2. reqs'[d][s] = reqs[d][s]
    BY <2>1, <1>1, <1>3 DEF TypeInv, TypeOK
  <2> QED
    BY <2>1, <2>2, <1>8 DEF TypeInv, Sized
<1> QED
  BY <1>6, <1>7, <1>8 DEF TypeInv, Sized
LEMMA RunInExecutorType ==
  ASSUME TypeInv, NEW c \in Chain, RunInExecutor(c)
  PROVE  TypeInv'
<1>1. pc[c] = "submitted" /\ pc' = [pc EXCEPT ![c] = "callback"]
      /\ UNCHANGED <<step, reqs, result, failure, segments, queued, log, applied>>
  BY DEF RunInExecutor
<1>2. TypeOK'
  BY <1>1 DEF TypeInv, TypeOK
<1>3. Located' /\ Sized'
  BY <1>1 DEF TypeInv, TypeOK, Located, Sized, Node
<1> QED
  BY <1>2, <1>3 DEF TypeInv

LEMMA NoteType ==
  ASSUME TypeInv, NEW c \in Chain, Note(c)
  PROVE  TypeInv'
<1> DEFINE note == [kind |-> "note", chain |-> c, step |-> step[c], item |-> 0]
<1>1. log' = Append(log, note)
      /\ UNCHANGED <<pc, step, reqs, result, failure, segments, queued, applied>>
  BY DEF Note
<1>2. note \in Line
  BY DEF Line, TypeInv, TypeOK
<1> HIDE DEF note
<1>3. log' \in Seq(Line)
  BY <1>1, <1>2, AppendProperties DEF TypeInv, TypeOK
<1>4. TypeOK'
  BY <1>1, <1>3 DEF TypeInv, TypeOK
<1>5. Located' /\ Sized'
  BY <1>1 DEF TypeInv, Located, Sized, Node
<1> QED
  BY <1>4, <1>5 DEF TypeInv

LEMMA CallbackReturnsType ==
  ASSUME TypeInv, NEW c \in Chain, CallbackReturns(c)
  PROVE  TypeInv'
<1>1. /\ segments' = [segments EXCEPT ![c] = @ + 1]
      /\ pc' = [pc EXCEPT ![c] = "ready"]
      /\ UNCHANGED <<step, reqs, failure, queued, log, applied>>
  BY DEF CallbackReturns, CallbackEnds, CallbackSegments
<1>2. PICK r \in {"value", result[c]} : result' = [result EXCEPT ![c] = r]
  BY DEF CallbackReturns
<1>3. /\ segments' \in [Chain -> Nat]
      /\ result' \in [Chain -> {"none", "value", "list", "error", "raised"}]
  <2>1. r \in {"none", "value", "list", "error", "raised"}
    BY <1>2 DEF TypeInv, TypeOK
  <2>2. segments' \in [Chain -> Nat]
    BY <1>1 DEF TypeInv, TypeOK
  <2> QED
    BY <1>2, <2>1, <2>2 DEF TypeInv, TypeOK
<1>4. TypeOK'
  BY <1>1, <1>3 DEF TypeInv, TypeOK
<1>5. Located' /\ Sized'
  BY <1>1 DEF TypeInv, TypeOK, Located, Sized, Node
<1> QED
  BY <1>4, <1>5 DEF TypeInv

LEMMA CallbackRaisesType ==
  ASSUME TypeInv, NEW c \in Chain, CallbackRaises(c)
  PROVE  TypeInv'
<1>1. /\ pc[c] = "callback"
      /\ segments' = [segments EXCEPT ![c] = @ + 1]
      /\ Stopped(c, step[c], segments'[c], Classify("user"))
      /\ UNCHANGED <<step, reqs, queued, applied>>
  BY DEF CallbackRaises, CallbackEnds, CallbackSegments
<1>2. step[c] \in DOMAIN Program[c]
  BY <1>1, ProgramType DEF TypeInv, TypeOK, Located
<1>3. segments' \in [Chain -> Nat] /\ segments'[c] \in Nat
  BY <1>1 DEF TypeInv, TypeOK
<1>4. /\ failure' \in [Chain -> Failure \cup {NoFailure}]
      /\ result' \in [Chain -> {"none", "value", "list", "error", "raised"}]
      /\ pc' = [pc EXCEPT ![c] = "flushing"]
      /\ log' \in Seq(Line)
  BY <1>1, <1>2, <1>3, ClassifyType, StoppedType DEF TypeInv
<1>5. TypeOK'
  BY <1>1, <1>3, <1>4 DEF TypeInv, TypeOK
<1>6. Located' /\ Sized'
  BY <1>1, <1>4 DEF TypeInv, TypeOK, Located, Sized, Node
<1> QED
  BY <1>5, <1>6 DEF TypeInv

LEMMA CallbackCancelledType ==
  ASSUME TypeInv, NEW c \in Chain, CallbackCancelled(c)
  PROVE  TypeInv'
<1>1. /\ result' = [result EXCEPT ![c] = "raised"]
      /\ pc' = [pc EXCEPT ![c] = "done"]
      /\ UNCHANGED <<step, reqs, failure, segments, queued, log, applied>>
  BY DEF CallbackCancelled, CallbackEnds, Escapes
<1>2. TypeOK'
  BY <1>1 DEF TypeInv, TypeOK
<1>3. Located' /\ Sized'
  BY <1>1 DEF TypeInv, TypeOK, Located, Sized, Node
<1> QED
  BY <1>2, <1>3 DEF TypeInv

LEMMA FinishChainType ==
  ASSUME TypeInv, NEW c \in Chain, FinishChain(c)
  PROVE  TypeInv'
<1> DEFINE n == IF step[c] > 0 /\ Node(c).kind = "operation" THEN 1 ELSE 0
<1>1. /\ segments' = [segments EXCEPT ![c] = @ + n]
      /\ WriteLine("line", c, step[c], segments'[c])
      /\ pc' = [pc EXCEPT ![c] = "flushing"]
      /\ UNCHANGED <<step, reqs, result, failure, queued, applied>>
  BY DEF FinishChain
<1>2. segments' \in [Chain -> Nat] /\ segments'[c] \in Nat
  BY <1>1 DEF TypeInv, TypeOK
<1>3. log' \in Seq(Line)
  BY <1>1, <1>2, WriteLineType DEF TypeInv, TypeOK
<1>4. TypeOK'
  BY <1>1, <1>2, <1>3 DEF TypeInv, TypeOK
<1>5. Located' /\ Sized'
  BY <1>1 DEF TypeInv, TypeOK, Located, Sized, Node
<1> QED
  BY <1>4, <1>5 DEF TypeInv

LEMMA FlushResultType ==
  ASSUME TypeInv, NEW c \in Chain, queued[c] # <<>>, NEW i \in Head(queued[c]).items,
         FlushResult(c, i)
  PROVE  TypeInv'
<1> DEFINE Entry == [step : Nat, items : SUBSET Nat]
           node  == Head(queued[c])
           rest  == Tail(queued[c])
           left  == [node EXCEPT !.items = @ \ {i}]
           new   == [kind |-> "result", chain |-> c, step |-> node.step, item |-> i]
<1>1. /\ log' = Append(log, new)
      /\ queued' = [queued EXCEPT ![c] =
                      IF node.items = {i} THEN rest ELSE <<left>> \o rest]
      /\ UNCHANGED <<pc, step, reqs, result, failure, segments, applied>>
  BY DEF FlushResult, TypeInv, TypeOK
<1>2. queued \in [Chain -> Seq(Entry)] /\ queued[c] \in Seq(Entry)
  BY DEF TypeInv, TypeOK
<1>3. node \in Entry /\ rest \in Seq(Entry)
  BY <1>2, HeadTailProperties
<1>4. new \in Line /\ left \in Entry
  BY <1>3 DEF Line
<1> HIDE DEF node, rest, left, new, Entry
<1>5. log' \in Seq(Line)
  BY <1>1, <1>4, AppendProperties DEF TypeInv, TypeOK
<1>6. <<left>> \in Seq(Entry)
  BY <1>4
<1>7. <<left>> \o rest \in Seq(Entry)
  BY <1>3, <1>6, ConcatProperties
<1>8. queued' \in [Chain -> Seq(Entry)]
  BY <1>1, <1>2, <1>3, <1>7
<1>9. TypeOK'
  BY <1>1, <1>5, <1>8 DEF TypeInv, TypeOK, Entry
<1>10. Located' /\ Sized'
  BY <1>1 DEF TypeInv, Located, Sized, Node
<1> QED
  BY <1>9, <1>10 DEF TypeInv

LEMMA EndChainType ==
  ASSUME TypeInv, NEW c \in Chain, EndChain(c)
  PROVE  TypeInv'
<1>1. pc' = [pc EXCEPT ![c] = "done"]
      /\ UNCHANGED <<step, reqs, result, failure, segments, queued, log, applied>>
  BY DEF EndChain
<1>2. TypeOK'
  BY <1>1 DEF TypeInv, TypeOK
<1>3. Located' /\ Sized'
  BY <1>1 DEF TypeInv, TypeOK, Located, Sized, Node
<1> QED
  BY <1>2, <1>3 DEF TypeInv

LEMMA NextTypeInv == TypeInv /\ [Next]_vars => TypeInv'
<1> SUFFICES ASSUME TypeInv, [Next]_vars PROVE TypeInv'
  OBVIOUS
<1>1. CASE UNCHANGED vars
  BY <1>1 DEF TypeInv, TypeOK, Located, Sized, Node, vars
<1>2. ASSUME NEW c \in Chain, OperationStep(c)
      PROVE  TypeInv'
  BY <1>2, BuilderRaisesType, RequestLogRaisesType, IssueRequestsType, OperationStopsType,
     OperationReturnsType DEF OperationStep
<1>3. ASSUME NEW c \in Chain, CallbackStep(c)
      PROVE  TypeInv'
  BY <1>3, StartCallbackType, RunInExecutorType, CallbackReturnsType, CallbackRaisesType,
     CallbackCancelledType DEF CallbackStep
<1>4. ASSUME NEW c \in Chain, FinishStep(c)
      PROVE  TypeInv'
  BY <1>4, FinishChainType, FlushResultType, EndChainType DEF FinishStep
<1>5. CASE Gathered
  BY <1>1, <1>5 DEF Gathered
<1> QED
  BY <1>1, <1>2, <1>3, <1>4, <1>5, RequestStepType, NoteType DEF Next

\* The invariant the other theorems start from.
LEMMA TypeInvariant == Spec => []TypeInv
<1> QED
  BY InitTypeInv, NextTypeInv, PTL DEF Spec

\* Whatever the program, the faults and the interleaving, the variables keep
\* their types: in particular a chain never runs past its last node, has a
\* request list for every node it has begun, and the server is only ever asked
\* for writes that the program contains.
THEOREM Typing == Spec => []TypeOK
<1>1. TypeInv => TypeOK
  BY DEF TypeInv
<1> QED
  BY <1>1, TypeInvariant, PTL

-----------------------------------------------------------------------------
(***************************************************************************)
(* What no interleaving of the chains of a batch can break: the failure a  *)
(* chain keeps, the order of its nodes, the limit on the requests that are *)
(* on the wire.  All of it from the type invariant.                        *)
(***************************************************************************)
ChainStep(c) ==
  \/ RequestStep(c)
  \/ OperationStep(c)
  \/ CallbackStep(c)
  \/ Note(c)
  \/ FinishStep(c)

LEMMA StepOfAChain ==
  ASSUME [Next]_vars
  PROVE  UNCHANGED vars \/ \E c \in Chain : ChainStep(c)
BY DEF Next, ChainStep, Gathered

(***************************************************************************)
(* A step of one chain leaves the locals of every other chain alone.       *)
(***************************************************************************)
SameChain(d) ==
  /\ pc'[d] = pc[d] /\ step'[d] = step[d] /\ reqs'[d] = reqs[d]
  /\ failure'[d] = failure[d] /\ result'[d] = result[d]
  /\ segments'[d] = segments[d] /\ queued'[d] = queued[d]

LEMMA Elsewhere ==
  ASSUME TypeInv, NEW c \in Chain, ChainStep(c), NEW d \in Chain, d # c
  PROVE  SameChain(d)
<1> USE DEF SameChain, TypeInv, TypeOK
<1>1. CASE RequestStep(c)
  BY <1>1 DEF RequestStep, Acquire, ServerApplies, Answer
<1>2. CASE OperationStep(c)
  <2>1. ASSUME NEW exception, BuilderRaises(c, exception)
        PROVE  SameChain(d)
    BY <2>1 DEF BuilderRaises, BeginOperation, Stopped
  <2>2. CASE RequestLogRaises(c)
    BY <2>2 DEF RequestLogRaises, BeginOperation, Escapes
  <2>3. CASE IssueRequests(c)
    BY <2>3 DEF IssueRequests, BeginOperation
  <2>4. CASE OperationStops(c)
    BY <2>4 DEF OperationStops, Resumes, Stopped
  <2>5. CASE OperationReturns(c)
    BY <2>5 DEF OperationReturns, Resumes
  <2> QED
    BY <1>2, <2>1, <2>2, <2>3, <2>4, <2>5 DEF OperationStep
<1>3. CASE CallbackStep(c)
  <2>1. CASE StartCallback(c)
    BY <2>1 DEF StartCallback
  <2>2. CASE RunInExecutor(c)
    BY <2>2 DEF RunInExecutor
  <2>3. CASE CallbackReturns(c)
    BY <2>3 DEF CallbackReturns, CallbackEnds
  <2>4. CASE CallbackRaises(c)
    BY <2>4 DEF CallbackRaises, CallbackEnds, Stopped
  <2>5. CASE CallbackCancelled(c)
    BY <2>5 DEF CallbackCancelled, CallbackEnds, Escapes
  <2> QED
    BY <1>3, <2>1, <2>2, <2>3, <2>4, <2>5 DEF CallbackStep
<1>4. CASE Note(c)
  BY <1>4 DEF Note
<1>5. CASE FinishStep(c)
  BY <1>5 DEF FinishStep, FinishChain, FlushResult, EndChain
<1> QED
  BY <1>1, <1>2, <1>3, <1>4, <1>5 DEF ChainStep

(***************************************************************************)
(* The record of a chain's failure.                                        *)
(***************************************************************************)
LEMMA FailureStep ==
  ASSUME TypeInv, NEW c \in Chain, ChainStep(c)
  PROVE  failure[c] # NoFailure => failure'[c] = failure[c]
<1> USE DEF TypeInv, TypeOK, FirstFailure
<1>1. CASE RequestStep(c)
  BY <1>1 DEF RequestStep, Acquire, ServerApplies, Answer
<1>2. CASE OperationStep(c)
  <2>1. ASSUME NEW exception, BuilderRaises(c, exception), failure[c] # NoFailure
        PROVE  failure'[c] = failure[c]
    BY <2>1 DEF BuilderRaises, Stopped
  <2>2. CASE RequestLogRaises(c)
    BY <2>2 DEF RequestLogRaises, Escapes
  <2>3. CASE IssueRequests(c)
    BY <2>3 DEF IssueRequests
  <2>4. CASE OperationStops(c)
    BY <2>4 DEF OperationStops, Stopped
  <2>5. CASE OperationReturns(c)
    BY <2>5 DEF OperationReturns
  <2> QED
    BY <1>2, <2>1, <2>2, <2>3, <2>4, <2>5 DEF OperationStep
<1>3. CASE CallbackStep(c)
  <2>1. CASE CallbackRaises(c)
    BY <2>1 DEF CallbackRaises, Stopped
  <2> QED
    BY <1>3, <2>1 DEF CallbackStep, StartCallback, RunInExecutor, CallbackReturns,
                      CallbackCancelled, Escapes
<1>4. CASE Note(c)
  BY <1>4 DEF Note
<1>5. CASE FinishStep(c)
  BY <1>5 DEF FinishStep, FinishChain, FlushResult, EndChain
<1> QED
  BY <1>1, <1>2, <1>3, <1>4, <1>5 DEF ChainStep

\* The first failure a chain records is the one it keeps, whatever fails in it
\* later: _record_failure is called from four places and none of them, nor any
\* step of another chain, replaces or withdraws what is there.
THEOREM FirstFailureStays == Spec => FirstFailureKept
<1> DEFINE Kept == \A c \in Chain : failure[c] # NoFailure => failure'[c] = failure[c]
<1>1. ASSUME TypeInv, [Next]_vars, NEW c \in Chain, failure[c] # NoFailure
      PROVE  failure'[c] = failure[c]
  <2>1. CASE UNCHANGED vars
    BY <2>1 DEF vars
  <2>2. ASSUME NEW d \in Chain, ChainStep(d)
        PROVE  failure'[c] = failure[c]
    BY <1>1, <2>2, FailureStep, Elsewhere DEF SameChain
  <2> QED
    BY <1>1, <2>1, <2>2, StepOfAChain
<1>2. TypeInv /\ [Next]_vars => [Kept]_vars
  BY <1>1
<1> QED
  BY <1>2, TypeInvariant, PTL DEF Spec, FirstFailureKept
(***************************************************************************)
(* The nodes a chain has left behind: their requests are never touched     *)
(* again.                                                                  *)
(***************************************************************************)
Past(c, s)  == s < step[c] \/ pc[c] # "waiting"
SameRow(c, s) == reqs'[c][s] = reqs[c][s]

LEMMA PastIsKept ==
  ASSUME TypeInv, NEW c \in Chain, ChainStep(c), NEW s \in 1..step[c], Past(c, s)
  PROVE  SameRow(c, s)
<1> USE DEF Past, SameRow
<1>1. reqs \in [Chain -> Seq(Seq(Status))] /\ reqs[c] \in Seq(Seq(Status))
      /\ Len(reqs[c]) = step[c] /\ step[c] \in Nat
  BY DEF TypeInv, TypeOK
<1>2. ASSUME NEW requests \in Seq(Status), reqs' = [reqs EXCEPT ![c] = Append(@, requests)]
      PROVE  SameRow(c, s)
  BY <1>1, <1>2, AppendProperties
<1>3. CASE RequestStep(c)
  <2>1. s # step[c]
    BY <1>3 DEF RequestStep
  <2>2. step[c] \in DOMAIN reqs[c]
    BY <1>3, WaitingAt DEF RequestStep
  <2>3. ASSUME NEW i, NEW status, reqs' = [reqs EXCEPT ![c][step[c]][i] = status]
        PROVE  SameRow(c, s)
    BY <1>1, <2>1, <2>2, <2>3
  <2> QED
    BY <1>3, <2>3 DEF RequestStep, Acquire, ServerApplies, Answer
<1>4. CASE OperationStep(c)
  <2>1. ASSUME NEW exception, BuilderRaises(c, exception)
        PROVE  SameRow(c, s)
    BY <1>2, <2>1, NoRequests DEF BuilderRaises, BeginOperation
  <2>2. CASE RequestLogRaises(c)
    BY <1>2, <2>2, NoRequests DEF RequestLogRaises, BeginOperation
  <2>3. CASE IssueRequests(c)
    BY <1>2, <2>3, NewRequestsType DEF IssueRequests, BeginOperation
  <2>4. CASE OperationStops(c) \/ OperationReturns(c)
    BY <2>4 DEF OperationStops, OperationReturns, Resumes
  <2> QED
    BY <1>4, <2>1, <2>2, <2>3, <2>4 DEF OperationStep
<1>5. CASE CallbackStep(c)
  <2>1. CASE StartCallback(c)
    BY <1>2, <2>1, NoRequests DEF StartCallback
  <2> QED
    BY <1>5, <2>1 DEF CallbackStep, RunInExecutor, CallbackReturns, CallbackRaises,
                      CallbackCancelled, CallbackEnds
<1>6. CASE Note(c) \/ FinishStep(c)
  BY <1>6 DEF Note, FinishStep, FinishChain, FlushResult, EndChain
<1> QED
  BY <1>3, <1>4, <1>5, <1>6 DEF ChainStep

(***************************************************************************)
(* The order of the nodes.                                                 *)
(***************************************************************************)
Answered(c, s) ==
  /\ \A i \in DOMAIN reqs[c][s] : reqs[c][s][i] \in Answers
  /\ Program[c][s].kind = "operation" /\ ~Multi(c, s) => Errors(reqs[c][s]) = {}

Walking(c) == pc[c] \notin {"waiting", "flushing", "done"}

InOrder(c) == \A s \in 1..step[c] : s < step[c] \/ Walking(c) => Answered(c, s)

LEMMA InOrderStep ==
  ASSUME TypeInv, NEW c \in Chain, ChainStep(c), InOrder(c)
  PROVE  InOrder(c)'
<1>0. step \in [Chain -> Nat] /\ pc \in [Chain -> {"ready", "waiting", "submitted",
                                                   "callback", "flushing", "done"}]
      /\ reqs \in [Chain -> Seq(Seq(Status))] /\ Len(reqs[c]) = step[c]
  BY DEF TypeInv, TypeOK
<1>1. ASSUME NEW s \in 1..step[c], s < step[c] \/ Walking(c)
      PROVE  Answered(c, s)'
  <2>1. Answered(c, s)
    BY <1>1 DEF InOrder
  <2>2. reqs'[c][s] = reqs[c][s]
    BY <1>1, PastIsKept DEF Past, SameRow, Walking
  <2> QED
    BY <2>1, <2>2 DEF Answered, Multi
<1>2. CASE step'[c] = step[c] /\ (Walking(c)' => Walking(c))
  <2>1. ASSUME NEW s \in 1..step'[c], s < step'[c] \/ Walking(c)'
        PROVE  Answered(c, s)'
    BY <1>1, <1>2, <2>1
  <2> QED
    BY <2>1 DEF InOrder
<1>3. CASE Walking(c) /\ step'[c] = step[c] + 1 /\ (Walking(c)' => Answered(c, step[c])')
  <2>1. ASSUME NEW s \in 1..step'[c], s < step'[c] \/ Walking(c)'
        PROVE  Answered(c, s)'
    <3>1. CASE s = step'[c]
      BY <1>3, <2>1, <3>1 DEF Answered, Multi
    <3>2. CASE s # step'[c]
      BY <1>0, <1>1, <1>3, <2>1, <3>2
    <3> QED
      BY <3>1, <3>2
  <2> QED
    BY <2>1 DEF InOrder
<1>4. CASE RequestStep(c)
  BY <1>2, <1>4 DEF RequestStep, Acquire, ServerApplies, Answer, Walking
<1>5. CASE OperationStep(c)
  <2>1. ASSUME NEW exception, BuilderRaises(c, exception)
        PROVE  InOrder(c)'
    BY <1>0, <1>3, <2>1 DEF BuilderRaises, BeginOperation, Stopped, AtOperation, Walking
  <2>2. CASE RequestLogRaises(c)
    BY <1>0, <1>3, <2>2 DEF RequestLogRaises, BeginOperation, Escapes, AtOperation, Walking
  <2>3. CASE IssueRequests(c)
    BY <1>0, <1>3, <2>3 DEF IssueRequests, BeginOperation, AtOperation, Walking
  <2>4. CASE OperationStops(c)
    BY <1>0, <1>2, <2>4 DEF OperationStops, Resumes, Stopped, Walking
  <2>5. CASE OperationReturns(c)
    <3>1. step' = step /\ reqs' = reqs /\ pc[c] = "waiting" /\ AllAnswered(c) /\ ~Stops(c)
      BY <2>5 DEF OperationReturns, Resumes
    <3>2. Answered(c, step[c])
      BY <3>1 DEF AllAnswered, Items, Stops, Answered
    <3>3. ASSUME NEW s \in 1..step[c]
          PROVE  Answered(c, s)
      BY <1>0, <3>2 DEF InOrder
    <3> QED
      BY <3>1, <3>3 DEF InOrder, Answered, Multi
  <2> QED
    BY <1>5, <2>1, <2>2, <2>3, <2>4, <2>5 DEF OperationStep
<1>6. CASE CallbackStep(c)
  <2>1. CASE StartCallback(c)
    <3>1. pc[c] = "ready" /\ step'[c] = step[c] + 1 /\ reqs'[c] = Append(reqs[c], <<>>)
          /\ Program[c][step[c] + 1].kind = "callback"
      BY <1>0, <2>1 DEF StartCallback, NextIs
    <3>2. reqs'[c][step[c] + 1] = <<>>
      BY <1>0, <3>1, NoRequests, AppendProperties
    <3>3. reqs'[c][step'[c]] = <<>> /\ Program[c][step'[c]].kind = "callback"
      BY <3>1, <3>2
    <3>4. DOMAIN <<>> = {}
      OBVIOUS
    <3>5. Answered(c, step[c])'
      BY <3>3, <3>4 DEF Answered
    <3> QED
      BY <1>3, <3>1, <3>5 DEF Walking
  <2>2. CASE RunInExecutor(c) \/ CallbackReturns(c) \/ CallbackRaises(c) \/ CallbackCancelled(c)
    BY <1>0, <1>2, <2>2 DEF RunInExecutor, CallbackReturns, CallbackRaises, CallbackCancelled,
                            CallbackEnds, Stopped, Escapes, Walking
  <2> QED
    BY <1>6, <2>1, <2>2 DEF CallbackStep
<1>7. CASE Note(c) \/ FinishStep(c)
  BY <1>0, <1>2, <1>7 DEF Note, FinishStep, FinishChain, FlushResult, EndChain, Walking
<1> QED
  BY <1>4, <1>5, <1>6, <1>7 DEF ChainStep

\* A chain is never past a node whose requests have not all been answered, nor
\* past a single-request node that failed, however the requests and callbacks
\* of the chains interleave on the loop and in the worker threads.
THEOREM NodesInOrder == Spec => []StrictlyInOrder
<1>1. StrictlyInOrder <=> \A c \in Chain : InOrder(c)
  BY DEF StrictlyInOrder, InOrder, Answered, Walking
<1>2. Init => StrictlyInOrder
  BY DEF Init, StrictlyInOrder
<1>3. ASSUME TypeInv, [Next]_vars, \A d \in Chain : InOrder(d), NEW c \in Chain
      PROVE  InOrder(c)'
  <2>1. CASE UNCHANGED vars
    BY <1>3, <2>1 DEF vars, InOrder, Walking, Answered, Multi
  <2>2. ASSUME NEW d \in Chain, ChainStep(d), d # c
        PROVE  InOrder(c)'
    <3>1. pc'[c] = pc[c] /\ step'[c] = step[c] /\ reqs'[c] = reqs[c]
      BY <1>3, <2>2, Elsewhere DEF SameChain
    <3> QED
      BY <1>3, <3>1 DEF InOrder, Walking, Answered, Multi
  <2> QED
    BY <1>3, <2>1, <2>2, InOrderStep, StepOfAChain
<1>4. TypeInv /\ StrictlyInOrder /\ [Next]_vars => StrictlyInOrder'
  <2>1. ASSUME TypeInv, StrictlyInOrder, [Next]_vars
        PROVE  \A c \in Chain : InOrder(c)'
    BY <1>1, <1>3, <2>1
  <2>2. (\A c \in Chain : InOrder(c)') => StrictlyInOrder'
    BY DEF StrictlyInOrder, InOrder, Answered, Walking
  <2> QED
    BY <2>1, <2>2
<1> QED
  BY <1>2, <1>4, TypeInvariant, PTL DEF Spec
(***************************************************************************)
(* The requests on the wire.                                               *)
(***************************************************************************)
LEMMA SentSame ==
  ASSUME NEW d \in Chain, pc'[d] = pc[d], step'[d] = step[d], reqs'[d] = reqs[d]
  PROVE  Sent(d)' = Sent(d)
BY DEF Sent, Items

LEMMA SentNone ==
  ASSUME NEW d \in Chain, pc'[d] # "waiting"
  PROVE  Sent(d)' = {}
BY DEF Sent

\* Setting the state of one request changes nothing but that request.
LEMMA StatusRow ==
  ASSUME TypeInv, NEW c \in Chain, pc[c] = "waiting", NEW i \in Items(c), NEW status \in Status,
         reqs' = [reqs EXCEPT ![c][step[c]][i] = status], UNCHANGED step
  PROVE  /\ Items(c)' = Items(c)
         /\ \A j \in Items(c) :
              reqs'[c][step'[c]][j] = IF j = i THEN status ELSE reqs[c][step[c]][j]
<1>1. /\ reqs \in [Chain -> Seq(Seq(Status))]
      /\ step[c] \in DOMAIN reqs[c] /\ reqs[c][step[c]] \in Seq(Status)
  BY WaitingAt DEF TypeInv, TypeOK
<1>2. reqs'[c][step[c]] = [reqs[c][step[c]] EXCEPT ![i] = status]
  BY <1>1
<1> QED
  BY <1>2 DEF Items

LEMMA SentStep ==
  ASSUME TypeInv, NEW c \in Chain, ChainStep(c)
  PROVE  \/ Sent(c)' \subseteq Sent(c)
         \/ SlotFree /\ \E i : Sent(c)' \subseteq Sent(c) \cup {i}
<1>0. step \in [Chain -> Nat] /\ reqs \in [Chain -> Seq(Seq(Status))]
      /\ pc \in [Chain -> {"ready", "waiting", "submitted", "callback", "flushing", "done"}]
  BY DEF TypeInv, TypeOK
<1>1. CASE RequestStep(c)
  <2>1. pc[c] = "waiting"
    BY <1>1 DEF RequestStep
  <2>2. PICK i \in Items(c) : \/ Acquire(c, i)
                              \/ ServerApplies(c, i)
                              \/ \E answer \in Answers : Answer(c, i, answer)
    BY <1>1 DEF RequestStep
  <2>3. CASE Acquire(c, i)
    <3>1. /\ SlotFree /\ UNCHANGED <<pc, step>>
          /\ reqs' = [reqs EXCEPT ![c][step[c]][i] = "sent"]
      BY <2>3 DEF Acquire
    <3>2. "sent" \in Status
      OBVIOUS
    <3>3. /\ Items(c)' = Items(c)
          /\ \A j \in Items(c) :
               reqs'[c][step'[c]][j] = IF j = i THEN "sent" ELSE reqs[c][step[c]][j]
      BY <2>1, <3>1, <3>2, StatusRow
    <3>4. Sent(c)' \subseteq Sent(c) \cup {i}
      BY <2>1, <3>1, <3>3 DEF Sent
    <3> QED
      BY <3>1, <3>4
  <2>4. CASE ServerApplies(c, i)
    BY <2>4, SentSame DEF ServerApplies
  <2>5. CASE \E answer \in Answers : Answer(c, i, answer)
    <3>1. PICK answer \in Answers : Answer(c, i, answer)
      BY <2>5
    <3>2. UNCHANGED <<pc, step>> /\ reqs' = [reqs EXCEPT ![c][step[c]][i] = answer]
      BY <3>1 DEF Answer
    <3>3. answer \in Status /\ answer # "sent"
      BY <3>1
    <3>4. /\ Items(c)' = Items(c)
          /\ \A j \in Items(c) :
               reqs'[c][step'[c]][j] = IF j = i THEN answer ELSE reqs[c][step[c]][j]
      BY <2>1, <3>2, <3>3, StatusRow
    <3>5. Sent(c)' \subseteq Sent(c)
      BY <2>1, <3>2, <3>3, <3>4 DEF Sent
    <3> QED
      BY <3>5
  <2> QED
    BY <2>2, <2>3, <2>4, <2>5
<1>2. CASE OperationStep(c)
  <2>1. ASSUME NEW exception, BuilderRaises(c, exception)
        PROVE  Sent(c)' = {}
    BY <1>0, <2>1, SentNone DEF BuilderRaises, Stopped
  <2>2. CASE RequestLogRaises(c)
    BY <1>0, <2>2, SentNone DEF RequestLogRaises, Escapes
  <2>3. CASE IssueRequests(c)
    <3>1. PICK requests \in NewRequests(c) : BeginOperation(c, requests)
      BY <2>3 DEF IssueRequests
    <3>2. requests \in Seq(Status) /\ reqs[c] \in Seq(Seq(Status)) /\ Len(reqs[c]) = step[c]
      BY <2>3, <3>1, NewRequestsType DEF IssueRequests, TypeInv, TypeOK
    <3>3. reqs'[c][step'[c]] = requests
      <4>1. step'[c] = step[c] + 1 /\ reqs'[c] = Append(reqs[c], requests)
        BY <1>0, <3>1 DEF BeginOperation
      <4> QED
        BY <3>2, <4>1, AppendProperties
    <3>4. \A j \in DOMAIN requests : requests[j] = "queued"
      BY <3>1 DEF NewRequests
    <3>5. Sent(c)' = {}
      BY <3>3, <3>4 DEF Sent, Items
    <3> QED
      BY <3>5
  <2>4. CASE OperationStops(c) \/ OperationReturns(c)
    BY <1>0, <2>4, SentNone DEF OperationStops, OperationReturns, Stopped
  <2> QED
    BY <1>2, <2>1, <2>2, <2>3, <2>4 DEF OperationStep
<1>3. CASE CallbackStep(c)
  BY <1>0, <1>3, SentNone DEF CallbackStep, StartCallback, RunInExecutor, CallbackReturns,
                              CallbackRaises, CallbackCancelled, Stopped, Escapes
<1>4. CASE Note(c)
  BY <1>4, SentSame DEF Note
<1>5. CASE FinishStep(c)
  <2>1. CASE FinishChain(c) \/ EndChain(c)
    BY <1>0, <2>1, SentNone DEF FinishChain, EndChain
  <2>2. ASSUME NEW i, FlushResult(c, i)
        PROVE  Sent(c)' = Sent(c)
    BY <2>2, SentSame DEF FlushResult
  <2> QED
    BY <1>5, <2>1, <2>2 DEF FinishStep
<1> QED
  BY <1>1, <1>2, <1>3, <1>4, <1>5 DEF ChainStep

(***************************************************************************)
(* Cardinality is a number only of a finite set: that the requests on the  *)
(* wire are finitely many belongs to the invariant.                        *)
(***************************************************************************)
SlotInv == IsFiniteSet(InFlight) /\ InFlightBounded

LEMMA FewerInFlight ==
  ASSUME SlotInv, InFlight' \subseteq InFlight
  PROVE  SlotInv'
<1> DEFINE Next_ == InFlight'
<1>1. IsFiniteSet(Next_) /\ Cardinality(Next_) <= Cardinality(InFlight)
  BY FS_Subset DEF SlotInv
<1>2. Cardinality(Next_) \in Nat /\ Cardinality(InFlight) \in Nat /\ MaxRequests \in Nat
  BY <1>1, FS_CardinalityType, LimitAssumption DEF SlotInv
<1>3. Cardinality(Next_) <= MaxRequests
  BY <1>1, <1>2 DEF SlotInv, InFlightBounded
<1> QED
  BY <1>1, <1>3 DEF SlotInv, InFlightBounded

LEMMA OneMoreInFlight ==
  ASSUME SlotInv, SlotFree, NEW r, InFlight' \subseteq InFlight \cup {r}
  PROVE  SlotInv'
<1> DEFINE Next_ == InFlight'
           more  == InFlight \cup {r}
<1>1. IsFiniteSet(more)
      /\ Cardinality(more) = IF r \in InFlight THEN Cardinality(InFlight)
                             ELSE Cardinality(InFlight) + 1
  BY FS_AddElement DEF SlotInv
<1>2. Cardinality(InFlight) \in Nat /\ MaxRequests \in Nat
  BY FS_CardinalityType, LimitAssumption DEF SlotInv
<1> HIDE DEF more
<1>3. IsFiniteSet(Next_) /\ Cardinality(Next_) <= Cardinality(more)
  BY <1>1, FS_Subset DEF more
<1>4. Cardinality(Next_) \in Nat /\ Cardinality(more) \in Nat
  BY <1>1, <1>3, FS_CardinalityType
<1>5. Cardinality(Next_) <= MaxRequests
  BY <1>1, <1>2, <1>3, <1>4 DEF SlotFree
<1> QED
  BY <1>3, <1>5 DEF SlotInv, InFlightBounded

\* No more than MaxRequests requests are on the wire, for any number of chains
\* and of requests per node: the semaphore of the driver is the only way out
\* and nothing between two awaits sends a request without it.
THEOREM InFlightLimit == Spec => []InFlightBounded
<1>1. Init => SlotInv
  <2> SUFFICES ASSUME Init PROVE SlotInv
    OBVIOUS
  <2>1. InFlight = {}
    BY DEF Init, InFlight, Sent
  <2>2. IsFiniteSet(InFlight) /\ Cardinality(InFlight) = 0
    BY <2>1, FS_EmptySet
  <2> QED
    BY <2>2, LimitAssumption DEF SlotInv, InFlightBounded
<1>2. TypeInv /\ SlotInv /\ [Next]_vars => SlotInv'
  <2> SUFFICES ASSUME TypeInv, SlotInv, [Next]_vars PROVE SlotInv'
    OBVIOUS
  <2>1. CASE UNCHANGED vars
    <3>1. InFlight' = InFlight
      BY <2>1 DEF InFlight, Sent, Items, vars
    <3> QED
      BY <3>1, FewerInFlight
  <2>2. ASSUME NEW c \in Chain, ChainStep(c)
        PROVE  SlotInv'
    <3>1. \A d \in Chain : d # c => Sent(d)' = Sent(d)
      BY <2>2, Elsewhere, SentSame DEF SameChain
    <3>2. CASE Sent(c)' \subseteq Sent(c)
      <4>1. InFlight' \subseteq InFlight
        BY <3>1, <3>2 DEF InFlight
      <4> QED
        BY <4>1, FewerInFlight
    <3>3. ASSUME SlotFree, NEW i, Sent(c)' \subseteq Sent(c) \cup {i}
          PROVE  SlotInv'
      <4>1. InFlight' \subseteq InFlight \cup {<<c, i>>}
        BY <3>1, <3>3 DEF InFlight
      <4> QED
        BY <3>3, <4>1, OneMoreInFlight
    <3> QED
      BY <2>2, <3>2, <3>3, SentStep
  <2> QED
    BY <2>1, <2>2, StepOfAChain
<1>3. SlotInv => InFlightBounded
  BY DEF SlotInv
<1> QED
  BY <1>1, <1>2, <1>3, TypeInvariant, PTL DEF Spec
=============================================================================
