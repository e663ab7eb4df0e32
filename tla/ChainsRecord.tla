---------------------------- MODULE ChainsRecord ----------------------------
(***************************************************************************)
(* What a batch leaves on record, whatever its chains do at the same time: *)
(* the [RESULT] lines of the writes the server confirmed, no more and no   *)
(* less, and the failure that tells of everything else.  That is also what *)
(* makes every step of the chains a step of the abstract batch.            *)
(***************************************************************************)
EXTENDS ChainsProofs

USE DEF Failed, Answers, Status

(***************************************************************************)
(* Where a confirmed write of chain c is to be found: in the log, or in    *)
(* the queue of the chain.  It is settled once its node has returned.      *)
(***************************************************************************)
InLog(c, s, i) ==
  \E k \in DOMAIN log : /\ log[k].kind = "result" /\ log[k].chain = c
                        /\ log[k].step = s /\ log[k].item = i

InQueue(c, s, i) ==
  \E k \in DOMAIN queued[c] : queued[c][k].step = s /\ i \in queued[c][k].items

Settled(c, s, i) ==
  /\ s \in 1..step[c] /\ Past(c, s) /\ Writing(c, s)
  /\ i \in DOMAIN reqs[c][s] /\ reqs[c][s][i] = "ok"

\* Every settled write is in the log or in the queue, in one of them only, and
\* nothing else is there.
Books(c) ==
  \A s, i \in Nat :
    /\ InLog(c, s, i) \/ InQueue(c, s, i) <=> Settled(c, s, i)
    /\ ~(InLog(c, s, i) /\ InQueue(c, s, i))

\* The queue holds one entry per node, in the order of the nodes.
QueueInOrder(c) ==
  /\ \A k \in DOMAIN queued[c] : queued[c][k].step \in 1..step[c] /\ Past(c, queued[c][k].step)
  /\ \A j, k \in DOMAIN queued[c] : j < k => queued[c][j].step < queued[c][k].step

\* The server has carried out every write it confirmed, and only writes that
\* were sent; the requests of a node the chain has left are all answered.
Served(c) ==
  /\ \A s \in 1..step[c] : \A i \in DOMAIN reqs[c][s] :
       /\ Writing(c, s) /\ reqs[c][s][i] = "ok" => <<c, s, i>> \in applied
       /\ Past(c, s) => reqs[c][s][i] \in Answers
  /\ \A w \in applied : w[1] = c =>
       /\ w[2] \in 1..step[c] /\ w[3] \in DOMAIN reqs[c][w[2]]
       /\ reqs[c][w[2]][w[3]] # "queued"

\* The nodes behind a chain at which a request failed.
Bad(c) == { s \in 1..step[c] : Past(c, s) /\ Errors(reqs[c][s]) # {} }

Named(c, s) == [step |-> s, category |-> Classify(reqs[c][s][LeastOf(Errors(reqs[c][s]))])]

Accused(c) ==
  IF Bad(c) # {} THEN failure[c] = Named(c, LeastOf(Bad(c)))
  ELSE failure[c] # NoFailure => result[c] = "error" /\ failure[c].step = step[c]

\* What the result of a chain says about where it is.
Left(c) ==
  /\ result[c] = "error" => pc[c] \in {"flushing", "done"}
  /\ result[c] = "raised" => pc[c] = "done"
  /\ pc[c] = "done" /\ result[c] # "raised" => queued[c] = <<>>

Recorded(c) == Books(c) /\ QueueInOrder(c) /\ Served(c) /\ Accused(c) /\ Left(c)

RecordInv == \A c \in Chain : Recorded(c)

(***************************************************************************)
(* The smallest member of a set of numbers (LeastOf), by counting: without *)
(* one, n |-> n - 1 would be an injection of a finite set into itself that *)
(* misses a member of it.                                                  *)
(***************************************************************************)
LEMMA LeastExists ==
  ASSUME NEW T \in SUBSET Nat, T # {}
  PROVE  LeastOf(T) \in T /\ \A j \in T : LeastOf(T) <= j
<1>1. \E i \in T : \A j \in T : i <= j
  <2> SUFFICES ASSUME \A i \in T : \E j \in T : j < i
               PROVE  FALSE
    OBVIOUS
  <2> PICK top \in T : TRUE
    OBVIOUS
  <2> DEFINE Above == { n \in 0..top : \E i \in T : i <= n }
             below == [n \in Above |-> n - 1]
  <2>1. top \in Above
    OBVIOUS
  <2>2. \A n \in Above : n - 1 \in Above /\ n - 1 # top
    <3> SUFFICES ASSUME NEW n \in Above PROVE n - 1 \in Above /\ n - 1 # top
      OBVIOUS
    <3>1. PICK i \in T : i <= n
      OBVIOUS
    <3>2. PICK j \in T : j < i
      OBVIOUS
    <3>3. n \in 0..top /\ i \in Nat /\ j \in Nat /\ top \in Nat /\ j <= n - 1
      BY <3>1, <3>2
    <3> QED
      BY <3>3
  <2>3. IsFiniteSet(Above)
    <3>1. IsFiniteSet(0..top)
      BY FS_Interval
    <3> QED
      BY <3>1, FS_Subset
  <2>4. below \in Injection(Above, Above)
    <3>1. \A n \in Above : n \in Nat
      OBVIOUS
    <3> HIDE DEF Above
    <3>2. below \in [Above -> Above]
      BY <2>2
    <3>3. \A m, n \in Above : below[m] = below[n] => m = n
      BY <3>1
    <3> HIDE DEF below
    <3> QED
      BY <3>2, <3>3 DEF Injection, IsInjective
  <2> HIDE DEF Above
  <2>5. below \in Surjection(Above, Above)
    <3> HIDE DEF below
    <3> QED
      BY <2>3, <2>4, FS_Injection
  <2> QED
    BY <2>1, <2>2, <2>5 DEF Surjection
<1> QED
  BY <1>1 DEF LeastOf

\* A larger number does not change it.
LEMMA LeastStays ==
  ASSUME NEW T \in SUBSET Nat, T # {}, NEW n \in Nat, \A j \in T : j < n
  PROVE  LeastOf(T \cup {n}) = LeastOf(T)
<1> DEFINE More == T \cup {n}
           before == LeastOf(T)
           after  == LeastOf(More)
<1>1. before \in T /\ \A j \in T : before <= j
  BY LeastExists
<1>2. after \in More /\ \A j \in More : after <= j
  BY LeastExists
<1>3. before = after
  <2> HIDE DEF before, after
  <2> QED
    BY <1>1, <1>2
<1> QED
  BY <1>3

LEMMA LeastOfOne ==
  ASSUME NEW n \in Nat
  PROVE  LeastOf({n}) = n
BY LeastExists

(***************************************************************************)
(* The log: only FlushResult adds a [RESULT] line.                         *)
(***************************************************************************)
LEMMA InLogAppend ==
  ASSUME log \in Seq(Line), NEW line \in Line, log' = Append(log, line),
         NEW c, NEW s, NEW i
  PROVE  InLog(c, s, i)' <=>
           \/ InLog(c, s, i)
           \/ /\ line.kind = "result" /\ line.chain = c
              /\ line.step = s /\ line.item = i
<1>1. /\ Len(log) \in Nat /\ DOMAIN log = 1..Len(log)
      /\ DOMAIN log' = 1..(Len(log) + 1)
      /\ \A k \in 1..Len(log) : log'[k] = log[k]
      /\ log'[Len(log) + 1] = line
  BY AppendProperties, LenProperties
<1>2. DOMAIN log' = DOMAIN log \cup {Len(log) + 1}
  BY <1>1
<1> QED
  BY <1>1, <1>2 DEF InLog

LEMMA WriteLineLog ==
  ASSUME log \in Seq(Line), NEW kind \in {"line", "error"}, NEW c \in Chain,
         NEW s \in Nat, NEW n \in Nat, WriteLine(kind, c, s, n),
         NEW d, NEW t, NEW i
  PROVE  InLog(d, t, i)' <=> InLog(d, t, i)
<1> DEFINE line == [kind |-> kind, chain |-> c, step |-> s, item |-> n]
<1>1. line \in Line /\ line.kind # "result"
  BY DEF Line
<1>2. log' = Append(log, line)
  BY DEF WriteLine
<1> HIDE DEF line
<1> QED
  BY <1>1, <1>2, InLogAppend

Flushes(c) == queued[c] # <<>> /\ \E i \in Head(queued[c]).items : FlushResult(c, i)

LEMMA LogStep ==
  ASSUME TypeInv, NEW c \in Chain, ChainStep(c), ~Flushes(c), NEW d, NEW t, NEW i
  PROVE  InLog(d, t, i)' <=> InLog(d, t, i)
<1>0. /\ log \in Seq(Line) /\ step[c] \in Nat /\ segments[c] \in Nat
      /\ segments \in [Chain -> Nat]
  BY DEF TypeInv, TypeOK
<1>1. ASSUME UNCHANGED log
      PROVE  InLog(d, t, i)' <=> InLog(d, t, i)
  BY <1>1 DEF InLog
<1>2. CASE RequestStep(c)
  BY <1>1, <1>2 DEF RequestStep, Acquire, ServerApplies, Answer
<1>3. CASE OperationStep(c)
  <2>1. ASSUME NEW exception, BuilderRaises(c, exception)
        PROVE  InLog(d, t, i)' <=> InLog(d, t, i)
    <3>1. WriteLine("error", c, step[c] + 1, segments[c] + 1)
      BY <2>1 DEF BuilderRaises, Stopped
    <3> QED
      BY <1>0, <3>1, WriteLineLog
  <2>2. CASE OperationStops(c)
    <3>1. WriteLine("error", c, step[c], segments[c])
      BY <2>2 DEF OperationStops, Stopped
    <3> QED
      BY <1>0, <3>1, WriteLineLog
  <2> QED
    BY <1>1, <1>3, <2>1, <2>2 DEF OperationStep, RequestLogRaises, IssueRequests,
                                  OperationReturns, Escapes
<1>4. CASE CallbackStep(c)
  <2>1. CASE CallbackRaises(c)
    <3>1. WriteLine("error", c, step[c], segments'[c]) /\ segments'[c] \in Nat
      BY <1>0, <2>1 DEF CallbackRaises, Stopped, CallbackSegments
    <3> QED
      BY <1>0, <3>1, WriteLineLog
  <2> QED
    BY <1>1, <1>4, <2>1 DEF CallbackStep, StartCallback, RunInExecutor, CallbackReturns,
                            CallbackCancelled, Escapes
<1>5. CASE Note(c)
  <2> DEFINE note == [kind |-> "note", chain |-> c, step |-> step[c], item |-> 0]
  <2>1. note \in Line /\ note.kind # "result" /\ log' = Append(log, note)
    BY <1>0, <1>5 DEF Note, Line
  <2> HIDE DEF note
  <2> QED
    BY <1>0, <2>1, InLogAppend
<1>6. CASE FinishStep(c)
  <2>1. CASE FinishChain(c)
    <3>1. WriteLine("line", c, step[c], segments'[c]) /\ segments'[c] \in Nat
      BY <1>0, <2>1 DEF FinishChain
    <3> QED
      BY <1>0, <3>1, WriteLineLog
  <2> QED
    BY <1>1, <1>6, <2>1 DEF FinishStep, Flushes, EndChain
<1> QED
  BY <1>2, <1>3, <1>4, <1>5, <1>6 DEF ChainStep

(***************************************************************************)
(* What a step does to the nodes behind a chain.  They stay behind it with *)
(* the requests they have; what comes to be behind it is a node that never *)
(* sent a request, or the one whose answers are being handled.             *)
(***************************************************************************)
Behind(c, s) == s \in 1..step[c] /\ Past(c, s)

LEMMA StaysBehind ==
  ASSUME TypeInv, NEW c \in Chain, ChainStep(c), NEW s, Behind(c, s)
  PROVE  Behind(c, s)' /\ reqs'[c][s] = reqs[c][s]
<1> USE DEF Behind, Past
<1>0. /\ step \in [Chain -> Nat]
      /\ pc \in [Chain -> {"ready", "waiting", "submitted", "callback", "flushing", "done"}]
  BY DEF TypeInv, TypeOK
<1>1. reqs'[c][s] = reqs[c][s]
  BY PastIsKept DEF SameRow
<1>2. CASE step'[c] = step[c] /\ (pc'[c] = "waiting" => pc[c] = "waiting")
  BY <1>1, <1>2
<1>3. CASE step'[c] = step[c] + 1
  BY <1>0, <1>1, <1>3
<1>4. CASE RequestStep(c)
  BY <1>2, <1>4 DEF RequestStep, Acquire, ServerApplies, Answer
<1>5. CASE OperationStep(c)
  <2>1. ASSUME NEW exception, BuilderRaises(c, exception)
        PROVE  step'[c] = step[c] + 1
    BY <1>0, <2>1 DEF BuilderRaises, BeginOperation
  <2>2. CASE RequestLogRaises(c) \/ IssueRequests(c)
    BY <1>0, <1>3, <2>2 DEF RequestLogRaises, IssueRequests, BeginOperation
  <2>3. CASE OperationStops(c) \/ OperationReturns(c)
    BY <1>0, <1>2, <2>3 DEF OperationStops, OperationReturns, Resumes, Stopped
  <2> QED
    BY <1>3, <1>5, <2>1, <2>2, <2>3 DEF OperationStep
<1>6. CASE CallbackStep(c)
  <2>1. CASE StartCallback(c)
    BY <1>0, <1>3, <2>1 DEF StartCallback
  <2>2. CASE RunInExecutor(c) \/ CallbackReturns(c) \/ CallbackRaises(c) \/ CallbackCancelled(c)
    BY <1>0, <1>2, <2>2 DEF RunInExecutor, CallbackReturns, CallbackRaises, CallbackCancelled,
                            CallbackEnds, Stopped, Escapes
  <2> QED
    BY <1>6, <2>1, <2>2 DEF CallbackStep
<1>7. CASE Note(c) \/ FinishStep(c)
  BY <1>0, <1>2, <1>7 DEF Note, FinishStep, FinishChain, FlushResult, EndChain
<1> QED
  BY <1>4, <1>5, <1>6, <1>7 DEF ChainStep

Handles(c) == OperationStops(c) \/ OperationReturns(c)

LEMMA ComesBehind ==
  ASSUME TypeInv, NEW c \in Chain, ChainStep(c), NEW s, Behind(c, s)', ~Behind(c, s)
  PROVE  \/ s = step[c] + 1 /\ step'[c] = step[c] + 1 /\ reqs'[c][s] = <<>>
         \/ s = step[c] /\ step'[c] = step[c] /\ reqs'[c][s] = reqs[c][s] /\ Handles(c)
<1> USE DEF Behind, Past
<1>0. /\ step \in [Chain -> Nat] /\ step[c] \in Nat
      /\ pc \in [Chain -> {"ready", "waiting", "submitted", "callback", "flushing", "done"}]
      /\ reqs \in [Chain -> Seq(Seq(Status))] /\ reqs[c] \in Seq(Seq(Status))
      /\ Len(reqs[c]) = step[c]
  BY DEF TypeInv, TypeOK
<1>1. CASE step'[c] = step[c] /\ (pc[c] = "waiting" => pc'[c] = "waiting")
  BY <1>1
<1>2. ASSUME step'[c] = step[c] + 1, pc[c] # "waiting"
      PROVE  s = step[c] + 1
  BY <1>0, <1>2
<1>3. ASSUME reqs' = [reqs EXCEPT ![c] = Append(@, <<>>)]
      PROVE  reqs'[c][step[c] + 1] = <<>>
  BY <1>0, <1>3, NoRequests, AppendProperties
<1>4. CASE RequestStep(c)
  BY <1>0, <1>1, <1>4 DEF RequestStep, Acquire, ServerApplies, Answer
<1>5. CASE OperationStep(c)
  <2>1. ASSUME NEW exception, BuilderRaises(c, exception)
        PROVE  s = step[c] + 1 /\ step'[c] = step[c] + 1 /\ reqs'[c][s] = <<>>
    BY <1>0, <1>2, <1>3, <2>1 DEF BuilderRaises, BeginOperation, AtOperation
  <2>2. CASE RequestLogRaises(c)
    BY <1>0, <1>2, <1>3, <2>2 DEF RequestLogRaises, BeginOperation, AtOperation
  <2>3. CASE IssueRequests(c)
    BY <1>0, <1>2, <2>3 DEF IssueRequests, BeginOperation, AtOperation
  <2>4. CASE Handles(c)
    <3>1. step' = step /\ reqs' = reqs
      BY <2>4 DEF Handles, OperationStops, OperationReturns, Resumes
    <3>2. s = step[c]
      BY <1>0, <3>1
    <3> QED
      BY <2>4, <3>1, <3>2
  <2> QED
    BY <1>5, <2>1, <2>2, <2>3, <2>4 DEF OperationStep, Handles
<1>6. CASE CallbackStep(c)
  <2>1. CASE StartCallback(c)
    BY <1>0, <1>2, <1>3, <2>1 DEF StartCallback
  <2>2. CASE RunInExecutor(c) \/ CallbackReturns(c) \/ CallbackRaises(c) \/ CallbackCancelled(c)
    BY <1>0, <1>1, <2>2 DEF RunInExecutor, CallbackReturns, CallbackRaises, CallbackCancelled,
                            CallbackEnds, Stopped, Escapes
  <2> QED
    BY <1>6, <2>1, <2>2 DEF CallbackStep
<1>7. CASE Note(c) \/ FinishStep(c)
  BY <1>0, <1>1, <1>7 DEF Note, FinishStep, FinishChain, FlushResult, EndChain
<1> QED
  BY <1>4, <1>5, <1>6, <1>7 DEF ChainStep

(***************************************************************************)
(* A node that stops its chain has one request, and that one failed.       *)
(***************************************************************************)
LEMMA SingleRequest ==
  ASSUME TypeInv, NEW c \in Chain, pc[c] = "waiting", ~Multi(c, step[c])
  PROVE  DOMAIN reqs[c][step[c]] \subseteq {1}
<1>1. /\ step[c] \in 1..Len(Program[c]) /\ Program[c][step[c]].kind = "operation"
      /\ reqs[c][step[c]] \in Seq(Status) /\ step[c] \in DOMAIN Program[c]
      /\ Len(reqs[c][step[c]]) <= Program[c][step[c]].size
  BY WaitingAt DEF Node
<1>2. Len(reqs[c][step[c]]) \in Nat /\ DOMAIN reqs[c][step[c]] = 1..Len(reqs[c][step[c]])
  BY <1>1, LenProperties
<1>3. Program[c][step[c]].size \in Nat
  BY <1>1, OperationType
<1>4. Len(reqs[c][step[c]]) <= 1
  <2>1. CASE Program[c][step[c]].lazy
    BY <1>2, <2>1 DEF Multi
  <2>2. CASE ~Program[c][step[c]].lazy
    <3>1. ~Program[c][step[c]].list
      BY DEF Multi
    <3>2. Program[c][step[c]].size = 1
      BY <1>1, <2>2, <3>1, ProgramAssumption
    <3> QED
      BY <1>1, <1>2, <3>2
  <2> QED
    BY <2>1, <2>2
<1> QED
  BY <1>2, <1>4

LEMMA NothingConfirmed ==
  ASSUME TypeInv, NEW c \in Chain, OperationStops(c), NEW i \in DOMAIN reqs[c][step[c]]
  PROVE  reqs[c][step[c]][i] \in Failed
<1>1. pc[c] = "waiting" /\ ~Multi(c, step[c]) /\ Errors(reqs[c][step[c]]) # {}
  BY DEF OperationStops, Resumes, Stops
<1>2. DOMAIN reqs[c][step[c]] \subseteq {1}
  BY <1>1, SingleRequest
<1> QED
  BY <1>1, <1>2 DEF Errors

(***************************************************************************)
(* The books of a chain: what is settled, what the queue gains, and what   *)
(* goes from the queue to the log.                                         *)
(***************************************************************************)
LEMMA SettledKept ==
  ASSUME TypeInv, NEW c \in Chain, ChainStep(c), NEW s, NEW i, Settled(c, s, i)
  PROVE  Settled(c, s, i)'
<1>1. Behind(c, s)
  BY DEF Settled, Behind
<1>2. Behind(c, s)' /\ reqs'[c][s] = reqs[c][s]
  BY <1>1, StaysBehind
<1> QED
  BY <1>2 DEF Settled, Behind, Writing

LEMMA SettledNew ==
  ASSUME TypeInv, NEW c \in Chain, ChainStep(c), NEW s, NEW i,
         Settled(c, s, i)', ~Settled(c, s, i)
  PROVE  /\ OperationReturns(c) /\ s = step[c] /\ Writing(c, s)
         /\ i \in DOMAIN reqs[c][s] /\ reqs[c][s][i] = "ok"
<1>1. /\ Behind(c, s)' /\ Writing(c, s)
      /\ i \in DOMAIN reqs'[c][s] /\ reqs'[c][s][i] = "ok"
  BY DEF Settled, Behind, Writing
<1>2. ~Behind(c, s)
  <2>1. Behind(c, s) => reqs'[c][s] = reqs[c][s]
    BY StaysBehind
  <2> QED
    BY <1>1, <2>1 DEF Settled, Behind
<1>3. reqs'[c][s] # <<>>
  BY <1>1
<1>4. s = step[c] /\ reqs'[c][s] = reqs[c][s] /\ Handles(c)
  BY <1>1, <1>2, <1>3, ComesBehind
<1>5. ~OperationStops(c)
  BY <1>1, <1>4, NothingConfirmed
<1> QED
  BY <1>1, <1>4, <1>5 DEF Handles

LEMMA QueueStep ==
  ASSUME NEW c \in Chain, ChainStep(c), ~Flushes(c), ~OperationReturns(c)
  PROVE  UNCHANGED queued
<1>1. CASE RequestStep(c)
  BY <1>1 DEF RequestStep, Acquire, ServerApplies, Answer
<1>2. CASE OperationStep(c)
  BY <1>2 DEF OperationStep, BuilderRaises, RequestLogRaises, IssueRequests, BeginOperation,
              OperationStops
<1>3. CASE CallbackStep(c)
  BY <1>3 DEF CallbackStep, StartCallback, RunInExecutor, CallbackReturns, CallbackRaises,
              CallbackCancelled, CallbackEnds
<1>4. CASE Note(c) \/ FinishStep(c)
  BY <1>4 DEF Note, FinishStep, FinishChain, Flushes, EndChain
<1> QED
  BY <1>1, <1>2, <1>3, <1>4 DEF ChainStep

Entry == [step : Nat, items : SUBSET Nat]

LEMMA QueueType ==
  ASSUME TypeInv, NEW c \in Chain
  PROVE  /\ queued \in [Chain -> Seq(Entry)]
         /\ queued[c] \in Seq(Entry)
         /\ Len(queued[c]) \in Nat /\ DOMAIN queued[c] = 1..Len(queued[c])
         /\ \A k \in DOMAIN queued[c] : queued[c][k] \in Entry
<1>1. queued \in [Chain -> Seq(Entry)] /\ queued[c] \in Seq(Entry)
  BY DEF TypeInv, TypeOK, Entry
<1> QED
  BY <1>1, LenProperties, ElementOfSeq

\* A node that returns puts one entry at the end of the queue, or none.
LEMMA QueueGrows ==
  ASSUME TypeInv, NEW c \in Chain, OperationReturns(c)
  PROVE  /\ \/ queued'[c] = queued[c]
            \/ queued'[c] = Append(queued[c], [step  |-> step[c],
                                               items |-> Succeeded(reqs[c][step[c]])])
         /\ \A s, i : InQueue(c, s, i)' <=>
              \/ InQueue(c, s, i)
              \/ s = step[c] /\ Program[c][s].write /\ i \in Succeeded(reqs[c][s])
<1> DEFINE answers == reqs[c][step[c]]
           lines   == ResultLines(c, step[c], answers)
           new     == [step |-> step[c], items |-> Succeeded(answers)]
<1>0. pc[c] = "waiting"
  BY DEF OperationReturns, Resumes
<1>1. queued'[c] = queued[c] \o lines
  BY QueueType DEF OperationReturns
<1>2. queued[c] \in Seq(Entry) /\ Len(queued[c]) \in Nat /\ DOMAIN queued[c] = 1..Len(queued[c])
  BY QueueType
<1>3. lines \in Seq(Entry)
  BY <1>0, ResultLinesType DEF Entry
<1>4. CASE Program[c][step[c]].write /\ Succeeded(answers) # {}
  <2>1. lines = <<new>>
    BY <1>4 DEF ResultLines
  <2>2. new \in Entry
    <3>1. <<new>>[1] \in Entry
      BY <1>3, <2>1, ElementOfSeq
    <3> QED
      BY <3>1
  <2> HIDE DEF lines
  <2>3. queued'[c] = Append(queued[c], new)
    <3> HIDE DEF new
    <3> QED
      BY <1>1, <1>2, <2>1, <2>2, AppendIsConcat
  <2>4. /\ DOMAIN queued'[c] = DOMAIN queued[c] \cup {Len(queued[c]) + 1}
        /\ \A k \in DOMAIN queued[c] : queued'[c][k] = queued[c][k]
        /\ queued'[c][Len(queued[c]) + 1] = new
    <3> HIDE DEF new
    <3>1. /\ queued'[c] \in Seq(Entry) /\ Len(queued'[c]) = Len(queued[c]) + 1
          /\ \A k \in 1..Len(queued[c]) : queued'[c][k] = queued[c][k]
          /\ queued'[c][Len(queued[c]) + 1] = new
      BY <1>2, <2>2, <2>3, AppendProperties
    <3>2. DOMAIN queued'[c] = 1..Len(queued'[c])
      BY <3>1, LenProperties
    <3> QED
      BY <1>2, <3>1, <3>2
  <2>5. ASSUME NEW s, NEW i
        PROVE  InQueue(c, s, i)' <=>
                 \/ InQueue(c, s, i)
                 \/ s = step[c] /\ Program[c][s].write /\ i \in Succeeded(reqs[c][s])
    BY <1>4, <2>4 DEF InQueue
  <2> QED
    BY <2>3, <2>5
<1>5. CASE ~(Program[c][step[c]].write /\ Succeeded(answers) # {})
  <2>1. lines = <<>>
    BY <1>5 DEF ResultLines
  <2> HIDE DEF lines
  <2>2. queued'[c] = queued[c]
    BY <1>1, <1>2, <2>1, ConcatEmptySeq
  <2> QED
    BY <1>5, <2>2 DEF InQueue
<1> QED
  BY <1>4, <1>5

\* What flushing a line leaves: the queue without its first entry, or with one
\* request less in it.
Shortened(q, r, i) ==
  /\ q[1].items = {i}
  /\ DOMAIN r = 1..(Len(q) - 1)
  /\ \A k \in 1..(Len(q) - 1) : r[k] = q[k + 1]

Reduced(q, r, i) ==
  /\ DOMAIN r = DOMAIN q
  /\ \A k \in DOMAIN q \ {1} : r[k] = q[k]
  /\ r[1].step = q[1].step
  /\ r[1].items = q[1].items \ {i}

LEMMA QueueShrinks ==
  ASSUME TypeInv, NEW c \in Chain, queued[c] # <<>>, NEW i \in Head(queued[c]).items,
         FlushResult(c, i)
  PROVE  /\ queued[c][1] = Head(queued[c]) /\ 1 \in DOMAIN queued[c]
         /\ Shortened(queued[c], queued'[c], i) \/ Reduced(queued[c], queued'[c], i)
<1> DEFINE q    == queued[c]
           r    == queued'[c]
           node == Head(q)
           rest == Tail(q)
           left == [node EXCEPT !.items = @ \ {i}]
<1>1. queued \in [Chain -> Seq(Entry)] /\ q \in Seq(Entry) /\ Len(q) \in Nat
      /\ DOMAIN q = 1..Len(q) /\ q # <<>>
  BY QueueType
<1>2. r = IF node.items = {i} THEN rest ELSE <<left>> \o rest
  BY <1>1 DEF FlushResult
<1>3. node = q[1]
  OBVIOUS
<1> HIDE DEF q, r
<1>4. /\ node \in Entry /\ rest \in Seq(Entry) /\ Len(rest) = Len(q) - 1
      /\ \A k \in 1..Len(rest) : rest[k] = q[k + 1]
  BY <1>1, HeadTailProperties
<1>5. Len(q) \in Nat \ {0} /\ DOMAIN rest = 1..(Len(q) - 1) /\ 1 \in DOMAIN q
  BY <1>1, <1>4, EmptySeq, LenProperties
<1>6. CASE node.items = {i}
  <2>1. r = rest
    BY <1>2, <1>6
  <2> HIDE DEF rest
  <2>2. DOMAIN r = 1..(Len(q) - 1) /\ \A k \in 1..(Len(q) - 1) : r[k] = q[k + 1]
    BY <1>4, <1>5, <2>1
  <2>3. Shortened(q, r, i)
    BY <1>3, <1>6, <2>2 DEF Shortened
  <2> QED
    BY <1>3, <1>5, <2>3 DEF q, r
<1>7. CASE node.items # {i}
  <2>1. left \in Entry /\ left.step = node.step /\ left.items = node.items \ {i}
    BY <1>4 DEF Entry
  <2> HIDE DEF left, node, rest
  <2>2. r = <<left>> \o rest
    BY <1>2, <1>7
  <2>3. <<left>> \in Seq(Entry) /\ Len(<<left>>) = 1 /\ <<left>>[1] = left
    BY <2>1
  <2>4. /\ r \in Seq(Entry) /\ Len(r) = 1 + Len(rest)
        /\ \A k \in 1..(1 + Len(rest)) : r[k] = IF k <= 1 THEN <<left>>[k] ELSE rest[k - 1]
    BY <1>4, <2>2, <2>3, ConcatProperties
  <2>5. DOMAIN r = 1..Len(q) /\ r[1] = left
    BY <1>4, <1>5, <2>3, <2>4, LenProperties
  <2>6. \A k \in 2..Len(q) : r[k] = q[k]
    BY <1>4, <1>5, <2>4
  <2>7. Reduced(q, r, i)
    BY <1>1, <1>3, <2>1, <2>5, <2>6 DEF Reduced
  <2> QED
    BY <1>3, <1>5, <2>7 DEF q, r, node
<1> QED
  BY <1>6, <1>7

\* A line moves from the queue to the log.
LEMMA FlushMoves ==
  ASSUME TypeInv, NEW c \in Chain, QueueInOrder(c),
         queued[c] # <<>>, NEW i \in Head(queued[c]).items, FlushResult(c, i)
  PROVE  LET n == Head(queued[c]).step
         IN  /\ n \in Nat /\ i \in Nat /\ InQueue(c, n, i)
             /\ \A s, j : InQueue(c, s, j)' <=> InQueue(c, s, j) /\ ~(s = n /\ j = i)
             /\ \A d, s, j : InLog(d, s, j)' <=>
                  InLog(d, s, j) \/ (d = c /\ s = n /\ j = i)
             /\ QueueInOrder(c)'
<1> DEFINE n == Head(queued[c]).step
           q == queued[c]
           r == queued'[c]
<1>1. Shortened(q, r, i) \/ Reduced(q, r, i)
  BY QueueShrinks
<1>2. /\ q[1] = Head(q) /\ 1 \in DOMAIN q
      /\ n = q[1].step /\ i \in q[1].items
  BY QueueShrinks
<1>3. /\ Len(q) \in Nat /\ DOMAIN q = 1..Len(q)
      /\ \A k \in DOMAIN q : q[k] \in Entry
  BY QueueType
<1>4. n \in Nat /\ i \in Nat
  BY <1>2, <1>3 DEF Entry
<1>5. \A k \in DOMAIN q : k # 1 => q[1].step < q[k].step
  BY <1>3, <1>2 DEF QueueInOrder
<1>6. \A k \in DOMAIN q \ {1} : q[k].step # n
  BY <1>2, <1>3, <1>5 DEF Entry
<1>7. ASSUME NEW s, NEW j
      PROVE  InQueue(c, s, j)' <=> InQueue(c, s, j) /\ ~(s = n /\ j = i)
  <2> DEFINE InQ == \E k \in DOMAIN q : q[k].step = s /\ j \in q[k].items
             InR == \E k \in DOMAIN r : r[k].step = s /\ j \in r[k].items
  <2>1. (InQueue(c, s, j) <=> InQ) /\ (InQueue(c, s, j)' <=> InR)
    BY DEF InQueue
  <2> HIDE DEF q, r, n
  <2>2. CASE Shortened(q, r, i)
    <3>1. ASSUME InR
          PROVE  InQ /\ ~(s = n /\ j = i)
      <4>1. PICK k \in 1..(Len(q) - 1) : r[k].step = s /\ j \in r[k].items
        BY <2>2, <3>1 DEF Shortened
      <4>2. r[k] = q[k + 1]
        BY <2>2 DEF Shortened
      <4>3. k + 1 \in DOMAIN q \ {1}
        BY <1>3
      <4> QED
        BY <1>6, <4>1, <4>2, <4>3
    <3>2. ASSUME InQ, ~(s = n /\ j = i)
          PROVE  InR
      <4>1. PICK k \in DOMAIN q : q[k].step = s /\ j \in q[k].items
        BY <3>2
      <4>2. k # 1
        BY <1>2, <2>2, <3>2, <4>1 DEF Shortened
      <4>3. k - 1 \in 1..(Len(q) - 1) /\ (k - 1) + 1 = k
        BY <1>3, <4>1, <4>2
      <4>4. r[k - 1] = q[k]
        BY <2>2, <4>3 DEF Shortened
      <4> QED
        BY <2>2, <4>1, <4>3, <4>4 DEF Shortened
    <3> QED
      BY <3>1, <3>2, <2>1
  <2>3. CASE Reduced(q, r, i)
    <3>1. InR <=> InQ /\ ~(s = n /\ j = i)
      BY <1>2, <1>6, <2>3 DEF Reduced
    <3> QED
      BY <3>1, <2>1
  <2> QED
    BY <1>1, <2>2, <2>3
<1>8. ASSUME NEW d, NEW s, NEW j
      PROVE  InLog(d, s, j)' <=> InLog(d, s, j) \/ (d = c /\ s = n /\ j = i)
  <2> DEFINE line == [kind |-> "result", chain |-> c, step |-> n, item |-> i]
  <2>1. line \in Line /\ log' = Append(log, line) /\ log \in Seq(Line)
    BY <1>4 DEF FlushResult, Line, TypeInv, TypeOK
  <2>2. line.kind = "result" /\ line.chain = c /\ line.step = n /\ line.item = i
    OBVIOUS
  <2> HIDE DEF line, n
  <2> QED
    BY <2>1, <2>2, InLogAppend
<1>9. QueueInOrder(c)'
  <2>1. step' = step /\ pc' = pc
    BY DEF FlushResult
  <2> DEFINE Ordered(x) ==
        /\ \A k \in DOMAIN x : x[k].step \in 1..step[c] /\ Past(c, x[k].step)
        /\ \A j, k \in DOMAIN x : j < k => x[j].step < x[k].step
  <2>2. Ordered(q) /\ (Ordered(r) => QueueInOrder(c)')
    BY <2>1 DEF QueueInOrder, Past
  <2> HIDE DEF q, r
  <2>3. CASE Shortened(q, r, i)
    <3>1. \A k \in DOMAIN r : k \in Int /\ k + 1 \in DOMAIN q /\ r[k] = q[k + 1]
      BY <1>3, <2>3 DEF Shortened
    <3>2. \A j, k \in DOMAIN r : j < k => j + 1 < k + 1
      BY <3>1
    <3>3. Ordered(r)
      BY <2>2, <3>1, <3>2
    <3> QED
      BY <2>2, <3>3
  <2>4. CASE Reduced(q, r, i)
    <3>1. DOMAIN r = DOMAIN q /\ \A k \in DOMAIN q : r[k].step = q[k].step
      BY <1>2, <2>4 DEF Reduced
    <3>2. Ordered(r)
      BY <2>2, <3>1
    <3> QED
      BY <2>2, <3>2
  <2> QED
    BY <1>1, <2>3, <2>4
<1>10. InQueue(c, n, i)
  BY <1>2 DEF InQueue
<1> QED
  BY <1>4, <1>7, <1>8, <1>9, <1>10

LEMMA SettledSame ==
  ASSUME TypeInv, NEW c \in Chain, ChainStep(c), ~OperationReturns(c), NEW s, NEW i
  PROVE  Settled(c, s, i)' <=> Settled(c, s, i)
BY SettledKept, SettledNew DEF Settled

LEMMA BooksStep ==
  ASSUME TypeInv, NEW c \in Chain, ChainStep(c), Books(c), QueueInOrder(c)
  PROVE  Books(c)'
<1>1. CASE Flushes(c)
  <2>1. PICK i0 \in Head(queued[c]).items : FlushResult(c, i0) /\ queued[c] # <<>>
    BY <1>1 DEF Flushes
  <2> DEFINE n == Head(queued[c]).step
  <2>2. /\ n \in Nat /\ i0 \in Nat /\ InQueue(c, n, i0)
        /\ \A s, j : InQueue(c, s, j)' <=> InQueue(c, s, j) /\ ~(s = n /\ j = i0)
        /\ \A s, j : InLog(c, s, j)' <=> InLog(c, s, j) \/ (s = n /\ j = i0)
    BY <2>1, FlushMoves
  <2> HIDE DEF n
  <2>3. ~OperationReturns(c)
    BY <2>1 DEF FlushResult, OperationReturns, Resumes
  <2>4. ASSUME NEW s \in Nat, NEW i \in Nat
        PROVE  /\ InLog(c, s, i)' \/ InQueue(c, s, i)' <=> Settled(c, s, i)'
               /\ ~(InLog(c, s, i)' /\ InQueue(c, s, i)')
    <3>1. Settled(c, s, i)' <=> Settled(c, s, i)
      BY <2>3, SettledSame
    <3>2. (InLog(c, s, i) \/ InQueue(c, s, i) <=> Settled(c, s, i))
          /\ ~(InLog(c, s, i) /\ InQueue(c, s, i))
      BY DEF Books
    <3> QED
      BY <2>2, <3>1, <3>2
  <2> QED
    BY <2>4 DEF Books
<1>2. CASE OperationReturns(c)
  <2>1. /\ pc[c] = "waiting" /\ AllAnswered(c) /\ step' = step /\ reqs' = reqs
        /\ pc'[c] = "ready" /\ step[c] \in Nat /\ Node(c).kind = "operation"
        /\ step[c] \in 1..step[c]
    BY <1>2, WaitingAt DEF OperationReturns, Resumes, TypeInv, TypeOK
  <2>2. ~Flushes(c)
    BY <2>1 DEF Flushes, FlushResult
  <2>3. ASSUME NEW s \in Nat, NEW i \in Nat
        PROVE  /\ InLog(c, s, i)' \/ InQueue(c, s, i)' <=> Settled(c, s, i)'
               /\ ~(InLog(c, s, i)' /\ InQueue(c, s, i)')
    <3> DEFINE new == /\ s = step[c] /\ Writing(c, s)
                      /\ i \in DOMAIN reqs[c][s] /\ reqs[c][s][i] = "ok"
    <3>1. Settled(c, s, i)' <=> Settled(c, s, i) \/ new
      <4>1. new => Settled(c, s, i)'
        BY <2>1 DEF Settled, Past, Writing
      <4> QED
        BY <1>2, <4>1, SettledKept, SettledNew
    <3>2. InLog(c, s, i)' <=> InLog(c, s, i)
      BY <2>2, LogStep
    <3>3. InQueue(c, s, i)' <=> InQueue(c, s, i) \/ new
      <4>1. s = step[c] =>
              (Program[c][s].write /\ i \in Succeeded(reqs[c][s]) <=> new)
        BY <2>1 DEF AllAnswered, Items, Succeeded, Writing, Node
      <4> QED
        BY <1>2, <4>1, QueueGrows
    <3>4. new => ~Settled(c, s, i)
      BY <2>1 DEF Settled, Past
    <3>5. (InLog(c, s, i) \/ InQueue(c, s, i) <=> Settled(c, s, i))
          /\ ~(InLog(c, s, i) /\ InQueue(c, s, i))
      BY DEF Books
    <3> HIDE DEF new
    <3> QED
      BY <3>1, <3>2, <3>3, <3>4, <3>5
  <2> QED
    BY <2>3 DEF Books
<1>3. CASE ~Flushes(c) /\ ~OperationReturns(c)
  <2>1. ASSUME NEW s \in Nat, NEW i \in Nat
        PROVE  /\ Settled(c, s, i)' <=> Settled(c, s, i)
               /\ InLog(c, s, i)' <=> InLog(c, s, i)
               /\ InQueue(c, s, i)' <=> InQueue(c, s, i)
    <3>1. queued' = queued
      BY <1>3, QueueStep
    <3> QED
      BY <1>3, <3>1, SettledSame, LogStep DEF InQueue
  <2> QED
    BY <2>1 DEF Books
<1> QED
  BY <1>1, <1>2, <1>3

LEMMA QueueInOrderStep ==
  ASSUME TypeInv, NEW c \in Chain, ChainStep(c), QueueInOrder(c)
  PROVE  QueueInOrder(c)'
<1> DEFINE q == queued[c]
           r == queued'[c]
           Before(x) == \A k \in DOMAIN x : Behind(c, x[k].step)
           After(x)  == \A k \in DOMAIN x : \E s : s = x[k].step /\ Behind(c, s)'
           Sorted(x) == \A j, k \in DOMAIN x : j < k => x[j].step < x[k].step
<1>1. Before(q) /\ Sorted(q)
  BY DEF QueueInOrder, Behind
<1>2. After(q)
  BY <1>1, StaysBehind
<1>3. After(r) /\ Sorted(r) => QueueInOrder(c)'
  BY DEF QueueInOrder, Behind
<1>4. CASE Flushes(c)
  BY <1>4, FlushMoves DEF Flushes
<1>5. CASE OperationReturns(c)
  <2> DEFINE new == [step |-> step[c], items |-> Succeeded(reqs[c][step[c]])]
  <2>1. r = q \/ r = Append(q, new)
    BY <1>5, QueueGrows
  <2>2. pc[c] = "waiting" /\ pc'[c] = "ready" /\ step' = step /\ step[c] \in 1..step[c]
    BY <1>5, WaitingAt DEF OperationReturns, Resumes, TypeInv, TypeOK
  <2>3. /\ \E s : s = new.step /\ Behind(c, s)'
        /\ \A k \in DOMAIN q : q[k].step < new.step
    BY <1>1, <2>2 DEF Behind, Past
  <2>4. /\ q \in Seq(Entry) /\ Len(q) \in Nat /\ DOMAIN q = 1..Len(q)
        /\ new \in Entry
    <3>1. DOMAIN reqs[c][step[c]] \subseteq Nat
      BY <2>2, WaitingAt, LenProperties
    <3> QED
      BY <2>2, <3>1, QueueType DEF Entry, Succeeded
  <2> HIDE DEF q, r, new
  <2>5. CASE r = q
    BY <1>1, <1>2, <1>3, <2>5
  <2>6. CASE r = Append(q, new)
    <3>1. /\ DOMAIN r = 1..(Len(q) + 1)
          /\ \A k \in DOMAIN q : r[k] = q[k]
          /\ r[Len(q) + 1] = new
      BY <2>4, <2>6, AppendProperties, LenProperties
    <3>2. DOMAIN r = DOMAIN q \cup {Len(q) + 1}
      BY <2>4, <3>1
    <3>3. After(r)
      BY <1>2, <2>3, <3>1, <3>2
    <3>4. Sorted(r)
      <4> SUFFICES ASSUME NEW j \in DOMAIN r, NEW k \in DOMAIN r, j < k
                   PROVE  r[j].step < r[k].step
        OBVIOUS
      <4>1. j \in DOMAIN q
        BY <2>4, <3>2
      <4> QED
        BY <1>1, <2>3, <3>1, <3>2, <4>1
    <3> QED
      BY <1>3, <3>3, <3>4
  <2> QED
    BY <2>1, <2>5, <2>6
<1>6. CASE ~Flushes(c) /\ ~OperationReturns(c)
  BY <1>1, <1>2, <1>3, <1>6, QueueStep
<1> QED
  BY <1>4, <1>5, <1>6

(***************************************************************************)
(* The requests and the server.                                            *)
(***************************************************************************)
LEMMA RowType ==
  ASSUME TypeInv, NEW c \in Chain, NEW s \in 1..step[c]
  PROVE  reqs[c][s] \in Seq(Status) /\ DOMAIN reqs[c][s] \subseteq Nat
<1>1. reqs[c] \in Seq(Seq(Status)) /\ Len(reqs[c]) = step[c]
  BY DEF TypeInv, TypeOK
<1>2. reqs[c][s] \in Seq(Status)
  BY <1>1, ElementOfSeq
<1> QED
  BY <1>2, LenProperties

\* What can happen to the request i of the node a chain waits for.
Advances(c, i) ==
  LET old == reqs[c][step[c]][i]
      new == reqs'[c][step[c]][i]
  IN  \/ new = old
      \/ new = "sent"
      \/ new \in Answers /\ (new = "ok" /\ Writing(c, step[c]) => <<c, step[c], i>> \in applied)

LEMMA RequestRow ==
  ASSUME TypeInv, NEW c \in Chain, RequestStep(c)
  PROVE  /\ pc' = pc /\ step' = step /\ pc[c] = "waiting"
         /\ DOMAIN reqs'[c][step[c]] = Items(c)
         /\ \A i \in Items(c) : Advances(c, i)
<1>1. pc[c] = "waiting" /\ Node(c).kind = "operation"
  BY WaitingAt DEF RequestStep
<1>2. PICK i \in Items(c) : \/ Acquire(c, i)
                            \/ ServerApplies(c, i)
                            \/ \E answer \in Answers : Answer(c, i, answer)
  BY DEF RequestStep
<1>3. pc' = pc /\ step' = step
  BY <1>2 DEF Acquire, ServerApplies, Answer
<1>4. CASE Acquire(c, i)
  <2>1. reqs' = [reqs EXCEPT ![c][step[c]][i] = "sent"] /\ "sent" \in Status
    BY <1>4 DEF Acquire
  <2>2. /\ Items(c)' = Items(c)
        /\ \A j \in Items(c) :
             reqs'[c][step'[c]][j] = IF j = i THEN "sent" ELSE reqs[c][step[c]][j]
    BY <1>1, <1>3, <2>1, StatusRow
  <2> QED
    BY <1>1, <1>3, <2>2 DEF Advances, Items
<1>5. CASE ServerApplies(c, i)
  BY <1>1, <1>3, <1>5 DEF ServerApplies, Advances, Items
<1>6. CASE \E answer \in Answers : Answer(c, i, answer)
  <2>0. PICK answer \in Answers : Answer(c, i, answer)
    BY <1>6
  <2>1. reqs' = [reqs EXCEPT ![c][step[c]][i] = answer] /\ answer \in Status
    BY <2>0 DEF Answer
  <2>2. /\ Items(c)' = Items(c)
        /\ \A j \in Items(c) :
             reqs'[c][step'[c]][j] = IF j = i THEN answer ELSE reqs[c][step[c]][j]
    BY <1>1, <1>3, <2>1, StatusRow
  <2>3. answer = "ok" /\ Writing(c, step[c]) => <<c, step[c], i>> \in applied
    BY <2>0 DEF Answer, Writing, Node
  <2> QED
    BY <1>1, <1>3, <2>2, <2>3 DEF Advances, Items
<1> QED
  BY <1>1, <1>2, <1>3, <1>4, <1>5, <1>6

LEMMA AppliedStep ==
  ASSUME NEW c \in Chain, ChainStep(c)
  PROVE  \/ applied' = applied
         \/ \E i \in Items(c) : ServerApplies(c, i)
<1>1. CASE RequestStep(c)
  BY <1>1 DEF RequestStep, Acquire, Answer
<1>2. CASE OperationStep(c)
  BY <1>2 DEF OperationStep, BuilderRaises, RequestLogRaises, IssueRequests, BeginOperation,
              OperationStops, OperationReturns, Resumes
<1>3. CASE CallbackStep(c)
  BY <1>3 DEF CallbackStep, StartCallback, RunInExecutor, CallbackReturns, CallbackRaises,
              CallbackCancelled, CallbackEnds
<1>4. CASE Note(c) \/ FinishStep(c)
  BY <1>4 DEF Note, FinishStep, FinishChain, FlushResult, EndChain
<1> QED
  BY <1>1, <1>2, <1>3, <1>4 DEF ChainStep

\* The node a chain begins: its requests are queued, if it has any.
LEMMA BeginsQueued ==
  ASSUME TypeInv, NEW c \in Chain, ChainStep(c), step'[c] # step[c]
  PROVE  /\ step'[c] = step[c] + 1
         /\ \A i \in DOMAIN reqs'[c][step'[c]] : reqs'[c][step'[c]][i] = "queued"
         /\ DOMAIN reqs'[c][step'[c]] # {} => pc'[c] = "waiting"
<1>0. /\ step \in [Chain -> Nat] /\ step[c] \in Nat
      /\ pc \in [Chain -> {"ready", "waiting", "submitted", "callback", "flushing", "done"}]
      /\ reqs \in [Chain -> Seq(Seq(Status))] /\ reqs[c] \in Seq(Seq(Status))
      /\ Len(reqs[c]) = step[c]
  BY DEF TypeInv, TypeOK
<1>1. ASSUME NEW requests \in Seq(Status), reqs' = [reqs EXCEPT ![c] = Append(@, requests)]
      PROVE  reqs'[c][step[c] + 1] = requests
  BY <1>0, <1>1, AppendProperties
<1>2. ASSUME reqs' = [reqs EXCEPT ![c] = Append(@, <<>>)]
      PROVE  DOMAIN reqs'[c][step[c] + 1] = {}
  <2>1. reqs'[c][step[c] + 1] = <<>>
    BY <1>1, <1>2, NoRequests
  <2> QED
    BY <2>1
<1>3. ~RequestStep(c)
  BY RequestRow
<1>4. CASE OperationStep(c)
  <2>1. ASSUME NEW exception, BuilderRaises(c, exception)
        PROVE  step'[c] = step[c] + 1 /\ DOMAIN reqs'[c][step[c] + 1] = {}
    BY <1>0, <1>2, <2>1 DEF BuilderRaises, BeginOperation
  <2>2. CASE RequestLogRaises(c)
    BY <1>0, <1>2, <2>2 DEF RequestLogRaises, BeginOperation
  <2>3. CASE IssueRequests(c)
    <3>1. PICK requests \in NewRequests(c) : BeginOperation(c, requests)
      BY <2>3 DEF IssueRequests
    <3>2. requests \in Seq(Status)
      BY <2>3, NewRequestsType DEF IssueRequests
    <3>3. step'[c] = step[c] + 1 /\ reqs'[c][step[c] + 1] = requests
      BY <1>0, <1>1, <3>1, <3>2 DEF BeginOperation
    <3>4. \A i \in DOMAIN requests : requests[i] = "queued"
      BY DEF NewRequests
    <3>5. pc'[c] = "waiting"
      BY <1>0, <2>3 DEF IssueRequests
    <3> QED
      BY <3>3, <3>4, <3>5
  <2> QED
    BY <1>4, <2>1, <2>2, <2>3 DEF OperationStep, OperationStops, OperationReturns, Resumes
<1>5. CASE CallbackStep(c)
  <2>1. CASE StartCallback(c)
    BY <1>0, <1>2, <2>1 DEF StartCallback
  <2> QED
    BY <1>5, <2>1 DEF CallbackStep, RunInExecutor, CallbackReturns, CallbackRaises,
                      CallbackCancelled, CallbackEnds
<1>6. ~Note(c) /\ ~FinishStep(c)
  BY DEF Note, FinishStep, FinishChain, FlushResult, EndChain
<1> QED
  BY <1>3, <1>4, <1>5, <1>6 DEF ChainStep

LEMMA WaitingStep ==
  ASSUME NEW c \in Chain, ChainStep(c), pc[c] = "waiting"
  PROVE  RequestStep(c) \/ Handles(c)
<1>1. CASE OperationStep(c)
  BY <1>1 DEF OperationStep, BuilderRaises, RequestLogRaises, IssueRequests, AtOperation, Handles
<1>2. ~CallbackStep(c)
  BY DEF CallbackStep, StartCallback, RunInExecutor, CallbackReturns, CallbackRaises,
         CallbackCancelled, CallbackEnds
<1>3. ~Note(c) /\ ~FinishStep(c)
  BY DEF Note, FinishStep, FinishChain, FlushResult, EndChain
<1> QED
  BY <1>1, <1>2, <1>3 DEF ChainStep

\* A write that took place stays one that was sent.
LEMMA SentStays ==
  ASSUME TypeInv, NEW c \in Chain, ChainStep(c), NEW s \in 1..step[c],
         NEW i \in DOMAIN reqs[c][s], reqs[c][s][i] # "queued"
  PROVE  s \in 1..step'[c] /\ i \in DOMAIN reqs'[c][s] /\ reqs'[c][s][i] # "queued"
<1>1. CASE Behind(c, s)
  <2>1. Behind(c, s)' /\ reqs'[c][s] = reqs[c][s]
    BY <1>1, StaysBehind
  <2> QED
    BY <2>1 DEF Behind
<1>2. CASE ~Behind(c, s)
  <2>1. s = step[c] /\ pc[c] = "waiting"
    BY <1>2 DEF Behind, Past, TypeInv, TypeOK
  <2>2. CASE RequestStep(c)
    BY <2>1, <2>2, RequestRow DEF Advances, Items
  <2>3. CASE Handles(c)
    BY <2>3 DEF Handles, OperationStops, OperationReturns, Resumes
  <2> QED
    BY <2>1, <2>2, <2>3, WaitingStep
<1> QED
  BY <1>1, <1>2

LEMMA ServedStep ==
  ASSUME TypeInv, NEW c \in Chain, ChainStep(c), Served(c)
  PROVE  Served(c)'
<1>0. step \in [Chain -> Nat] /\ step[c] \in Nat
  BY DEF TypeInv, TypeOK
<1>1. \A w : w \in applied => w \in applied'
  BY AppliedStep DEF ServerApplies
<1>2. ASSUME NEW s \in 1..step'[c], NEW i \in DOMAIN reqs'[c][s]
      PROVE  /\ Writing(c, s) /\ reqs'[c][s][i] = "ok" => <<c, s, i>> \in applied'
             /\ Behind(c, s)' => reqs'[c][s][i] \in Answers
  <2>1. CASE Behind(c, s)
    <3>1. Behind(c, s)' /\ reqs'[c][s] = reqs[c][s]
      BY <2>1, StaysBehind
    <3> QED
      BY <1>1, <1>2, <2>1, <3>1 DEF Served, Behind
  <2>2. CASE ~Behind(c, s) /\ Behind(c, s)'
    <3>1. s = step[c] /\ reqs'[c][s] = reqs[c][s] /\ Handles(c)
      BY <1>2, <2>2, ComesBehind
    <3>2. AllAnswered(c)
      BY <3>1 DEF Handles, OperationStops, OperationReturns, Resumes
    <3>3. s \in 1..step[c]
      BY <1>0, <1>2, <3>1 DEF Handles, OperationStops, OperationReturns, Resumes
    <3> QED
      BY <1>1, <1>2, <3>1, <3>2, <3>3 DEF AllAnswered, Items, Served
  <2>3. CASE ~Behind(c, s) /\ ~Behind(c, s)'
    <3>1. s = step'[c] /\ pc'[c] = "waiting"
      <4>1. step'[c] \in Nat
        BY NextTypeInv, StepOfAChain, BeginsQueued, <1>0
      <4> QED
        BY <4>1, <1>2, <2>3 DEF Behind, Past
    <3>2. CASE step'[c] # step[c]
      BY <1>2, <2>3, <3>1, <3>2, BeginsQueued
    <3>3. CASE step'[c] = step[c]
      <4>1. pc[c] = "waiting" /\ s \in 1..step[c]
        BY <1>0, <1>2, <2>3, <3>1, <3>3 DEF Behind, Past
      <4>2. CASE RequestStep(c)
        <5>1. i \in Items(c) /\ Advances(c, i)
          BY <1>2, <3>1, <3>3, <4>2, RequestRow
        <5> QED
          BY <1>1, <2>3, <3>1, <3>3, <4>1, <5>1 DEF Advances, Items, Served
      <4>3. ~Handles(c)
        BY <3>1, <4>1 DEF Handles, OperationStops, OperationReturns, Resumes, Stopped, TypeInv, TypeOK
      <4> QED
        BY <4>1, <4>2, <4>3, WaitingStep
    <3> QED
      BY <3>2, <3>3
  <2> QED
    BY <2>1, <2>2, <2>3
<1>3. ASSUME NEW w \in applied', w[1] = c
      PROVE  /\ w[2] \in 1..step'[c] /\ w[3] \in DOMAIN reqs'[c][w[2]]
             /\ reqs'[c][w[2]][w[3]] # "queued"
  <2>1. CASE w \in applied
    <3>1. /\ w[2] \in 1..step[c] /\ w[3] \in DOMAIN reqs[c][w[2]]
          /\ reqs[c][w[2]][w[3]] # "queued"
      BY <1>3, <2>1 DEF Served
    <3> QED
      BY <3>1, SentStays
  <2>2. CASE w \notin applied
    <3>1. PICK i \in Items(c) : ServerApplies(c, i)
      BY <1>3, <2>2, AppliedStep
    <3>2. w = <<c, step[c], i>> /\ UNCHANGED <<step, reqs>> /\ i \in Sent(c) /\ pc[c] = "waiting"
      BY <1>3, <2>2, <3>1 DEF ServerApplies
    <3>3. step[c] \in 1..step[c]
      BY <3>2, WaitingAt, <1>0
    <3> QED
      BY <3>2, <3>3 DEF Sent, Items
  <2> QED
    BY <2>1, <2>2
<1> QED
  BY <1>2, <1>3 DEF Served, Behind, Writing

(***************************************************************************)
(* The result and the failure.                                             *)
(***************************************************************************)
LEMMA LeftStep ==
  ASSUME TypeInv, NEW c \in Chain, ChainStep(c), Left(c)
  PROVE  Left(c)'
<1>0. /\ pc \in [Chain -> {"ready", "waiting", "submitted", "callback", "flushing", "done"}]
      /\ result \in [Chain -> {"none", "value", "list", "error", "raised"}]
  BY DEF TypeInv, TypeOK
<1> USE DEF Left
<1>1. CASE RequestStep(c)
  BY <1>1 DEF RequestStep, Acquire, ServerApplies, Answer
<1>2. CASE OperationStep(c)
  BY <1>0, <1>2 DEF OperationStep, BuilderRaises, RequestLogRaises, IssueRequests, BeginOperation,
              OperationStops, OperationReturns, Resumes, AtOperation, Stopped, Escapes
<1>3. CASE CallbackStep(c)
  BY <1>0, <1>3 DEF CallbackStep, StartCallback, RunInExecutor, CallbackReturns, CallbackRaises,
              CallbackCancelled, CallbackEnds, Stopped, Escapes
<1>4. CASE Note(c) \/ FinishStep(c)
  BY <1>0, <1>4 DEF Note, FinishStep, FinishChain, FlushResult, EndChain, Flushed
<1> QED
  BY <1>1, <1>2, <1>3, <1>4 DEF ChainStep

\* A node comes to be behind its chain with a failed request only when its
\* answers are handled.
LEMMA BadStep ==
  ASSUME TypeInv, NEW c \in Chain, ChainStep(c)
  PROVE  /\ \A s \in Bad(c) : reqs'[c][s] = reqs[c][s]
         /\ ~Handles(c) => Bad(c)' = Bad(c)
         /\ Handles(c) => Bad(c)' = IF Errors(reqs[c][step[c]]) = {} THEN Bad(c)
                                    ELSE Bad(c) \cup {step[c]}
<1>1. ASSUME NEW s \in Bad(c)
      PROVE  s \in Bad(c)' /\ reqs'[c][s] = reqs[c][s]
  <2>1. Behind(c, s)
    BY DEF Bad, Behind
  <2>2. Behind(c, s)' /\ reqs'[c][s] = reqs[c][s]
    BY <2>1, StaysBehind
  <2> QED
    BY <2>2 DEF Bad, Behind
<1>2. ASSUME NEW s \in Bad(c)', s \notin Bad(c)
      PROVE  s = step[c] /\ Handles(c) /\ Errors(reqs[c][s]) # {}
  <2>1. Behind(c, s)' /\ Errors(reqs'[c][s]) # {}
    BY DEF Bad, Behind
  <2>2. ~Behind(c, s)
    <3>1. Behind(c, s) => reqs'[c][s] = reqs[c][s]
      BY StaysBehind
    <3> QED
      BY <1>2, <2>1, <3>1 DEF Bad, Behind
  <2>3. reqs'[c][s] # <<>>
    BY <2>1 DEF Errors
  <2> QED
    BY <2>1, <2>2, <2>3, ComesBehind
<1>3. ASSUME Handles(c), Errors(reqs[c][step[c]]) # {}
      PROVE  step[c] \in Bad(c)'
  <2>1. pc[c] = "waiting" /\ UNCHANGED <<step, reqs>> /\ pc'[c] # "waiting"
    BY <1>3 DEF Handles, OperationStops, OperationReturns, Resumes, Stopped, TypeInv, TypeOK
  <2>2. step[c] \in 1..step[c]
    BY <2>1, WaitingAt DEF TypeInv, TypeOK
  <2> QED
    BY <1>3, <2>1, <2>2 DEF Bad, Past
<1>4. Handles(c) /\ Errors(reqs[c][step[c]]) # {} => Bad(c)' = Bad(c) \cup {step[c]}
  BY <1>1, <1>2, <1>3
<1>5. ~Handles(c) \/ Errors(reqs[c][step[c]]) = {} => Bad(c)' = Bad(c)
  BY <1>1, <1>2
<1> QED
  BY <1>1, <1>4, <1>5

LEMMA BadType ==
  ASSUME TypeInv, NEW c \in Chain
  PROVE  Bad(c) \in SUBSET Nat
BY DEF Bad, TypeInv, TypeOK

\* A failure without a failed request comes from user code, and the chain ends
\* at the node that ran it.
LEMMA UserFailure ==
  ASSUME TypeInv, NEW c \in Chain, ChainStep(c), ~Handles(c),
         failure'[c] # NoFailure,
         failure[c] # NoFailure => result[c] = "error" /\ failure[c].step = step[c], Left(c)
  PROVE  result'[c] = "error" /\ failure'[c].step = step'[c]
<1>0. /\ pc \in [Chain -> {"ready", "waiting", "submitted", "callback", "flushing", "done"}]
      /\ step \in [Chain -> Nat] /\ step[c] \in Nat
      /\ failure \in [Chain -> Failure \cup {NoFailure}]
      /\ result \in [Chain -> {"none", "value", "list", "error", "raised"}]
  BY DEF TypeInv, TypeOK
<1>1. ASSUME NEW s \in Nat, NEW n, NEW category, Stopped(c, s, n, category), pc[c] \in {"ready", "callback"}
      PROVE  result'[c] = "error" /\ failure'[c].step = s
  <2>1. failure[c] = NoFailure
    BY <1>1 DEF Left
  <2> QED
    BY <1>0, <1>1, <2>1 DEF Stopped, FirstFailure
<1>2. ASSUME failure'[c] = failure[c], result'[c] = result[c] \/ pc[c] \in {"ready", "callback"},
             step'[c] = step[c] \/ pc[c] = "ready"
      PROVE  result'[c] = "error" /\ failure'[c].step = step'[c]
  BY <1>2 DEF Left
<1>3. CASE RequestStep(c)
  BY <1>2, <1>3 DEF RequestStep, Acquire, ServerApplies, Answer
<1>4. CASE OperationStep(c)
  <2>1. ASSUME NEW exception, BuilderRaises(c, exception)
        PROVE  result'[c] = "error" /\ failure'[c].step = step'[c]
    <3>1. Stopped(c, step[c] + 1, segments[c] + 1, Classify(exception)) /\ pc[c] = "ready"
      BY <2>1 DEF BuilderRaises, AtOperation
    <3>2. step'[c] = step[c] + 1
      BY <1>0, <2>1 DEF BuilderRaises, BeginOperation
    <3>3. step[c] + 1 \in Nat
      BY <1>0
    <3>4. result'[c] = "error" /\ failure'[c].step = step[c] + 1
      BY Zenon, <1>1, <3>1, <3>3
    <3> QED
      BY <3>2, <3>4
  <2>2. CASE RequestLogRaises(c) \/ IssueRequests(c)
    BY <1>2, <2>2 DEF RequestLogRaises, IssueRequests, AtOperation, Escapes
  <2> QED
    BY <1>4, <2>1, <2>2 DEF OperationStep, Handles
<1>5. CASE CallbackStep(c)
  <2>1. CASE CallbackRaises(c)
    BY <1>0, <1>1, <2>1 DEF CallbackRaises, CallbackEnds
  <2>2. CASE ~CallbackRaises(c)
    BY <1>2, <1>5, <2>2 DEF CallbackStep, StartCallback, RunInExecutor, CallbackReturns,
                            CallbackCancelled, CallbackEnds, Escapes
  <2> QED
    BY <2>1, <2>2
<1>6. CASE Note(c) \/ FinishStep(c)
  BY <1>2, <1>6 DEF Note, FinishStep, FinishChain, FlushResult, EndChain
<1> QED
  BY <1>3, <1>4, <1>5, <1>6 DEF ChainStep

LEMMA AccusedStep ==
  ASSUME TypeInv, NEW c \in Chain, ChainStep(c), Accused(c), Left(c)
  PROVE  Accused(c)'
<1> DEFINE bad == Bad(c)
           new == Bad(c)'
           Tells(f, s, row) ==
             f = [step |-> s, category |-> Classify(row[LeastOf(Errors(row))])]
<1>1. ASSUME new # {}, Tells(failure'[c], LeastOf(new), reqs'[c][LeastOf(new)])
      PROVE  Accused(c)'
  BY <1>1 DEF Accused, Named
<1>2. bad # {} => Tells(failure[c], LeastOf(bad), reqs[c][LeastOf(bad)])
  BY DEF Accused, Named
<1>3. ASSUME NEW f, NEW s, NEW row, Tells(f, s, row)
      PROVE  f # NoFailure
  BY <1>3, ClassifyType DEF NoFailure, Category
<1>4. bad # {} => /\ LeastOf(bad) \in bad /\ failure'[c] = failure[c]
                  /\ reqs'[c][LeastOf(bad)] = reqs[c][LeastOf(bad)]
  <2>1. bad # {} => LeastOf(bad) \in bad
    BY BadType, LeastExists
  <2>2. bad # {} => failure[c] # NoFailure
    BY <1>2, <1>3
  <2> QED
    BY <2>1, <2>2, FailureStep, BadStep
<1>5. CASE bad # {}
  <2>1. LeastOf(new) = LeastOf(bad) /\ new # {}
    <3>1. CASE new = bad
      BY <1>5, <3>1
    <3>2. CASE new # bad
      <4>1. Handles(c) /\ new = bad \cup {step[c]}
        BY <3>2, BadStep
      <4>2. step[c] \in Nat /\ step[c] \notin bad /\ \A j \in bad : j \in 1..step[c]
        BY <3>2, <4>1 DEF Bad, TypeInv, TypeOK
      <4>3. \A j \in bad : j < step[c]
        BY <4>2
      <4>4. bad \in SUBSET Nat
        BY BadType
      <4> HIDE DEF bad, new
      <4> QED
        BY <1>5, <4>1, <4>2, <4>3, <4>4, LeastStays
    <3> QED
      BY <3>1, <3>2
  <2> QED
    BY <1>1, <1>2, <1>4, <1>5, <2>1
<1>6. CASE bad = {} /\ Handles(c)
  <2>1. pc[c] = "waiting" /\ UNCHANGED <<step, reqs>> /\ step[c] \in Nat
    BY <1>6 DEF Handles, OperationStops, OperationReturns, Resumes, TypeInv, TypeOK
  <2>2. failure[c] = NoFailure
    BY <1>6, <2>1 DEF Accused, Left
  <2>3. CASE Errors(reqs[c][step[c]]) = {}
    <3>1. new = {} /\ ~OperationStops(c)
      BY <1>6, <2>3, BadStep DEF OperationStops, Stops
    <3>2. failure'[c] = NoFailure
      BY <1>6, <2>2, <2>3, <3>1 DEF Handles, OperationReturns, TypeInv, TypeOK
    <3> QED
      BY <3>1, <3>2 DEF Accused
  <2>4. CASE Errors(reqs[c][step[c]]) # {}
    <3>1. new = {step[c]}
      BY <1>6, <2>4, BadStep
    <3>2. Tells(failure'[c], step[c], reqs[c][step[c]])
      <4>1. CASE OperationStops(c)
        BY <2>2, <4>1 DEF OperationStops, Stopped, FirstFailure, TypeInv, TypeOK
      <4>2. CASE OperationReturns(c)
        BY <2>2, <2>4, <4>2 DEF OperationReturns, FirstFailure, TypeInv, TypeOK
      <4> QED
        BY <1>6, <4>1, <4>2 DEF Handles
    <3>3. LeastOf(new) = step[c]
      BY <2>1, <3>1, LeastOfOne
    <3> QED
      BY <1>1, <2>1, <3>1, <3>2, <3>3
  <2> QED
    BY <2>3, <2>4
<1>7. CASE bad = {} /\ ~Handles(c)
  <2>1. new = {}
    BY <1>7, BadStep
  <2>2. failure'[c] # NoFailure => result'[c] = "error" /\ failure'[c].step = step'[c]
    BY <1>7, UserFailure DEF Accused
  <2> QED
    BY <2>1, <2>2 DEF Accused
<1> QED
  BY <1>5, <1>6, <1>7

(***************************************************************************)
(* What a step of chain c leaves on record of any other chain.             *)
(***************************************************************************)
LEMMA RecordElsewhere ==
  ASSUME TypeInv, NEW c \in Chain, ChainStep(c), QueueInOrder(c),
         NEW d \in Chain, d # c, Recorded(d)
  PROVE  Recorded(d)'
<1>1. SameChain(d)
  BY Elsewhere
<1> USE DEF SameChain, Past
<1>2. ASSUME NEW s, NEW i
      PROVE  InLog(d, s, i)' <=> InLog(d, s, i)
  BY LogStep, FlushMoves DEF Flushes
<1>3. Books(d)'
  <2>1. ASSUME NEW s \in Nat, NEW i \in Nat
        PROVE  /\ InQueue(d, s, i)' <=> InQueue(d, s, i)
               /\ Settled(d, s, i)' <=> Settled(d, s, i)
               /\ InLog(d, s, i)' <=> InLog(d, s, i)
               /\ InLog(d, s, i) \/ InQueue(d, s, i) <=> Settled(d, s, i)
               /\ ~(InLog(d, s, i) /\ InQueue(d, s, i))
    <3>1. InQueue(d, s, i)' <=> InQueue(d, s, i)
      BY <1>1 DEF InQueue
    <3>2. Settled(d, s, i)' <=> Settled(d, s, i)
      BY <1>1 DEF Settled, Writing
    <3> QED
      BY <1>2, <3>1, <3>2 DEF Recorded, Books
  <2> QED
    BY <2>1 DEF Books
<1>4. QueueInOrder(d)'
  BY <1>1 DEF Recorded, QueueInOrder
<1>5. Served(d)'
  <2>1. \A w : w \in applied => w \in applied'
    BY AppliedStep DEF ServerApplies
  <2>2. ASSUME NEW w \in applied', w[1] = d
        PROVE  w \in applied
    <3>1. w \in applied \/ \E i \in Items(c) : w = <<c, step[c], i>>
      BY AppliedStep DEF ServerApplies
    <3> QED
      BY <2>2, <3>1
  <2> QED
    BY <1>1, <2>1, <2>2 DEF Recorded, Served, Writing
<1>6. Accused(d)'
  <2>1. Bad(d)' = Bad(d)
    BY <1>1 DEF Bad
  <2>2. Accused(d)
    BY DEF Recorded
  <2> QED
    BY <1>1, <2>1, <2>2 DEF Accused, Named
<1>7. Left(d)'
  BY <1>1 DEF Recorded, Left
<1> QED
  BY <1>3, <1>4, <1>5, <1>6, <1>7 DEF Recorded

LEMMA RecordStep ==
  ASSUME TypeInv, RecordInv, NEW c \in Chain, ChainStep(c)
  PROVE  RecordInv'
<1>1. Recorded(c)
  BY DEF RecordInv
<1>2. Recorded(c)'
  BY <1>1, BooksStep, QueueInOrderStep, ServedStep, AccusedStep, LeftStep DEF Recorded
<1>3. ASSUME NEW d \in Chain, d # c
      PROVE  Recorded(d)'
  <2>1. Recorded(d) /\ QueueInOrder(c)
    BY <1>1 DEF RecordInv, Recorded
  <2> QED
    BY <1>3, <2>1, RecordElsewhere
<1> QED
  BY <1>2, <1>3 DEF RecordInv

LEMMA InitRecord == Init => RecordInv
<1> SUFFICES ASSUME Init, NEW c \in Chain PROVE Recorded(c)
  BY DEF RecordInv
<1> USE DEF Init
<1>1. Books(c)
  BY DEF Books, InLog, InQueue, Settled
<1>2. QueueInOrder(c) /\ Served(c) /\ Left(c)
  BY DEF QueueInOrder, Served, Left
<1>3. Accused(c)
  BY DEF Accused, Bad
<1> QED
  BY <1>1, <1>2, <1>3 DEF Recorded

LEMMA SameRecord ==
  ASSUME RecordInv, UNCHANGED vars
  PROVE  RecordInv'
<1> SUFFICES ASSUME NEW c \in Chain PROVE Recorded(c)'
  BY DEF RecordInv
<1> USE DEF vars, Past
<1>1. Books(c) /\ QueueInOrder(c) /\ Served(c) /\ Accused(c) /\ Left(c)
  BY DEF RecordInv, Recorded
<1>2. Books(c)'
  BY <1>1 DEF Books, InLog, InQueue, Settled, Writing
<1>3. QueueInOrder(c)' /\ Left(c)'
  BY <1>1 DEF QueueInOrder, Left
<1>4. Served(c)'
  BY <1>1 DEF Served, Writing
<1>5. Accused(c)'
  BY <1>1 DEF Accused, Bad, Named
<1> QED
  BY <1>2, <1>3, <1>4, <1>5 DEF Recorded

LEMMA RecordInvariant == Spec => [](TypeInv /\ RecordInv)
<1>1. TypeInv /\ RecordInv /\ [Next]_vars => RecordInv'
  BY StepOfAChain, RecordStep, SameRecord
<1> QED
  BY <1>1, InitRecord, TypeInvariant, PTL DEF Spec

(***************************************************************************)
(* The theorems.                                                           *)
(***************************************************************************)
LEMMA ReportedIsInLog ==
  ASSUME TypeInv, NEW c \in Chain
  PROVE  /\ \A s, i : <<s, i>> \in Reported(c) <=> InLog(c, s, i)
         /\ \A w \in Reported(c) : w = <<w[1], w[2]>> /\ w[1] \in Nat /\ w[2] \in Nat
<1>1. \A k \in DOMAIN log : log[k].step \in Nat /\ log[k].item \in Nat
  <2>1. log \in Seq(Line)
    BY DEF TypeInv, TypeOK
  <2>2. \A k \in DOMAIN log : log[k] \in Line
    BY <2>1, ElementOfSeq, LenProperties
  <2> QED
    BY <2>2 DEF Line
<1> QED
  BY <1>1 DEF Reported, InLog

\* A write is settled only when the server has carried it out.
LEMMA SettledIsApplied ==
  ASSUME NEW c, NEW s, NEW i, Served(c), Settled(c, s, i)
  PROVE  <<c, s, i>> \in applied
BY DEF Served, Settled

\* Whatever the program, the faults and the interleaving: a [RESULT] line,
\* written or still queued, is about a write the server has carried out, and
\* no write has two of them (_collect_results, _flush_results).
THEOREM SoundResults == Spec => []ResultsSound
<1>1. TypeInv /\ RecordInv => ResultsSound
  <2> SUFFICES ASSUME TypeInv, RecordInv, NEW c \in Chain
               PROVE  /\ \A w \in Reported(c) : <<c, w[1], w[2]>> \in applied
                      /\ \A k \in DOMAIN queued[c] : \A i \in queued[c][k].items :
                           LET w == <<queued[c][k].step, i>>
                           IN  /\ <<c, w[1], w[2]>> \in applied
                               /\ w \notin Reported(c)
                               /\ \A j \in DOMAIN queued[c] : queued[c][j].step = w[1] => j = k
    BY DEF ResultsSound
  <2>1. Books(c) /\ QueueInOrder(c) /\ Served(c)
    BY DEF RecordInv, Recorded
  <2>2. ASSUME NEW w \in Reported(c)
        PROVE  <<c, w[1], w[2]>> \in applied
    <3>1. InLog(c, w[1], w[2]) /\ w[1] \in Nat /\ w[2] \in Nat
      BY ReportedIsInLog
    <3> QED
      BY <2>1, <3>1, SettledIsApplied DEF Books
  <2>3. ASSUME NEW k \in DOMAIN queued[c], NEW i \in queued[c][k].items
        PROVE  /\ <<c, queued[c][k].step, i>> \in applied
               /\ <<queued[c][k].step, i>> \notin Reported(c)
               /\ \A j \in DOMAIN queued[c] : queued[c][j].step = queued[c][k].step => j = k
    <3> DEFINE s == queued[c][k].step
    <3>1. /\ s \in Nat /\ i \in Nat /\ InQueue(c, s, i)
          /\ DOMAIN queued[c] = 1..Len(queued[c]) /\ Len(queued[c]) \in Nat
          /\ \A j \in DOMAIN queued[c] : queued[c][j].step \in Nat
      BY QueueType DEF Entry, InQueue
    <3>2. <<c, s, i>> \in applied /\ <<s, i>> \notin Reported(c)
      <4> HIDE DEF s
      <4> QED
        BY <2>1, <3>1, ReportedIsInLog, SettledIsApplied DEF Books
    <3>3. ASSUME NEW j \in DOMAIN queued[c], j # k
          PROVE  queued[c][j].step # s
      <4>1. j < k \/ k < j
        BY <3>1, <3>3
      <4> QED
        BY <2>1, <3>1, <4>1 DEF QueueInOrder
    <3> QED
      BY <3>2, <3>3
  <2> QED
    BY <2>2, <2>3
<1> QED
  BY <1>1, RecordInvariant, PTL

\* A chain with nothing left to flush has left, as [RESULT] lines, exactly the
\* writes that are settled.
LEMMA LeavesTheSettled ==
  ASSUME TypeInv, NEW c \in Chain, Recorded(c), queued[c] = <<>>,
         NEW s \in Nat, NEW i \in Nat
  PROVE  <<s, i>> \in Reported(c) <=> Settled(c, s, i)
<1>1. ~InQueue(c, s, i)
  BY DEF InQueue
<1> QED
  BY <1>1, ReportedIsInLog DEF Recorded, Books

\* If it has no failure either, every write that took place was confirmed.
LEMMA LeavesTheEffects ==
  ASSUME TypeInv, NEW c \in Chain, Recorded(c), pc[c] # "waiting", queued[c] = <<>>,
         failure[c] = NoFailure, NEW w \in applied, w[1] = c
  PROVE  <<w[2], w[3]>> \in Reported(c)
<1>1. /\ w[2] \in 1..step[c] /\ w[3] \in DOMAIN reqs[c][w[2]]
      /\ reqs[c][w[2]][w[3]] \in Answers
  BY DEF Recorded, Served, Past
<1>2. Bad(c) = {}
  <2>1. \A s : Named(c, s) # NoFailure
    BY ClassifyType DEF Named, NoFailure, Category
  <2> QED
    BY <2>1 DEF Recorded, Accused
<1>3. reqs[c][w[2]][w[3]] = "ok"
  BY <1>1, <1>2 DEF Bad, Past, Errors
<1>4. Writing(c, w[2])
  <2>1. <<w[2], w[3]>> \in Effect(c)
    BY DEF TypeInv, TypeOK
  <2>2. PICK s \in DOMAIN Program[c] :
          Writing(c, s) /\ <<w[2], w[3]>> \in {s} \X (1..Program[c][s].size)
    BY <2>1 DEF Effect
  <2> QED
    BY <2>2
<1>5. Settled(c, w[2], w[3])
  BY <1>1, <1>3, <1>4 DEF Settled, Past
<1>6. w[2] \in Nat /\ w[3] \in Nat
  <2>1. step[c] \in Nat
    BY DEF TypeInv, TypeOK
  <2>2. w[2] \in Nat
    BY <1>1, <2>1
  <2>3. w[3] \in Nat
    BY <1>1, <2>2, RowType
  <2> QED
    BY <2>2, <2>3
<1> QED
  BY <1>5, <1>6, LeavesTheSettled

\* Whatever its chains do at the same time: a chain that ended through one of
\* its own exits, failed or not, has left the [RESULT] lines of exactly the
\* writes the server confirmed to it (README: "A write that succeeded stays on
\* record even if a later step of its chain failed").
THEOREM WritesStayOnRecord == Spec => []WritesOnRecord
<1>1. TypeInv /\ RecordInv => WritesOnRecord
  <2> SUFFICES ASSUME TypeInv, RecordInv, NEW c \in Chain, pc[c] = "done", result[c] # "raised"
               PROVE  Reported(c) = Confirmed(c)
    BY DEF WritesOnRecord
  <2>1. Recorded(c) /\ queued[c] = <<>>
    BY DEF RecordInv, Recorded, Left
  <2>2. ASSUME NEW w \in Reported(c)
        PROVE  w \in Confirmed(c)
    <3>1. w = <<w[1], w[2]>> /\ w[1] \in Nat /\ w[2] \in Nat
      BY ReportedIsInLog
    <3>2. Settled(c, w[1], w[2])
      BY <2>1, <3>1, LeavesTheSettled
    <3>3. <<w[1], w[2]>> \in Confirmed(c)
      BY <3>2 DEF Settled, Confirmed
    <3> QED
      BY <3>1, <3>3
  <2>3. ASSUME NEW w \in Confirmed(c)
        PROVE  w \in Reported(c)
    <3>1. PICK s \in 1..step[c] :
            /\ Writing(c, s)
            /\ w \in {s} \X { i \in DOMAIN reqs[c][s] : reqs[c][s][i] = "ok" }
      BY DEF Confirmed
    <3>2. PICK i \in DOMAIN reqs[c][s] : w = <<s, i>> /\ reqs[c][s][i] = "ok"
      BY <3>1
    <3>3. s \in Nat /\ i \in Nat
      BY RowType DEF TypeInv, TypeOK
    <3>4. Settled(c, s, i)
      BY <3>1, <3>2 DEF Settled, Past
    <3> QED
      BY <2>1, <3>2, <3>3, <3>4, LeavesTheSettled
  <2> QED
    BY <2>2, <2>3
<1> QED
  BY <1>1, RecordInvariant, PTL

\* What a write did to the server without a [RESULT] line is never hidden
\* behind a chain that counts as succeeded, whatever the faults: an answer that
\* was lost after the write leaves a failure (_record_failure), and every other
\* write that took place was confirmed before the chain could end.
THEOREM EffectsAreTold == Spec => []NoSilentEffect
<1>1. TypeInv /\ RecordInv => NoSilentEffect
  <2> SUFFICES ASSUME TypeInv, RecordInv, NEW c \in Chain,
                      pc[c] = "done", failure[c] = NoFailure, result[c] # "raised",
                      NEW w \in applied, w[1] = c
               PROVE  <<w[2], w[3]>> \in Reported(c)
    BY DEF NoSilentEffect
  <2>1. Recorded(c) /\ queued[c] = <<>>
    BY DEF RecordInv, Recorded, Left
  <2> QED
    BY <2>1, LeavesTheEffects
<1> QED
  BY <1>1, RecordInvariant, PTL

\* Between two awaits a chain's record names the first node at which anything
\* went wrong, with the category of the first failed request of that node; a
\* failure with no failed request is that of user code, and the chain ended
\* there (_record_failure, _stopped).
THEOREM FirstErrorIsNamed == Spec => []FailureNamesFirstError
<1>1. RecordInv => FailureNamesFirstError
  <2> SUFFICES ASSUME RecordInv, NEW c \in Chain, pc[c] # "waiting"
               PROVE  LET bad == { s \in 1..step[c] : Errors(reqs[c][s]) # {} }
                      IN  IF bad # {}
                          THEN failure[c] = Named(c, LeastOf(bad))
                          ELSE failure[c] # NoFailure =>
                                 result[c] = "error" /\ failure[c].step = step[c]
    BY DEF FailureNamesFirstError, Named
  <2>1. Bad(c) = { s \in 1..step[c] : Errors(reqs[c][s]) # {} }
    BY DEF Bad, Past
  <2>2. Accused(c)
    BY DEF RecordInv, Recorded
  <2> QED
    BY <2>1, <2>2 DEF Accused
<1> QED
  BY <1>1, RecordInvariant, PTL

(***************************************************************************)
(* The chains implement the abstract batch: what each of its variables is  *)
(* in a state of the chains, one chain at a time.                          *)
(***************************************************************************)
StateOf(c) == CASE pc[c] # "done"      -> "running"
                [] result[c] = "raised" -> "broken"
                [] OTHER                -> "ended"

EffectsOf(c) == { <<w[2], w[3]>> : w \in { v \in applied : v[1] = c } }

States  == [c \in Chain |-> StateOf(c)]
Effects == [c \in Chain |-> EffectsOf(c)]
Reports == [c \in Chain |-> Reported(c)]

LEMMA MappedTakesEffect ==
  ASSUME NEW c \in Chain, States[c] = "running",
         NEW w \in Effect(c), Effects' = [Effects EXCEPT ![c] = @ \cup {w}],
         UNCHANGED <<States, failure, Reports>>
  PROVE  Abstract!TakesEffect(c)
BY DEF Abstract!TakesEffect, States, StateOf, Effects, EffectsOf, Reports

\* A chain is running until it is done (no result says otherwise: Left).
LEMMA RunningState ==
  ASSUME NEW c \in Chain, Left(c), pc[c] # "done"
  PROVE  StateOf(c) = "running"
BY DEF StateOf, Left

\* What a step of chain c does to them.
LEMMA SameState ==
  ASSUME TypeInv, NEW c \in Chain, ChainStep(c), Left(c), Left(c)',
         NEW d \in Chain, d # c \/ pc'[c] # "done"
  PROVE  StateOf(d)' = StateOf(d)
<1>1. pc[c] # "done"
  BY DEF ChainStep, RequestStep, OperationStep, BuilderRaises, RequestLogRaises, IssueRequests,
         AtOperation, OperationStops, OperationReturns, Resumes, CallbackStep, StartCallback,
         RunInExecutor, CallbackReturns, CallbackRaises, CallbackCancelled, CallbackEnds, Note,
         FinishStep, FinishChain, FlushResult, EndChain
<1>2. CASE d # c
  <2>1. SameChain(d)
    BY <1>2, Elsewhere
  <2> QED
    BY <2>1 DEF SameChain, StateOf
<1>3. CASE d = c
  <2>1. StateOf(c) = "running"
    BY <1>1, RunningState
  <2>2. pc'[c] # "done"
    BY <1>3
  <2>3. StateOf(c)' = "running"
    BY <2>2 DEF StateOf, Left
  <2> QED
    BY <1>3, <2>1, <2>3
<1> QED
  BY <1>2, <1>3

LEMMA SameReports ==
  ASSUME TypeInv, TypeInv', NEW c \in Chain, ChainStep(c), ~Flushes(c), NEW d \in Chain
  PROVE  Reported(d)' = Reported(d)
<1>1. \A s, i : <<s, i>> \in Reported(d)' <=> <<s, i>> \in Reported(d)
  <2> SUFFICES ASSUME NEW s, NEW i
               PROVE  <<s, i>> \in Reported(d)' <=> <<s, i>> \in Reported(d)
    OBVIOUS
  <2>1. InLog(d, s, i)' <=> InLog(d, s, i)
    BY LogStep
  <2>2. <<s, i>> \in Reported(d) <=> InLog(d, s, i)
    BY ReportedIsInLog
  <2>3. <<s, i>> \in Reported(d)' <=> InLog(d, s, i)'
    BY DEF Reported, InLog
  <2> QED
    BY <2>1, <2>2, <2>3
<1>2. \A w \in Reported(d) : w = <<w[1], w[2]>>
  BY ReportedIsInLog
<1>3. \A w \in Reported(d)' : w = <<w[1], w[2]>>
  BY DEF Reported
<1> QED
  BY <1>1, <1>2, <1>3

LEMMA ServerRefines ==
  ASSUME TypeInv, TypeInv', NEW c \in Chain, Left(c), NEW i \in Items(c), ServerApplies(c, i)
  PROVE  Abstract!TakesEffect(c)
<1> DEFINE w == <<step[c], i>>
<1>1. /\ pc[c] = "waiting" /\ applied' = applied \cup {<<c, step[c], i>>}
      /\ UNCHANGED <<pc, result, failure, log>>
  BY DEF ServerApplies
<1>2. w \in Effect(c)
  <2>1. \A v \in applied' : <<v[2], v[3]>> \in Effect(v[1])
    BY DEF TypeInv, TypeOK
  <2>2. <<c, step[c], i>> \in applied'
    BY <1>1
  <2> QED
    BY <2>1, <2>2
<1>3. \A d \in Chain : EffectsOf(d)' = IF d = c THEN EffectsOf(d) \cup {w} ELSE EffectsOf(d)
  <2>1. ASSUME NEW d \in Chain, d # c
        PROVE  EffectsOf(d)' = EffectsOf(d)
    BY <1>1, <2>1 DEF EffectsOf
  <2>2. EffectsOf(c)' = EffectsOf(c) \cup {w}
    <3> DEFINE v == <<c, step[c], i>>
               Of(a) == { <<x[2], x[3]>> : x \in { y \in a : y[1] = c } }
    <3>1. EffectsOf(c)' = Of(applied') /\ EffectsOf(c) = Of(applied)
      BY DEF EffectsOf
    <3>2. v[1] = c /\ <<v[2], v[3]>> = w
      OBVIOUS
    <3>3. Of(applied \cup {v}) = Of(applied) \cup {<<v[2], v[3]>>}
      <4> HIDE DEF v
      <4> QED
        BY <3>2
    <3> QED
      BY <1>1, <3>1, <3>2, <3>3
  <2> QED
    BY <2>1, <2>2
<1>4. \A d \in Chain : Reported(d)' = Reported(d)
  BY <1>1 DEF Reported
<1>5. States[c] = "running" /\ UNCHANGED <<States, failure, Reports>>
  <2>1. States' = States /\ Reports' = Reports
    BY <1>1, <1>4 DEF States, StateOf, Reports
  <2>2. StateOf(c) = "running"
    BY <1>1, RunningState
  <2> QED
    BY <1>1, <2>1, <2>2 DEF States
<1> HIDE DEF w
<1>6. Effects' = [Effects EXCEPT ![c] = @ \cup {w}]
  BY <1>3 DEF Effects
<1> QED
  BY <1>2, <1>5, <1>6, MappedTakesEffect

LEMMA MappedFails ==
  ASSUME NEW c \in Chain, States[c] = "running", failure[c] = NoFailure,
         NEW f \in Failure, failure' = [failure EXCEPT ![c] = f],
         UNCHANGED <<States, Effects, Reports>>
  PROVE  Abstract!Fails(c)
BY DEF Abstract!Fails, States, StateOf, Effects, EffectsOf, Reports

LEMMA MappedReports ==
  ASSUME NEW c \in Chain, States[c] = "running",
         NEW w \in Effects[c], Reports' = [Reports EXCEPT ![c] = @ \cup {w}],
         UNCHANGED <<States, failure, Effects>>
  PROVE  Abstract!Reports(c)
BY DEF Abstract!Reports, States, StateOf, Effects, EffectsOf, Reports

LEMMA MappedEnds ==
  ASSUME NEW c \in Chain, States[c] = "running",
         failure[c] = NoFailure => Effects[c] = Reports[c],
         States' = [States EXCEPT ![c] = "ended"],
         UNCHANGED <<failure, Effects, Reports>>
  PROVE  Abstract!Ends(c)
BY DEF Abstract!Ends, States, StateOf, Effects, EffectsOf, Reports

LEMMA MappedBreaks ==
  ASSUME NEW c \in Chain, States[c] = "running",
         States' = [States EXCEPT ![c] = "broken"],
         UNCHANGED <<failure, Effects, Reports>>
  PROVE  Abstract!Breaks(c)
BY DEF Abstract!Breaks, States, StateOf, Effects, EffectsOf, Reports

LEMMA MappedStutter ==
  ASSUME UNCHANGED <<States, failure, Effects, Reports>>
  PROVE  UNCHANGED Abstract!vars
BY DEF Abstract!vars, States, StateOf, Effects, EffectsOf, Reports

LEMMA FlushRefines ==
  ASSUME TypeInv, RecordInv, NEW c \in Chain, Flushes(c)
  PROVE  Abstract!Reports(c)
<1>1. PICK i \in Head(queued[c]).items : queued[c] # <<>> /\ FlushResult(c, i)
  BY DEF Flushes
<1> DEFINE n == Head(queued[c]).step
           w == <<n, i>>
<1>2. Recorded(c) /\ Left(c) /\ QueueInOrder(c) /\ Books(c) /\ Served(c)
  BY DEF RecordInv, Recorded
<1>3. /\ n \in Nat /\ i \in Nat /\ InQueue(c, n, i)
      /\ \A d, s, j : InLog(d, s, j)' <=> InLog(d, s, j) \/ (d = c /\ s = n /\ j = i)
  BY <1>1, <1>2, FlushMoves
<1> HIDE DEF n
<1>4. pc[c] = "flushing" /\ UNCHANGED <<pc, result, failure, applied>>
  BY <1>1 DEF FlushResult
<1>5. States[c] = "running" /\ UNCHANGED <<States, failure, Effects>>
  <2>1. States' = States /\ Effects' = Effects
    BY <1>4 DEF States, StateOf, Effects, EffectsOf
  <2>2. StateOf(c) = "running"
    BY <1>2, <1>4, RunningState
  <2> QED
    BY <1>4, <2>1, <2>2 DEF States
<1>6. w \in Effects[c]
  <2>1. Settled(c, n, i)
    BY <1>2, <1>3 DEF Books
  <2>2. <<c, n, i>> \in applied
    BY <1>2, <2>1, SettledIsApplied
  <2> DEFINE v == <<c, n, i>>
  <2>3. v[1] = c /\ w = <<v[2], v[3]>>
    OBVIOUS
  <2> QED
    BY <2>2, <2>3 DEF Effects, EffectsOf
<1>7. ASSUME NEW d \in Chain
      PROVE  Reported(d)' = IF d = c THEN Reported(d) \cup {w} ELSE Reported(d)
  <2> DEFINE new == IF d = c THEN Reported(d) \cup {w} ELSE Reported(d)
  <2>1. \A s, j : <<s, j>> \in Reported(d)' <=> <<s, j>> \in new
    <3> SUFFICES ASSUME NEW s, NEW j
                 PROVE  <<s, j>> \in Reported(d)' <=> <<s, j>> \in new
      OBVIOUS
    <3>1. InLog(d, s, j)' <=> InLog(d, s, j) \/ (d = c /\ s = n /\ j = i)
      BY <1>3
    <3>2. <<s, j>> \in Reported(d) <=> InLog(d, s, j)
      BY ReportedIsInLog
    <3>3. <<s, j>> \in Reported(d)' <=> InLog(d, s, j)'
      BY DEF Reported, InLog
    <3>4. <<s, j>> = w <=> s = n /\ j = i
      OBVIOUS
    <3> HIDE DEF w
    <3> QED
      BY <3>1, <3>2, <3>3, <3>4
  <2>2. \A x \in new : x = <<x[1], x[2]>>
    BY ReportedIsInLog
  <2>3. \A x \in Reported(d)' : x = <<x[1], x[2]>>
    BY DEF Reported
  <2> HIDE DEF new
  <2>4. Reported(d)' = new
    BY <2>1, <2>2, <2>3
  <2> QED
    BY <2>4 DEF new
<1> HIDE DEF w
<1>8. Reports' = [Reports EXCEPT ![c] = @ \cup {w}]
  BY <1>7 DEF Reports
<1> QED
  BY <1>5, <1>6, <1>8, MappedReports

\* A step that neither touches the server nor writes a [RESULT] line: the chain
\* goes on, perhaps with a failure now, or it ends, or it breaks.
Quiet(c) == ~Flushes(c) /\ applied' = applied

LEMMA QuietKeeps ==
  ASSUME TypeInv, TypeInv', NEW c \in Chain, ChainStep(c), Quiet(c)
  PROVE  UNCHANGED <<Effects, Reports>>
<1>1. Effects' = Effects
  BY DEF Quiet, Effects, EffectsOf
<1>2. \A d \in Chain : Reported(d)' = Reported(d)
  BY SameReports DEF Quiet
<1>3. Reports' = Reports
  BY <1>2 DEF Reports
<1> QED
  BY <1>1, <1>3

LEMMA QuietGoesOn ==
  ASSUME TypeInv, TypeInv', RecordInv, RecordInv', NEW c \in Chain, ChainStep(c), Quiet(c),
         pc'[c] # "done"
  PROVE  Abstract!Fails(c) \/ UNCHANGED Abstract!vars
<1>1. UNCHANGED <<Effects, Reports>>
  BY QuietKeeps
<1>2. Left(c) /\ Left(c)'
  BY DEF RecordInv, Recorded
<1>3. States' = States
  <2>1. \A d \in Chain : StateOf(d)' = StateOf(d)
    BY <1>2, SameState
  <2> QED
    BY <2>1 DEF States
<1>4. \A d \in Chain : d # c => failure'[d] = failure[d]
  BY Elsewhere DEF SameChain
<1>5. /\ failure \in [Chain -> Failure \cup {NoFailure}]
      /\ failure' \in [Chain -> Failure \cup {NoFailure}]
  BY DEF TypeInv, TypeOK
<1>6. CASE failure'[c] = failure[c]
  <2>1. failure' = failure
    BY <1>4, <1>5, <1>6
  <2> QED
    BY <1>1, <1>3, <2>1, MappedStutter
<1>7. CASE failure'[c] # failure[c]
  <2>1. failure[c] = NoFailure /\ failure'[c] \in Failure
    BY <1>5, <1>7, FailureStep
  <2>2. failure' = [failure EXCEPT ![c] = failure'[c]]
    BY <1>4, <1>5
  <2>3. States[c] = "running"
    <3>1. States'[c] = "running"
      BY <1>2 DEF States, StateOf, Left
    <3> QED
      BY <1>3, <3>1
  <2> QED
    BY <1>1, <1>3, <2>1, <2>2, <2>3, MappedFails
<1> QED
  BY <1>6, <1>7

LEMMA HowItEnds ==
  ASSUME TypeInv, NEW c \in Chain, ChainStep(c), pc'[c] = "done"
  PROVE  /\ pc[c] # "done" /\ failure' = failure
         /\ result'[c] = "raised" \/ EndChain(c)
<1>0. /\ pc \in [Chain -> {"ready", "waiting", "submitted", "callback", "flushing", "done"}]
      /\ result \in [Chain -> {"none", "value", "list", "error", "raised"}]
  BY DEF TypeInv, TypeOK
<1>1. CASE RequestStep(c)
  BY <1>1 DEF RequestStep, Acquire, ServerApplies, Answer
<1>2. CASE OperationStep(c)
  BY <1>0, <1>2 DEF OperationStep, BuilderRaises, RequestLogRaises, IssueRequests,
                    OperationStops, OperationReturns, Resumes, AtOperation, Stopped, Escapes
<1>3. CASE CallbackStep(c)
  BY <1>0, <1>3 DEF CallbackStep, StartCallback, RunInExecutor, CallbackReturns, CallbackRaises,
                    CallbackCancelled, CallbackEnds, Stopped, Escapes
<1>4. CASE Note(c) \/ FinishStep(c)
  BY <1>0, <1>4 DEF Note, FinishStep, FinishChain, FlushResult, EndChain
<1> QED
  BY <1>1, <1>2, <1>3, <1>4 DEF ChainStep

LEMMA QuietEnds ==
  ASSUME TypeInv, TypeInv', RecordInv, RecordInv', NEW c \in Chain, ChainStep(c), Quiet(c),
         pc'[c] = "done"
  PROVE  Abstract!Ends(c) \/ Abstract!Breaks(c)
<1>1. UNCHANGED <<failure, Effects, Reports>> /\ pc[c] # "done"
  BY QuietKeeps, HowItEnds
<1>2. Recorded(c) /\ Left(c) /\ Left(c)'
  BY DEF RecordInv, Recorded
<1>3. ASSUME NEW state, StateOf(c)' = state
      PROVE  States' = [States EXCEPT ![c] = state]
  <2>1. \A d \in Chain : d # c => StateOf(d)' = StateOf(d)
    BY <1>2, SameState
  <2> QED
    BY <1>3, <2>1 DEF States
<1>4. States[c] = "running"
  BY <1>1, <1>2, RunningState DEF States
<1>5. CASE result'[c] = "raised"
  <2>1. StateOf(c)' = "broken"
    BY <1>5 DEF StateOf
  <2>2. States' = [States EXCEPT ![c] = "broken"]
    BY <1>3, <2>1
  <2> QED
    BY <1>1, <1>4, <2>2, MappedBreaks
<1>6. CASE result'[c] # "raised"
  <2>1. EndChain(c)
    BY <1>6, HowItEnds
  <2>2. StateOf(c)' = "ended"
    BY <1>6 DEF StateOf
  <2>3. States' = [States EXCEPT ![c] = "ended"]
    BY <1>3, <2>2
  <2>4. ASSUME failure[c] = NoFailure
        PROVE  Effects[c] = Reports[c]
    <3>1. pc[c] = "flushing" /\ queued[c] = <<>>
      BY <2>1 DEF EndChain, Flushed
    <3>2. Effects[c] \subseteq Reported(c)
      BY <1>2, <2>4, <3>1, LeavesTheEffects DEF Effects, EffectsOf
    <3>3. ASSUME NEW w \in Reported(c)
          PROVE  w \in Effects[c]
      <4>1. w = <<w[1], w[2]>> /\ w[1] \in Nat /\ w[2] \in Nat /\ InLog(c, w[1], w[2])
        BY ReportedIsInLog
      <4>2. <<c, w[1], w[2]>> \in applied
        BY <1>2, <4>1, SettledIsApplied DEF Recorded, Books
      <4> DEFINE v == <<c, w[1], w[2]>>
      <4>3. v[1] = c /\ <<v[2], v[3]>> = w
        BY <4>1
      <4> HIDE DEF v
      <4>4. v \in applied
        BY <4>2 DEF v
      <4> QED
        BY <4>3, <4>4 DEF Effects, EffectsOf
    <3> QED
      BY <3>2, <3>3 DEF Reports
  <2> QED
    BY <1>1, <1>4, <2>3, <2>4, MappedEnds
<1> QED
  BY <1>5, <1>6

LEMMA InitRefines == Init => Abstract!Init
<1> SUFFICES ASSUME Init PROVE Abstract!Init
  OBVIOUS
<1>1. \A c \in Chain : StateOf(c) = "running" /\ EffectsOf(c) = {} /\ Reported(c) = {}
  BY DEF Init, StateOf, EffectsOf, Reported
<1> QED
  BY <1>1 DEF Init, Abstract!Init, StateOf, EffectsOf

\* Whatever the program, the faults and the interleaving: every step of the
\* chains is one that the abstract batch allows (a write takes effect, a chain
\* fails for the first time, a write that took place is reported, a chain ends
\* with everything reported or a failure to show, or breaks), or changes nothing
\* of it.  That is the safety part of ImplementsBatch, and with it everything
\* BatchProofs derives from the promise alone.
THEOREM ChainsRefineBatch == Spec => Abstract!Init /\ [][Abstract!Next]_(Abstract!vars)
<1>1. /\ TypeInv /\ RecordInv /\ TypeInv' /\ RecordInv'
      /\ [Next]_vars
      => [Abstract!Next]_(Abstract!vars)
  <2> SUFFICES ASSUME TypeInv, RecordInv, TypeInv', RecordInv', [Next]_vars
               PROVE  Abstract!Next \/ UNCHANGED Abstract!vars
    OBVIOUS
  <2>1. CASE UNCHANGED vars
    <3>1. UNCHANGED <<States, failure, Effects, Reports>>
      BY <2>1 DEF vars, States, StateOf, Effects, EffectsOf, Reports, Reported
    <3> QED
      BY <3>1, MappedStutter
  <2>2. ASSUME NEW c \in Chain, ChainStep(c)
        PROVE  Abstract!Next \/ UNCHANGED Abstract!vars
    <3>1. Left(c)
      BY DEF RecordInv, Recorded
    <3>2. CASE Flushes(c)
      BY <3>2, FlushRefines DEF Abstract!Next
    <3>3. CASE \E i \in Items(c) : ServerApplies(c, i)
      BY <3>1, <3>3, ServerRefines DEF Abstract!Next
    <3>4. CASE Quiet(c)
      BY <2>2, <3>4, QuietGoesOn, QuietEnds DEF Abstract!Next
    <3> QED
      BY <2>2, <3>2, <3>3, <3>4, AppliedStep DEF Quiet
  <2> QED
    BY <2>1, <2>2, StepOfAChain
<1> QED
  BY <1>1, InitRefines, RecordInvariant, PTL DEF Spec

(***************************************************************************)
(* The blocks of the logfile.  A chain has lines of its own there only when *)
(* its walk is over; while it flushes, whatever follows its first line is   *)
(* its own or a note, and what it has flushed comes before what its queue   *)
(* still holds.  One chain flushes at a time (LoopFree).                    *)
(***************************************************************************)
ComesBefore(s, i, t, j) == s < t \/ (s = t /\ i < j)

Open(c) ==
  /\ \A k \in DOMAIN log : Own(k, c) => pc[c] \in {"flushing", "done"}
  /\ pc[c] = "flushing" =>
       \A j, m \in DOMAIN log : Own(j, c) /\ j < m => Own(m, c) \/ log[m].kind = "note"
  /\ \A k \in DOMAIN log : Own(k, c) /\ log[k].kind = "result" =>
       \A s, i \in Nat : InQueue(c, s, i) => ComesBefore(log[k].step, log[k].item, s, i)

Whole(c) ==
  \A j, k \in DOMAIN log : j < k /\ Own(j, c) /\ Own(k, c) =>
    /\ log[k].kind = "result"
    /\ log[j].kind = "result" =>
         ComesBefore(log[j].step, log[j].item, log[k].step, log[k].item)
    /\ \A m \in j..k : Own(m, c) \/ log[m].kind = "note"

\* The segments of a line: one for each step, but that of a callback comes when
\* the callback ends.
Labelled(c) ==
  /\ pc[c] \in {"ready", "waiting"} => segments[c] = step[c]
  /\ pc[c] \in {"submitted", "callback"} => segments[c] + 1 = step[c]

OneFlushes == \A c, d \in Chain : pc[c] = "flushing" /\ pc[d] = "flushing" => c = d

LogInv ==
  /\ OneFlushes
  /\ ErrorBlockAtItsStep
  /\ \A c \in Chain : Labelled(c) /\ Open(c) /\ Whole(c)

LEMMA LabelledStep ==
  ASSUME TypeInv, NEW c \in Chain, ChainStep(c), Labelled(c)
  PROVE  Labelled(c)'
<1>0. /\ pc \in [Chain -> {"ready", "waiting", "submitted", "callback", "flushing", "done"}]
      /\ step \in [Chain -> Nat] /\ step[c] \in Nat
      /\ segments \in [Chain -> Nat] /\ segments[c] \in Nat
  BY DEF TypeInv, TypeOK
<1> USE DEF Labelled
<1>1. CASE RequestStep(c)
  BY <1>1 DEF RequestStep, Acquire, ServerApplies, Answer
<1>2. CASE OperationStep(c)
  <2>1. ASSUME NEW requests, BeginOperation(c, requests), AtOperation(c)
        PROVE  step'[c] = step[c] + 1 /\ segments'[c] = segments[c] + 1 /\ segments[c] = step[c]
    BY <1>0, <2>1 DEF BeginOperation, AtOperation
  <2>2. CASE \E exception \in {"network", "library"} : BuilderRaises(c, exception)
    BY <1>0, <2>2 DEF BuilderRaises, Stopped
  <2>3. CASE RequestLogRaises(c) \/ IssueRequests(c)
    BY <1>0, <2>1, <2>3 DEF RequestLogRaises, IssueRequests, Escapes
  <2>4. CASE OperationStops(c) \/ OperationReturns(c)
    BY <1>0, <2>4 DEF OperationStops, OperationReturns, Resumes, Stopped
  <2> QED
    BY <1>2, <2>2, <2>3, <2>4 DEF OperationStep
<1>3. CASE CallbackStep(c)
  BY <1>0, <1>3 DEF CallbackStep, StartCallback, RunInExecutor, CallbackReturns, CallbackRaises,
                    CallbackCancelled, CallbackEnds, CallbackSegments, Stopped, Escapes
<1>4. CASE Note(c) \/ FinishStep(c)
  BY <1>0, <1>4 DEF Note, FinishStep, FinishChain, FlushResult, EndChain
<1> QED
  BY <1>1, <1>2, <1>3, <1>4 DEF ChainStep

(***************************************************************************)
(* What a step writes: nothing, a note, the first line of a block, or a    *)
(* [RESULT] line.                                                          *)
(***************************************************************************)
Silent(c) ==
  /\ log' = log
  /\ pc'[c] = "flushing" => pc[c] = "flushing"
  /\ pc[c] \in {"flushing", "done"} => pc'[c] \in {"flushing", "done"} /\ queued' = queued

Notes == \E line \in Line : log' = Append(log, line) /\ line.kind = "note" /\ UNCHANGED <<pc, queued>>

Opens(c) ==
  /\ LoopFree /\ pc[c] \notin {"flushing", "done"}
  /\ \E line \in Line : /\ log' = Append(log, line)
                        /\ line.kind \in {"line", "error"} /\ line.chain = c
                        /\ line.kind = "error" => line.item = line.step
  /\ pc'[c] = "flushing"
  /\ queued' = queued

LEMMA OpensWith ==
  ASSUME TypeInv, NEW c \in Chain, LoopFree, pc[c] \notin {"flushing", "done"},
         NEW kind \in {"line", "error"}, NEW s \in Nat, NEW n \in Nat, kind = "error" => n = s,
         WriteLine(kind, c, s, n), pc' = [pc EXCEPT ![c] = "flushing"], queued' = queued
  PROVE  Opens(c)
<1> DEFINE line == [kind |-> kind, chain |-> c, step |-> s, item |-> n]
<1>1. /\ line \in Line /\ line.kind = kind /\ line.chain = c
      /\ line.kind = "error" => line.item = line.step
  BY DEF Line
<1>2. log' = Append(log, line)
  BY DEF WriteLine
<1>3. pc'[c] = "flushing"
  BY DEF TypeInv, TypeOK
<1> HIDE DEF line
<1> QED
  BY <1>1, <1>2, <1>3 DEF Opens

LEMMA WhatIsWritten ==
  ASSUME TypeInv, NEW c \in Chain, ChainStep(c), Labelled(c)
  PROVE  Silent(c) \/ Notes \/ Opens(c) \/ Flushes(c)
<1>0. /\ pc \in [Chain -> {"ready", "waiting", "submitted", "callback", "flushing", "done"}]
      /\ step \in [Chain -> Nat] /\ step[c] \in Nat
      /\ segments \in [Chain -> Nat] /\ segments[c] \in Nat
  BY DEF TypeInv, TypeOK
<1>1. CASE RequestStep(c)
  BY <1>1 DEF RequestStep, Acquire, ServerApplies, Answer, Silent
<1>2. CASE OperationStep(c)
  <2>1. ASSUME NEW exception, BuilderRaises(c, exception)
        PROVE  Opens(c)
    <3>1. /\ LoopFree /\ pc[c] = "ready" /\ queued' = queued
          /\ WriteLine("error", c, step[c] + 1, segments[c] + 1)
          /\ pc' = [pc EXCEPT ![c] = "flushing"]
      BY <2>1 DEF BuilderRaises, AtOperation, BeginOperation, Stopped
    <3>2. step[c] + 1 \in Nat /\ segments[c] + 1 = step[c] + 1
      BY <1>0, <3>1 DEF Labelled
    <3> QED
      BY <3>1, <3>2, OpensWith
  <2>2. CASE OperationStops(c)
    <3>1. /\ LoopFree /\ pc[c] = "waiting" /\ queued' = queued
          /\ WriteLine("error", c, step[c], segments[c])
          /\ pc' = [pc EXCEPT ![c] = "flushing"]
      BY <2>2 DEF OperationStops, Resumes, Stopped
    <3>2. segments[c] = step[c]
      BY <3>1 DEF Labelled
    <3> QED
      BY <1>0, <3>1, <3>2, OpensWith
  <2>3. CASE RequestLogRaises(c) \/ IssueRequests(c) \/ OperationReturns(c)
    BY <1>0, <2>3 DEF RequestLogRaises, IssueRequests, AtOperation, OperationReturns, Resumes,
                      Escapes, Silent
  <2> QED
    BY <1>2, <2>1, <2>2, <2>3 DEF OperationStep
<1>3. CASE CallbackStep(c)
  <2>1. CASE CallbackRaises(c)
    <3>1. /\ LoopFree /\ pc[c] = "callback" /\ queued' = queued
          /\ WriteLine("error", c, step[c], segments'[c])
          /\ pc' = [pc EXCEPT ![c] = "flushing"]
      BY <2>1 DEF CallbackRaises, CallbackEnds, Stopped
    <3>2. segments'[c] = step[c]
      BY <1>0, <2>1, <3>1 DEF CallbackRaises, CallbackSegments, Labelled
    <3> QED
      BY <1>0, <3>1, <3>2, OpensWith
  <2>2. CASE ~CallbackRaises(c)
    BY <1>0, <1>3, <2>2 DEF CallbackStep, StartCallback, RunInExecutor, CallbackReturns,
                            CallbackCancelled, CallbackEnds, Escapes, Silent
  <2> QED
    BY <2>1, <2>2
<1>4. CASE Note(c)
  <2> DEFINE note == [kind |-> "note", chain |-> c, step |-> step[c], item |-> 0]
  <2>1. /\ note \in Line /\ note.kind = "note" /\ log' = Append(log, note)
        /\ UNCHANGED <<pc, queued>>
    BY <1>0, <1>4 DEF Note, Line
  <2> HIDE DEF note
  <2> QED
    BY <2>1 DEF Notes
<1>5. CASE FinishStep(c)
  <2>1. CASE FinishChain(c)
    <3>1. /\ LoopFree /\ pc[c] = "ready" /\ queued' = queued
          /\ WriteLine("line", c, step[c], segments'[c])
          /\ pc' = [pc EXCEPT ![c] = "flushing"]
          /\ segments'[c] \in Nat
      BY <1>0, <2>1 DEF FinishChain
    <3> QED
      BY <1>0, <3>1, OpensWith
  <2>2. CASE EndChain(c)
    BY <1>0, <2>2 DEF EndChain, Silent
  <2> QED
    BY <1>5, <2>1, <2>2 DEF FinishStep, Flushes
<1> QED
  BY <1>1, <1>2, <1>3, <1>4, <1>5 DEF ChainStep

(***************************************************************************)
(* The lines after a step that writes one.                                 *)
(***************************************************************************)
Appended(line) ==
  LET n == Len(log) + 1
  IN  /\ n \in Nat /\ DOMAIN log' = DOMAIN log \cup {n} /\ log'[n] = line
      /\ DOMAIN log = 1..(n - 1)
      /\ \A k \in DOMAIN log : k \in Nat /\ k < n /\ log'[k] = log[k]

LEMMA LineAppended ==
  ASSUME TypeInv, NEW line \in Line, log' = Append(log, line)
  PROVE  Appended(line)
<1>1. log \in Seq(Line)
  BY DEF TypeInv, TypeOK
<1>2. Len(log) \in Nat /\ DOMAIN log = 1..Len(log)
  BY <1>1, LenProperties
<1>3. /\ DOMAIN log' = 1..(Len(log) + 1) /\ log'[Len(log) + 1] = line
      /\ \A k \in 1..Len(log) : log'[k] = log[k]
  BY <1>1, <1>2, AppendProperties, LenProperties
<1> QED
  BY <1>2, <1>3 DEF Appended

\* Whose the lines of the log are does not change.
LEMMA OwnKept ==
  ASSUME NEW line, Appended(line), NEW k \in DOMAIN log, NEW c
  PROVE  Own(k, c)' <=> Own(k, c)
BY DEF Appended, Own

LEMMA OwnNew ==
  ASSUME NEW line, Appended(line), NEW c
  PROVE  \A k \in DOMAIN log' : Own(k, c)' =>
           \/ k \in DOMAIN log
           \/ k = Len(log) + 1 /\ line.chain = c /\ line.kind # "note"
BY DEF Appended, Own

\* A line of somebody else, written while the chain is not flushing, or a note.
LEMMA OtherLine ==
  ASSUME NEW d \in Chain, NEW line, Appended(line), Open(d), Whole(d),
         line.chain # d \/ line.kind = "note",
         pc[d] = "flushing" => line.kind = "note",
         pc'[d] = pc[d], queued'[d] = queued[d]
  PROVE  Open(d)' /\ Whole(d)'
<1> DEFINE n == Len(log) + 1
<1>1. ASSUME NEW k \in DOMAIN log', Own(k, d)'
      PROVE  k \in DOMAIN log /\ Own(k, d) /\ log'[k] = log[k]
  BY <1>1, OwnNew, OwnKept DEF Appended
<1>2. /\ DOMAIN log' = DOMAIN log \cup {n} /\ log'[n] = line /\ n \in Nat
      /\ DOMAIN log = 1..(n - 1)
      /\ \A k \in DOMAIN log : k \in Nat /\ k < n /\ log'[k] = log[k]
  BY DEF Appended
<1> HIDE DEF n
<1>3. Open(d)'
  <2>1. ASSUME NEW k \in DOMAIN log', Own(k, d)'
        PROVE  /\ pc'[d] \in {"flushing", "done"}
               /\ log'[k].kind = "result" =>
                    \A s, i \in Nat :
                      InQueue(d, s, i)' => ComesBefore(log'[k].step, log'[k].item, s, i)
    <3>1. \A s, i : InQueue(d, s, i)' <=> InQueue(d, s, i)
      BY DEF InQueue
    <3> QED
      BY <1>1, <2>1, <3>1 DEF Open
  <2>2. ASSUME pc'[d] = "flushing", NEW j \in DOMAIN log', NEW m \in DOMAIN log',
               Own(j, d)', j < m
        PROVE  Own(m, d)' \/ log'[m].kind = "note"
    <3>1. CASE m = n
      BY <1>2, <2>2, <3>1
    <3>2. CASE m \in DOMAIN log
      <4>1. j \in DOMAIN log /\ Own(j, d)
        BY <1>1, <2>2
      <4>2. Own(m, d) \/ log[m].kind = "note"
        BY <2>2, <3>2, <4>1 DEF Open
      <4> QED
        BY <1>2, <3>2, <4>2, OwnKept
    <3> QED
      BY <1>2, <3>1, <3>2
  <2> QED
    BY <2>1, <2>2 DEF Open
<1>4. Whole(d)'
  <2> SUFFICES ASSUME NEW j \in DOMAIN log', NEW k \in DOMAIN log', j < k, Own(j, d)', Own(k, d)'
               PROVE  /\ log'[k].kind = "result"
                      /\ log'[j].kind = "result" =>
                           ComesBefore(log'[j].step, log'[j].item, log'[k].step, log'[k].item)
                      /\ \A m \in j..k : Own(m, d)' \/ log'[m].kind = "note"
    BY DEF Whole
  <2>1. /\ j \in DOMAIN log /\ Own(j, d) /\ log'[j] = log[j]
        /\ k \in DOMAIN log /\ Own(k, d) /\ log'[k] = log[k]
    BY <1>1
  <2>2. \A m \in j..k : m \in DOMAIN log /\ log'[m] = log[m]
    BY <1>2, <2>1
  <2>3. \A m \in j..k : Own(m, d) \/ log[m].kind = "note"
    BY <2>1 DEF Whole
  <2>4. \A m \in j..k : Own(m, d)' <=> Own(m, d)
    BY <2>2, OwnKept
  <2> QED
    BY <2>1, <2>2, <2>3, <2>4 DEF Whole
<1> QED
  BY <1>3, <1>4

\* The first line of a chain's block.
LEMMA FirstLine ==
  ASSUME NEW c \in Chain, NEW line, Appended(line), Open(c),
         pc[c] \notin {"flushing", "done"}, pc'[c] = "flushing", line.kind # "result"
  PROVE  Open(c)' /\ Whole(c)'
<1> DEFINE n == Len(log) + 1
<1>1. /\ DOMAIN log' = DOMAIN log \cup {n} /\ log'[n] = line
      /\ \A k \in DOMAIN log : k \in Nat /\ k < n
  BY DEF Appended
<1>2. \A k \in DOMAIN log : ~Own(k, c)
  BY DEF Open
<1>3. \A k \in DOMAIN log' : Own(k, c)' => k = n
  BY <1>1, <1>2, OwnKept
<1>4. n \in Nat
  BY DEF Appended
<1> HIDE DEF n
<1>5. Open(c)'
  <2>1. \A k \in DOMAIN log' : Own(k, c)' => log'[k].kind # "result" /\ \A m \in DOMAIN log' : ~(k < m)
    BY <1>1, <1>3, <1>4
  <2> QED
    BY <2>1 DEF Open
<1>6. Whole(c)'
  <2>1. \A j, k \in DOMAIN log' : ~(j < k /\ Own(j, c)' /\ Own(k, c)')
    BY <1>3, <1>4
  <2> QED
    BY <2>1 DEF Whole
<1> QED
  BY <1>5, <1>6

\* The next [RESULT] line of a block: behind every line of it, and before what
\* the queue still holds.
LEMMA NextLine ==
  ASSUME TypeInv, NEW c \in Chain, QueueInOrder(c), Flushes(c), Open(c), Whole(c)
  PROVE  Open(c)' /\ Whole(c)'
<1>1. PICK i \in Head(queued[c]).items : queued[c] # <<>> /\ FlushResult(c, i)
  BY DEF Flushes
<1> DEFINE s == Head(queued[c]).step
           line == [kind |-> "result", chain |-> c, step |-> s, item |-> i]
           n == Len(log) + 1
<1>2. /\ s \in Nat /\ i \in Nat /\ InQueue(c, s, i)
      /\ \A t, j : InQueue(c, t, j)' <=> InQueue(c, t, j) /\ ~(t = s /\ j = i)
  BY <1>1, FlushMoves
<1>3. pc[c] = "flushing" /\ pc'[c] = "flushing"
  BY <1>1 DEF FlushResult
<1>4. Appended(line)
  <2>1. line \in Line /\ log' = Append(log, line)
    BY <1>1, <1>2 DEF FlushResult, Line
  <2> HIDE DEF line
  <2> QED
    BY <2>1, LineAppended
<1>5. ASSUME NEW t \in Nat, NEW j \in Nat, InQueue(c, t, j)'
      PROVE  ComesBefore(s, i, t, j)
  <2>1. PICK q \in DOMAIN queued[c] : queued[c][q].step = t /\ j \in queued[c][q].items
    BY <1>2, <1>5 DEF InQueue
  <2>2. ~(t = s /\ j = i)
    BY <1>2, <1>5
  <2>3. 1 \in DOMAIN queued[c] /\ Head(queued[c]) = queued[c][1] /\ q \in Nat /\ 1 <= q
    BY <1>1, <2>1, QueueShrinks, QueueType
  <2>4. CASE q = 1
    <3>1. t = s /\ j \in Head(queued[c]).items
      BY <2>1, <2>3, <2>4
    <3>2. i <= j
      BY <1>1, <3>1 DEF FlushResult
    <3> HIDE DEF s
    <3> QED
      BY <1>2, <2>2, <3>1, <3>2 DEF ComesBefore
  <2>5. CASE q # 1
    BY <2>1, <2>3, <2>5 DEF QueueInOrder, ComesBefore
  <2> QED
    BY <2>4, <2>5
<1>6. line.chain = c /\ line.kind = "result" /\ line.step = s /\ line.item = i
  OBVIOUS
<1>7. /\ DOMAIN log' = DOMAIN log \cup {n} /\ log'[n] = line /\ n \in Nat
      /\ DOMAIN log = 1..(n - 1)
      /\ \A k \in DOMAIN log : k \in Nat /\ k < n /\ log'[k] = log[k]
  BY <1>4 DEF Appended
<1> HIDE DEF line, s, n
<1>8. /\ \A k \in DOMAIN log' : k = n => Own(k, c)'
      /\ \A k \in DOMAIN log : Own(k, c)' <=> Own(k, c)
  BY <1>6, <1>7 DEF Own
<1>9. \A k \in DOMAIN log : Own(k, c) /\ log[k].kind = "result" =>
        ComesBefore(log[k].step, log[k].item, s, i)
  BY <1>2 DEF Open
<1>10. ASSUME NEW j \in DOMAIN log', NEW m \in DOMAIN log', Own(j, c)', j <= m
       PROVE  Own(m, c)' \/ log'[m].kind = "note"
  <2>1. CASE m = n
    BY <1>8, <2>1
  <2>2. CASE m = j
    BY <1>10, <2>2
  <2>3. CASE m \in DOMAIN log /\ m # j
    <3>1. j \in DOMAIN log /\ j < m
      BY <1>7, <1>10, <2>3
    <3>2. Own(m, c) \/ log[m].kind = "note"
      BY <1>3, <1>8, <1>10, <2>3, <3>1 DEF Open
    <3> QED
      BY <1>7, <1>8, <2>3, <3>2
  <2> QED
    BY <1>7, <2>1, <2>2, <2>3
<1>11. Open(c)'
  <2>1. ASSUME NEW k \in DOMAIN log', Own(k, c)', log'[k].kind = "result",
               NEW t \in Nat, NEW j \in Nat, InQueue(c, t, j)'
        PROVE  ComesBefore(log'[k].step, log'[k].item, t, j)
    <3>1. CASE k = n
      BY <1>5, <1>6, <1>7, <2>1, <3>1
    <3>2. CASE k \in DOMAIN log
      BY <1>2, <1>7, <1>8, <2>1, <3>2 DEF Open
    <3> QED
      BY <1>7, <3>1, <3>2
  <2>2. ASSUME NEW j \in DOMAIN log', NEW m \in DOMAIN log', Own(j, c)', j < m
        PROVE  Own(m, c)' \/ log'[m].kind = "note"
    <3>1. j <= m
      BY <1>7, <2>2
    <3> QED
      BY <1>10, <2>2, <3>1
  <2> QED
    BY <1>3, <2>1, <2>2 DEF Open
<1>12. Whole(c)'
  <2> SUFFICES ASSUME NEW j \in DOMAIN log', NEW k \in DOMAIN log', j < k, Own(j, c)', Own(k, c)'
               PROVE  /\ log'[k].kind = "result"
                      /\ log'[j].kind = "result" =>
                           ComesBefore(log'[j].step, log'[j].item, log'[k].step, log'[k].item)
                      /\ \A m \in j..k : Own(m, c)' \/ log'[m].kind = "note"
    BY DEF Whole
  <2>1. j \in DOMAIN log
    BY <1>7
  <2>2. \A m \in j..k : m \in DOMAIN log' /\ j <= m
    BY <1>7, <2>1
  <2>3. \A m \in j..k : Own(m, c)' \/ log'[m].kind = "note"
    BY <1>10, <2>2
  <2>4. CASE k = n
    BY <1>6, <1>7, <1>8, <1>9, <2>1, <2>3, <2>4
  <2>5. CASE k \in DOMAIN log
    <3>1. Own(j, c) /\ Own(k, c) /\ log'[j] = log[j] /\ log'[k] = log[k]
      BY <1>7, <1>8, <2>1, <2>5
    <3> QED
      BY <2>1, <2>3, <2>5, <3>1 DEF Whole
  <2> QED
    BY <1>7, <2>4, <2>5
<1> QED
  BY <1>11, <1>12

(***************************************************************************)
(* The invariant, step by step.                                            *)
(***************************************************************************)
LEMMA BlocksStep ==
  ASSUME TypeInv, RecordInv, LogInv, NEW c \in Chain, ChainStep(c), NEW d \in Chain
  PROVE  Open(d)' /\ Whole(d)'
<1>1. Open(c) /\ Whole(c) /\ Open(d) /\ Whole(d) /\ Labelled(c) /\ OneFlushes
  BY DEF LogInv
<1>2. d # c => pc'[d] = pc[d] /\ queued'[d] = queued[d]
  BY Elsewhere DEF SameChain
<1>3. CASE Silent(c)
  <2>1. \A k : Own(k, d)' <=> Own(k, d)
    BY <1>3 DEF Silent, Own
  <2>2. Whole(d)'
    BY <1>1, <1>3, <2>1 DEF Whole, Silent
  <2>3. CASE \E k \in DOMAIN log : Own(k, d)
    <3>1. pc[d] \in {"flushing", "done"}
      BY <1>1, <2>3 DEF Open
    <3>2. /\ pc'[d] \in {"flushing", "done"} /\ queued'[d] = queued[d]
          /\ pc'[d] = "flushing" => pc[d] = "flushing"
      BY <1>2, <1>3, <3>1 DEF Silent
    <3>3. \A s, i : InQueue(d, s, i)' <=> InQueue(d, s, i)
      BY <3>2 DEF InQueue
    <3> QED
      BY <1>1, <1>3, <2>1, <2>2, <3>2, <3>3 DEF Open, Silent
  <2>4. CASE ~\E k \in DOMAIN log : Own(k, d)
    <3>1. \A k \in DOMAIN log' : ~Own(k, d)'
      BY <1>3, <2>1, <2>4 DEF Silent
    <3> QED
      BY <2>2, <3>1 DEF Open
  <2> QED
    BY <2>3, <2>4
<1>4. CASE Notes
  <2>1. PICK line \in Line : log' = Append(log, line) /\ line.kind = "note" /\ UNCHANGED <<pc, queued>>
    BY <1>4 DEF Notes
  <2>2. Appended(line)
    BY <2>1, LineAppended
  <2> QED
    BY <1>1, <2>1, <2>2, OtherLine
<1>5. CASE Opens(c)
  <2>1. PICK line \in Line : /\ log' = Append(log, line)
                             /\ line.kind \in {"line", "error"} /\ line.chain = c
    BY <1>5 DEF Opens
  <2>2. Appended(line)
    BY <2>1, LineAppended
  <2>3. pc[d] # "flushing" /\ pc[c] \notin {"flushing", "done"} /\ pc'[c] = "flushing"
    BY <1>5 DEF Opens, LoopFree
  <2>4. CASE d = c
    BY <1>1, <2>1, <2>2, <2>3, <2>4, FirstLine
  <2>5. CASE d # c
    BY <1>1, <1>2, <2>1, <2>2, <2>3, <2>5, OtherLine
  <2> QED
    BY <2>4, <2>5
<1>6. CASE Flushes(c)
  <2>1. CASE d = c
    <3>1. QueueInOrder(c)
      BY DEF RecordInv, Recorded
    <3> QED
      BY <1>1, <1>6, <2>1, <3>1, NextLine
  <2>2. CASE d # c
    <3>1. PICK i \in Head(queued[c]).items : queued[c] # <<>> /\ FlushResult(c, i)
      BY <1>6 DEF Flushes
    <3> DEFINE s == Head(queued[c]).step
               line == [kind |-> "result", chain |-> c, step |-> s, item |-> i]
    <3>2. line \in Line /\ log' = Append(log, line) /\ line.chain = c
      <4>1. s \in Nat /\ i \in Nat
        BY <3>1, FlushMoves DEF RecordInv, Recorded
      <4> QED
        BY <3>1, <4>1 DEF FlushResult, Line
    <3> HIDE DEF line
    <3>3. Appended(line)
      BY <3>2, LineAppended
    <3>4. pc[d] # "flushing"
      BY <1>1, <2>2, <3>1 DEF OneFlushes, FlushResult
    <3> QED
      BY <1>1, <1>2, <2>2, <3>2, <3>3, <3>4, OtherLine
  <2> QED
    BY <2>1, <2>2
<1> QED
  BY <1>1, <1>3, <1>4, <1>5, <1>6, WhatIsWritten

LEMMA OneFlushesStep ==
  ASSUME TypeInv, OneFlushes, NEW c \in Chain, ChainStep(c), Labelled(c)
  PROVE  OneFlushes'
<1>1. \A d \in Chain : d # c => pc'[d] = pc[d]
  BY Elsewhere DEF SameChain
<1>2. CASE Opens(c)
  BY <1>1, <1>2 DEF Opens, OneFlushes, LoopFree
<1>3. CASE Silent(c) \/ Notes \/ Flushes(c)
  <2>1. pc'[c] = "flushing" => pc[c] = "flushing"
    BY <1>3 DEF Silent, Notes, Flushes, FlushResult
  <2>2. \A d \in Chain : pc'[d] = "flushing" => pc[d] = "flushing"
    BY <1>1, <2>1
  <2> QED
    BY <2>2 DEF OneFlushes
<1> QED
  BY <1>2, <1>3, WhatIsWritten

LEMMA ErrorBlocksStep ==
  ASSUME TypeInv, RecordInv, ErrorBlockAtItsStep, NEW c \in Chain, ChainStep(c), Labelled(c)
  PROVE  ErrorBlockAtItsStep'
<1>1. ASSUME NEW line \in Line, log' = Append(log, line),
             line.kind = "error" => line.item = line.step
      PROVE  ErrorBlockAtItsStep'
  <2>1. Appended(line)
    BY <1>1, LineAppended
  <2> QED
    BY <1>1, <2>1 DEF Appended, ErrorBlockAtItsStep
<1>2. CASE Silent(c)
  BY <1>2 DEF Silent, ErrorBlockAtItsStep
<1>3. CASE Notes
  BY <1>1, <1>3 DEF Notes
<1>4. CASE Opens(c)
  BY <1>1, <1>4 DEF Opens
<1>5. CASE Flushes(c)
  <2>1. PICK i \in Head(queued[c]).items : queued[c] # <<>> /\ FlushResult(c, i)
    BY <1>5 DEF Flushes
  <2> DEFINE s == Head(queued[c]).step
             line == [kind |-> "result", chain |-> c, step |-> s, item |-> i]
  <2>2. line \in Line /\ log' = Append(log, line) /\ line.kind # "error"
    <3>1. s \in Nat /\ i \in Nat
      BY <2>1, FlushMoves DEF RecordInv, Recorded
    <3> QED
      BY <2>1, <3>1 DEF FlushResult, Line
  <2> HIDE DEF line
  <2> QED
    BY <1>1, <2>2
<1> QED
  BY <1>2, <1>3, <1>4, <1>5, WhatIsWritten

LEMMA LogInvariant == Spec => []LogInv
<1>1. Init => LogInv
  <2> SUFFICES ASSUME Init PROVE LogInv
    OBVIOUS
  <2>1. OneFlushes /\ ErrorBlockAtItsStep
    BY DEF Init, OneFlushes, ErrorBlockAtItsStep
  <2>2. \A c \in Chain : Labelled(c) /\ Open(c) /\ Whole(c)
    BY DEF Init, Labelled, Open, Whole
  <2> QED
    BY <2>1, <2>2 DEF LogInv
<1>2. TypeInv /\ RecordInv /\ LogInv /\ [Next]_vars => LogInv'
  <2> SUFFICES ASSUME TypeInv, RecordInv, LogInv, [Next]_vars PROVE LogInv'
    OBVIOUS
  <2>1. CASE UNCHANGED vars
    <3>1. \A k, c : Own(k, c)' <=> Own(k, c)
      BY <2>1 DEF vars, Own
    <3>2. \A c, s, i : InQueue(c, s, i)' <=> InQueue(c, s, i)
      BY <2>1 DEF vars, InQueue
    <3>3. OneFlushes' /\ ErrorBlockAtItsStep'
      BY <2>1 DEF vars, LogInv, OneFlushes, ErrorBlockAtItsStep
    <3>4. ASSUME NEW c \in Chain
          PROVE  Labelled(c)' /\ Open(c)' /\ Whole(c)'
      BY <2>1, <3>1, <3>2 DEF vars, LogInv, Labelled, Open, Whole
    <3> QED
      BY <3>3, <3>4 DEF LogInv
  <2>2. ASSUME NEW c \in Chain, ChainStep(c)
        PROVE  LogInv'
    <3>1. OneFlushes /\ ErrorBlockAtItsStep /\ \A d \in Chain : Labelled(d)
      BY DEF LogInv
    <3>2. OneFlushes' /\ ErrorBlockAtItsStep'
      BY <2>2, <3>1, OneFlushesStep, ErrorBlocksStep
    <3>3. ASSUME NEW d \in Chain
          PROVE  Labelled(d)' /\ Open(d)' /\ Whole(d)'
      <4>1. Labelled(d)'
        <5>1. CASE d = c
          BY <2>2, <3>1, <5>1, LabelledStep
        <5>2. CASE d # c
          BY <2>2, <3>1, <5>2, Elsewhere DEF SameChain, Labelled
        <5> QED
          BY <5>1, <5>2
      <4> QED
        BY <2>2, <4>1, BlocksStep
    <3> QED
      BY <3>2, <3>3 DEF LogInv
  <2> QED
    BY <2>1, <2>2, StepOfAChain
<1> QED
  BY <1>1, <1>2, RecordInvariant, PTL DEF Spec

\* Whatever fails, and wherever: a line with an error block names the failing
\* step by its place among the segments, as there are as many of them as steps
\* (_stopped: "by construction").
THEOREM ErrorBlockNamesStep == Spec => []ErrorBlockAtItsStep
<1>1. LogInv => ErrorBlockAtItsStep
  BY DEF LogInv
<1> QED
  BY <1>1, LogInvariant, PTL

\* Whatever the other chains and the worker threads write meanwhile: what a
\* chain writes is one block, its line first, once, then its [RESULT] lines in
\* the order of the writes, with nothing of another chain's block between them.
THEOREM BlocksAreWhole == Spec => []OneBlockPerChain
<1>1. LogInv => OneBlockPerChain
  BY DEF LogInv, Whole, ComesBefore, OneBlockPerChain
<1> QED
  BY <1>1, LogInvariant, PTL

(***************************************************************************)
(* How far the promises reach that a batch does not keep in full (runs     *)
(* lost_record, unlogged, hidden).  A record that fails without stopping   *)
(* its chain comes from a node with several requests only; an exception    *)
(* that no handler sees costs a chain all of its lines.                    *)
(***************************************************************************)
PartlyFailed(c) == \E s \in Bad(c) : Multi(c, s)

ErrorLine(c, s) ==
  \E k \in DOMAIN log : log[k].kind = "error" /\ log[k].chain = c /\ log[k].step = s

Blamed(c) ==
  /\ result[c] = "error" => failure[c] # NoFailure /\ ErrorLine(c, step[c])
  /\ failure[c] # NoFailure /\ ~PartlyFailed(c) =>
       /\ result[c] = "error" /\ failure[c].step = step[c]
       /\ Node(c).kind = "callback" => failure[c].category = "CALLBACK"
  /\ result[c] = "raised" => \A k \in DOMAIN log : ~Own(k, c)

\* The exits of a chain that write its error line.
Halts(c, category) ==
  /\ pc[c] \in {"ready", "waiting", "callback"}
  /\ failure'[c] = FirstFailure(failure[c], [step |-> step'[c], category |-> category])
  /\ result'[c] = "error"
  /\ ErrorLine(c, step[c])'
  /\ Program[c][step'[c]].kind = "callback" => category = "CALLBACK"

LEMMA HaltsWith ==
  ASSUME TypeInv, NEW c \in Chain, NEW s \in Nat, NEW n \in Nat, NEW category,
         Stopped(c, s, n, category), step'[c] = s, pc[c] \in {"ready", "waiting", "callback"},
         Program[c][s].kind = "callback" => category = "CALLBACK"
  PROVE  Halts(c, category)
<1> DEFINE line == [kind |-> "error", chain |-> c, step |-> s, item |-> n]
<1>1. line \in Line /\ log' = Append(log, line) /\ line.kind = "error"
      /\ line.chain = c /\ line.step = s
  BY DEF Line, Stopped, WriteLine
<1> HIDE DEF line
<1>2. Appended(line)
  BY <1>1, LineAppended
<1>3. ErrorLine(c, s)'
  BY <1>1, <1>2 DEF ErrorLine, Appended
<1>4. /\ failure'[c] = FirstFailure(failure[c], [step |-> s, category |-> category])
      /\ result'[c] = "error"
  <2>1. DOMAIN failure = Chain /\ DOMAIN result = Chain
    BY DEF TypeInv, TypeOK
  <2> QED
    BY <2>1 DEF Stopped
<1>5. ErrorLine(c, step[c])'
  BY <1>3 DEF ErrorLine
<1> QED
  BY <1>4, <1>5 DEF Halts

\* Any other step keeps the failure, but for the answers of a node with several
\* requests, and turns no result into an error.
GoesOn(c) ==
  /\ \/ failure'[c] = failure[c]
     \/ /\ pc[c] = "waiting" /\ step'[c] = step[c]
        /\ Multi(c, step[c]) /\ Handles(c) /\ Errors(reqs[c][step[c]]) # {}
  /\ result'[c] = "error" => result[c] = "error" /\ step'[c] = step[c]
  /\ result'[c] # "error" => result[c] # "error"

LEMMA HaltsOrGoesOn ==
  ASSUME TypeInv, NEW c \in Chain, ChainStep(c), Left(c)
  PROVE  (\E category \in Category : Halts(c, category)) \/ GoesOn(c)
<1>0. /\ pc \in [Chain -> {"ready", "waiting", "submitted", "callback", "flushing", "done"}]
      /\ step \in [Chain -> Nat] /\ step[c] \in Nat
      /\ segments \in [Chain -> Nat] /\ segments[c] \in Nat
      /\ result \in [Chain -> {"none", "value", "list", "error", "raised"}]
      /\ failure \in [Chain -> Failure \cup {NoFailure}]
  BY DEF TypeInv, TypeOK
<1>1. result[c] = "error" => pc[c] \in {"flushing", "done"}
  BY DEF Left
<1>2. CASE RequestStep(c)
  BY <1>2 DEF RequestStep, Acquire, ServerApplies, Answer, GoesOn
<1>3. CASE OperationStep(c)
  <2>1. ASSUME NEW exception, BuilderRaises(c, exception)
        PROVE  \E category \in Category : Halts(c, category)
    <3>1. /\ pc[c] = "ready" /\ Program[c][step[c] + 1].kind = "operation"
          /\ Stopped(c, step[c] + 1, segments[c] + 1, Classify(exception))
      BY <2>1 DEF BuilderRaises, AtOperation, NextIs
    <3>2. step'[c] = step[c] + 1 /\ step[c] + 1 \in Nat /\ segments[c] + 1 \in Nat
      BY <1>0, <2>1 DEF BuilderRaises, BeginOperation
    <3>3. Program[c][step[c] + 1].kind # "callback"
      BY <3>1
    <3>4. Halts(c, Classify(exception))
      BY <3>1, <3>2, <3>3, HaltsWith
    <3> QED
      BY <3>4, ClassifyType
  <2>2. CASE RequestLogRaises(c) \/ IssueRequests(c)
    BY <1>0, <1>1, <2>2 DEF RequestLogRaises, IssueRequests, AtOperation, Escapes, GoesOn
  <2>3. CASE OperationStops(c)
    <3> DEFINE category == Classify(reqs[c][step[c]][LeastOf(Errors(reqs[c][step[c]]))])
    <3>1. /\ pc[c] = "waiting" /\ step' = step
          /\ Stopped(c, step[c], segments[c], category)
      BY <2>3 DEF OperationStops, Resumes
    <3>2. Program[c][step[c]].kind # "callback"
      BY <3>1, WaitingAt DEF Node
    <3>3. category \in Category
      BY ClassifyType
    <3> HIDE DEF category
    <3>4. Halts(c, category)
      BY <1>0, <3>1, <3>2, HaltsWith
    <3> QED
      BY <3>3, <3>4
  <2>4. CASE OperationReturns(c)
    <3>1. /\ pc[c] = "waiting" /\ step' = step /\ Handles(c) /\ ~Stops(c)
          /\ result'[c] \in {"list", "value"}
          /\ Errors(reqs[c][step[c]]) = {} => failure'[c] = failure[c]
      BY <1>0, <2>4 DEF OperationReturns, Resumes, Handles
    <3> QED
      BY <1>1, <3>1 DEF Stops, GoesOn
  <2> QED
    BY <1>3, <2>1, <2>2, <2>3, <2>4 DEF OperationStep
<1>4. CASE CallbackStep(c)
  <2>1. CASE CallbackRaises(c)
    <3>1. /\ pc[c] = "callback" /\ step' = step /\ segments'[c] \in Nat
          /\ Stopped(c, step[c], segments'[c], Classify("user"))
      BY <1>0, <2>1 DEF CallbackRaises, CallbackEnds, CallbackSegments
    <3>2. Classify("user") = "CALLBACK"
      BY DEF Classify
    <3>3. Halts(c, Classify("user"))
      BY <1>0, <3>1, <3>2, HaltsWith
    <3> QED
      BY <3>3, ClassifyType
  <2>2. CASE StartCallback(c) \/ RunInExecutor(c)
    BY <1>0, <1>1, <2>2 DEF StartCallback, RunInExecutor, GoesOn
  <2>3. CASE CallbackReturns(c)
    BY <1>0, <1>1, <2>3 DEF CallbackReturns, CallbackEnds, GoesOn
  <2>4. CASE CallbackCancelled(c)
    BY <1>0, <1>1, <2>4 DEF CallbackCancelled, CallbackEnds, Escapes, GoesOn
  <2> QED
    BY <1>4, <2>1, <2>2, <2>3, <2>4 DEF CallbackStep
<1>5. CASE Note(c) \/ FinishStep(c)
  BY <1>5 DEF Note, FinishStep, FinishChain, FlushResult, EndChain, GoesOn
<1> QED
  BY <1>2, <1>3, <1>4, <1>5 DEF ChainStep

\* A chain that raises does so before its walk is over, and writes nothing then
\* or later.
LEMMA RaisedEarly ==
  ASSUME TypeInv, NEW c \in Chain, ChainStep(c), Left(c), result'[c] = "raised"
  PROVE  /\ result[c] = "raised" \/ pc[c] \notin {"flushing", "done"}
         /\ ~Opens(c) /\ ~Flushes(c)
<1>0. /\ pc \in [Chain -> {"ready", "waiting", "submitted", "callback", "flushing", "done"}]
      /\ result \in [Chain -> {"none", "value", "list", "error", "raised"}]
  BY DEF TypeInv, TypeOK
<1>1. result[c] = "raised" => pc[c] = "done"
  BY DEF Left
<1>2. CASE RequestStep(c)
  BY <1>1, <1>2 DEF RequestStep, Acquire, ServerApplies, Answer, Opens, Flushes, FlushResult
<1>3. CASE OperationStep(c)
  BY <1>0, <1>1, <1>3
    DEF OperationStep, BuilderRaises, RequestLogRaises, IssueRequests, OperationStops,
        OperationReturns, Resumes, AtOperation, Stopped, Escapes, Opens, Flushes, FlushResult
<1>4. CASE CallbackStep(c)
  BY <1>0, <1>1, <1>4
    DEF CallbackStep, StartCallback, RunInExecutor, CallbackReturns, CallbackRaises,
        CallbackCancelled, CallbackEnds, Stopped, Escapes, Opens, Flushes, FlushResult
<1>5. CASE Note(c) \/ FinishStep(c)
  BY <1>0, <1>1, <1>5 DEF Note, FinishStep, FinishChain, FlushResult, EndChain, Opens, Flushes
<1> QED
  BY <1>2, <1>3, <1>4, <1>5 DEF ChainStep

\* Whatever a step of a chain does to the log, it appends a line of its own, or
\* a note.
LEMMA LogGrows ==
  ASSUME TypeInv, RecordInv, NEW c \in Chain, ChainStep(c), Labelled(c)
  PROVE  \/ log' = log
         \/ \E line \in Line : /\ log' = Append(log, line)
                               /\ line.chain = c \/ line.kind = "note"
<1>1. CASE Flushes(c)
  <2>1. PICK i \in Head(queued[c]).items : queued[c] # <<>> /\ FlushResult(c, i)
    BY <1>1 DEF Flushes
  <2> DEFINE line == [kind |-> "result", chain |-> c, step |-> Head(queued[c]).step, item |-> i]
  <2>2. Head(queued[c]).step \in Nat /\ i \in Nat
    BY <2>1, FlushMoves DEF RecordInv, Recorded
  <2>3. line \in Line /\ line.chain = c /\ log' = Append(log, line)
    BY <2>1, <2>2 DEF FlushResult, Line
  <2> HIDE DEF line
  <2> QED
    BY <2>3
<1>2. CASE ~Flushes(c)
  BY <1>2, WhatIsWritten DEF Silent, Notes, Opens
<1> QED
  BY <1>1, <1>2

LEMMA PartlyFailedStays ==
  ASSUME TypeInv, NEW c \in Chain, ChainStep(c), PartlyFailed(c)
  PROVE  PartlyFailed(c)'
<1>1. PICK s \in Bad(c) : Multi(c, s)
  BY DEF PartlyFailed
<1>2. s \in Bad(c)' /\ reqs'[c][s] = reqs[c][s]
  BY BadStep
<1>3. Multi(c, s)'
  BY <1>1, <1>2 DEF Multi
<1> QED
  BY <1>2, <1>3 DEF PartlyFailed, Multi

LEMMA BlamedStep ==
  ASSUME TypeInv, RecordInv, NEW c \in Chain, ChainStep(c), Labelled(c), Open(c), Blamed(c)
  PROVE  Blamed(c)'
<1>0. /\ pc \in [Chain -> {"ready", "waiting", "submitted", "callback", "flushing", "done"}]
      /\ log \in Seq(Line) /\ step \in [Chain -> Nat]
  BY DEF TypeInv, TypeOK
\* The log only grows, and a chain that raised writes nothing any more.
<1>l. Left(c)
  BY DEF RecordInv, Recorded
<1>1. ASSUME NEW s, ErrorLine(c, s)
      PROVE  ErrorLine(c, s)'
  <2>1. ASSUME NEW line \in Line, log' = Append(log, line)
        PROVE  ErrorLine(c, s)'
    <3>1. Appended(line)
      BY <2>1, LineAppended
    <3> QED
      BY <1>1, <3>1 DEF ErrorLine, Appended
  <2>2. (\E line \in Line : log' = Append(log, line)) \/ log' = log
    BY LogGrows
  <2> QED
    BY <1>1, <2>1, <2>2 DEF ErrorLine
<1>2. result'[c] = "raised" => \A k \in DOMAIN log' : ~Own(k, c)'
  <2> SUFFICES ASSUME result'[c] = "raised" PROVE \A k \in DOMAIN log' : ~Own(k, c)'
    OBVIOUS
  <2>1. \A k \in DOMAIN log : ~Own(k, c)
    BY <1>l, RaisedEarly DEF Blamed, Open
  <2>2. ASSUME NEW line \in Line, log' = Append(log, line), line.kind = "note"
        PROVE  \A k \in DOMAIN log' : ~Own(k, c)'
    <3>1. Appended(line)
      BY <2>2, LineAppended
    <3> QED
      BY <2>1, <2>2, <3>1, OwnNew, OwnKept
  <2>3. CASE log' = log
    BY <2>1, <2>3 DEF Own
  <2>4. log' = log \/ Notes
    BY <1>l, WhatIsWritten, RaisedEarly DEF Silent
  <2> QED
    BY <2>2, <2>3, <2>4 DEF Notes
<1>3. CASE \E category \in Category : Halts(c, category)
  <2>1. PICK category \in Category : Halts(c, category)
    BY <1>3
  <2> DEFINE new == [step |-> step'[c], category |-> category]
  <2>2. new # NoFailure /\ new.step = step'[c] /\ new.category = category
    BY DEF Category, NoFailure
  <2>3. failure'[c] = FirstFailure(failure[c], new) /\ result'[c] = "error"
    BY <2>1 DEF Halts
  <2> HIDE DEF new
  <2>4. failure'[c] # NoFailure /\ ErrorLine(c, step[c])'
    BY <2>1, <2>2, <2>3 DEF FirstFailure, Halts
  <2>5. ASSUME ~PartlyFailed(c)'
        PROVE  failure'[c] = new
    <3>1. ~PartlyFailed(c)
      BY <2>5, PartlyFailedStays
    <3>2. failure[c] = NoFailure
      BY <1>l, <2>1, <3>1 DEF Blamed, Left, Halts
    <3> QED
      BY <2>3, <3>2 DEF FirstFailure
  <2>6. Node(c)'.kind = "callback" => category = "CALLBACK"
    BY <2>1 DEF Halts, Node
  <2>7. result'[c] = "error" => failure'[c] # NoFailure /\ ErrorLine(c, step[c])'
    BY <2>4 DEF ErrorLine
  <2>8. failure'[c] # NoFailure /\ ~PartlyFailed(c)' =>
          /\ result'[c] = "error" /\ failure'[c].step = step'[c]
          /\ Node(c)'.kind = "callback" => failure'[c].category = "CALLBACK"
    BY <2>2, <2>3, <2>5, <2>6
  <2> QED
    BY <1>2, <2>7, <2>8 DEF Blamed
<1>4. CASE GoesOn(c)
  <2>1. result'[c] = "error" => failure'[c] # NoFailure /\ ErrorLine(c, step[c])'
    <3> SUFFICES ASSUME result'[c] = "error" PROVE failure'[c] # NoFailure /\ ErrorLine(c, step[c])'
      OBVIOUS
    <3>1. result[c] = "error" /\ step'[c] = step[c]
      BY <1>4 DEF GoesOn
    <3>2. failure[c] # NoFailure /\ ErrorLine(c, step[c])
      BY <3>1 DEF Blamed
    <3>3. failure'[c] # NoFailure
      BY <3>2, FailureStep
    <3>4. ErrorLine(c, step[c])'
      BY <1>1, <3>1, <3>2 DEF ErrorLine
    <3> QED
      BY <3>3, <3>4
  <2>2. ASSUME failure'[c] # NoFailure, ~PartlyFailed(c)'
        PROVE  /\ result'[c] = "error" /\ failure'[c].step = step'[c]
               /\ Node(c)'.kind = "callback" => failure'[c].category = "CALLBACK"
    <3>1. ~PartlyFailed(c)
      BY <2>2, PartlyFailedStays
    <3>2. failure'[c] = failure[c]
      <4>1. ASSUME pc[c] = "waiting", step'[c] = step[c], Multi(c, step[c]), Handles(c),
                   Errors(reqs[c][step[c]]) # {}
            PROVE  FALSE
        <5>1. step[c] \in Bad(c)' /\ reqs' = reqs
          BY <4>1, BadStep DEF Handles, OperationStops, OperationReturns, Resumes
        <5>2. Multi(c, step[c])'
          BY <4>1, <5>1 DEF Multi
        <5> QED
          BY <2>2, <4>1, <5>1, <5>2 DEF PartlyFailed, Multi
      <4> QED
        BY <1>4, <4>1 DEF GoesOn
    <3>3. result[c] = "error" /\ failure[c].step = step[c]
          /\ (Node(c).kind = "callback" => failure[c].category = "CALLBACK")
      BY <2>2, <3>1, <3>2 DEF Blamed
    <3>4. result'[c] = "error" /\ step'[c] = step[c]
      BY <1>4, <3>3 DEF GoesOn
    <3> QED
      BY <3>2, <3>3, <3>4 DEF Node
  <2> QED
    BY <1>2, <2>1, <2>2 DEF Blamed
<1> QED
  BY <1>l, <1>3, <1>4, HaltsOrGoesOn

\* A step of another chain adds nothing to what is said of this one.
LEMMA BlamedElsewhere ==
  ASSUME TypeInv, RecordInv, NEW c \in Chain, ChainStep(c), Labelled(c),
         NEW d \in Chain, d # c, Blamed(d)
  PROVE  Blamed(d)'
<1>1. SameChain(d)
  BY Elsewhere
<1>2. /\ \A s : ErrorLine(d, s) => ErrorLine(d, s)'
      /\ (\A k \in DOMAIN log : ~Own(k, d)) => \A k \in DOMAIN log' : ~Own(k, d)'
  <2>1. CASE log' = log
    BY <2>1 DEF ErrorLine, Own
  <2>2. ASSUME NEW line \in Line, log' = Append(log, line), line.chain = c \/ line.kind = "note"
        PROVE  /\ \A s : ErrorLine(d, s) => ErrorLine(d, s)'
               /\ (\A k \in DOMAIN log : ~Own(k, d)) => \A k \in DOMAIN log' : ~Own(k, d)'
    <3>1. Appended(line)
      BY <2>2, LineAppended
    <3>2. \A s : ErrorLine(d, s) => ErrorLine(d, s)'
      BY <3>1 DEF ErrorLine, Appended
    <3>3. (\A k \in DOMAIN log : ~Own(k, d)) => \A k \in DOMAIN log' : ~Own(k, d)'
      BY <2>2, <3>1, OwnNew, OwnKept
    <3> QED
      BY <3>2, <3>3
  <2> QED
    BY <2>1, <2>2, LogGrows
<1>3. PartlyFailed(d)' <=> PartlyFailed(d)
  BY <1>1 DEF SameChain, PartlyFailed, Bad, Past, Multi
<1>4. ErrorLine(d, step[d]) => ErrorLine(d, step[d])'
  BY <1>1, <1>2 DEF SameChain, ErrorLine
<1> QED
  BY <1>1, <1>2, <1>3, <1>4 DEF SameChain, Blamed, Node

LEMMA BlameInvariant == Spec => [](TypeInv /\ RecordInv /\ LogInv /\ \A c \in Chain : Blamed(c))
<1> DEFINE Inv == \A c \in Chain : Blamed(c)
<1>1. Init => Inv
  BY DEF Init, Blamed
<1>2. TypeInv /\ RecordInv /\ LogInv /\ Inv /\ [Next]_vars => Inv'
  <2> SUFFICES ASSUME TypeInv, RecordInv, LogInv, Inv, [Next]_vars, NEW d \in Chain
               PROVE  Blamed(d)'
    OBVIOUS
  <2>1. CASE UNCHANGED vars
    <3>1. PartlyFailed(d)' <=> PartlyFailed(d)
      BY <2>1 DEF vars, PartlyFailed, Bad, Past, Multi
    <3>2. ErrorLine(d, step[d])' <=> ErrorLine(d, step[d])
      BY <2>1 DEF vars, ErrorLine
    <3>3. \A k : Own(k, d)' <=> Own(k, d)
      BY <2>1 DEF vars, Own
    <3> QED
      BY <2>1, <3>1, <3>2, <3>3 DEF vars, Blamed, Node
  <2>2. ASSUME NEW c \in Chain, ChainStep(c)
        PROVE  Blamed(d)'
    <3>1. Labelled(c) /\ Open(c)
      BY DEF LogInv
    <3> QED
      BY <2>2, <3>1, BlamedStep, BlamedElsewhere
  <2> QED
    BY <2>1, <2>2, StepOfAChain
<1> QED
  BY <1>1, <1>2, RecordInvariant, LogInvariant, PTL DEF Spec

\* How far FailureIsLogged reaches: only a chain with a node of several requests
\* some of which failed can end with a failure no error line tells of; any
\* other has its line, at the step the failure names (_stopped is the only way
\* to both).
SoleFailureLogged ==
  \A c \in Chain : pc[c] = "done" /\ failure[c] # NoFailure /\ ~PartlyFailed(c) =>
    ErrorLine(c, failure[c].step)

THEOREM OnlyPartialFailuresUnlogged == Spec => []SoleFailureLogged
<1>1. (\A c \in Chain : Blamed(c)) => SoleFailureLogged
  BY DEF Blamed, SoleFailureLogged
<1> QED
  BY <1>1, BlameInvariant, PTL

\* How far CallbackExceptionRecorded reaches: only an earlier node with several
\* requests some of which failed can take the place of a callback's exception
\* in the record; otherwise the record is of the callback, and of its step.
SoleExceptionRecorded ==
  \A c \in Chain :
    pc[c] = "done" /\ result[c] = "error" /\ Node(c).kind = "callback" /\ ~PartlyFailed(c) =>
      failure[c].step = step[c] /\ failure[c].category = "CALLBACK"

THEOREM OnlyPartialFailuresHide == Spec => []SoleExceptionRecorded
<1>1. (\A c \in Chain : Blamed(c)) => SoleExceptionRecorded
  BY DEF Blamed, SoleExceptionRecorded
<1> QED
  BY <1>1, BlameInvariant, PTL

\* How far EveryWriteOnRecord reaches: a chain that an exception no handler of
\* it caught has ended leaves no line of its own at all, where every other one
\* leaves a [RESULT] line for each confirmed write and for nothing else.
RecordIsAllOrNothing ==
  \A c \in Chain : pc[c] = "done" =>
    IF result[c] = "raised" THEN \A k \in DOMAIN log : ~Own(k, c)
    ELSE Reported(c) = Confirmed(c)

THEOREM AllOrNothing == Spec => []RecordIsAllOrNothing
<1>1. WritesOnRecord /\ (\A c \in Chain : Blamed(c)) => RecordIsAllOrNothing
  BY DEF WritesOnRecord, Blamed, RecordIsAllOrNothing
<1> QED
  BY <1>1, BlameInvariant, WritesStayOnRecord, PTL

\* Where no async callback is cancelled and every request file of debug mode
\* can be written, no exception leaves a chain.
LEMMA NothingEscapes ==
  ASSUME "cancelled" \notin Faults, "debuglog" \notin Faults
  PROVE  Spec => [](\A c \in Chain : result[c] # "raised")
<1> DEFINE Caught == \A c \in Chain : result[c] # "raised"
<1>1. Init => Caught
  BY DEF Init
<1>2. TypeInv /\ Caught /\ [Next]_vars => Caught'
  <2> SUFFICES ASSUME TypeInv, Caught, [Next]_vars PROVE Caught'
    OBVIOUS
  <2>1. CASE UNCHANGED vars
    BY <2>1 DEF vars
  <2>2. ASSUME NEW c \in Chain, ChainStep(c)
        PROVE  Caught'
    <3>1. /\ result \in [Chain -> {"none", "value", "list", "error", "raised"}]
          /\ result[c] # "raised"
      BY DEF TypeInv, TypeOK
    <3>2. result'[c] # "raised"
      <4>1. CASE RequestStep(c)
        BY <3>1, <4>1 DEF RequestStep, Acquire, ServerApplies, Answer
      <4>2. CASE OperationStep(c)
        BY <3>1, <4>2 DEF OperationStep, BuilderRaises, RequestLogRaises, IssueRequests,
                          OperationStops, OperationReturns, Resumes, Stopped
      <4>3. CASE CallbackStep(c)
        BY <3>1, <4>3 DEF CallbackStep, StartCallback, RunInExecutor, CallbackReturns,
                          CallbackRaises, CallbackCancelled, CallbackEnds, Stopped
      <4>4. CASE Note(c) \/ FinishStep(c)
        BY <3>1, <4>4 DEF Note, FinishStep, FinishChain, FlushResult, EndChain
      <4> QED
        BY <2>2, <4>1, <4>2, <4>3, <4>4 DEF ChainStep
    <3> QED
      BY <2>2, <3>2, Elsewhere DEF SameChain
  <2> QED
    BY <2>1, <2>2, StepOfAChain
<1> QED
  BY <1>1, <1>2, TypeInvariant, PTL DEF Spec

\* Then every chain, however it ends, leaves its confirmed writes on record: the
\* two exceptions outside every try are all that the promise lacks.
THEOREM EveryWriteUnlessEscapes ==
  ASSUME "cancelled" \notin Faults, "debuglog" \notin Faults
  PROVE  Spec => []EveryWriteOnRecord
<1>1. WritesOnRecord /\ (\A c \in Chain : result[c] # "raised") => EveryWriteOnRecord
  BY DEF WritesOnRecord, EveryWriteOnRecord
<1> QED
  BY <1>1, NothingEscapes, WritesStayOnRecord, PTL

\* What the abstract batch implies holds of the chains: the log reports no write
\* that did not take place, and a chain that ended without a failure has
\* reported every one that did (_collect_results, _record_failure).
THEOREM ChainsAreHonest == Spec => []Abstract!Honest
<1>1. TypeInv /\ ResultsSound /\ NoSilentEffect => Abstract!Honest
  <2> SUFFICES ASSUME TypeInv, ResultsSound, NoSilentEffect, NEW c \in Chain
               PROVE  /\ Reports[c] \subseteq Effects[c]
                      /\ States[c] = "ended" /\ failure[c] = NoFailure => Effects[c] = Reports[c]
    BY DEF Abstract!Honest, States, StateOf, Effects, EffectsOf, Reports
  <2>1. States[c] = StateOf(c) /\ Effects[c] = EffectsOf(c) /\ Reports[c] = Reported(c)
    BY DEF States, Effects, Reports
  <2>2. Reported(c) \subseteq EffectsOf(c)
    <3> SUFFICES ASSUME NEW w \in Reported(c) PROVE w \in EffectsOf(c)
      OBVIOUS
    <3>1. <<c, w[1], w[2]>> \in applied /\ w = <<w[1], w[2]>>
      BY ReportedIsInLog DEF ResultsSound
    <3> DEFINE v == <<c, w[1], w[2]>>
    <3>2. v \in applied /\ v[1] = c /\ <<v[2], v[3]>> = w
      BY <3>1
    <3> HIDE DEF v
    <3> QED
      BY <3>2 DEF EffectsOf
  <2>3. ASSUME StateOf(c) = "ended", failure[c] = NoFailure
        PROVE  EffectsOf(c) \subseteq Reported(c)
    <3>1. pc[c] = "done" /\ result[c] # "raised"
      BY <2>3 DEF StateOf
    <3>2. \A v \in applied : v[1] = c => <<v[2], v[3]>> \in Reported(c)
      BY <2>3, <3>1 DEF NoSilentEffect
    <3> QED
      BY <3>2 DEF EffectsOf
  <2>4. States[c] = "ended" /\ failure[c] = NoFailure => Effects[c] = Reports[c]
    <3>1. StateOf(c) = "ended" /\ failure[c] = NoFailure => EffectsOf(c) = Reported(c)
      BY <2>2, <2>3
    <3> QED
      BY <2>1, <3>1
  <2> QED
    BY <2>1, <2>2, <2>4
<1> QED
  BY <1>1, TypeInvariant, SoundResults, EffectsAreTold, PTL

(***************************************************************************)
(* A batch is never stuck: until all of its chains are done, one of them   *)
(* can go on.  What a chain can do is said by the guards of its actions.   *)
(***************************************************************************)
CanGoOn(c) ==
  \/ /\ pc[c] = "ready" /\ LoopFree
     /\ step[c] = Len(Program[c]) \/ NextIs(c, "operation") \/ NextIs(c, "callback")
  \/ /\ pc[c] = "waiting" /\ LoopFree
     /\ \/ AllAnswered(c)
        \/ Sent(c) # {}
        \/ SlotFree /\ \E i \in Items(c) : reqs[c][step[c]][i] = "queued"
  \/ pc[c] = "submitted" /\ Cardinality(BusyWorkers) < Workers
  \/ pc[c] = "callback" /\ LoopFree
  \/ /\ pc[c] = "flushing"
     /\ queued[c] = <<>> \/ \E i \in Head(queued[c]).items : \A j \in Head(queued[c]).items : i <= j

NeverStuck == AllDone \/ \E c \in Chain : CanGoOn(c)

\* An entry of a queue has something to flush.
Filled(c) == \A k \in DOMAIN queued[c] : queued[c][k].items # {}

\* Flushing the only request of an entry takes the entry out of the queue.
LEMMA FlushKeeps ==
  ASSUME TypeInv, NEW c \in Chain, queued[c] # <<>>, NEW i \in Head(queued[c]).items,
         FlushResult(c, i), queued[c][1].items = {i}
  PROVE  Shortened(queued[c], queued'[c], i)
<1> DEFINE q    == queued[c]
           rest == Tail(q)
<1>1. queued \in [Chain -> Seq(Entry)] /\ q \in Seq(Entry) /\ Len(q) \in Nat /\ q # <<>>
  BY QueueType
<1>2. Head(q) = q[1]
  OBVIOUS
<1>3. queued'[c] = rest
  BY <1>1, <1>2 DEF FlushResult
<1> HIDE DEF q
<1>4. /\ rest \in Seq(Entry) /\ Len(rest) = Len(q) - 1
      /\ \A k \in 1..Len(rest) : rest[k] = q[k + 1]
  BY <1>1, HeadTailProperties
<1> HIDE DEF rest
<1>5. DOMAIN rest = 1..(Len(q) - 1)
  BY <1>4, LenProperties
<1> QED
  BY <1>3, <1>4, <1>5 DEF Shortened, q

LEMMA FilledStep ==
  ASSUME TypeInv, NEW c \in Chain, ChainStep(c), Filled(c)
  PROVE  Filled(c)'
<1>1. /\ Len(queued[c]) \in Nat /\ DOMAIN queued[c] = 1..Len(queued[c])
      /\ queued[c] \in Seq(Entry)
  BY QueueType
<1>2. CASE OperationReturns(c)
  <2> DEFINE answers == reqs[c][step[c]]
             new     == [step |-> step[c], items |-> Succeeded(answers)]
  <2>1. pc[c] = "waiting" /\ queued'[c] = queued[c] \o ResultLines(c, step[c], answers)
    BY <1>2, QueueType DEF OperationReturns, Resumes
  <2>2. ResultLines(c, step[c], answers) \in Seq(Entry)
    BY <2>1, ResultLinesType DEF Entry
  <2>3. CASE ResultLines(c, step[c], answers) = <<>>
    <3>1. queued'[c] = queued[c]
      BY <1>1, <2>1, <2>3, ConcatEmptySeq
    <3> QED
      BY <3>1 DEF Filled
  <2>4. CASE ResultLines(c, step[c], answers) = <<new>> /\ new.items # {}
    <3>1. new \in Entry
      <4>1. <<new>>[1] \in Entry
        BY <2>2, <2>4, ElementOfSeq
      <4> QED
        BY <4>1
    <3>2. new.items # {} /\ queued'[c] = queued[c] \o <<new>>
      BY <2>1, <2>4
    <3> HIDE DEF new
    <3>3. queued'[c] = Append(queued[c], new)
      BY <1>1, <3>1, <3>2, AppendIsConcat
    <3>4. /\ queued'[c] \in Seq(Entry) /\ Len(queued'[c]) = Len(queued[c]) + 1
          /\ \A k \in 1..Len(queued[c]) : queued'[c][k] = queued[c][k]
          /\ queued'[c][Len(queued[c]) + 1] = new
      BY <1>1, <3>1, <3>3, AppendProperties
    <3>5. DOMAIN queued'[c] = 1..(Len(queued[c]) + 1)
      BY <3>4, LenProperties
    <3>6. \A k \in 1..(Len(queued[c]) + 1) : k \in 1..Len(queued[c]) \/ k = Len(queued[c]) + 1
      BY <1>1
    <3> QED
      BY <1>1, <3>2, <3>4, <3>5, <3>6 DEF Filled
  <2>5. ResultLines(c, step[c], answers) = <<>>
        \/ (ResultLines(c, step[c], answers) = <<new>> /\ new.items # {})
    BY DEF ResultLines
  <2> QED
    BY <2>3, <2>4, <2>5
<1>3. CASE Flushes(c)
  <2>1. PICK i \in Head(queued[c]).items : queued[c] # <<>> /\ FlushResult(c, i)
    BY <1>3 DEF Flushes
  <2> DEFINE q == queued[c]
             r == queued'[c]
  <2>2. q[1] = Head(q) /\ 1 \in DOMAIN q /\ (Shortened(q, r, i) \/ Reduced(q, r, i))
    BY <2>1, QueueShrinks
  <2>3. (\A k \in DOMAIN q : q[k].items # {}) /\ DOMAIN q = 1..Len(q) /\ Len(q) \in Nat
    BY <1>1 DEF Filled
  <2>4. ~Shortened(q, r, i) => r[1].items # {}
    <3>1. ~Shortened(q, r, i) => q[1].items # {i}
      BY <2>1, FlushKeeps
    <3> QED
      BY <2>1, <2>2, <3>1 DEF Reduced
  <2>5. \A k \in DOMAIN r : r[k].items # {}
    <3> HIDE DEF q, r
    <3>1. CASE Shortened(q, r, i)
      <4>1. \A k \in 1..(Len(q) - 1) : k + 1 \in DOMAIN q
        BY <2>3
      <4> QED
        BY <2>3, <3>1, <4>1 DEF Shortened
    <3>2. CASE ~Shortened(q, r, i)
      BY <2>2, <2>3, <2>4, <3>2 DEF Reduced
    <3> QED
      BY <3>1, <3>2
  <2> QED
    BY <2>5 DEF Filled
<1>4. CASE ~Flushes(c) /\ ~OperationReturns(c)
  BY <1>4, QueueStep DEF Filled
<1> QED
  BY <1>2, <1>3, <1>4

\* From a chain that is not done to one that can go on: itself, or the chain
\* that flushes, holds a slot, or has a worker.
LEMMA SomeoneCan ==
  ASSUME TypeInv, \A c \in Chain : Filled(c)
  PROVE  NeverStuck
<1>1. ASSUME NEW c \in Chain, pc[c] = "flushing"
      PROVE  CanGoOn(c)
  <2>1. CASE queued[c] = <<>>
    BY <1>1, <2>1 DEF CanGoOn
  <2>2. CASE queued[c] # <<>>
    <3>1. /\ Head(queued[c]) = queued[c][1] /\ 1 \in DOMAIN queued[c]
          /\ Head(queued[c]) \in Entry
      BY <2>2, QueueType, HeadTailProperties, EmptySeq
    <3>2. Head(queued[c]).items # {} /\ Head(queued[c]).items \in SUBSET Nat
      BY <3>1 DEF Filled, Entry
    <3>3. \E i \in Head(queued[c]).items : \A j \in Head(queued[c]).items : i <= j
      BY <3>2, LeastExists
    <3> QED
      BY <1>1, <3>3 DEF CanGoOn
  <2> QED
    BY <2>1, <2>2
<1>2. ASSUME LoopFree, NEW c \in Chain, pc[c] = "waiting"
      PROVE  \E d \in Chain : CanGoOn(d)
  <2>1. CASE SlotFree
    <3>1. \A i \in Items(c) : reqs[c][step[c]][i] \in Status
      BY <1>2, WaitingAt, LenProperties, ElementOfSeq
    <3>2. \A i \in Items(c) :
            \/ reqs[c][step[c]][i] \in Answers \/ reqs[c][step[c]][i] = "queued" \/ i \in Sent(c)
      BY <1>2, <3>1 DEF Sent
    <3> QED
      BY <1>2, <2>1, <3>2 DEF CanGoOn, AllAnswered
  <2>2. CASE ~SlotFree
    <3>1. InFlight # {}
      BY <2>2, LimitAssumption, FS_EmptySet DEF SlotFree
    <3>2. PICK d \in Chain : Sent(d) # {}
      BY <3>1 DEF InFlight
    <3>3. pc[d] = "waiting"
      BY <3>2 DEF Sent
    <3> QED
      BY <1>2, <3>2, <3>3 DEF CanGoOn
  <2> QED
    BY <2>1, <2>2
<1>3. ASSUME LoopFree, NEW c \in Chain, pc[c] = "submitted"
      PROVE  \E d \in Chain : CanGoOn(d)
  <2>1. CASE Cardinality(BusyWorkers) < Workers
    BY <1>3, <2>1 DEF CanGoOn
  <2>2. CASE ~(Cardinality(BusyWorkers) < Workers)
    <3>1. BusyWorkers # {}
      BY <2>2, LimitAssumption, FS_EmptySet
    <3> QED
      BY <1>3, <3>1 DEF BusyWorkers, CanGoOn
  <2> QED
    BY <2>1, <2>2
<1>4. ASSUME LoopFree, NEW c \in Chain, pc[c] = "ready"
      PROVE  CanGoOn(c)
  <2>1. step[c] \in Nat /\ step[c] <= Len(Program[c]) /\ Len(Program[c]) \in Nat
    BY ProgramType DEF TypeInv, TypeOK
  <2>2. CASE step[c] = Len(Program[c])
    BY <1>4, <2>2 DEF CanGoOn
  <2>3. CASE step[c] < Len(Program[c])
    <3>1. Program[c][step[c] + 1] \in Operation \cup Callback
      BY <2>1, <2>3, ProgramType
    <3>2. Program[c][step[c] + 1].kind \in {"operation", "callback"}
      BY <3>1 DEF Operation, Callback
    <3> QED
      BY <1>4, <2>3, <3>2 DEF CanGoOn, NextIs
  <2> QED
    BY <2>1, <2>2, <2>3
<1>5. pc \in [Chain -> {"ready", "waiting", "submitted", "callback", "flushing", "done"}]
  BY DEF TypeInv, TypeOK
<1>6. CASE ~LoopFree
  BY <1>1, <1>6 DEF LoopFree, NeverStuck
<1>7. CASE LoopFree
  <2>1. ASSUME NEW c \in Chain, pc[c] # "done"
        PROVE  \E d \in Chain : CanGoOn(d)
    BY <1>2, <1>3, <1>4, <1>5, <1>7, <2>1 DEF LoopFree, CanGoOn
  <2> QED
    BY <2>1 DEF NeverStuck, AllDone
<1> QED
  BY <1>6, <1>7

\* Whatever the chains wait for, whoever holds the slots and the workers, and
\* whatever has failed: until all are done, one can go on.  (A request that is
\* sent can end, and so can a callback that runs.)
THEOREM BatchIsNeverStuck == Spec => []NeverStuck
<1> DEFINE AllFilled == \A c \in Chain : Filled(c)
<1>1. Init => AllFilled
  BY DEF Init, Filled
<1>2. TypeInv /\ AllFilled /\ [Next]_vars => AllFilled'
  <2> SUFFICES ASSUME TypeInv, AllFilled, [Next]_vars, NEW d \in Chain PROVE Filled(d)'
    OBVIOUS
  <2>1. CASE UNCHANGED vars
    BY <2>1 DEF vars, Filled
  <2>2. ASSUME NEW c \in Chain, ChainStep(c)
        PROVE  Filled(d)'
    <3>1. CASE d = c
      BY <2>2, <3>1, FilledStep
    <3>2. CASE d # c
      BY <2>2, <3>2, Elsewhere DEF SameChain, Filled
    <3> QED
      BY <3>1, <3>2
  <2> QED
    BY <2>1, <2>2, StepOfAChain
<1>3. TypeInv /\ AllFilled => NeverStuck
  BY SomeoneCan
<1> QED
  BY <1>1, <1>2, <1>3, TypeInvariant, PTL DEF Spec
=============================================================================
