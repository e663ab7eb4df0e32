------------------------------- MODULE Chains -------------------------------
(***************************************************************************)
(* The chains of one batch, as OperationChain.execute_async runs them on   *)
(* the driver's event loop (operations.py, driver.py).                     *)
(*                                                                         *)
(* Every chain is a coroutine: what it does between two awaits is one      *)
(* action.  A chain awaits its requests, which share the driver's          *)
(* semaphore, and its callbacks, which run on a pool of worker threads     *)
(* when they are plain functions.  A worker thread may write to the log    *)
(* whenever it likes, so the writes of a chain's own lines, although no    *)
(* await separates them, are one action each.                              *)
(*                                                                         *)
(* Above some definitions stands a mutated form of them, which no other    *)
(* definition uses: it shows what a property would miss without the code   *)
(* it is about (PROJECT.json, "mutants").                                  *)
(***************************************************************************)
EXTENDS Naturals, Sequences, FiniteSets

CONSTANTS
  Chain,        \* the chains submit_requests() hands to asyncio.gather
  Program,      \* Program[c]: the nodes of chain c, in the order they were appended
  MaxRequests,  \* CascadeCMSRestDriver.MAX_REQUESTS, the slots of the semaphore
  Workers,      \* threads of the executor that runs plain callbacks
  Faults        \* the faults the environment may inject

FaultKinds ==
  { "refused",    \* the server answers with a CascadeError, or not with 200
    "network",    \* aiohttp raises: connection lost, time-out
    "library",    \* the request cannot be serialised or its answer parsed
    "user",       \* a callback, or a callable payload, raises an Exception
    "cancelled",  \* an async callback ends in asyncio.CancelledError
    "debuglog" }  \* the request file of debug mode cannot be written

(***************************************************************************)
(* A node.  Of an operation: whether it is one of WRITE_OPERATIONS, whether*)
(* its payload is a callable, so that its requests are built when the node *)
(* runs, whether its payload is a list, and the number of its requests (at *)
(* most that many for a callable payload, which may return any number).    *)
(***************************************************************************)
Operation == [kind : {"operation"}, write : BOOLEAN, lazy : BOOLEAN,
              list : BOOLEAN, size : Nat]
Callback  == [kind : {"callback"}, async : BOOLEAN]

ASSUME ProgramAssumption ==
  /\ Program \in [Chain -> Seq(Operation \cup Callback)]
  /\ \A c \in Chain : \A s \in DOMAIN Program[c] :
       LET node == Program[c][s]
       IN  node.kind = "operation" =>
             /\ node.lazy => ~node.list
             /\ ~node.lazy /\ ~node.list => node.size = 1

ASSUME LimitAssumption ==
  /\ IsFiniteSet(Chain)
  /\ MaxRequests \in Nat \ {0}
  /\ Workers \in Nat \ {0}
  /\ Faults \subseteq FaultKinds

VARIABLES
  pc,        \* where each chain's coroutine is
  step,      \* its local `step`, 1-based; 0 before the first node
  reqs,      \* reqs[c][s]: the state of each request of step s (<<>> for a callback)
  result,    \* the kind of the local `result`: what the last node produced
  failure,   \* OperationChain.failure
  segments,  \* the number of segments of the chain's line builder
  queued,    \* OperationChain._result_lines
  log,       \* the lines of the logfile this batch writes
  applied    \* the write requests whose effect the server has carried out

vars == <<pc, step, reqs, result, failure, segments, queued, log, applied>>

NoFailure == [step |-> 0, category |-> "NONE"]
Category  == {"CALLBACK", "CASCADE", "NETWORK", "LIBRARY"}
Failed    == {"refused", "network", "library"}   \* the answers that are errors
Answers   == Failed \cup {"ok"}

Node(c)  == Program[c][step[c]]                  \* the node chain c is at
NextIs(c, kind) ==
  /\ step[c] < Len(Program[c])
  /\ Program[c][step[c] + 1].kind = kind
Items(c) == DOMAIN reqs[c][step[c]]              \* the requests of that node

\* Between two awaits a coroutine has the event loop to itself: while one
\* chain writes its lines no other one moves.
Preemptible == TRUE
LoopFree    == \A c \in Chain : pc[c] # "flushing"

(***************************************************************************)
(* failures.classify_failure.                                              *)
(***************************************************************************)
ClassifyWithoutDefault(answer) ==
  CASE answer = "refused" -> "CASCADE"
    [] answer = "network" -> "NETWORK"
    [] answer = "user"    -> "CALLBACK"
    [] OTHER              -> "NONE"

Classify(answer) ==
  CASE answer = "refused" -> "CASCADE"
    [] answer = "network" -> "NETWORK"
    [] answer = "user"    -> "CALLBACK"
    [] OTHER              -> "LIBRARY"

(***************************************************************************)
(* The failure a chain keeps (_record_failure: the first one wins).        *)
(***************************************************************************)
LastFailure(old, new)  == new
FirstFailure(old, new) == IF old = NoFailure THEN new ELSE old

(***************************************************************************)
(* What _resolve_operation_result makes of the answers.  A node whose      *)
(* payload is a list, or a callable that returned several, is a multi node:*)
(* its errors stay in the result list and the chain goes on.               *)
(***************************************************************************)
Multi(c, s) ==
  \/ Program[c][s].list
  \/ Program[c][s].lazy /\ Len(reqs[c][s]) > 1

OnlyRefusals(answers) == { i \in DOMAIN answers : answers[i] = "refused" }
Errors(answers)       == { i \in DOMAIN answers : answers[i] \in Failed }

LeastOf(S) == CHOOSE i \in S : \A j \in S : i <= j

(***************************************************************************)
(* _collect_results: a line per request of a write node that did not fail, *)
(* kept here as one entry per node.                                        *)
(***************************************************************************)
EveryItem(answers)       == DOMAIN answers
UntilFirstError(answers) == { i \in DOMAIN answers : \A j \in 1..i : answers[j] \notin Failed }
Succeeded(answers)       == { i \in DOMAIN answers : answers[i] \notin Failed }

ResultLines(c, s, answers) ==
  IF Program[c][s].write /\ Succeeded(answers) # {}
  THEN <<[step |-> s, items |-> Succeeded(answers)]>>
  ELSE <<>>

-----------------------------------------------------------------------------
Init ==
  /\ pc       = [c \in Chain |-> "ready"]
  /\ step     = [c \in Chain |-> 0]
  /\ reqs     = [c \in Chain |-> <<>>]
  /\ result   = [c \in Chain |-> "none"]
  /\ failure  = [c \in Chain |-> NoFailure]
  /\ segments = [c \in Chain |-> 0]
  /\ queued   = [c \in Chain |-> <<>>]
  /\ log      = <<>>
  /\ applied  = {}

(***************************************************************************)
(* The chain's own line, and the line with its v/!ERROR: block; `item' is  *)
(* the number of segments of the line.                                     *)
(***************************************************************************)
WriteLine(kind, c, s, n) ==
  log' = Append(log, [kind |-> kind, chain |-> c, step |-> s, item |-> n])

StoppedBefore(c, s, n, category) ==
  /\ failure' = [failure EXCEPT ![c] =
                   FirstFailure(@, [step |-> s - 1, category |-> category])]
  /\ result'  = [result EXCEPT ![c] = "error"]
  /\ pc'      = [pc EXCEPT ![c] = "flushing"]
  /\ WriteLine("error", c, s, n)

\* _stopped: record the failure, write the line with its error block, and
\* go on to the queued result lines.
Stopped(c, s, n, category) ==
  /\ failure' = [failure EXCEPT ![c] =
                   FirstFailure(@, [step |-> s, category |-> category])]
  /\ result'  = [result EXCEPT ![c] = "error"]
  /\ pc'      = [pc EXCEPT ![c] = "flushing"]
  /\ WriteLine("error", c, s, n)

\* An exception that is not caught leaves the coroutine; asyncio.gather
\* returns it as the chain's result.
Escapes(c) ==
  /\ result' = [result EXCEPT ![c] = "raised"]
  /\ pc'     = [pc EXCEPT ![c] = "done"]
  /\ UNCHANGED <<failure, log>>

(***************************************************************************)
(* An operation node: its label is appended, then its requests are built.  *)
(***************************************************************************)
AtOperation(c) == LoopFree /\ pc[c] = "ready" /\ NextIs(c, "operation")

BeginOperation(c, requests) ==
  /\ step'     = [step EXCEPT ![c] = @ + 1]
  /\ segments' = [segments EXCEPT ![c] = @ + 1]
  /\ reqs'     = [reqs EXCEPT ![c] = Append(@, requests)]
  /\ UNCHANGED <<queued, applied>>

NewRequests(c) ==
  LET node == Program[c][step[c] + 1]
  IN  { [i \in 1..n |-> "queued"] :
          n \in IF node.lazy THEN 0..node.size ELSE {node.size} }

\* _node_requests raises: the user's callable, or the building of a request.
BuilderRaises(c, exception) ==
  /\ AtOperation(c)
  /\ BeginOperation(c, <<>>)
  /\ "user" \in Faults /\ Program[c][step[c] + 1].lazy
  /\ Stopped(c, step[c] + 1, segments[c] + 1, Classify(exception))

\* _log_requests raises, outside every try: a request with a payload (here,
\* a write) cannot be written to its file.  Nothing was sent.
RequestLogRaises(c) ==
  /\ AtOperation(c)
  /\ BeginOperation(c, <<>>)
  /\ "debuglog" \in Faults /\ Program[c][step[c] + 1].write
  /\ Escapes(c)

IssueRequests(c) ==
  /\ AtOperation(c)
  /\ \E requests \in NewRequests(c) : BeginOperation(c, requests)
  /\ pc' = [pc EXCEPT ![c] = "waiting"]
  /\ UNCHANGED <<result, failure, log>>

(***************************************************************************)
(* The requests of a node: one task each (execute_requests), every one     *)
(* running RequestExecutor.fetch.  "sent" is the time it holds a slot.     *)
(***************************************************************************)
Sent(c) == IF pc[c] = "waiting"
           THEN { i \in Items(c) : reqs[c][step[c]][i] = "sent" }
           ELSE {}
InFlight == UNION { {c} \X Sent(c) : c \in Chain }

Ever(c, s) == { i \in DOMAIN reqs[c][s] : reqs[c][s][i] # "queued" }
LeakySlot  == Cardinality(UNION { UNION { {<<c, s>>} \X Ever(c, s) : s \in DOMAIN reqs[c] } :
                                  c \in Chain }) < MaxRequests
LateSlot   == Cardinality(InFlight) <= MaxRequests
SlotFree   == Cardinality(InFlight) < MaxRequests

\* async with sem: the request goes out.
Acquire(c, i) ==
  /\ LoopFree
  /\ pc[c] = "waiting"
  /\ i \in Items(c)
  /\ reqs[c][step[c]][i] = "queued"
  /\ SlotFree
  /\ reqs' = [reqs EXCEPT ![c][step[c]][i] = "sent"]
  /\ UNCHANGED <<pc, step, result, failure, segments, queued, log, applied>>

\* The server carries out a write.
ServerApplies(c, i) ==
  /\ pc[c] = "waiting"
  /\ i \in Sent(c)
  /\ Node(c).write
  /\ <<c, step[c], i>> \notin applied
  /\ applied' = applied \cup {<<c, step[c], i>>}
  /\ UNCHANGED <<pc, step, reqs, result, failure, segments, queued, log>>

\* The request ends, with its parsed answer or with an exception that _run
\* turns into a value.  The server confirms only what it has carried out; an
\* error says nothing about that: a time-out, a 5xx of a proxy or an answer
\* that cannot be parsed may follow a write that took place.
Answer(c, i, answer) ==
  /\ LoopFree
  /\ pc[c] = "waiting"
  /\ i \in Sent(c)
  /\ answer \in Failed => answer \in Faults
  /\ answer = "ok" /\ Node(c).write => <<c, step[c], i>> \in applied
  /\ reqs' = [reqs EXCEPT ![c][step[c]][i] = answer]
  /\ UNCHANGED <<pc, step, result, failure, segments, queued, log, applied>>

(***************************************************************************)
(* The node goes on when every request of it has its answer (gather).      *)
(***************************************************************************)
SomeAnswered(c) == \/ Items(c) = {}
                   \/ \E i \in Items(c) : reqs[c][step[c]][i] \in Answers
AllAnswered(c)  == \A i \in Items(c) : reqs[c][step[c]][i] \in Answers

Stops(c) == ~Multi(c, step[c]) /\ Errors(reqs[c][step[c]]) # {}

Resumes(c) ==
  /\ LoopFree
  /\ pc[c] = "waiting"
  /\ AllAnswered(c)
  /\ UNCHANGED <<step, reqs, segments, applied>>

OperationStops(c) ==
  /\ Resumes(c)
  /\ Stops(c)
  /\ Stopped(c, step[c], segments[c],
             Classify(reqs[c][step[c]][LeastOf(Errors(reqs[c][step[c]]))]))
  /\ UNCHANGED queued

OperationReturns(c) ==
  LET answers == reqs[c][step[c]]
      errors  == Errors(answers)
  IN  /\ Resumes(c)
      /\ ~Stops(c)
      /\ failure' = [failure EXCEPT ![c] =
            IF errors = {} THEN @
            ELSE FirstFailure(@, [step     |-> step[c],
                                  category |-> Classify(answers[LeastOf(errors)])])]
      /\ result'  = [result EXCEPT ![c] = IF Multi(c, step[c]) THEN "list" ELSE "value"]
      /\ queued'  = [queued EXCEPT ![c] = @ \o ResultLines(c, step[c], answers)]
      /\ pc'      = [pc EXCEPT ![c] = "ready"]
      /\ UNCHANGED log

(***************************************************************************)
(* A callback node: awaited on the loop if it is a coroutine function, run *)
(* by a worker thread otherwise.                                           *)
(***************************************************************************)
StartCallback(c) ==
  /\ LoopFree
  /\ pc[c] = "ready"
  /\ NextIs(c, "callback")
  /\ step' = [step EXCEPT ![c] = @ + 1]
  /\ reqs' = [reqs EXCEPT ![c] = Append(@, <<>>)]
  /\ pc'   = [pc EXCEPT ![c] =
                IF Program[c][step[c] + 1].async THEN "callback" ELSE "submitted"]
  /\ UNCHANGED <<result, failure, segments, queued, log, applied>>

BusyWorkers == { c \in Chain : pc[c] = "callback" /\ ~Node(c).async }

RunUnlessOthersWait(c) ==
  LET others == { d \in Chain \ {c} : pc[d] \in {"submitted", "callback"} /\ ~Node(d).async }
  IN  /\ pc[c] = "submitted"
      /\ Cardinality(others) < Workers
      /\ pc' = [pc EXCEPT ![c] = "callback"]
      /\ UNCHANGED <<step, reqs, result, failure, segments, queued, log, applied>>

RunInExecutor(c) ==
  /\ pc[c] = "submitted"
  /\ Cardinality(BusyWorkers) < Workers
  /\ pc' = [pc EXCEPT ![c] = "callback"]
  /\ UNCHANGED <<step, reqs, result, failure, segments, queued, log, applied>>

\* The callback calls script_log.note(); at most once per callback here.
Note(c) ==
  LET note == [kind |-> "note", chain |-> c, step |-> step[c], item |-> 0]
  IN  /\ pc[c] = "callback"
      /\ Node(c).async => LoopFree
      /\ \A k \in DOMAIN log : log[k] # note
      /\ log' = Append(log, note)
      /\ UNCHANGED <<pc, step, reqs, result, failure, segments, queued, applied>>

\* The segment of a callback is appended when it ends, however it ends.
OnlyWhenItReturns(raised) == IF raised THEN 0 ELSE 1
CallbackSegments(raised)  == 1

CallbackEnds(c) ==
  /\ LoopFree
  /\ pc[c] = "callback"
  /\ UNCHANGED <<step, reqs, queued, applied>>

\* A callback that returns None leaves the previous result in place.
CallbackReturns(c) ==
  /\ CallbackEnds(c)
  /\ segments' = [segments EXCEPT ![c] = @ + CallbackSegments(FALSE)]
  /\ result'   \in { [result EXCEPT ![c] = r] : r \in {"value", result[c]} }
  /\ pc'       = [pc EXCEPT ![c] = "ready"]
  /\ UNCHANGED <<failure, log>>

CallbackRaises(c) ==
  /\ CallbackEnds(c)
  /\ "user" \in Faults
  /\ segments' = [segments EXCEPT ![c] = @ + CallbackSegments(TRUE)]
  /\ Stopped(c, step[c], segments'[c], Classify("user"))

\* CancelledError is not an Exception: no handler of the chain sees it.
CallbackCancelled(c) ==
  /\ CallbackEnds(c)
  /\ "cancelled" \in Faults /\ Node(c).async
  /\ Escapes(c)
  /\ UNCHANGED segments

(***************************************************************************)
(* The end of the walk: a chain that ends with an operation names the type *)
(* of its result in a segment of its own.                                  *)
(***************************************************************************)
FinishChain(c) ==
  LET n == IF step[c] > 0 /\ Node(c).kind = "operation" THEN 1 ELSE 0
  IN  /\ LoopFree
      /\ pc[c] = "ready"
      /\ step[c] = Len(Program[c])
      /\ segments' = [segments EXCEPT ![c] = @ + n]
      /\ WriteLine("line", c, step[c], segments'[c])
      /\ pc' = [pc EXCEPT ![c] = "flushing"]
      /\ UNCHANGED <<step, reqs, result, failure, queued, applied>>

\* _flush_results, one line at a time.
FlushResult(c, i) ==
  LET node == Head(queued[c])
  IN  /\ pc[c] = "flushing"
      /\ queued[c] # <<>>
      /\ i \in node.items
      /\ \A j \in node.items : i <= j
      /\ log' = Append(log, [kind |-> "result", chain |-> c,
                             step |-> node.step, item |-> i])
      /\ queued' = [queued EXCEPT ![c] =
                      IF node.items = {i} THEN Tail(@)
                      ELSE <<[node EXCEPT !.items = @ \ {i}]>> \o Tail(@)]
      /\ UNCHANGED <<pc, step, reqs, result, failure, segments, applied>>

AtOnce(c)  == TRUE
Flushed(c) == queued[c] = <<>>

EndChain(c) ==
  /\ pc[c] = "flushing"
  /\ Flushed(c)
  /\ pc' = [pc EXCEPT ![c] = "done"]
  /\ UNCHANGED <<step, reqs, result, failure, segments, queued, log, applied>>

-----------------------------------------------------------------------------
RequestStep(c) ==
  /\ pc[c] = "waiting"
  /\ \E i \in Items(c) : \/ Acquire(c, i)
                         \/ ServerApplies(c, i)
                         \/ \E answer \in Answers : Answer(c, i, answer)

OperationStep(c) ==
  \/ \E exception \in {"network", "library"} : BuilderRaises(c, exception)
  \/ RequestLogRaises(c)
  \/ IssueRequests(c)
  \/ OperationStops(c)
  \/ OperationReturns(c)

CallbackStep(c) ==
  \/ StartCallback(c)
  \/ RunInExecutor(c)
  \/ CallbackReturns(c)
  \/ CallbackRaises(c)
  \/ CallbackCancelled(c)

FinishStep(c) ==
  \/ FinishChain(c)
  \/ queued[c] # <<>> /\ \E i \in Head(queued[c]).items : FlushResult(c, i)
  \/ EndChain(c)

AllDone == \A c \in Chain : pc[c] = "done"

\* gather returns the results to submit_requests; what that does with them
\* is module Session.
Gathered == AllDone /\ UNCHANGED vars

Next ==
  \/ \E c \in Chain : \/ RequestStep(c)
                      \/ OperationStep(c)
                      \/ CallbackStep(c)
                      \/ Note(c)
                      \/ FinishStep(c)
  \/ Gathered

(***************************************************************************)
(* The event loop and the thread pool run whatever is ready.  A request    *)
(* ends because the session's total time-out raises if nothing else does;  *)
(* that a callback ends is up to the script.  Notes are never owed.        *)
(***************************************************************************)
Fairness ==
  \A c \in Chain : /\ WF_vars(RequestStep(c))
                   /\ WF_vars(OperationStep(c))
                   /\ WF_vars(CallbackStep(c))
                   /\ WF_vars(FinishStep(c))

Spec == Init /\ [][Next]_vars /\ Fairness

-----------------------------------------------------------------------------
Writing(c, s) == Program[c][s].kind = "operation" /\ Program[c][s].write

\* The writes chain c may ask for: a step and a request of it.
Effect(c) == UNION { {s} \X (1..Program[c][s].size) :
                     s \in { t \in DOMAIN Program[c] : Writing(c, t) } }

Status == {"queued", "sent"} \cup Answers
Line   == [kind : {"line", "error", "result", "note"}, chain : Chain,
           step : Nat, item : Nat]

\* A recorded failure: the node, and what kind of failure it was.
Failure == [step : UNION { DOMAIN Program[c] : c \in Chain }, category : Category]

\* The kinds of values the variables take, and that a chain has a request
\* list for every step it has begun.
TypeOK ==
  /\ pc \in [Chain -> {"ready", "waiting", "submitted", "callback", "flushing", "done"}]
  /\ step \in [Chain -> Nat]
  /\ reqs \in [Chain -> Seq(Seq(Status))]
  /\ \A c \in Chain : Len(reqs[c]) = step[c] /\ step[c] <= Len(Program[c])
  /\ result \in [Chain -> {"none", "value", "list", "error", "raised"}]
  /\ failure \in [Chain -> Failure \cup {NoFailure}]
  /\ segments \in [Chain -> Nat]
  /\ queued \in [Chain -> Seq([step : Nat, items : SUBSET Nat])]
  /\ log \in Seq(Line)
  /\ \A w \in applied : w[1] \in Chain /\ <<w[2], w[3]>> \in Effect(w[1])

\* No more than MAX_REQUESTS requests are on the wire, whatever the number of
\* chains and of requests per node (driver.execute_requests).
InFlightBounded == Cardinality(InFlight) <= MaxRequests

\* Nodes run strictly in order: a chain is past a node only when every request
\* of that node has been answered, and past a single-request node only when
\* that answer is no error (OperationChain: "the chain stops at the first
\* failure").
StrictlyInOrder ==
  \A c \in Chain : \A s \in 1..step[c] :
    s < step[c] \/ pc[c] \notin {"waiting", "flushing", "done"} =>
      /\ \A i \in DOMAIN reqs[c][s] : reqs[c][s][i] \in Answers
      /\ Program[c][s].kind = "operation" /\ ~Multi(c, s) => Errors(reqs[c][s]) = {}

\* Between two awaits a chain's record names the first node at which anything
\* went wrong, with the category of the first failed request of that node; a
\* failure with no failed request is that of user code, and the chain ended
\* there (_record_failure, _stopped).
FailureNamesFirstError ==
  \A c \in Chain : pc[c] # "waiting" =>
    LET bad == { s \in 1..step[c] : Errors(reqs[c][s]) # {} }
    IN  IF bad # {}
        THEN LET s == LeastOf(bad)
             IN  failure[c] = [step     |-> s,
                               category |-> Classify(reqs[c][s][LeastOf(Errors(reqs[c][s]))])]
        ELSE failure[c] # NoFailure => result[c] = "error" /\ failure[c].step = step[c]

\* A recorded failure is never replaced and never withdrawn.
FirstFailureKept ==
  [][\A c \in Chain : failure[c] # NoFailure => failure'[c] = failure[c]]_vars

Reported(c) == { <<log[k].step, log[k].item>> :
                   k \in { j \in DOMAIN log : log[j].kind = "result" /\ log[j].chain = c } }

\* A [RESULT] line, written or still queued, is about a write the server has
\* carried out, and no write has two of them.
ResultsSound ==
  \A c \in Chain :
    /\ \A w \in Reported(c) : <<c, w[1], w[2]>> \in applied
    /\ \A k \in DOMAIN queued[c] : \A i \in queued[c][k].items :
         LET w == <<queued[c][k].step, i>>
         IN  /\ <<c, w[1], w[2]>> \in applied
             /\ w \notin Reported(c)
             /\ \A j \in DOMAIN queued[c] : queued[c][j].step = w[1] => j = k

Confirmed(c) ==
  UNION { {s} \X { i \in DOMAIN reqs[c][s] : reqs[c][s][i] = "ok" } :
          s \in { t \in 1..step[c] : Writing(c, t) } }

\* A chain that ended through one of its own exits, failed or not, has left the
\* [RESULT] lines of exactly the writes the server confirmed to it (README:
\* "A write that succeeded stays on record even if a later step of its chain
\* failed").
WritesOnRecord ==
  \A c \in Chain : pc[c] = "done" /\ result[c] # "raised" => Reported(c) = Confirmed(c)

\* The same of every chain, however it ended.
EveryWriteOnRecord ==
  \A c \in Chain : pc[c] = "done" => Reported(c) = Confirmed(c)

\* What a write did to the server without a [RESULT] line is never hidden
\* behind a chain that counts as succeeded: the chain has a failure or raised.
NoSilentEffect ==
  \A c \in Chain : pc[c] = "done" /\ failure[c] = NoFailure /\ result[c] # "raised" =>
    \A w \in applied : w[1] = c => <<w[2], w[3]>> \in Reported(c)

\* A line with an error block names the failing node by its place among the
\* segments: there are as many of them as steps (_stopped: "by construction").
ErrorBlockAtItsStep ==
  \A k \in DOMAIN log : log[k].kind = "error" => log[k].item = log[k].step

Own(k, c) == log[k].chain = c /\ log[k].kind # "note"

\* What a chain writes is one block: its line first, once, then its [RESULT]
\* lines in the order of the writes, with nothing of another chain's block
\* between them (notes may be).
OneBlockPerChain ==
  \A j, k \in DOMAIN log : \A c \in Chain :
    j < k /\ Own(j, c) /\ Own(k, c) =>
      /\ log[k].kind = "result"
      /\ log[j].kind = "result" =>
           \/ log[j].step < log[k].step
           \/ log[j].step = log[k].step /\ log[j].item < log[k].item
      /\ \A m \in j..k : Own(m, c) \/ log[m].kind = "note"

(***************************************************************************)
(* The abstract batch: a chain's effects are the writes the server has     *)
(* carried out for it, its reports the [RESULT] lines in the log.          *)
(***************************************************************************)
Abstract == INSTANCE Batch WITH
  Failure <- Failure,
  state   <- [c \in Chain |-> CASE pc[c] # "done"         -> "running"
                              [] result[c] = "raised"    -> "broken"
                              [] OTHER                   -> "ended"],
  failed  <- failure,
  effects <- [c \in Chain |-> { <<w[2], w[3]>> : w \in { v \in applied : v[1] = c } }],
  reports <- [c \in Chain |-> Reported(c)]

\* The chains implement the abstract batch.
ImplementsBatch == Abstract!Spec

\* Every chain ends, whatever fails in it and in the others.
ChainsEnd == \A c \in Chain : <>(pc[c] = "done")

\* A chain whose record says it failed has an error line in the logfile, the
\* line submit_requests() leaves the details to (wrapper.__exit__: "no extra
\* traceback - already logged").
FailureIsLogged ==
  \A c \in Chain : pc[c] = "done" /\ failure[c] # NoFailure =>
    \E k \in DOMAIN log : log[k].kind = "error" /\ log[k].chain = c

\* A chain that a callback's exception ended is recorded as a callback failure
\* (the ones Cascade.__exit__ raises again, unwrapped).
CallbackExceptionRecorded ==
  \A c \in Chain :
    pc[c] = "done" /\ result[c] = "error" /\ Node(c).kind = "callback" =>
      failure[c].category = "CALLBACK"
=============================================================================
