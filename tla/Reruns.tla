------------------------------- MODULE Reruns -------------------------------
(***************************************************************************)
(* Chains as objects the script holds on to (operations.py): a chain is    *)
(* built, extended, walked by submit_requests() and by its own execute(),  *)
(* by itself and out of callbacks, more than once, while other chains      *)
(* write to the asset it works on.                                         *)
(*                                                                         *)
(* All chains work on one asset.  Its content, on the server and in the    *)
(* objects the script got from reading it, is the set of changes it        *)
(* carries.  A request is one step here; how requests run is module        *)
(* Chains, and how a batch breaks module Session.  What is shown above the *)
(* definition it would replace is a mutated form, as in Chains.            *)
(***************************************************************************)
EXTENDS Naturals, Sequences, FiniteSets

CONSTANTS
  Chain,       \* bound: the chains the script builds
  Script,      \* the script's own code, at the bottom of the stack
  Batch,       \* a submit_requests() on the stack
  MaxNodes,    \* bound: nodes the script builds, over all chains
  MaxWalks,    \* bound: runs of chains, a batch counting as one
  MaxReads,    \* bound: objects that answers to reads create
  MaxChanges   \* bound: changes made to these objects

ASSUME RerunsAssumption ==
  /\ Batch # Script /\ {Batch, Script} \cap Chain = {}
  /\ {MaxNodes, MaxWalks, MaxReads, MaxChanges} \subseteq Nat

VARIABLES
  server,      \* the changes the asset carries on the server
  version,     \* how many writes the server has carried out
  doc,         \* the objects read: what each carries, and when it was read for what chain
  made,        \* the changes made: to which object, and after how many answers
  nodes,       \* the nodes of each chain
  registered,  \* Operations._chains
  members,     \* the chains of the batch that runs
  stack,       \* what has been called in the script's thread and has not returned
  walk,        \* of each chain, its last walk
  walks,       \* how many walks have been started
  failure,     \* of each chain, the walk whose failure is on its record, or 0
  failed,      \* the chains some walk of which has failed
  acked,       \* the writes the server has confirmed
  queue,       \* OperationChain._result_lines: the confirmed writes not yet logged
  logged,      \* how many [RESULT] lines each confirmed write has
  told         \* what submit_requests() has returned for each chain

vars == <<server, version, doc, made, nodes, registered, members, stack, walk,
          walks, failure, failed, acked, queue, logged, told>>

script == <<nodes, registered>>
asset  == <<server, version, doc, made>>
record == <<failure, failed, acked, queue, logged>>

\* Objects are numbered as they are read; 0 is a value that is no asset.
Nothing == 0

ZeroBased == [at |-> 0, value |-> Nothing, state |-> "idle", no |-> 0, length |-> 0]
Idle      == [at |-> 1, value |-> Nothing, state |-> "idle", no |-> 0, length |-> 0]

Init ==
  /\ server = {}
  /\ version = 0
  /\ doc = <<>>
  /\ made = <<>>
  /\ nodes = [c \in Chain |-> <<>>]
  /\ registered = {}
  /\ members = {}
  /\ stack = <<Script>>
  /\ walk = [c \in Chain |-> Idle]
  /\ walks = 0
  /\ failure = [c \in Chain |-> 0]
  /\ failed = {}
  /\ acked = <<>>
  /\ queue = [c \in Chain |-> <<>>]
  /\ logged = <<>>
  /\ told = [c \in Chain |-> "nothing"]

SetOf(s)  == { s[k] : k \in DOMAIN s }
Top       == stack[Len(stack)]
Popped    == SubSeq(stack, 1, Len(stack) - 1)
InCall(c) == walk[c].state \in {"calling", "awaited"}
Walked(c) == walk[c].state \in {"ready", "calling", "awaited"}

OnTop(c)  == Top = c \/ (Top = Batch /\ c \in members)

\* Code of the script runs: outside of every walk, or in a callback.
ScriptActs == Top = Script \/ \E c \in Chain : OnTop(c) /\ InCall(c)

\* The driver's event loop runs a batch, or a coroutine callback of execute().
LoopRunning ==
  \E x \in SetOf(stack) : x = Batch \/ (x \in Chain /\ walk[x].state = "awaited")

-----------------------------------------------------------------------------
(***************************************************************************)
(* What the script does.  read() and edit(asset) build their request at    *)
(* once, the payload being the object itself; edit(callable) is built when *)
(* it is reached, from the result of the node before: here it passes that  *)
(* on.                                                                     *)
(***************************************************************************)
Starting   == {[kind |-> "read", doc |-> Nothing]}
              \cup { [kind |-> "save", doc |-> d] : d \in DOMAIN doc }
Continuing == Starting \cup { [kind |-> k, doc |-> Nothing] : k \in {"callback", "edit"} }
Writes     == {"edit", "save"}

Built      == UNION { {c} \X DOMAIN nodes[c] : c \in Chain }

Build(c, n) ==
  /\ ScriptActs
  /\ nodes[c] = <<>>
  /\ Cardinality(Built) < MaxNodes
  /\ n \in Starting
  /\ nodes' = [nodes EXCEPT ![c] = <<n>>]
  /\ registered' = registered \cup {c}
  /\ UNCHANGED <<asset, record, members, stack, walk, walks, told>>

\* .then(), .edit(), ...: at any time, a walk of the chain under way included.
Extend(c, n) ==
  /\ ScriptActs
  /\ nodes[c] # <<>>
  /\ Cardinality(Built) < MaxNodes
  /\ n \in Continuing
  /\ nodes' = [nodes EXCEPT ![c] = Append(@, n)]
  /\ UNCHANGED <<asset, record, registered, members, stack, walk, walks, told>>

\* The script changes an object it holds, in a callback or between walks.
Change(d) ==
  /\ ScriptActs
  /\ Len(made) < MaxChanges
  /\ made' = Append(made, [doc |-> d, after |-> Len(acked)])
  /\ doc' = [doc EXCEPT ![d].has = @ \cup {Len(made')}]
  /\ UNCHANGED <<server, version, script, record, members, stack, walk, walks, told>>

-----------------------------------------------------------------------------
(***************************************************************************)
(* How walks begin.  execute() leaves the chain registered; a walk clears  *)
(* neither the record of the chain nor its queue.  Two walks of one chain  *)
(* at a time are left out.                                                 *)
(***************************************************************************)
Begin(cs) ==
  /\ walks < MaxWalks
  /\ walks' = walks + 1
  /\ \A c \in cs : ~Walked(c)
  /\ walk' = [c \in Chain |->
                IF c \in cs THEN [Idle EXCEPT !.state = "ready", !.no = walks'] ELSE walk[c]]

Execute(c) ==
  /\ ScriptActs
  /\ ~LoopRunning
  /\ nodes[c] # <<>>
  /\ Begin({c})
  /\ stack' = Append(stack, c)
  /\ UNCHANGED <<asset, script, record, members, told>>

Submit ==
  /\ ScriptActs
  /\ ~LoopRunning
  /\ registered # {}
  /\ Begin(registered)
  /\ members' = registered
  /\ stack' = Append(stack, Batch)
  /\ UNCHANGED <<asset, script, record, told>>

\* submit_requests() where the loop runs: a CascadeBatchError, no chain has
\* run, and the registry is empty.
SubmitBreaks ==
  /\ ScriptActs
  /\ LoopRunning
  /\ registered # {}
  /\ registered' = {}
  /\ UNCHANGED <<asset, nodes, record, members, stack, walk, walks, told>>

BatchReturns ==
  /\ Top = Batch
  /\ \A c \in members : ~Walked(c)
  /\ told' = [c \in Chain |-> IF c \notin members THEN told[c]
                              ELSE IF failure[c] = 0 THEN "success" ELSE "failure"]
  /\ registered' = {}
  /\ members' = {}
  /\ stack' = Popped
  /\ UNCHANGED <<asset, nodes, record, walk, walks>>

-----------------------------------------------------------------------------
(***************************************************************************)
(* How walks end: _stopped(), or past the last node.  Both flush the       *)
(* queue.  The first failure of a chain stays on its record.               *)
(***************************************************************************)
FlushedOnly(c) ==
  /\ logged' = [n \in DOMAIN logged |->
                  logged[n] + Cardinality({ k \in DOMAIN queue[c] : queue[c][k] = n })]
  /\ UNCHANGED queue
Flushed(c) ==
  /\ logged' = [n \in DOMAIN logged |->
                  logged[n] + Cardinality({ k \in DOMAIN queue[c] : queue[c][k] = n })]
  /\ queue' = [queue EXCEPT ![c] = <<>>]

InBatchOnly(c, no) ==
  failure' = [failure EXCEPT ![c] = IF @ = 0 /\ c \in members THEN no ELSE @]
RecordFailure(c, no) ==
  failure' = [failure EXCEPT ![c] = IF @ = 0 THEN no ELSE @]

Ended(c, state) ==
  /\ walk' = [walk EXCEPT ![c].state = state, ![c].length = Len(nodes[c])]
  /\ stack' = IF Top = c THEN Popped ELSE stack

Stopped(c) ==
  /\ RecordFailure(c, walk[c].no)
  /\ failed' = failed \cup {c}
  /\ Flushed(c)
  /\ Ended(c, "stopped")
  /\ UNCHANGED <<acked, members, walks, told>>

\* execute() where the loop runs: its first request, whose result is a
\* RuntimeError of run_until_complete(), ends the walk; another walk of the
\* chain that is under way goes on.
ExecuteFails(c) ==
  /\ ScriptActs
  /\ LoopRunning
  /\ nodes[c] # <<>>
  /\ walks < MaxWalks
  /\ walks' = walks + 1
  /\ RecordFailure(c, walks')
  /\ failed' = failed \cup {c}
  /\ Flushed(c)
  /\ UNCHANGED <<asset, script, acked, members, stack, walk, told>>

LastSkipped(c) == walk[c].at >= Len(nodes[c])
Over(c)        == walk[c].at > Len(nodes[c])

Turn(c) == walk[c].state = "ready" /\ OnTop(c)

WalkEnds(c) ==
  /\ Turn(c)
  /\ Over(c)
  /\ Flushed(c)
  /\ Ended(c, "done")
  /\ UNCHANGED <<asset, script, failure, failed, acked, members, walks, told>>

-----------------------------------------------------------------------------
(***************************************************************************)
(* The nodes of a walk.                                                    *)
(***************************************************************************)
Node(c) == nodes[c][walk[c].at]

Reaches(c, kinds) == Turn(c) /\ ~Over(c) /\ Node(c).kind \in kinds

GoesOn(c, value) ==
  walk' = [walk EXCEPT ![c].at = @ + 1, ![c].value = value, ![c].state = "ready"]

Read(c) ==
  /\ Reaches(c, {"read"})
  /\ Len(doc) < MaxReads
  /\ doc' = Append(doc, [has |-> server, read |-> version, by |-> c])
  /\ GoesOn(c, Len(doc'))
  /\ UNCHANGED <<server, version, made, script, record, members, stack, walks, told>>

\* A read or write the server refuses.
Refused(c) ==
  /\ Reaches(c, {"read"} \cup Writes)
  /\ Stopped(c)
  /\ UNCHANGED <<asset, script>>

\* What the script has the node write, and what the request carries: what is
\* built of a callable's result is not kept with the node.
Meant(c) == IF Node(c).kind = "save" THEN Node(c).doc ELSE walk[c].value

FirstRead(c) == IF \E d \in DOMAIN doc : doc[d].by = c
                THEN CHOOSE d \in DOMAIN doc :
                       doc[d].by = c /\ \A e \in 1..(d - 1) : doc[e].by # c
                ELSE Meant(c)
Payload(c)   == Meant(c)

Write(c) ==
  /\ Reaches(c, Writes)
  /\ Payload(c) # Nothing
  /\ server' = doc[Payload(c)].has
  /\ version' = version + 1
  /\ acked' = Append(acked, [by |-> c, walk |-> walk[c].no, doc |-> Meant(c),
                             has |-> server'])
  /\ logged' = Append(logged, 0)
  /\ queue' = [queue EXCEPT ![c] = Append(@, Len(acked'))]
  /\ GoesOn(c, Nothing)
  /\ UNCHANGED <<doc, made, script, failure, failed, members, stack, walks, told>>

\* edit(callable) after something that is no asset: its builder raises.
BuilderRaises(c) ==
  /\ Reaches(c, {"edit"})
  /\ Payload(c) = Nothing
  /\ Stopped(c)
  /\ UNCHANGED <<asset, script>>

CallbackStarts(c) ==
  /\ Reaches(c, {"callback"})
  /\ \E how \in {"calling", "awaited"} : walk' = [walk EXCEPT ![c].state = how]
  /\ UNCHANGED <<asset, script, record, members, stack, walks, told>>

Returning(c) == InCall(c) /\ OnTop(c)

\* It returns nothing, or its input: that is passed on.
CallbackReturns(c) ==
  /\ Returning(c)
  /\ GoesOn(c, walk[c].value)
  /\ UNCHANGED <<asset, script, record, members, stack, walks, told>>

CallbackRaises(c) ==
  /\ Returning(c)
  /\ Stopped(c)
  /\ UNCHANGED <<asset, script>>

\* The script may end wherever it is not waiting.
ScriptEnds ==
  /\ Top = Script
  /\ UNCHANGED vars

Next ==
  \/ \E c \in Chain :
       \/ \E n \in Continuing : Build(c, n) \/ Extend(c, n)
       \/ Execute(c)
       \/ ExecuteFails(c)
       \/ WalkEnds(c)
       \/ Read(c)
       \/ Refused(c)
       \/ Write(c)
       \/ BuilderRaises(c)
       \/ CallbackStarts(c)
       \/ CallbackReturns(c)
       \/ CallbackRaises(c)
  \/ \E d \in DOMAIN doc : Change(d)
  \/ Submit
  \/ SubmitBreaks
  \/ BatchReturns
  \/ ScriptEnds

Spec == Init /\ [][Next]_vars

-----------------------------------------------------------------------------
Content == SUBSET (1..MaxChanges)
Object  == 0..MaxReads

\* The kinds of values the variables take.
TypeOK ==
  /\ server \in Content
  /\ version \in Nat
  /\ doc \in Seq([has : Content, read : 0..version, by : Chain])
  /\ made \in Seq([doc : DOMAIN doc, after : 0..Len(acked)])
  /\ nodes \in [Chain -> Seq([kind : {"read", "callback"} \cup Writes, doc : Object])]
  /\ registered \subseteq Chain
  /\ members \subseteq Chain
  /\ stack \in Seq(Chain \cup {Script, Batch})
  /\ walk \in [Chain -> [at : 1..(MaxNodes + 1), value : 0..Len(doc),
                         state : {"idle", "ready", "calling", "awaited", "stopped", "done"},
                         no : 0..walks, length : 0..MaxNodes]]
  /\ walks \in 0..MaxWalks
  /\ failure \in [Chain -> 0..walks]
  /\ failed \subseteq Chain
  /\ acked \in Seq([by : Chain, walk : 1..walks, doc : DOMAIN doc, has : Content])
  /\ queue \in [Chain -> Seq(DOMAIN acked)]
  /\ logged \in [DOMAIN acked -> Nat]
  /\ told \in [Chain -> {"nothing", "success", "failure"}]

\* An edit(callable) of the object its own walk has read drops a change from
\* the asset only if the asset was written to after that read: also in the
\* second walk of the chain, and beside other chains (edit(): "invoked with the
\* previous node's result when the chain runs").
EditAloneKeepsChanges ==
  [][ \A c \in Chain :
        LET d == walk[c].value IN
        /\ Reaches(c, {"edit"}) /\ version' # version /\ walk'[c] # walk[c]
        /\ d # Nothing /\ doc[d].read = version
        => server \subseteq server' ]_vars

\* However often its chain is walked, a confirmed write has one [RESULT] line
\* from the end of its walk on, and never two (README: "A write that succeeded
\* stays on record").
ResultLinesOnce ==
  \A n \in DOMAIN acked :
    LET c == acked[n].by
    IN  logged[n] = IF Walked(c) /\ walk[c].no = acked[n].walk /\ logged[n] = 0
                    THEN 0 ELSE 1

\* A confirmed write carries every change made to its object before it, those
\* made after edit(asset) was called included.
WritesWhatIsHeld ==
  \A n \in DOMAIN acked :
    { m \in DOMAIN made : made[m].doc = acked[n].doc /\ made[m].after < n }
      \subseteq acked[n].has

\* submit_requests() returns a failure for exactly the chains of which some
\* walk has failed, an execute() before it or beside it included.
FailureReported ==
  [][ \A c \in Chain :
        told'[c] # told[c] => (told'[c] = "failure" <=> c \in failed) ]_vars

\* A walk that ends without a failure has had every write of the chain
\* confirmed, nodes appended while it was under way included.
DoneMeansAll ==
  \A c \in Chain : walk[c].state = "done" =>
    Cardinality({ n \in DOMAIN acked : acked[n].by = c /\ acked[n].walk = walk[c].no })
      = Cardinality({ k \in 1..walk[c].length : nodes[c][k].kind \in Writes })
=============================================================================
