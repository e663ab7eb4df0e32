# A formal model of py-cascade-cms

`py-cascade-cms` is a Python client for the REST API of Cascade CMS. A script opens a
`with Cascade(...)` block, builds *chains* of operations and callbacks, and runs every chain of a
batch concurrently with `submit_requests()`. What each chain did is one line of a logfile; what
became of the run is its exit code. This directory holds TLA+ specifications of that machinery, the
TLC runs that check them on small instances, and theorems with machine-checked proofs.

Paths below are relative to `src/cascade_cms/` in the repository.

## The system

| Part | State | Operations | Talks to |
|---|---|---|---|
| **Chain** (`operations.py`: `OperationChain`, `Node`) | the linked nodes; the walk's `step`, `result`; `failure`; the line builder; `_result_lines` | append a node; `execute_async()`: build requests, await them, run callbacks, record a failure, write the line and the `[RESULT]` lines | the driver (awaits requests), an executor (plain callbacks), the logger |
| **Driver** (`driver.py`) | the event loop, the aiohttp session, the semaphore of `MAX_REQUESTS` slots | `execute_requests()`, `RequestExecutor.fetch()` | the server; every chain shares it |
| **Session** (`wrapper.py`: `Cascade`) | callback failures, reportable flag, `exit_on_failure`, the run token | `submit_requests()`, `_execute_chains()`, `__exit__`, `_decide_exit()` | runs chains with `asyncio.gather` on the driver's loop; reads their failures |
| **Registry and builders** (`operations.py`: `Operations`, `ChainGroup`) | `_chains` | `_new_chain`, `_new_chains_for`, `_reset_chains`, one method per API operation | chains; the checkout ledger |
| **Checkout ledger** (`cmstypes.py`: `set_checkedout`) | `ALL_CHECKOUT_ASSETS`, process-wide | toggled by `checkOut`/`checkIn` while they are *built* | - |
| **Failures** (`utils/failures.py`) | `ChainFailure`, `ChainResults` | `classify_failure` | chains and session |
| **Logger** (`utils/operation_logger.py`) | the file, the counters, its own reportable flag, `ChainLineBuilder` | `flush_chain`, `flush_chain_error`, `log_result`, `log_note`, `log_batch_end`, `log_exit` | written by chains, session and worker threads |
| **Script log** (`utils/extension.py`) | a context variable with the active run | `note()`, `activate`, `deactivate` | callbacks, in whatever thread they run |
| **Types and parsers** (`cmstypes.py`) | the assets a script holds, changed in place | validation, parsing, `Asset.get_data_structure` | chains (building), driver (parsing) |

### What is hard about it

* *Interleaving.* The chains of a batch share one event loop. Between two awaits a chain is alone on
  it, at an await anything may happen; plain callbacks run in worker threads, which no await holds
  back, and may write to the log, register chains or call `submit_requests()` again.
* *Ordering.* Requests of one node end in any order, chains end in any order, yet results, records
  and lines are promised in the order of steps and of chain creation.
* *Partial failure.* A node of several requests may fail in part and the chain goes on; a server may
  carry out a write and the answer be lost; an exception may escape from between two handlers.
* *Limits.* One semaphore and one thread pool serve all chains.
* *Objects that outlive a run.* A chain can be extended and walked again, by itself (`execute()`) or in
  a batch, with the record and the queue the walk before left; a payload is held by reference and
  serialised when it is sent; a context variable decides which of several sessions a note belongs to.
* *Sequences of legal calls.* Several batches in one block, batches that break, batches submitted from
  inside a batch, interrupts that leave half a batch on the loop.

### What makes each part correct

* A chain runs its nodes strictly in order, keeps its *first* failure, reports exactly the writes the
  server confirmed, and never ends as a success over an effect it did not report.
* The driver never has more than `MAX_REQUESTS` requests out, and every request gets its answer.
* The log holds one block per chain, with the error marked at the step that failed.
* The session counts every chain once and the exit code tells whether anything failed.
* Building leaves registry, numbers and ledger consistent even when a call raises in the middle.
* A second walk of a chain reports its own writes once, forgets no failure of the first, and sends what
  the script holds by then.
* A note reaches the innermost session around it, from worker threads too, and no other; a logfile ends
  with its exit code and tells of a cleanup that failed.
* An answer is taken for a success only if it holds what the operation is after.
* A lookup returns the first match of each group its path names, and nothing else.

## The modules

| Module | Models | Needs |
|---|---|---|
| `Chains` | the chains of one batch on the event loop: `operations.py`, `driver.py`, `classify_failure`, the log lines | - |
| `Batch` | the abstract promise of a batch | - |
| `MCChains` | programs and fault sets for TLC | `Chains` |
| `Session` | the `with` block: registration, batches, tally, exit | - |
| `MCSession` | the outcomes for TLC | `Session` |
| `Building` | `Operations`, `ChainGroup`, the checkout ledger | - |
| `Reruns` | chains as objects: `execute()`, walks again, nodes added late, assets changed in place | - |
| `MCReruns` | symmetry for TLC | `Reruns` |
| `Runs` | several sessions in several threads: the context variable, notes, `__exit__` step by step | - |
| `MCRuns` | symmetry for TLC | `Runs` |
| `Answers` | the response parsers and the category of a failed answer (operators) | - |
| `Structured` | `Asset.get_data_structure` and a second definition of what it finds (operators) | - |
| `Documents` | from an answer to a lookup in the asset it holds | `Answers`, `Structured` |
| `MCDocuments` | symmetry for TLC | `Documents` |
| `ChainsProofs` | the inductive type invariant of `Chains`; limit, order, first failure | `Chains` |
| `ChainsRecord` | what a batch leaves on record and in the logfile, that `Chains` implements `Batch`, how far the broken promises reach, that a batch is never stuck | `ChainsProofs` |
| `BatchProofs` | what the abstract promise implies | `Batch` |
| `SessionProofs` | exit, tally and flags of a session, which chains it drops | `Session` |
| `BuildingProofs` | numbers and ledger, which chains nobody holds | `Building` |
| `RerunsProofs` | chains that are walked again | `Reruns` |
| `RunsProofs` | the sessions of a process: notes, nesting, how a logfile ends | `Runs` |
| `DocumentsProofs` | answers, and what a lookup finds in any document | `Documents` |

Some definitions are preceded by a mutated form that nothing else uses (`LastFailure` above
`FirstFailure`, `LeakySlot` above `SlotFree`). Each is the bug that some property exists to catch;
`PROJECT.json` pairs them, and putting a form in the place of its definition makes the property fail.

### `Chains`: state and actions against the code

| Model | Code |
|---|---|
| `Program[c]` | the linked list of `Node`s from `_head`; `list` is `multi=True` at building time, `lazy` a callable payload, whose size is known only when it runs (`_node_requests`) |
| `pc[c]` | where `execute_async` is: `ready` (top of the loop), `waiting` (awaiting `execute_requests`), `submitted`/`callback` (awaiting `_run_callback_async`), `flushing` (its line is written, `_flush_results` runs), `done` |
| `step[c]`, `result[c]`, `failure[c]` | the locals `step`, `result` (its kind) and `self.failure` |
| `reqs[c][s][i]` | request `i` of step `s`: `queued` for the semaphore, `sent`, or answered |
| `segments[c]`, `queued[c]` | the segments of `_line`, and `_result_lines` (one entry per node) |
| `log` | the lines this batch writes |
| `applied` | the writes the server has carried out: not known to the code |
| `BuilderRaises`, `RequestLogRaises`, `IssueRequests` | the part of the loop body up to the first await, by its three ways out |
| `Acquire`, `ServerApplies`, `Answer` | `RequestExecutor.fetch`: `async with sem`, the server, the parsed answer or the exception `_run` returns as a value |
| `OperationStops`, `OperationReturns` | `_resolve_operation_result`, then `_stopped` or `_collect_results` |
| `StartCallback`, `RunInExecutor`, `CallbackReturns/Raises/Cancelled` | `_run_callback_async` and the handler around it |
| `Note` | `script_log.note()` from a running callback |
| `FinishChain`, `FlushResult`, `EndChain` | the end of `execute_async`, `_flush_results` |

The code between two awaits is one action, except that the lines a chain writes at its end are one
action each: a worker thread may write a note between any two of them. `LoopFree` keeps the other
chains off the loop meanwhile. An answer that is an error says nothing about the effect: `Answer` may
report `network` or `refused` after `ServerApplies`. `ok` on a write is possible only after it.

### `Batch` and the refinement

`Batch` knows of each chain only whether it runs, has ended or broke, the failure it recorded, its
effects on the server and the effects the log reports. It promises that reports are of effects, that a
failure once recorded stays, that a chain that ended without a failure has reported every effect, and
that every chain ends. `Chains!ImplementsBatch` maps `state`, `failed`, `effects` and `reports` to the
detailed variables. The run checks it with its fairness; `ChainsRefineBatch` proves its safety part for
every batch, and `BatchProofs` that the promise implies `Honest`.

### `Session`

`registered` is `Operations._chains`, `batch` the copy `submit_requests()` takes, `running` the tasks on the
loop. `Chosen` are the places of a batch's chains with one of some outcomes, `Having` those chains in the
order of the batch. `ChainEnds` gives a chain one of the outcomes `Chains` can produce (`raised` is an
exception none of its handlers caught). `BatchReturns` is the whole tail of `submit_requests()` after
`gather`: reset of the registry, the backstop for unrecorded exceptions, failures in chain order, both
flags, the tally. `BatchBreaks` and `NestedSubmit` are its `except Exception` branch, `Interrupted` is what
passes by that branch and runs only the `finally`. `Exit` is `__exit__` with `_decide_exit`.

### `Building`

A call on a list takes one step per identifier, so that a `ValueError` in the middle leaves what the
code leaves: `_new_chain()` registers the chain *before* `resolve_identifier` may raise. The ledger is
toggled per queued `checkOut`/`checkIn`, by the key of the identifier. `edit` takes a payload, of which
a list is one chain's: it does not fan out, and an asset without an id raises like a path without a site.

### `Reruns`

| Model | Code |
|---|---|
| `stack` | what the script has called and is still inside: its own code, a batch, an `execute()`, in whatever callback |
| `doc[d]`, `made` | the `Asset` objects answers to `read` have created, and the changes the script makes to them: an asset is the set of changes it carries |
| `server`, `version` | the asset on the server |
| `walk[c]` | the locals of the last `execute`/`execute_async` of the chain: place, result, whether it is in a callback |
| `failure[c]`, `queue[c]` | `self.failure` and `_result_lines`, which no walk resets |
| `Execute`, `Submit`, `SubmitBreaks`, `ExecuteFails` | the two ways to walk a chain, and what they do where the driver's loop runs |
| `Read`, `Write`, `Refused`, `BuilderRaises`, `CallbackStarts/Returns/Raises`, `WalkEnds` | one turn of the loop over the nodes |

A request is one step (how it runs is in `Chains`), `_flush_results` is one step, there is one asset,
and a callback returns its input or nothing. Two walks of one chain at the same time are left out but
for an `execute()` that fails at once because the loop runs.

### `Runs`

`active[x]` is what `_active_run` holds in context `x`: a thread, or a callback, which gets a copy when
it is dispatched (`_in_current_context`). `token[r]` is `_run_token`. `Leave` is `deactivate()` at the head
of `__exit__`; `LeaveElsewhere` the `ValueError` of a token from another context, which leaves `__exit__`
at once. `LogExit`, `DriverCloses/Fails`, `CleanupInterrupted`, `LogExitCode` and `LoggerCloses` are the calls
of `__exit__`, one step each, so that worker threads of an interrupted batch get in between. `open`,
`orderly`, `line` and `at` record the shape of the blocks and of the batches for the properties; the
code has them in its call stacks. What a run does in its block is `Session`.

### `Answers`, `Structured`, `Documents`

An answer is known by its status, whether it is an object, its `success`, whether it has a message, the
entry the parser is after (absent, valid, invalid) and anything else. `Parsed` is `ResponseParser`, which
tries `CascadeError` before the parser of the operation; `Accepts` is what each parser's model validates.
A document is a sequence of nodes in document order (`Enclosing` are the nodes that are open at a
place). `FindGroup` and `FindInNodes` are the recursive generators of the code, as functions of the node
they have got to, and `Trail` is the argument `here` of `find_group()`. `Matching` and `FirstField` say what
they find without walking: a group is named by a path if some assignment of nodes to its identifiers leads
from parent to child, and its field is the earliest one.

## The runs

| Run | Question | Instance | Result |
|---|---|---|---|
| `chains` | order, record, reports, log, refinement, termination under every fault | two chains: a list create of two and an async callback; an edit, a plain callback and an edit built by a callable (0 to 2 requests). 2 slots, 1 worker | holds; about 391,000 states |
| `chains_pool` | contention for the last slot and the only thread | three chains of two nodes, 1 slot, 1 worker; refusals and user errors | holds; about 257,000 states |
| `session` | exit, tally, flags | three chains in up to three batches, broken, nested or interrupted anywhere | holds; about 126,000 states |
| `building` | ledger, numbers | three chains of up to two nodes, lists of up to two identifiers, one asset in three forms of address | holds; about 1,788,000 states |
| `reruns` | what a chain that is walked again writes, logs and reports | two chains, four nodes, three walks, three reads, one change | holds; about 2,546,000 states |
| `runs` | which logfile a note reaches, how a logfile ends | two threads, two callbacks, two sessions, two notes | holds; about 370,000 states |
| `documents` | which answers are successes, what a lookup finds | every answer against every parser; every document of up to four nodes | holds; about 326,000 states |
| `chains_unlogged` | is every recorded failure in the log? | one list create | **violated** |
| `chains_hidden` | is a callback's exception always the record? | a list create and a callback | **violated** |
| `chains_lost_record` | is every confirmed write on record, however the chain ended? | two edits, debug mode | **violated** |
| `session_dropped` | does a batch run every chain registered before it returns? | as `session` | **violated** |
| `building_ghost` | is every registered chain in somebody's hands? | as `building` | **violated** |

### What the properties say

In `Chains`: `InFlightBounded`, `StrictlyInOrder`, `FailureNamesFirstError` (between two awaits the
record names the first node and the first request of it that went wrong), `FirstFailureKept`,
`ResultsSound` (a `[RESULT]` line, written or queued, is about a write the server carried out, and there
is one per write), `WritesOnRecord` (a chain that left through an exit of its own has reported exactly
the confirmed writes), `NoSilentEffect` (an unreported effect never hides behind a success),
`ErrorBlockAtItsStep`, `OneBlockPerChain`, `ChainsEnd`, `ImplementsBatch`.

In `Session`: `ExitTellsFailures` (exit code 0 exactly when every chain of every batch ended well),
`FirstCallbackRaised`, `TallyExact`, `FlagsAgree` (logger and wrapper keep separate flags for the same
fact), `RunAtMostOnce`.

In `Building`: `LedgerParity` (an asset is in the ledger exactly when an odd number of checkouts and
checkins of it have been queued, in whatever chain), `IndexIsPlace` (a chain's number is its place in
its batch).

In `Reruns`: `ResultLinesOnce` (a confirmed write has one `[RESULT]` line, in whichever walk it was, and
never a second from a later one), `FailureReported` (a batch returns a failure for exactly the chains
some walk of which has failed), `WritesWhatIsHeld` (a write carries every change made to its object
before it was sent), `EditAloneKeepsChanges` (an `edit(callable)` of what its walk has read loses a change
only if somebody wrote in between), `DoneMeansAll` (a walk that ends well has confirmed every write, those
of nodes added while it ran included).

In `Runs`: `ActiveIsInnermost`, `NotesStayHome` (also where blocks are left out of order, or by another
context), `NoteLostOnlyLate` (a note is lost without a warning only if its callback outlived its batch,
or blocks were left out of order), `CleanupReported`, `ExitCodeLast`.

In `Documents`: `RefusalHeard` and `ValueIsAnswered` over all answers and parsers; `FirstPerGroup` (the
recursive lookup against its second definition, errors included) and `DirectIsOwn` over all documents.

### Bounds

Two chains are enough for every pairwise interference: the properties relate a chain to the server, to its
own past, or to one other chain's lines; three are used where a third could starve. Lists of two give both
the partial failure and the order of results; two slots let both requests of a node, or one of each chain,
be out, while the third waits. A callback writes at most one note (`Note`), the bound that keeps the log
finite. The faults of `chains` leave out `library` answers, which take the path of `network` ones; the
exception of a callable payload brings the category in. The session's bound is `MaxChains`; the number of
batches follows from it. In `Reruns` three walks are a first one, a second one of the same chain, and one of
the other chain between or inside them; four nodes make two chains of read and edit, or one that reads and
edits twice. In `Runs` two sessions overlap in every way, in one thread and in two, and two callbacks nest
or run side by side; a deeper nesting adds nothing for TLC, and the proofs cover it. Four nodes of a
document (`MaxTree`) are a group in a group of the same name with a field in each, and two identifiers in a
path (`MaxPath`) name the inner one; the proofs cover every size of both. Deadlock is checked in every run:
the end of a batch, of a session and of building are explicit steps (`Gathered`, `Exited`, `Done`,
`ScriptEnds`, `Finished`).

### Fairness

`Chains` assumes weak fairness of each kind of step of each chain. The event loop runs every ready
task and the pool every submitted callable. A request that is out ends, because aiohttp's session
time-out raises if nothing else does. A callback ends if the script's code does, which the library
cannot force and `ChainsEnd` therefore presumes. Weak fairness is enough although requests compete for
slots: the competitors are finitely many, each gives its slot back, and no request asks twice. Notes
and injected faults of the file system are never owed. The other modules state safety only:
their steps are the script's.

### Disagreements with the documentation

1. *A failure that is not in the log* (`chains_unlogged`). A partly failed list create or edit records
   its failure and goes on; the chain then ends through the success exit. The README says the
   `SystemExit(1)` needs no traceback "since it was already logged".
2. *A callback's exception behind an older record* (`chains_hidden`). If such a chain's callback raises
   afterwards, the record stays that of the failed item, and the exception is not "re-raised unwrapped".
3. *Confirmed writes without a line* (`chains_lost_record`). `_log_requests` is outside the handlers of
   `execute_async`; if debug mode cannot write a request file, queued `[RESULT]` lines are lost,
   against "a write that succeeded stays on record".
4. *Chains that vanish* (`session_dropped`). Chains that a callback registers while its batch runs are
   cleared with it, against "collected until `submit_requests()` runs them all".
5. *Results for nobody* (`building_ghost`). A call that raises leaves its empty chain registered, so the
   next batch has one more result, `None` and counted as a success, than the script has chains, against
   "`results[0]` belongs to the first chain".

Each of the five has a theorem that says how far it reaches, for every program, set of faults and bound: the
first two come from nodes of several requests alone (`OnlyPartialFailuresUnlogged`,
`OnlyPartialFailuresHide`). The third costs a chain all of its lines or none (`AllOrNothing`), and only
through an exception that no handler sees (`EveryWriteUnlessEscapes`). The chains that vanish were all
created after those of the batch (`OnlyLateChainsDropped`). A chain that nobody holds was left by a call
that raised, and so were the ones that call made before it (`OnlyRaisesLeaveGhosts`).

Four more were met while modelling and have no run. A second walk of a chain appends its segments to the
line of the first, so the step of a failure no longer "always equals the number of segments already
appended" (comment at `operations.py:1132`); `Reruns` leaves lines out. The comment at `driver.py:38` says
the request and response files of one key line up; a read and an unanswered edit of one asset leave the
response of one beside the request of the other. `readPreferences()` uses a parser that accepts any
object that is no refusal, which is why `ValueIsAnswered` states less for it. The label of a chain that
starts with a payload is taken from its first asset before the others are checked.

## The proofs

Every invariant and action property that a passing run checks is also proved, for every value of the
constants. Assumed of these is only what
the modules state: `Chains` takes any finite set of chains, any programs, any number of slots and workers
and any set of faults (`ProgramAssumption`, `LimitAssumption`), `Session` any bound and any set of outcomes
(`SessionAssumption`), `Building` any assets and bounds (`BuildingAssumption`), `Reruns` any chains and
bounds (`RerunsAssumption`), `Runs` any threads, callbacks and runs (`RunsAssumption`), `Documents` any
identifiers, any size of a document and any length of a path (`StructuredAssumption`,
`DocumentsAssumption`). One theorem assumes more and says so: `EveryWriteUnlessEscapes`.

| Theorem | States |
|---|---|
| `ChainsProofs!Typing` | `Spec => []TypeOK` |
| `ChainsProofs!InFlightLimit` | `Spec => []InFlightBounded` |
| `ChainsProofs!NodesInOrder` | `Spec => []StrictlyInOrder` |
| `ChainsProofs!FirstFailureStays` | `Spec => FirstFailureKept` |
| `ChainsRecord!SoundResults` | `Spec => []ResultsSound` |
| `ChainsRecord!WritesStayOnRecord` | `Spec => []WritesOnRecord` |
| `ChainsRecord!EffectsAreTold` | `Spec => []NoSilentEffect` |
| `ChainsRecord!FirstErrorIsNamed` | `Spec => []FailureNamesFirstError` |
| `ChainsRecord!ChainsRefineBatch` | `Spec => Abstract!Init /\ [][Abstract!Next]_(Abstract!vars)` |
| `ChainsRecord!ChainsAreHonest` | `Spec => []Abstract!Honest` |
| `ChainsRecord!ErrorBlockNamesStep` | `Spec => []ErrorBlockAtItsStep` |
| `ChainsRecord!BlocksAreWhole` | `Spec => []OneBlockPerChain` |
| `ChainsRecord!OnlyPartialFailuresUnlogged` | `Spec => []SoleFailureLogged` |
| `ChainsRecord!OnlyPartialFailuresHide` | `Spec => []SoleExceptionRecorded` |
| `ChainsRecord!AllOrNothing` | `Spec => []RecordIsAllOrNothing` |
| `ChainsRecord!EveryWriteUnlessEscapes` | `Spec => []EveryWriteOnRecord`, where `Faults` has neither `cancelled` nor `debuglog` |
| `ChainsRecord!BatchIsNeverStuck` | `Spec => []NeverStuck` |
| `BatchProofs!BatchIsHonest` | `Spec => []Honest` of the abstract batch |
| `SessionProofs!Typing` | `Spec => []TypeOK` |
| `SessionProofs!ChainsRunOnce` | `Spec => RunAtMostOnce` |
| `SessionProofs!FlagsNeverDiffer` | `Spec => []FlagsAgree` |
| `SessionProofs!ExitIsTruthful` | `Spec => []ExitTellsFailures` |
| `SessionProofs!FirstCallbackLeaves` | `Spec => []FirstCallbackRaised` |
| `SessionProofs!TallyIsExact` | `Spec => []TallyExact` |
| `SessionProofs!OnlyLateChainsDropped` | `Spec => DroppedAreLate` |
| `BuildingProofs!Typing` | `Spec => []TypeOK` |
| `BuildingProofs!IndicesArePlaces` | `Spec => []IndexIsPlace` |
| `BuildingProofs!LedgerCountsParity` | `Spec => []LedgerParity` |
| `BuildingProofs!OnlyRaisesLeaveGhosts` | `Spec => []GhostsAreOfRaises` |
| `RerunsProofs!Typing` | `Spec => []TypeOK` |
| `RerunsProofs!FailuresAreReported` | `Spec => FailureReported` |
| `RerunsProofs!OneLinePerWrite` | `Spec => []ResultLinesOnce` |
| `RerunsProofs!DoneIsDone` | `Spec => []DoneMeansAll` |
| `RerunsProofs!ChangesAreWritten` | `Spec => []WritesWhatIsHeld` |
| `RerunsProofs!AloneNothingIsLost` | `Spec => EditAloneKeepsChanges` |
| `RunsProofs!Typing` | `Spec => []TypeOK` |
| `RunsProofs!NotesAreHome` | `Spec => []NotesStayHome` |
| `RunsProofs!InnermostIsActive` | `Spec => []ActiveIsInnermost` |
| `RunsProofs!LossIsLate` | `Spec => []NoteLostOnlyLate` |
| `RunsProofs!CleanupIsReported` | `Spec => []CleanupReported` |
| `RunsProofs!ExitCodeIsLast` | `Spec => []ExitCodeLast` |
| `DocumentsProofs!Typing` | `Spec => []TypeOK` |
| `DocumentsProofs!RefusalsAreHeard` | `Spec => []RefusalHeard` |
| `DocumentsProofs!ValuesAreAnswered` | `Spec => []ValueIsAnswered` |
| `DocumentsProofs!LookupIsFirstPerGroup` | `Spec => []FirstPerGroup` |
| `DocumentsProofs!DirectStaysOwn` | `Spec => []DirectIsOwn` |

### One batch

*Typing.* `TypeOK` is not inductive: that the server is asked only for writes of the program depends on
a waiting chain being at an operation node (`Located`) and on a node never having more requests than
its payload asks for (`Sized`). `TypeInv` is the conjunction of the three. There is a lemma per action, and lemmas for
the operators several actions share (`StoppedType`, `BeginOperationType`, `SetStatusType`).

*Non-interference.* `Elsewhere` shows that a step of one chain leaves the locals of all others alone;
`PastIsKept` that requests of a node left behind are never touched again. With these the other theorems
need to look only at the chain that moves.

*The limit.* `Cardinality` means something only of a finite set, so the invariant is
`IsFiniteSet(InFlight) /\ InFlightBounded` (`SlotInv`). `SentStep` shows that a step adds at most one
request to those on the wire, and adds one only where a slot was free.

*Order.* `StrictlyInOrder` is inductive together with `TypeInv`; `InOrderStep` splits on whether a step
stays at its node or moves to the next one.

*The record.* Four properties of the runs follow from one invariant, `RecordInv`, kept per chain:

* `Books`: the confirmed writes of the nodes behind the chain (`Settled`) are those that have a line in the
  log or an entry in the queue, and none has both. A reader of the code would expect this as a comment on
  `_result_lines`; it is what ties the log, the queue and the answers together.
* `QueueInOrder`: one entry per node, in the order of nodes, so that taking the first item of the first
  entry off the queue takes it out of `Books` exactly once.
* `Served`: what the server confirmed it has carried out, and it carries out only what was sent; an unreported
  effect must then belong to a request that did not come back `ok`.
* `Accused`: the record names the first error at the first bad node behind the chain (`Bad`), and otherwise
  is of the node the chain stopped at.
* `Left`: an `error` or `raised` result goes only with a chain that is past its loop, and an empty queue
  with every end but the exception that escapes.

"The first request that failed" is a `CHOOSE` in the model and an index of a list in the code. `LeastExists`
shows by counting that the choice has a value: without a least member, `n |-> n - 1` would map a
finite set into itself one to one and miss a member.

*Refinement.* `ChainsRefineBatch` goes action by action: `TakesEffect` is the server's step, `Fails` the step
that records, `Reports` one `[RESULT]` line, `Ends` and `Breaks` the two ways out; all others change nothing
that is mapped. `Ends` is the step that needs the invariant: the abstract batch lets a chain without a
failure end only when every effect is reported, and that is `Books` and `Served` at an empty queue.

*The logfile.* `OneBlockPerChain` speaks of all lines at once. `LogInv` says what holds while a block is
being written: one chain flushes at a time (`OneFlushes`), what follows its first line is its own or a note
(`Open`), and what it has flushed comes before what its queue still holds. `Labelled` counts the segments: as many as
steps taken, but one less while a callback runs.

*How far the broken promises reach.* `Blamed` follows a chain from its failure on: a result `error` goes with
an error line at its step, a failure whose chain has no partly failed node (`PartlyFailed`) goes with such a
result, and a chain that raised has no line. A step of a chain either ends in `_stopped`, which records and
writes its line at once (`Halts`), or leaves the failure alone, unless it collects the answers of a node with
several requests (`GoesOn`). `NothingEscapes` shows that a result `raised` needs one of the two faults.

*Never stuck.* `ENABLED` is out of the prover's reach, so `CanGoOn` says with the guards of the actions what a
chain can do: that the guards are those of the actions is for a reader to compare, and TLC's deadlock check
covers its instances only. The theorem needs `Filled`, that no entry of a queue is empty, since an empty one could not be
flushed. The argument is by who holds what (`SomeoneCan`): a chain that flushes can write its next line; with no
flush the loop is free; a chain waiting for a slot finds one, or some chain has a request out that
can end; a callback waiting for a worker finds one, or some worker runs a callback that can end.

### A session

The invariant `Inv` is `TypeOK` with three parts. `Fresh`: what is in the registry while a batch runs is of
that batch or has not run. `InOrder`: chains are numbered as they are created and every list of
them is in that order, the results of one batch before those of the next. `Told`: the flags and the list
on which `__exit__` decides say what the results do. `Having` picks the chains of a batch by counting places
and not by recursion, so that `PlacesTaken` (each place among the members of a finite set of numbers is
taken) shows that no chosen chain is lost. The counters are the cardinality of a set of
places that a batch moves behind those of the batches before it (`Shifted`).

The guards of `DecideExit` exclude each other: of a `CASE` whose guards overlap, as `elif` branches
copied one to one would, the value is any of them, and nothing could be proved of it. The same goes for
`Toggled` in `Building`.

`OnlyLateChainsDropped` rests on `Later`: what is registered is of the batch under way or has a higher number
than all of it.

### Building

`LedgerParity` counts a set, so the invariant `Parity` says that it is finite too. `QueuedGrows` is the
core: a call that adds `n` operations on a key to the queued ones toggles the key `n` times, once per chain
of a group (`StartQueues`, `ExtendQueues`), and `ParityOfSum` does the arithmetic. A call that raises adds a
chain and no operation, and so toggles nothing.

`OnlyRaisesLeaveGhosts` rests on `Given`: while a call runs, the chains it has made are the only ones
neither held nor followed by a chain without a node, for `_new_chains_for` goes from first to last and returns
its group in one piece.

### Chains that are walked again

`TypeInv` is the part of the types the theorems need. `FailureReported` rests on
`OnRecord` (a chain has a failure on its record exactly if some walk of it has failed), which is inductive
because nothing ever clears a record. The two theorems about changes rest on `Held`: `Fresh` says what an
object read since the last write carries of the server's content, `Kept` that a change once made to an
object stays in it, and `WritesWhatIsHeld` itself.

`ResultLinesOnce` rests on `Lines`: what is in a queue was confirmed to its chain in the walk under way and
has no line yet (`Queues`), and a write without a line is in its chain's queue (`Settled`). That a second
walk begins with an empty queue is a consequence, not a reset in the code. `DoneMeansAll` compares two
cardinalities, the writes confirmed to a walk and the write nodes it has passed, at every node of it
(`Progress`), because a node appended while the walk is under way moves its end. `Typing` comes last: the
bounds on places and contents (`Bounds`) follow from guards on other variables. The number of nodes is
bounded through the set `Built` of all places in all chains, since a sum over a set of chains would need an
induction.

### Several sessions

*Typing.* That leaving a block from another context finds it in the stack of its owner is not in
`TypeOK`; `Opened` (each open run is in the stack of its owner, once, and nowhere else) makes it inductive.
`NotesStayHome` needs `Home`: what a context finds active *and what the token of a run would restore* was
entered by a context it comes from.

*Nesting.* `ActiveIsInnermost` is where the argument is longest. `Placed` says that the line of a context
contains the lines of those it comes from. `Waits` says that what a running callback comes from waits for
it, as far back as the last interrupted batch: so a context with live callbacks neither enters nor leaves
a block. A context that is not late therefore sees still surroundings, and `Nested` says that its tokens
lead from the active run through its own blocks to the innermost one around it. `Pending` stops at the last stray
context because the plain statement, over the whole line of a context that is not late, is not inductive:
a stray callback that ends makes those it called no longer late. `Around` states "innermost" by a witness and not
by `CHOOSE`, so that no induction on the length of a line is needed.

*The end of a logfile.* A run is left by the context that entered it, which does nothing else until it is out
of `__exit__` (`ExitsAlone`). So only late callbacks write to the log of a run that is being left, and `Story` says
what the log has at each stage: a tally from `log_exit()` on, an error line if the driver
was not closed, one exit code, and after it only late notes.

### A lookup

The generators call themselves, and the library's induction theorems are out of the prover's reach; that
they find what `FirstField` and `Matching` say is proved without them. Each is a function defined by an
equation over the node numbers. A closed form is written down, one that does not refer to itself, and shown
to solve the equation (`FoundStep`, `OutlineStep`, `MatchesStep`). Then the code's function exists, being
the `CHOOSE` of a solution, and is that one: at the greatest place where two solutions differ (the least,
for `Trail`) all places the equation refers to agree, so the two agree there too (`FindIs`, `TrailIs`,
`FindGroupIs`). That a greatest place exists is shown by counting (`GreatestExists`).

The closed forms:

* `Onward(t, n, direct)` is what the walk has still to see from node `n` on: `n`, its later siblings, and, unless it is
  `direct`, what is below them. `OnwardDeep` splits it at `n` into the node itself, the part at its first child and
  the part at its next sibling; that each of them lies behind the one before is document order
  (`NoCrossing`: a node after `n` is inside `n`, or beside it, or outside what `n` is in). `FirstOf` of it is then
  what `find_in_nodes` finds, by the cases of the generator (`FirstOfNone`, `FirstOfOne`, `FirstOfBehind`).
* `Outline` lists the groups a node is in, from the outside in; a group's parents end with the path exactly
  if the path leads to it (`MatchingStep`, `MatchingIs`).
* `Matches` lists the first fields of the groups still ahead. `Listing` puts a finite set of numbers in order by
  counting (`Rank`), and concatenation of lists is union where one set is behind the other
  (`ListingBehind`).

`WholeDocument` says that from the asset's first child on everything is ahead, and `ReturnedIs` that one
exception among the matches is the exception of the whole. The rest (`RefusalsAreHeard`,
`ValuesAreAnswered`) goes through the parsers one by one.

### What is only model-checked

Liveness: `ChainsEnd`, and the fairness part of `ImplementsBatch`. It is out of the prover's reach.
`BatchIsNeverStuck` and the deadlock check of every run are what is known of it besides.

## What is not modelled

* The content of requests: URLs, headers, validation of payloads, UUID formats; the setter that looks an
  attribute up anywhere in an asset and the views of page configurations. These are functions of one
  document with no state, and their tests compare them with documents.
* Redaction (`mask_token`), `to_identifiers`, console output, file names, the prefix of a chain's line and
  the column of its error mark: wording and layout, on which no other behaviour depends.
* The files of debug mode, except that writing one may fail: nothing reads them.
* Two threads inside `_new_chain` at once: there is no lock, and no documentation promises one.
* Two walks of one chain interleaved on the loop: the second would share the line, the queue and the
  record with the first, and no documentation says what should become of them.
* Lists of assets in a chain that is walked again, where a callable payload leaves its `multi` flag behind.
* Process pools: a callback there can reach none of the state above.

## Plan

Done, in this order: `Chains` with `Batch`, `Session`, `Building` and the first proofs about `Chains`; then
`Runs`, `Reruns`, `Answers` with `Structured` and `Documents`, and the first proofs about `Runs` and
`Reruns`; then the record and the log of a batch, the refinement of `Batch` step by step, and all of
`Session`, `Building`, `Reruns` and `Runs`; then the lookup, for every document, how far each disagreement
reaches, and that a batch is never stuck.

Left:

1. Lists of assets in `Reruns`, and with them the `multi` flag of a callable payload.
2. `ChainLine`, as operators over short lines, should the layout of the error mark ever matter to a reader
   of the log other than a person.
