------------------------------- MODULE Session -------------------------------
(***************************************************************************)
(* One `with Cascade(...)' block (wrapper.py): the registry of chains, the *)
(* batches submit_requests() runs, what it makes of the chains' outcomes,  *)
(* and what __exit__ does with everything recorded on the way.             *)
(*                                                                         *)
(* The script and the callbacks of running chains take turns.  A callback  *)
(* may itself register chains, call submit_requests() again, or raise      *)
(* SystemExit or KeyboardInterrupt.  How a chain comes to its outcome is   *)
(* module Chains; here it is any one of Outcomes.  What is shown above the *)
(* definition it would replace is a mutated form, as in Chains.            *)
(***************************************************************************)
EXTENDS Naturals, Sequences, FiniteSets

CONSTANTS
  MaxChains,   \* bound: the chains one session registers
  Outcomes     \* how a chain may end

OutcomeKinds == {"ok", "CALLBACK", "CASCADE", "NETWORK", "LIBRARY",
                 "raised"}   \* an exception no handler of the chain caught

ASSUME SessionAssumption ==
  /\ MaxChains \in Nat
  /\ Outcomes \subseteq OutcomeKinds

Id == 1..MaxChains    \* the chains, numbered as they are created

VARIABLES
  phase,             \* script, running (inside run_until_complete), raising, exited
  inflight,          \* the exception on its way out of the block
  created,           \* how many chains have been created
  registered,        \* Operations._chains
  batch,             \* the snapshot submit_requests() took
  running,           \* the chains whose tasks live on the event loop
  outcome,           \* how each chain ended; none as long as it has not
  results,           \* what submit_requests() returned, all batches together
  broken,            \* how many chains the broken batches held
  callbackFailures,  \* Cascade._callback_failures
  reportable,        \* Cascade._has_reportable_failure
  tally,             \* the logger's counters and its own reportable flag
  exitOnFailure,     \* the constructor's exit_on_failure
  exit               \* what the run ended with: its exit code, and what __exit__ raised

vars == <<phase, inflight, created, registered, batch, running, outcome, results,
          broken, callbackFailures, reportable, tally, exitOnFailure, exit>>

Inflight == {"none", "exit0", "exit1", "interrupt", "batcherror", "user"}
NotYet   == [code |-> 0, raises |-> "none", chain |-> 0]

Init ==
  /\ phase = "script"
  /\ inflight = "none"
  /\ created = 0
  /\ registered = <<>>
  /\ batch = <<>>
  /\ running = {}
  /\ outcome = [c \in Id |-> "none"]
  /\ results = <<>>
  /\ broken = 0
  /\ callbackFailures = <<>>
  /\ reportable = FALSE
  /\ tally = [processed |-> 0, succeeded |-> 0, failed |-> 0, reportable |-> FALSE]
  /\ exitOnFailure \in BOOLEAN
  /\ exit = NotYet

SetOf(s) == { s[k] : k \in DOMAIN s }

-----------------------------------------------------------------------------
(***************************************************************************)
(* Building: _new_chain registers a chain for the next submit_requests().  *)
(* The script does it, or a callback of a running chain.                   *)
(***************************************************************************)
NewChain ==
  /\ phase = "script" \/ (phase = "running" /\ running # {})
  /\ created < MaxChains
  /\ created' = created + 1
  /\ registered' = Append(registered, created + 1)
  /\ UNCHANGED <<phase, inflight, batch, running, outcome, results, broken,
                 callbackFailures, reportable, tally, exitOnFailure, exit>>

\* _reset_chains, in the `finally' of submit_requests().
Kept  == registered
Reset == <<>>

(***************************************************************************)
(* submit_requests() with chains registered; without any it returns empty  *)
(* results and changes nothing.                                            *)
(***************************************************************************)
Submit ==
  /\ phase = "script"
  /\ registered # <<>>
  /\ phase' = "running"
  /\ batch' = registered
  /\ running' = running \cup SetOf(registered)
  /\ UNCHANGED <<inflight, created, registered, outcome, results, broken,
                 callbackFailures, reportable, tally, exitOnFailure, exit>>

\* A task runs to its end whenever the loop does: those of the batch, and
\* those an interrupted batch left behind.
ChainEnds(c, o) ==
  /\ phase = "running"
  /\ c \in running
  /\ running' = running \ {c}
  /\ outcome' = [outcome EXCEPT ![c] = o]
  /\ UNCHANGED <<phase, inflight, created, registered, batch, results, broken,
                 callbackFailures, reportable, tally, exitOnFailure, exit>>

\* OperationLogger.log_batch_end.
LastBatch(t, succeeded, total, flag) ==
  [processed  |-> total,
   succeeded  |-> succeeded,
   failed     |-> total - succeeded,
   reportable |-> t.reportable \/ flag]

BatchEnd(t, succeeded, total, flag) ==
  [processed  |-> t.processed + total,
   succeeded  |-> t.succeeded + succeeded,
   failed     |-> t.failed + (total - succeeded),
   reportable |-> t.reportable \/ flag]

\* The failure of a chain, as submit_requests() sees it: the exception of a
\* chain without a record of its own becomes a LIBRARY failure.
AsIs(o)       == o
NoBackstop(o) == IF o = "raised" THEN "ok" ELSE o
FailureOf(o)  == IF o = "raised" THEN "LIBRARY" ELSE o

\* The places in a batch of the chains whose failure is in the given set, and
\* those chains in creation order: the n-th is the one with n chosen places up
\* to its own.
Chosen(chains, kinds) == { k \in DOMAIN chains : FailureOf(outcome[chains[k]]) \in kinds }

InReverse(chains, kinds) ==
  LET places   == Chosen(chains, kinds)
      Place(n) == CHOOSE k \in places : Cardinality({ j \in places : j >= k }) = n
  IN  [n \in 1..Cardinality(places) |-> chains[Place(n)]]

Having(chains, kinds) ==
  LET places   == Chosen(chains, kinds)
      Place(n) == CHOOSE k \in places : Cardinality({ j \in places : j <= k }) = n
  IN  [n \in 1..Cardinality(places) |-> chains[Place(n)]]

Reportable == {"CASCADE", "NETWORK", "LIBRARY"}

\* gather has every result of the batch, in the order of the batch.
BatchReturns ==
  LET flag == Chosen(batch, Reportable) # {}
  IN  /\ phase = "running"
      /\ SetOf(batch) \cap running = {}
      /\ phase' = "script"
      /\ registered' = Reset
      /\ batch' = <<>>
      /\ results' = results \o [k \in DOMAIN batch |->
                      [chain |-> batch[k], failure |-> FailureOf(outcome[batch[k]])]]
      /\ callbackFailures' = callbackFailures \o Having(batch, {"CALLBACK"})
      /\ reportable' = (reportable \/ flag)
      /\ tally' = BatchEnd(tally, Cardinality(Chosen(batch, {"ok"})), Len(batch), flag)
      /\ UNCHANGED <<inflight, created, running, outcome, broken, exitOnFailure, exit>>

\* The except branch of submit_requests(): every chain it snapshotted counts
\* as failed, the registry is emptied, and CascadeBatchError goes to the caller.
QuietBreak(chains) ==
  /\ registered' = Reset
  /\ broken' = broken + Len(chains)
  /\ reportable' = TRUE
  /\ tally' = BatchEnd(tally, 0, Len(chains), FALSE)

Broken(chains) ==
  /\ registered' = Reset
  /\ broken' = broken + Len(chains)
  /\ reportable' = TRUE
  /\ tally' = BatchEnd(tally, 0, Len(chains), TRUE)

\* The event loop fails under the batch; the tasks it had stay where they are.
BatchBreaks ==
  /\ phase = "running"
  /\ Broken(batch)
  /\ phase' = "raising"
  /\ inflight' = "batcherror"
  /\ batch' = <<>>
  /\ UNCHANGED <<created, running, outcome, results, callbackFailures,
                 exitOnFailure, exit>>

\* A callback calls submit_requests(): the loop is already running, so that
\* call breaks.  Its CascadeBatchError is the callback's to deal with; the
\* snapshot it took is whatever is registered, the running batch included.
NestedSubmit ==
  /\ phase = "running"
  /\ running # {}
  /\ registered # <<>>
  /\ Broken(registered)
  /\ UNCHANGED <<phase, inflight, created, batch, running, outcome, results,
                 callbackFailures, exitOnFailure, exit>>

\* SystemExit or KeyboardInterrupt out of a callback, or Ctrl-C while the loop
\* runs: not an Exception, so it leaves submit_requests() through `finally'
\* only.  Nothing is tallied; the other chains' tasks stay on the loop.
Interrupted(how) ==
  /\ phase = "running"
  /\ phase' = "raising"
  /\ inflight' = how
  /\ registered' = Reset
  /\ batch' = <<>>
  /\ UNCHANGED <<created, running, outcome, results, broken, callbackFailures,
                 reportable, tally, exitOnFailure, exit>>

\* The script's own code raises, or handles what was raised.
ScriptRaises(how) ==
  /\ phase = "script"
  /\ phase' = "raising"
  /\ inflight' = how
  /\ UNCHANGED <<created, registered, batch, running, outcome, results, broken,
                 callbackFailures, reportable, tally, exitOnFailure, exit>>

ScriptHandles ==
  /\ phase = "raising"
  /\ phase' = "script"
  /\ inflight' = "none"
  /\ UNCHANGED <<created, registered, batch, running, outcome, results, broken,
                 callbackFailures, reportable, tally, exitOnFailure, exit>>

-----------------------------------------------------------------------------
(***************************************************************************)
(* __exit__: clean up, decide (_decide_exit), log the exit code, raise.    *)
(***************************************************************************)
ReportableFirst ==
  IF reportable
  THEN [code |-> 1, raises |-> "SystemExit", chain |-> 0]
  ELSE IF callbackFailures # <<>>
       THEN [code |-> 1, raises |-> "callback", chain |-> callbackFailures[1]]
       ELSE NotYet

RecordedFailure ==
  IF callbackFailures # <<>>
  THEN [code |-> 1, raises |-> "callback", chain |-> callbackFailures[1]]
  ELSE IF reportable
       THEN [code |-> 1, raises |-> "SystemExit", chain |-> 0]
       ELSE NotYet

DecideExit ==
  CASE inflight = "none" /\ exitOnFailure       -> RecordedFailure
    [] inflight = "none" /\ ~exitOnFailure      -> NotYet
    [] inflight = "exit0"                       -> NotYet
    [] inflight = "batcherror" /\ exitOnFailure -> [code |-> 1, raises |-> "SystemExit",
                                                    chain |-> 0]
    [] OTHER                                    -> [NotYet EXCEPT !.code = 1]

\* driver.close() closes the loop: no task runs any more.
Exit ==
  /\ phase \in {"script", "raising"}
  /\ phase' = "exited"
  /\ exit' = DecideExit
  /\ UNCHANGED <<inflight, created, registered, batch, running, outcome, results,
                 broken, callbackFailures, reportable, tally, exitOnFailure>>

Exited == phase = "exited" /\ UNCHANGED vars

Next ==
  \/ NewChain
  \/ Submit
  \/ \E c \in Id, o \in Outcomes : ChainEnds(c, o)
  \/ BatchReturns
  \/ BatchBreaks
  \/ NestedSubmit
  \/ \E how \in {"exit0", "exit1", "interrupt"} : Interrupted(how)
  \/ \E how \in {"exit0", "exit1", "user"} : ScriptRaises(how)
  \/ ScriptHandles
  \/ Exit
  \/ Exited

Spec == Init /\ [][Next]_vars

-----------------------------------------------------------------------------
Exits == {"none", "SystemExit", "callback"}

\* The kinds of values the variables take.
TypeOK ==
  /\ phase \in {"script", "running", "raising", "exited"}
  /\ inflight \in Inflight
  /\ created \in 0..MaxChains
  /\ registered \in Seq(Id)
  /\ batch \in Seq(Id)
  /\ running \subseteq Id
  /\ outcome \in [Id -> Outcomes \cup {"none"}]
  /\ results \in Seq([chain : Id, failure : OutcomeKinds \ {"raised"}])
  /\ broken \in Nat
  /\ callbackFailures \in Seq(Id)
  /\ reportable \in BOOLEAN
  /\ tally \in [processed : Nat, succeeded : Nat, failed : Nat, reportable : BOOLEAN]
  /\ exitOnFailure \in BOOLEAN
  /\ exit \in [code : {0, 1}, raises : Exits, chain : 0..MaxChains]

\* Left without an exception in flight, and unless told otherwise, the block
\* ends with code 0 exactly when every chain whose result the script got ended
\* well and no batch broke, over all the batches of the session (__exit__).
ExitTellsFailures ==
  phase = "exited" /\ inflight = "none" /\ exitOnFailure =>
    (exit.code = 0 <=>
       /\ broken = 0
       /\ \A k \in DOMAIN results : outcome[results[k].chain] = "ok")

\* If a callback raised in any batch, what leaves the block is the exception of
\* the first such chain in creation order, however the chains were scheduled
\* and whatever else failed (README, "Error handling").
FirstCallbackRaised ==
  phase = "exited" /\ inflight = "none" /\ exitOnFailure =>
    LET raised == { c \in { results[k].chain : k \in DOMAIN results } :
                      outcome[c] = "CALLBACK" }
    IN  raised # {} =>
          /\ exit.raises = "callback"
          /\ exit.chain \in raised
          /\ \A c \in raised : exit.chain <= c

\* The logger's counters and the results the script got say the same: every
\* chain of a batch that returned counts as what became of it, every chain of a
\* broken one as failed (log_batch_end, log_exit).
TallyExact ==
  LET good == { k \in DOMAIN results : results[k].failure = "ok" }
  IN  /\ tally.processed = Len(results) + broken
      /\ tally.succeeded = Cardinality(good)
      /\ tally.failed = tally.processed - tally.succeeded

\* The logger decides for itself whether its tally points to the log for
\* details; it never disagrees with what __exit__ decides on.
FlagsAgree == tally.reportable = reportable

\* A chain is put on the event loop only if it has not run before (README: "a
\* callback registered for one batch never re-runs in the next").
RunAtMostOnce ==
  [][\A c \in running' \ running : outcome[c] = "none"]_vars

\* When submit_requests() returns, every chain registered by then has run
\* (Operations: "Chains are collected until submit_requests() runs them all
\* concurrently and clears them").
NoChainDropped ==
  [][phase = "running" /\ phase' = "script" =>
       \A c \in SetOf(registered) : outcome[c] # "none"]_vars
=============================================================================
