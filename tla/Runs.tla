-------------------------------- MODULE Runs --------------------------------
(***************************************************************************)
(* Several `with Cascade(...)' blocks in one process: which of them a      *)
(* script_log.note() reaches (utils/extension.py), and the cleanup that    *)
(* leaves a block (wrapper.py, __exit__).                                  *)
(*                                                                         *)
(* A context is a thread of the script, or a callback on a worker thread,  *)
(* which runs in a copy of the context its batch was submitted in.  What a *)
(* run did in its block, and the exit code that comes of it, is module     *)
(* Session.  What is shown above the definition it would replace is a      *)
(* mutated form, as in Chains.                                             *)
(***************************************************************************)
EXTENDS Naturals, Sequences

CONSTANTS
  Thread,    \* the threads of the script
  Callback,  \* bound: the callbacks that batches dispatch to worker threads
  Run,       \* the Cascade objects; bound: each is entered once
  None,      \* no run: the default of the ContextVar
  MaxNotes   \* bound: calls of script_log.note()

Ctx == Thread \cup Callback

ASSUME RunsAssumption ==
  /\ Thread \cap Callback = {}
  /\ None \notin Run \cup Ctx
  /\ MaxNotes \in Nat

VARIABLES
  active,   \* the value of _active_run in each context
  open,     \* the blocks each context has entered and not left, outermost first
  orderly,  \* whether the blocks of a context have been left innermost first
  line,     \* the contexts a callback comes from, the thread first and itself last
  at,       \* whether a context runs; a stray callback is one nobody awaits any more
  waiting,  \* the contexts inside submit_requests()
  exiting,  \* the run whose __exit__ a context executes
  stage,    \* how far each run is
  owner,    \* the context that entered a run
  token,    \* Cascade._run_token: what was active before the run
  log,      \* of each run's logfile, the notes and the lines of __exit__
  driver,   \* each run's driver
  notes,    \* how many notes have been taken
  dropped   \* the notes that were neither written nor refused with a warning

vars == <<active, open, orderly, line, at, waiting, exiting, stage, owner, token,
          log, driver, notes, dropped>>

SetOf(s) == { s[k] : k \in DOMAIN s }
Last(s)  == s[Len(s)]

\* The sequence s without the run r, which is in it once.
Without(s, r) ==
  LET k == CHOOSE k \in DOMAIN s : s[k] = r
  IN  SubSeq(s, 1, k - 1) \o SubSeq(s, k + 1, Len(s))

Init ==
  /\ active  = [x \in Ctx |-> None]
  /\ open    = [x \in Ctx |-> <<>>]
  /\ orderly = [x \in Ctx |-> TRUE]
  /\ line    = [x \in Ctx |-> IF x \in Thread THEN <<x>> ELSE <<>>]
  /\ at      = [x \in Ctx |-> IF x \in Thread THEN "running" ELSE "unused"]
  /\ waiting = {}
  /\ exiting = [x \in Ctx |-> None]
  /\ stage   = [r \in Run |-> "new"]
  /\ owner   = [r \in Run |-> None]
  /\ token   = [r \in Run |-> None]
  /\ log     = [r \in Run |-> <<>>]
  /\ driver  = [r \in Run |-> "up"]
  /\ notes   = 0
  /\ dropped = {}

Alive(x) == at[x] \in {"running", "stray"}

\* A context that executes code of the script.
Free(x) == Alive(x) /\ x \notin waiting /\ exiting[x] = None

\* The batch a callback belongs to was interrupted, or one it comes from was.
Late(x) == \E y \in SetOf(line[x]) : at[y] = "stray"

Orderly(x) == \A y \in SetOf(line[x]) : orderly[y]

Line(kind, x) == [kind |-> kind, by |-> x, late |-> Late(x)]

-----------------------------------------------------------------------------
(***************************************************************************)
(* Cascade(...) and __enter__: activate() keeps what was active before.    *)
(***************************************************************************)
ProcessWide(x, r) == [y \in Ctx |-> r]
Activated(x, r)   == [active EXCEPT ![x] = r]

Enter(x, r) ==
  /\ Free(x)
  /\ stage[r] = "new"
  /\ active' = Activated(x, r)
  /\ token' = [token EXCEPT ![r] = active[x]]
  /\ owner' = [owner EXCEPT ![r] = x]
  /\ stage' = [stage EXCEPT ![r] = "open"]
  /\ open' = [open EXCEPT ![x] = Append(@, r)]
  /\ UNCHANGED <<orderly, line, at, waiting, exiting, log, driver, notes, dropped>>

(***************************************************************************)
(* script_log.note(): with no active run, a RuntimeWarning; otherwise a    *)
(* line for the logfile of that run, which drops it once its handler is    *)
(* closed.                                                                 *)
(***************************************************************************)
Note(x) ==
  /\ Free(x)
  /\ notes < MaxNotes
  /\ notes' = notes + 1
  /\ \/ active[x] = None /\ UNCHANGED <<log, dropped>>
     \/ /\ active[x] # None /\ stage[active[x]] # "left"
        /\ log' = [log EXCEPT ![active[x]] = Append(@, Line("note", x))]
        /\ UNCHANGED dropped
     \/ /\ active[x] # None /\ stage[active[x]] = "left"
        /\ dropped' = dropped \cup {[late |-> Late(x), orderly |-> Orderly(x)]}
        /\ UNCHANGED log
  /\ UNCHANGED <<active, open, orderly, line, at, waiting, exiting, stage, owner,
                 token, driver>>

(***************************************************************************)
(* submit_requests(), of any run whose block is open here, and the         *)
(* callbacks of its batch, each in a copy of the context the batch was     *)
(* submitted in (_in_current_context).                                     *)
(***************************************************************************)
Submit(x) ==
  /\ Free(x)
  /\ open[x] # <<>>
  /\ waiting' = waiting \cup {x}
  /\ UNCHANGED <<active, open, orderly, line, at, exiting, stage, owner, token, log,
                 driver, notes, dropped>>

Copied(x) == active[x]

Dispatch(x, w) ==
  /\ x \in waiting
  /\ at[w] = "unused"
  /\ at' = [at EXCEPT ![w] = "running"]
  /\ active' = [active EXCEPT ![w] = Copied(x)]
  /\ line' = [line EXCEPT ![w] = Append(line[x], w)]
  /\ UNCHANGED <<open, orderly, waiting, exiting, stage, owner, token, log, driver,
                 notes, dropped>>

NotAwaited(x)   == {}
DispatchedBy(x) == { w \in Callback : at[w] = "running" /\ line[w] = Append(line[x], w) }

\* A callback leaves the blocks it entered before it returns.
CallbackEnds(w) ==
  /\ Free(w)
  /\ open[w] = <<>>
  /\ at' = [at EXCEPT ![w] = "done"]
  /\ UNCHANGED <<active, open, orderly, line, waiting, exiting, stage, owner, token,
                 log, driver, notes, dropped>>

SubmitReturns(x) ==
  /\ x \in waiting
  /\ DispatchedBy(x) = {}
  /\ waiting' = waiting \ {x}
  /\ UNCHANGED <<active, open, orderly, line, at, exiting, stage, owner, token, log,
                 driver, notes, dropped>>

\* KeyboardInterrupt or SystemExit ends the wait; worker threads run on.
Interrupt(x) ==
  /\ x \in waiting
  /\ waiting' = waiting \ {x}
  /\ at' = [y \in Ctx |-> IF y \in DispatchedBy(x) THEN "stray" ELSE at[y]]
  /\ UNCHANGED <<active, open, orderly, line, exiting, stage, owner, token, log,
                 driver, notes, dropped>>

-----------------------------------------------------------------------------
(***************************************************************************)
(* __exit__ begins with deactivate(): the token restores what was active   *)
(* when its run was entered.  Code that holds a block open without a       *)
(* `with' statement around the rest (a generator, an ExitStack) may leave  *)
(* an outer block before an inner one.                                     *)
(***************************************************************************)
Cleared(x, r)    == [active EXCEPT ![x] = None]
SetToToken(x, r) == [active EXCEPT ![x] = <<token[r]>>]
NotReset(x, r)   == active
Restored(x, r)   == [active EXCEPT ![x] = token[r]]

Leave(x, r) ==
  /\ Free(x)
  /\ r \in SetOf(open[x])
  /\ active' = Restored(x, r)
  /\ orderly' = [orderly EXCEPT ![x] = @ /\ r = Last(open[x])]
  /\ open' = [open EXCEPT ![x] = Without(@, r)]
  /\ exiting' = [exiting EXCEPT ![x] = r]
  /\ stage' = [stage EXCEPT ![r] = "leaving"]
  /\ UNCHANGED <<line, at, waiting, owner, token, log, driver, notes, dropped>>

\* In another context than the one that entered, ContextVar.reset() raises a
\* ValueError, and __exit__ with it: nothing is cleaned up.
LeaveElsewhere(x, r) ==
  /\ Free(x)
  /\ stage[r] = "open"
  /\ owner[r] # x
  /\ orderly' = [orderly EXCEPT ![owner[r]] = FALSE]
  /\ open' = [open EXCEPT ![owner[r]] = Without(@, r)]
  /\ stage' = [stage EXCEPT ![r] = "abandoned"]
  /\ UNCHANGED <<active, line, at, waiting, exiting, owner, token, log, driver,
                 notes, dropped>>

(***************************************************************************)
(* The rest of __exit__, a step per call it makes: log_exit() writes the   *)
(* tally; driver.close() closes the session and the loop, or fails, which  *)
(* log_python_error() writes down; log_exit_code(); the logger is closed.  *)
(***************************************************************************)
Writes(x, kind) == log' = [log EXCEPT ![exiting[x]] = Append(@, Line(kind, x))]

NextStage(x, from, to) ==
  /\ exiting[x] # None
  /\ stage[exiting[x]] = from
  /\ stage' = [stage EXCEPT ![exiting[x]] = to]

LogExit(x) ==
  /\ NextStage(x, "leaving", "closing")
  /\ Writes(x, "tally")
  /\ UNCHANGED <<active, open, orderly, line, at, waiting, exiting, owner, token,
                 driver, notes, dropped>>

DriverCloses(x) ==
  /\ NextStage(x, "closing", "deciding")
  /\ driver' = [driver EXCEPT ![exiting[x]] = "closed"]
  /\ UNCHANGED <<active, open, orderly, line, at, waiting, exiting, owner, token,
                 log, notes, dropped>>

SwallowedFailure(x) == UNCHANGED log
LoggedFailure(x)    == Writes(x, "error")

DriverFails(x) ==
  /\ NextStage(x, "closing", "deciding")
  /\ driver' = [driver EXCEPT ![exiting[x]] = "leaked"]
  /\ LoggedFailure(x)
  /\ UNCHANGED <<active, open, orderly, line, at, waiting, exiting, owner, token,
                 notes, dropped>>

\* Ctrl-C while driver.close() runs the loop: not an Exception, so it leaves
\* __exit__ at once.
CleanupInterrupted(x) ==
  /\ NextStage(x, "closing", "abandoned")
  /\ driver' = [driver EXCEPT ![exiting[x]] = "leaked"]
  /\ exiting' = [exiting EXCEPT ![x] = None]
  /\ UNCHANGED <<active, open, orderly, line, at, waiting, owner, token, log, notes,
                 dropped>>

LogExitCode(x) ==
  /\ NextStage(x, "deciding", "decided")
  /\ Writes(x, "exit code")
  /\ UNCHANGED <<active, open, orderly, line, at, waiting, exiting, owner, token,
                 driver, notes, dropped>>

LoggerCloses(x) ==
  /\ NextStage(x, "decided", "left")
  /\ exiting' = [exiting EXCEPT ![x] = None]
  /\ UNCHANGED <<active, open, orderly, line, at, waiting, owner, token, log,
                 driver, notes, dropped>>

\* Nothing more happens in this process.
Finished ==
  /\ \A x \in Ctx : at[x] \in {"running", "done", "unused"} /\ x \notin waiting
  /\ \A r \in Run : stage[r] \in {"left", "abandoned"}
  /\ notes = MaxNotes
  /\ UNCHANGED vars

Next ==
  \/ \E x \in Ctx :
       \/ \E r \in Run : Enter(x, r) \/ Leave(x, r) \/ LeaveElsewhere(x, r)
       \/ Note(x)
       \/ Submit(x)
       \/ SubmitReturns(x)
       \/ Interrupt(x)
       \/ LogExit(x)
       \/ DriverCloses(x)
       \/ DriverFails(x)
       \/ CleanupInterrupted(x)
       \/ LogExitCode(x)
       \/ LoggerCloses(x)
  \/ \E x \in Ctx, w \in Callback : Dispatch(x, w)
  \/ \E w \in Callback : CallbackEnds(w)
  \/ Finished

Spec == Init /\ [][Next]_vars

-----------------------------------------------------------------------------
Stage == {"new", "open", "leaving", "closing", "deciding", "decided", "left",
          "abandoned"}
Kind  == {"note", "tally", "error", "exit code"}

\* The kinds of values the variables take.
TypeOK ==
  /\ active \in [Ctx -> Run \cup {None}]
  /\ open \in [Ctx -> Seq(Run)]
  /\ orderly \in [Ctx -> BOOLEAN]
  /\ line \in [Ctx -> Seq(Ctx)]
  /\ at \in [Ctx -> {"unused", "running", "stray", "done"}]
  /\ waiting \subseteq Ctx
  /\ exiting \in [Ctx -> Run \cup {None}]
  /\ stage \in [Run -> Stage]
  /\ owner \in [Run -> Ctx \cup {None}]
  /\ token \in [Run -> Run \cup {None}]
  /\ log \in [Run -> Seq([kind : Kind, by : Ctx, late : BOOLEAN])]
  /\ driver \in [Run -> {"up", "closed", "leaked"}]
  /\ notes \in 0..MaxNotes
  /\ dropped \subseteq [late : BOOLEAN, orderly : BOOLEAN]

\* The innermost block around the code a context executes: its own, or else
\* that of the batch it is a callback of.
Innermost(x) ==
  LET within == { k \in DOMAIN line[x] : open[line[x][k]] # <<>> }
  IN  IF within = {} THEN None
      ELSE Last(open[line[x][CHOOSE k \in within : \A j \in within : j <= k]])

\* Where blocks are left innermost first, a note reaches the innermost block
\* around it, from the callbacks of a batch too, and none outside of every
\* block (script_log.note: "Call it inside the `with Cascade(...)' block.
\* Thread-pool and async callbacks may call it directly").
ActiveIsInnermost ==
  \A x \in Ctx :
    at[x] = "running" /\ Orderly(x) /\ ~Late(x) => active[x] = Innermost(x)

\* A note comes to the logfile of a run only from the context that entered it
\* and from callbacks that come from there, in whatever order blocks are left,
\* by whatever context (extension.py: "two wrappers open on two threads each
\* receive only their own notes").
NotesStayHome ==
  \A r \in Run : \A k \in DOMAIN log[r] :
    log[r][k].kind = "note" => owner[r] \in SetOf(line[log[r][k].by])

\* A note is lost without a warning only if its callback outlived its batch, or
\* blocks were left out of order.
NoteLostOnlyLate ==
  \A note \in dropped : note.late \/ ~note.orderly

Places(r, kind) == { k \in DOMAIN log[r] : log[r][k].kind = kind }

\* A closed logfile tells the tally and, after it, one exit code; and if the
\* driver of the run was not closed, the logfile says between the two that
\* cleanup failed (__exit__: "Run cleanup, then decide").
CleanupReported ==
  \A r \in Run : stage[r] = "left" =>
    \E t \in Places(r, "tally"), e \in Places(r, "exit code") :
      /\ t < e
      /\ Places(r, "exit code") = {e}
      /\ driver[r] # "closed" => \E k \in Places(r, "error") : t < k /\ k < e

\* After the exit code a logfile holds nothing but notes of callbacks that
\* outlived their batch (README: "[EXIT-CODE]: is the last line written to the
\* logfile"), and once it is closed nothing is added.
ExitCodeLast ==
  \A r \in Run : \A e \in Places(r, "exit code") : \A k \in (e + 1)..Len(log[r]) :
    log[r][k].kind = "note" /\ log[r][k].late
=============================================================================
