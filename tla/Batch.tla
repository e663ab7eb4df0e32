-------------------------------- MODULE Batch --------------------------------
(***************************************************************************)
(* What a batch of chains promises to submit_requests() and to the reader  *)
(* of the logfile, without saying how a chain walks its nodes.  While a    *)
(* chain runs, the server carries out writes for it, the log may report a  *)
(* write that took place, and the chain may record one failure, which it   *)
(* keeps.  A chain ends by itself only if every effect it had is reported  *)
(* or it has a failure to show for the missing reports.  A chain whose     *)
(* machinery breaks (an exception no handler of its own catches) ends      *)
(* owing reports; asyncio.gather hands the exception to submit_requests(). *)
(***************************************************************************)
CONSTANTS
  Chain,       \* the chains of the batch
  Effect(_),   \* Effect(c): the writes chain c may ask for
  Failure,     \* the failures a chain may record
  NoFailure    \* none so far

VARIABLES
  state,     \* of each chain: running, ended or broken
  failed,    \* the failure each chain has recorded
  effects,   \* the writes the server has carried out for it
  reports    \* the writes the log reports for it

vars == <<state, failed, effects, reports>>

TypeOK ==
  /\ state \in [Chain -> {"running", "ended", "broken"}]
  /\ failed \in [Chain -> Failure \cup {NoFailure}]
  /\ effects \in [Chain -> SUBSET UNION { Effect(c) : c \in Chain }]
  /\ reports \in [Chain -> SUBSET UNION { Effect(c) : c \in Chain }]

Init ==
  /\ state   = [c \in Chain |-> "running"]
  /\ failed  = [c \in Chain |-> NoFailure]
  /\ effects = [c \in Chain |-> {}]
  /\ reports = [c \in Chain |-> {}]

TakesEffect(c) ==
  /\ state[c] = "running"
  /\ \E w \in Effect(c) : effects' = [effects EXCEPT ![c] = @ \cup {w}]
  /\ UNCHANGED <<state, failed, reports>>

Fails(c) ==
  /\ state[c] = "running"
  /\ failed[c] = NoFailure
  /\ \E f \in Failure : failed' = [failed EXCEPT ![c] = f]
  /\ UNCHANGED <<state, effects, reports>>

Reports(c) ==
  /\ state[c] = "running"
  /\ \E w \in effects[c] : reports' = [reports EXCEPT ![c] = @ \cup {w}]
  /\ UNCHANGED <<state, failed, effects>>

Ends(c) ==
  /\ state[c] = "running"
  /\ failed[c] = NoFailure => effects[c] = reports[c]
  /\ state' = [state EXCEPT ![c] = "ended"]
  /\ UNCHANGED <<failed, effects, reports>>

Breaks(c) ==
  /\ state[c] = "running"
  /\ state' = [state EXCEPT ![c] = "broken"]
  /\ UNCHANGED <<failed, effects, reports>>

Next ==
  \E c \in Chain :
    TakesEffect(c) \/ Fails(c) \/ Reports(c) \/ Ends(c) \/ Breaks(c)

Spec == Init /\ [][Next]_vars /\ \A c \in Chain : WF_vars(Ends(c) \/ Breaks(c))

\* The log reports no write that did not take place, and a chain that ended
\* without a failure left no effect unreported.
Honest ==
  \A c \in Chain :
    /\ reports[c] \subseteq effects[c]
    /\ state[c] = "ended" /\ failed[c] = NoFailure => effects[c] = reports[c]
=============================================================================
