------------------------------ MODULE MCChains ------------------------------
(***************************************************************************)
(* A batch of two chains, for TLC.                                         *)
(***************************************************************************)
EXTENDS Chains

Read             == [kind |-> "operation", write |-> FALSE, lazy |-> FALSE,
                     list |-> FALSE, size |-> 1]
Edit             == [Read EXCEPT !.write = TRUE]
CreateList(n)    == [Edit EXCEPT !.list = TRUE, !.size = n]
EditCallable(n)  == [Edit EXCEPT !.lazy = TRUE, !.size = n]
Then             == [kind |-> "callback", async |-> FALSE]
ThenAsync        == [kind |-> "callback", async |-> TRUE]

\* A list create whose errors do not stop the chain, then an async callback;
\* an edit, a plain callback and an edit whose requests the callback's value
\* decides.
MCChain   == {1, 2}
MCProgram == << <<CreateList(2), ThenAsync>>, <<Edit, Then, EditCallable(2)>> >>

\* A "library" answer takes the way of a "network" one; only its category
\* differs, and a callable payload that raises brings that one in.
MCFaults == FaultKinds \ {"library"}

\* Three chains after one slot and one thread, in either order.
Three   == 1..3
Contend == << <<Edit, Then>>, <<Then, Edit>>, <<Then, Then>> >>

\* The shapes of chain the three disagreements need: a list create alone, a
\* list create and a callback, a read, a callback and an edit.
ListCreate     == << <<CreateList(2)>> >>
ListThenRaise  == << <<CreateList(2), Then>> >>
TwoEdits       == << <<Edit, Then, EditCallable(1)>> >>

OneChain   == {1}
Refusals   == {"refused"}
UserErrors == {"refused", "user"}
DebugLog   == {"debuglog"}
=============================================================================
