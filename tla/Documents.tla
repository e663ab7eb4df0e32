----------------------------- MODULE Documents ------------------------------
(***************************************************************************)
(* From an answer to a field: a request is answered, and if its answer is  *)
(* an asset the script looks fields up in it.  The two parts are modules   *)
(* Answers and Structured.                                                 *)
(***************************************************************************)
EXTENDS Answers, Structured

CONSTANT MaxPath   \* bound: identifiers of a path

ASSUME DocumentsAssumption == MaxPath \in Nat

VARIABLES
  parser,   \* the parser of the request
  answer,   \* what the server has answered
  outcome,  \* what the chain gets, "none" before
  tree,     \* the structured data of the asset that was read
  query,    \* the last lookup
  result    \* what it has returned

vars == <<parser, answer, outcome, tree, query, result>>

NoQuery  == [parts |-> <<>>, ident |-> Missing, direct |-> FALSE]
NoResult == [error |-> FALSE, found |-> <<>>]

Init ==
  /\ parser \in Parser
  /\ answer \in Answer
  /\ outcome = "none"
  /\ tree = <<>>
  /\ query = NoQuery
  /\ result = NoResult

\* An asset comes with any document; of the answers that hold one, which all
\* parse alike, the plainest is the one that is looked into.
Fetch ==
  /\ outcome = "none"
  /\ outcome' = Fetched(parser, answer)
  /\ \E size \in IF parser = "parse_assets" /\ outcome' = "value"
                     /\ answer.success = "true" /\ ~answer.message /\ ~answer.extra
                  THEN 0..MaxTree ELSE {0} :
       tree' \in Document(size)
  /\ UNCHANGED <<parser, answer, query, result>>

\* Tuples of identifiers that are not empty; a single one is the bare form.
Paths == UNION { [1..n -> Ident] : n \in 1..MaxPath }

LookUp ==
  /\ tree # <<>>
  /\ query = NoQuery
  /\ query' \in [parts : Paths, ident : Ident, direct : BOOLEAN]
  /\ result' = GetDataStructure(tree, query'.parts, query'.ident, query'.direct)
  /\ UNCHANGED <<parser, answer, outcome, tree>>

Done ==
  /\ outcome # "none"
  /\ tree = <<>> \/ query # NoQuery
  /\ UNCHANGED vars

Next == Fetch \/ LookUp \/ Done

Spec == Init /\ [][Next]_vars

-----------------------------------------------------------------------------
\* The kinds of values the variables take: a lookup returns fields of the
\* document, and an error returns none.
TypeOK ==
  /\ outcome \in {"none", "refusal", "value", "raises"}
  /\ Len(tree) <= MaxTree
  /\ \A n \in DOMAIN tree : tree[n] \in TreeNode /\ tree[n].parent < n
  /\ result.error \in BOOLEAN
  /\ \A k \in DOMAIN result.found :
       result.found[k] \in DOMAIN tree /\ tree[result.found[k]].kind # "group"
  /\ result.error => result.found = <<>>

\* The entries of a body besides those of a plain refusal.
Bare(a) == a.object /\ a.part = "none" /\ ~a.extra

\* Whatever the operation, an answer that is not 200, says no, or says nothing
\* is a failure of category CASCADE (ResponseParser: "trying CascadeError first").
RefusalHeard ==
  outcome # "none" /\ (answer.status = "other" \/ (Bare(answer) /\ answer.success # "true"))
    => Category(outcome) = "CASCADE"

\* A chain goes on only with an answer that holds what its operation is after;
\* for a write, only with {"success": true}.  readPreferences() alone takes any
\* object that is no refusal.
ValueIsAnswered ==
  outcome = "value" =>
    /\ answer.status = "200" /\ answer.object
    /\ CASE parser = "parse_success"  -> Bare(answer) /\ answer.success = "true"
         [] parser = "parse_payloads" -> ~Bare(answer) \/ answer.success = "true"
         [] OTHER                     -> answer.part = "good"

Looked == query # NoQuery

\* get_data_structure() returns, for each group the path names and in document
\* order, the first field of that identifier, and a KeyError where a node it
\* has to look at lacks what it needs ("Returns first match per group instance").
FirstPerGroup ==
  Looked =>
    LET First(g) == FirstField(tree, g, query.ident, query.direct)
        hits   == { g \in Matching(tree, query.parts) : First(g) # Nothing(tree) }
        broken == \E g \in hits : First(g) = KeyError
    IN  /\ result.error = broken
        /\ ~broken => /\ Len(result.found) = Cardinality(hits)
                      /\ \A g \in hits :
                           result.found[Cardinality({ h \in hits : h <= g })] = First(g)

\* With direct=True every field is the matched group's own, and none is
\* returned twice ("Prefer direct=True": the default may return a nested
\* group's field, and then more than once).
DirectIsOwn ==
  Looked /\ query.direct =>
    /\ \A k \in DOMAIN result.found :
         tree[result.found[k]].parent \in Matching(tree, query.parts)
    /\ Cardinality({ result.found[k] : k \in DOMAIN result.found }) = Len(result.found)
=============================================================================
