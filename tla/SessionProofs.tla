---------------------------- MODULE SessionProofs ----------------------------
(***************************************************************************)
(* Theorems about a session, for any number of chains and batches, broken, *)
(* nested and interrupted ones among them: what __exit__ decides on, and   *)
(* what the logger counted, against what became of the chains.             *)
(***************************************************************************)
EXTENDS Session, TLAPS, FiniteSetTheorems, SequenceTheorems

(***************************************************************************)
(* The n-th member of a finite set of numbers: the one with n members up   *)
(* to itself.  Counting gives every member a place of its own, so that     *)
(* every place is taken.                                                   *)
(***************************************************************************)
UpTo(P, k) == { j \in P : j <= k }

LEMMA PlacesTaken ==
  ASSUME NEW P \in SUBSET Nat, IsFiniteSet(P)
  PROVE  /\ Cardinality(P) \in Nat
         /\ \A n \in 1..Cardinality(P) : \E k \in P : Cardinality(UpTo(P, k)) = n
         /\ \A k \in P : Cardinality(UpTo(P, k)) = 1 => \A j \in P : k <= j
<1> DEFINE size == Cardinality(P)
           rank(k) == Cardinality(UpTo(P, k))
<1>1. size \in Nat
  BY FS_CardinalityType
<1>2. ASSUME NEW k \in P
      PROVE  /\ IsFiniteSet(UpTo(P, k)) /\ k \in UpTo(P, k)
             /\ rank(k) \in 1..size
  <2>1. UpTo(P, k) \in SUBSET P /\ k \in UpTo(P, k)
    BY DEF UpTo
  <2>2. IsFiniteSet(UpTo(P, k)) /\ rank(k) <= size
    BY <2>1, FS_Subset
  <2>3. rank(k) \in Nat /\ rank(k) # 0
    BY <2>1, <2>2, FS_CardinalityType, FS_EmptySet
  <2> QED
    BY <1>1, <2>1, <2>2, <2>3
<1>3. ASSUME NEW k \in P, NEW m \in P, k < m
      PROVE  rank(k) # rank(m)
  <2>1. UpTo(P, k) \in SUBSET UpTo(P, m) /\ m \in UpTo(P, m) /\ m \notin UpTo(P, k)
    <3>1. k \in Nat /\ m \in Nat /\ \A j \in P : j \in Nat
      OBVIOUS
    <3>2. \A j \in P : j <= k => j <= m
      BY <1>3, <3>1
    <3>3. m <= m /\ ~(m <= k)
      BY <1>3, <3>1
    <3> QED
      BY <3>2, <3>3 DEF UpTo
  <2> QED
    BY <1>2, <2>1, FS_Subset
<1> DEFINE f == [k \in P |-> rank(k)]
<1>4. f \in Surjection(P, 1..size)
  <2>1. \A k, m \in P : rank(k) = rank(m) => k = m
    <3>1. \A k, m \in P : k < m \/ k = m \/ m < k
      OBVIOUS
    <3> QED
      BY <1>3, <3>1
  <2> HIDE DEF rank, size
  <2>2. f \in [P -> 1..size] /\ \A k \in P : f[k] = rank(k)
    BY <1>2
  <2> HIDE DEF f
  <2>3. f \in Injection(P, 1..size)
    BY <2>1, <2>2 DEF Injection, IsInjective
  <2>4. IsFiniteSet(1..size) /\ Cardinality(1..size) = size
    BY <1>1, FS_Interval
  <2>5. Cardinality(P) = Cardinality(1..size)
    BY <2>4 DEF size
  <2> QED
    BY <2>3, <2>4, <2>5, FS_Injection
<1>5. \A n \in 1..size : \E k \in P : rank(k) = n
  BY <1>4 DEF Surjection
<1>6. ASSUME NEW k \in P, rank(k) = 1, NEW j \in P
      PROVE  k <= j
  <2>1. PICK x : UpTo(P, k) = {x}
    BY <1>2, <1>6, FS_Singleton
  <2>2. j < k => j \in UpTo(P, k)
    BY DEF UpTo
  <2> QED
    BY <1>2, <2>1, <2>2
<1> QED
  BY <1>1, <1>5, <1>6

(***************************************************************************)
(* The chains chosen from a batch.                                         *)
(***************************************************************************)
LEMMA ChosenPlaces ==
  ASSUME NEW chains \in Seq(Id), NEW kinds
  PROVE  /\ Chosen(chains, kinds) \in SUBSET (1..Len(chains)) /\ DOMAIN chains = 1..Len(chains)
         /\ Len(chains) \in Nat
         /\ Chosen(chains, kinds) \in SUBSET Nat
         /\ IsFiniteSet(Chosen(chains, kinds))
         /\ Cardinality(Chosen(chains, kinds)) \in Nat
         /\ Cardinality(Chosen(chains, kinds)) <= Len(chains)
<1>1. Len(chains) \in Nat /\ DOMAIN chains = 1..Len(chains)
  BY LenProperties
<1>2. Chosen(chains, kinds) \in SUBSET (1..Len(chains))
  BY <1>1 DEF Chosen
<1>3. IsFiniteSet(1..Len(chains)) /\ Cardinality(1..Len(chains)) = Len(chains)
  BY <1>1, FS_Interval
<1> QED
  BY <1>1, <1>2, <1>3, FS_Subset, FS_CardinalityType

LEMMA HavingFirst ==
  ASSUME NEW chains \in Seq(Id), NEW kinds
  PROVE  /\ Having(chains, kinds) \in Seq(Id)
         /\ Having(chains, kinds) = <<>> <=> Chosen(chains, kinds) = {}
         /\ Chosen(chains, kinds) # {} =>
              \E k \in Chosen(chains, kinds) : /\ Having(chains, kinds)[1] = chains[k]
                                               /\ \A j \in Chosen(chains, kinds) : k <= j
<1> DEFINE P == Chosen(chains, kinds)
           h == Having(chains, kinds)
           size == Cardinality(P)
           Place(n) == CHOOSE k \in P : Cardinality(UpTo(P, k)) = n
<1>1. P \in SUBSET Nat /\ P \in SUBSET DOMAIN chains /\ IsFiniteSet(P) /\ size \in Nat
  BY ChosenPlaces
<1>2. h = [n \in 1..size |-> chains[Place(n)]]
  BY DEF Having, UpTo
<1> HIDE DEF P, h
<1>3. \A n \in 1..size : Place(n) \in P /\ Cardinality(UpTo(P, Place(n))) = n
  BY <1>1, PlacesTaken
<1>4. \A k \in P : Cardinality(UpTo(P, k)) = 1 => \A j \in P : k <= j
  BY <1>1, PlacesTaken
<1>5. size = 0 <=> P = {}
  BY <1>1, FS_EmptySet
<1> HIDE DEF Place
<1>6. h \in Seq(Id) /\ Len(h) = size
  <2>1. \A k \in DOMAIN chains : chains[k] \in Id
    BY ElementOfSeq, LenProperties
  <2>2. h \in [1..size -> Id]
    BY <1>1, <1>2, <1>3, <2>1
  <2> QED
    BY <1>1, <2>2, LenProperties
<1>7. h = <<>> <=> P = {}
  BY <1>5, <1>6, EmptySeq
<1>8. P # {} => h[1] = chains[Place(1)] /\ Place(1) \in P /\ \A j \in P : Place(1) <= j
  <2>1. P # {} => 1 \in 1..size
    <3>1. size \in Nat /\ (P # {} => size # 0)
      BY <1>1, <1>5
    <3> HIDE DEF size
    <3> QED
      BY <3>1
  <2> QED
    BY <1>2, <1>3, <1>4, <2>1
<1> QED
  BY <1>6, <1>7, <1>8 DEF P, h

(***************************************************************************)
(* The registry.  A chain runs once because it is registered when it is    *)
(* created, is snapshotted once, and is dropped from the registry by the   *)
(* call that took the snapshot; what a callback registers meanwhile has not *)
(* run.  (A task that an interrupted batch left behind is still running.)  *)
(***************************************************************************)
Fresh ==
  /\ phase = "running" <=> batch # <<>>
  /\ \A c \in running : c <= created /\ outcome[c] = "none"
  /\ \A c \in Id : c > created => outcome[c] = "none"
  /\ \A k \in DOMAIN registered :
       /\ registered[k] <= created
       /\ \/ registered[k] \in SetOf(batch)
          \/ registered[k] \notin running /\ outcome[registered[k]] = "none"
  /\ \A k \in DOMAIN batch :
       batch[k] <= created /\ (batch[k] \in running \/ outcome[batch[k]] # "none")

\* Chains are numbered as they are created, and every list of them is in that
\* order, those of one batch after those of the batches before it.
Increasing(s) == \A j, k \in DOMAIN s : j < k => s[j] < s[k]

InOrder ==
  /\ Increasing(registered) /\ Increasing(batch)
  /\ \A j, k \in DOMAIN results : j < k => results[j].chain < results[k].chain
  /\ \A k \in DOMAIN results :
       /\ results[k].chain <= created
       /\ \A j \in DOMAIN registered : results[k].chain < registered[j]
       /\ \A j \in DOMAIN batch : results[k].chain < batch[j]

\* The results say what became of their chains, and the flags and the list that
\* __exit__ decides on say what the results do.
Told ==
  /\ \A k \in DOMAIN results :
       /\ outcome[results[k].chain] # "none"
       /\ results[k].failure = FailureOf(outcome[results[k].chain])
  /\ reportable <=> broken > 0 \/ \E k \in DOMAIN results : results[k].failure \in Reportable
  /\ callbackFailures = <<>> <=> \A k \in DOMAIN results : results[k].failure # "CALLBACK"
  /\ callbackFailures # <<>> =>
       \E k \in DOMAIN results :
         /\ results[k].failure = "CALLBACK" /\ results[k].chain = callbackFailures[1]
         /\ \A j \in DOMAIN results : results[j].failure = "CALLBACK" => k <= j
  /\ phase = "exited" => exit = DecideExit

Inv == TypeOK /\ Fresh /\ InOrder /\ Told

-----------------------------------------------------------------------------
(***************************************************************************)
(* The inductive invariant.  What a batch adds to the results is stated    *)
(* once, for the three parts of it that look at the results.               *)
(***************************************************************************)
LEMMA Grown ==
  ASSUME Inv, BatchReturns
  PROVE  /\ Len(results) \in Nat /\ DOMAIN results = 1..Len(results)
         /\ Len(batch) \in Nat /\ DOMAIN batch = 1..Len(batch)
         /\ results' \in Seq([chain : Id, failure : OutcomeKinds \ {"raised"}])
         /\ DOMAIN results' = 1..(Len(results) + Len(batch))
         /\ Len(results') = Len(results) + Len(batch)
         /\ \A k \in DOMAIN results : results'[k] = results[k]
         /\ \A k \in DOMAIN batch :
              /\ results'[Len(results) + k].chain = batch[k]
              /\ results'[Len(results) + k].failure = FailureOf(outcome[batch[k]])
              /\ batch[k] \in Id /\ batch[k] <= created
              /\ outcome[batch[k]] # "none" /\ outcome[batch[k]] \in OutcomeKinds
         /\ \A k \in DOMAIN results' :
              k \in DOMAIN results \/ \E j \in DOMAIN batch : k = Len(results) + j
<1> DEFINE Result == [chain : Id, failure : OutcomeKinds \ {"raised"}]
           added == [k \in DOMAIN batch |->
                       [chain |-> batch[k], failure |-> FailureOf(outcome[batch[k]])]]
           n == Len(results)
           m == Len(batch)
<1>1. results \in Seq(Result) /\ batch \in Seq(Id)
  BY DEF Inv, TypeOK
<1>2. n \in Nat /\ DOMAIN results = 1..n /\ m \in Nat /\ DOMAIN batch = 1..m
  BY <1>1, LenProperties
<1>3. \A k \in DOMAIN batch :
        /\ batch[k] \in Id /\ batch[k] <= created
        /\ outcome[batch[k]] # "none" /\ outcome[batch[k]] \in OutcomeKinds
  <2>1. \A k \in DOMAIN batch : batch[k] \in Id
    BY <1>1, <1>2, ElementOfSeq
  <2>2. \A k \in DOMAIN batch : batch[k] \notin running
    BY DEF BatchReturns, SetOf
  <2>3. \A k \in DOMAIN batch : batch[k] <= created /\ outcome[batch[k]] # "none"
    BY <2>2 DEF Inv, Fresh
  <2> QED
    BY <2>1, <2>3, SessionAssumption DEF Inv, TypeOK
<1>4. \A k \in DOMAIN batch : added[k] \in Result
  BY <1>3 DEF FailureOf, OutcomeKinds
<1>5. added \in Seq(Result) /\ Len(added) = m
  <2>1. added \in [1..m -> Result]
    BY <1>2, <1>4
  <2> HIDE DEF added, Result
  <2> QED
    BY <1>2, <2>1, LenProperties
<1>6. results' = results \o added
  BY DEF BatchReturns
<1>7. \A k \in DOMAIN batch : added[k].chain = batch[k]
                              /\ added[k].failure = FailureOf(outcome[batch[k]])
  OBVIOUS
<1> HIDE DEF added, Result
<1>8. /\ results' \in Seq(Result) /\ Len(results') = n + m
      /\ \A k \in 1..(n + m) : results'[k] = IF k <= n THEN results[k] ELSE added[k - n]
  <2>1. /\ results \o added \in Seq(Result)
        /\ Len(results \o added) = Len(results) + Len(added)
        /\ \A k \in 1..(Len(results) + Len(added)) :
             (results \o added)[k] = IF k <= Len(results) THEN results[k]
                                    ELSE added[k - Len(results)]
    BY <1>1, <1>5, ConcatProperties, Zenon
  <2> QED
    BY <1>5, <1>6, <2>1
<1>9. DOMAIN results' = 1..(n + m)
  BY <1>8, LenProperties
<1> HIDE DEF n, m
<1>10. \A k \in 1..n : k \in 1..(n + m) /\ k <= n
  BY <1>2
<1>11. \A k \in 1..m : n + k \in 1..(n + m) /\ ~(n + k <= n) /\ (n + k) - n = k
  BY <1>2
<1>12. \A k \in 1..m : results'[n + k] = added[k]
  BY <1>8, <1>11
<1>13. \A k \in 1..(n + m) : k \in 1..n \/ (k - n \in 1..m /\ k = n + (k - n))
  BY <1>2
<1> QED
  BY <1>2, <1>3, <1>7, <1>8, <1>9, <1>10, <1>12, <1>13 DEF Result, n, m

LEMMA Members ==
  ASSUME NEW S, NEW s \in Seq(S)
  PROVE  DOMAIN s = 1..Len(s) /\ Len(s) \in Nat /\ \A k \in DOMAIN s : s[k] \in S
BY LenProperties, ElementOfSeq

LEMMA Appended ==
  ASSUME NEW S, NEW s \in Seq(S), NEW e \in S
  PROVE  /\ DOMAIN Append(s, e) = 1..(Len(s) + 1)
         /\ Append(s, e)[Len(s) + 1] = e
         /\ \A k \in 1..Len(s) : Append(s, e)[k] = s[k]
<1>1. Append(s, e) \in Seq(S) /\ Len(Append(s, e)) = Len(s) + 1
  BY AppendProperties
<1>2. DOMAIN Append(s, e) = 1..(Len(s) + 1)
  BY <1>1, Members
<1> QED
  BY <1>2, AppendProperties

Tally == [processed : Nat, succeeded : Nat, failed : Nat, reportable : BOOLEAN]

LEMMA BatchEndType ==
  ASSUME NEW t \in Tally, NEW total \in Nat, NEW good \in Nat, good <= total,
         NEW flag \in BOOLEAN
  PROVE  BatchEnd(t, good, total, flag) \in Tally
<1>1. /\ t.processed + total \in Nat /\ t.succeeded + good \in Nat
      /\ t.failed + (total - good) \in Nat
  BY DEF Tally
<1>2. (t.reportable \/ flag) \in BOOLEAN
  OBVIOUS
<1> QED
  BY <1>1, <1>2 DEF BatchEnd, Tally

LEMMA TypesKept == Inv /\ [Next]_vars => TypeOK'
<1> SUFFICES ASSUME Inv, [Next]_vars PROVE TypeOK'
  OBVIOUS
<1> USE SessionAssumption DEF Inflight, Id, NotYet, Exits
<1>1. TypeOK
  BY DEF Inv
<1>2. CASE NewChain
  <2>1. created + 1 \in Id
    BY <1>1, <1>2 DEF NewChain, TypeOK
  <2> QED
    BY <1>1, <1>2, <2>1 DEF NewChain, TypeOK
<1>3. CASE Submit
  <2>1. SetOf(registered) \subseteq Id
    BY <1>1, Members DEF TypeOK, SetOf
  <2> QED
    BY <1>1, <1>3, <2>1 DEF Submit, TypeOK
<1>4. CASE \E c \in Id, o \in Outcomes : ChainEnds(c, o)
  BY <1>1, <1>4 DEF ChainEnds, TypeOK
<1>5. CASE BatchReturns
  <2>1. /\ Having(batch, {"CALLBACK"}) \in Seq(Id)
        /\ Cardinality(Chosen(batch, {"ok"})) \in Nat
        /\ Cardinality(Chosen(batch, {"ok"})) <= Len(batch)
    BY <1>1, HavingFirst, ChosenPlaces DEF TypeOK
  <2>2. callbackFailures' \in Seq(Id)
    BY <1>1, <1>5, <2>1, ConcatProperties DEF BatchReturns, TypeOK
  <2>3. results' \in Seq([chain : Id, failure : OutcomeKinds \ {"raised"}])
    BY <1>5, Grown
  <2>4. reportable' \in BOOLEAN
    BY <1>1, <1>5 DEF BatchReturns, TypeOK
  <2>5. tally' \in [processed : Nat, succeeded : Nat, failed : Nat, reportable : BOOLEAN]
    <3> DEFINE flag == Chosen(batch, Reportable) # {}
               good == Cardinality(Chosen(batch, {"ok"}))
               total == Len(batch)
    <3>1. good \in Nat /\ good <= total /\ total \in Nat /\ flag \in BOOLEAN
      BY <1>1, <2>1, Members DEF TypeOK
    <3>2. tally' = BatchEnd(tally, good, total, flag)
      BY <1>5 DEF BatchReturns
    <3> HIDE DEF flag, good, total
    <3>3. tally \in Tally
      BY <1>1 DEF TypeOK, Tally
    <3>4. BatchEnd(tally, good, total, flag) \in Tally
      BY <3>1, <3>3, BatchEndType
    <3> QED
      BY <3>2, <3>4 DEF Tally
  <2>6. registered' \in Seq(Id) /\ batch' \in Seq(Id)
    BY <1>5 DEF BatchReturns, Reset
  <2> QED
    BY <1>1, <1>5, <2>2, <2>3, <2>4, <2>5, <2>6 DEF BatchReturns, TypeOK
<1>6. ASSUME NEW chains \in Seq(Id), Broken(chains)
      PROVE  /\ registered' \in Seq(Id) /\ broken' \in Nat /\ reportable' \in BOOLEAN
             /\ tally' \in [processed : Nat, succeeded : Nat, failed : Nat,
                            reportable : BOOLEAN]
  <2>1. Len(chains) \in Nat /\ 0 <= Len(chains)
    BY Members
  <2>2. tally \in Tally
    BY <1>1 DEF TypeOK, Tally
  <2>3. BatchEnd(tally, 0, Len(chains), TRUE) \in Tally
    BY <2>1, <2>2, BatchEndType
  <2>4. tally' \in Tally
    BY <1>6, <2>3 DEF Broken
  <2>5. broken' \in Nat
    BY <1>1, <1>6, <2>1 DEF Broken, TypeOK
  <2>6. registered' \in Seq(Id)
    <3>1. registered' = <<>>
      BY <1>6 DEF Broken, Reset
    <3> QED
      BY <3>1, EmptySeq
  <2>7. reportable' \in BOOLEAN
    BY <1>6 DEF Broken
  <2> QED
    BY <2>4, <2>5, <2>6, <2>7, Zenon DEF Tally
<1>7. CASE BatchBreaks
  <2>1. batch \in Seq(Id) /\ Broken(batch)
    BY <1>1, <1>7 DEF BatchBreaks, TypeOK
  <2>2. /\ registered' \in Seq(Id) /\ broken' \in Nat /\ reportable' \in BOOLEAN
        /\ tally' \in [processed : Nat, succeeded : Nat, failed : Nat,
                       reportable : BOOLEAN]
    BY <1>6, <2>1
  <2> QED
    BY <1>1, <1>7, <2>2 DEF BatchBreaks, TypeOK
<1>8. CASE NestedSubmit
  <2>1. registered \in Seq(Id) /\ Broken(registered)
    BY <1>1, <1>8 DEF NestedSubmit, TypeOK
  <2>2. /\ registered' \in Seq(Id) /\ broken' \in Nat /\ reportable' \in BOOLEAN
        /\ tally' \in [processed : Nat, succeeded : Nat, failed : Nat,
                       reportable : BOOLEAN]
    BY <1>6, <2>1
  <2> QED
    BY <1>1, <1>8, <2>2 DEF NestedSubmit, TypeOK
<1>9. CASE \E how \in {"exit0", "exit1", "interrupt"} : Interrupted(how)
  BY <1>1, <1>9 DEF Interrupted, Reset, TypeOK
<1>10. CASE \E how \in {"exit0", "exit1", "user"} : ScriptRaises(how)
  BY <1>1, <1>10 DEF ScriptRaises, TypeOK
<1>11. CASE ScriptHandles
  BY <1>1, <1>11 DEF ScriptHandles, TypeOK
<1>12. CASE Exit
  <2>1. callbackFailures # <<>> => callbackFailures[1] \in 0..MaxChains
    <3>1. callbackFailures # <<>> => 1 \in DOMAIN callbackFailures
      BY <1>1, Members, EmptySeq DEF TypeOK
    <3> QED
      BY <1>1, <3>1, Members DEF TypeOK
  <2>2. RecordedFailure \in [code : {0, 1}, raises : Exits, chain : 0..MaxChains]
    BY <2>1 DEF RecordedFailure
  <2>3. DecideExit \in [code : {0, 1}, raises : Exits, chain : 0..MaxChains]
    <3>1. /\ NotYet \in [code : {0, 1}, raises : Exits, chain : 0..MaxChains]
          /\ [NotYet EXCEPT !.code = 1] \in [code : {0, 1}, raises : Exits, chain : 0..MaxChains]
          /\ [code |-> 1, raises |-> "SystemExit", chain |-> 0]
               \in [code : {0, 1}, raises : Exits, chain : 0..MaxChains]
      OBVIOUS
    <3>2. exitOnFailure \in BOOLEAN
      BY <1>1 DEF TypeOK
    <3> HIDE DEF NotYet, Exits
    <3> QED
      BY <2>2, <3>1, <3>2 DEF DecideExit
  <2> QED
    BY <1>1, <1>12, <2>3 DEF Exit, TypeOK
<1>13. CASE UNCHANGED vars
  BY <1>1, <1>13 DEF vars, TypeOK
<1> QED
  BY <1>2, <1>3, <1>4, <1>5, <1>7, <1>8, <1>9, <1>10, <1>11, <1>12, <1>13 DEF Next, Exited

LEMMA FreshKept == Inv /\ [Next]_vars => Fresh'
<1> SUFFICES ASSUME Inv, [Next]_vars PROVE Fresh'
  OBVIOUS
<1>1. /\ TypeOK /\ Fresh
      /\ registered \in Seq(Id) /\ batch \in Seq(Id) /\ running \subseteq Id
      /\ outcome \in [Id -> Outcomes \cup {"none"}] /\ created \in 0..MaxChains
      /\ MaxChains \in Nat /\ "none" \notin Outcomes
  BY SessionAssumption DEF Inv, TypeOK, OutcomeKinds
<1>2. /\ DOMAIN registered = 1..Len(registered) /\ Len(registered) \in Nat
      /\ \A k \in DOMAIN registered : registered[k] \in Id
      /\ DOMAIN batch = 1..Len(batch) /\ Len(batch) \in Nat
      /\ \A k \in DOMAIN batch : batch[k] \in Id
  BY <1>1, Members
<1>3. CASE NewChain
  <2>1. /\ created + 1 \in Id /\ created' = created + 1
        /\ registered' = Append(registered, created + 1)
    BY <1>1, <1>3 DEF NewChain, Id
  <2>2. /\ DOMAIN registered' = 1..(Len(registered) + 1)
        /\ registered'[Len(registered) + 1] = created + 1
        /\ \A k \in 1..Len(registered) : registered'[k] = registered[k]
    BY <1>1, <2>1, Appended
  <2>3. \A k \in DOMAIN registered' : k \in DOMAIN registered \/ k = Len(registered) + 1
    BY <1>2, <2>2
  <2>4. created + 1 \notin running /\ outcome[created + 1] = "none"
    BY <1>1, <2>1 DEF Fresh, Id
  <2>5. phase' = phase /\ batch' = batch /\ running' = running /\ outcome' = outcome
    BY <1>3 DEF NewChain
  <2>6. \A k \in DOMAIN registered' :
          /\ registered'[k] <= created'
          /\ \/ registered'[k] \in SetOf(batch)
             \/ registered'[k] \notin running /\ outcome[registered'[k]] = "none"
    <3> SUFFICES ASSUME NEW k \in DOMAIN registered'
                 PROVE  /\ registered'[k] <= created'
                        /\ \/ registered'[k] \in SetOf(batch)
                           \/ registered'[k] \notin running /\ outcome[registered'[k]] = "none"
      OBVIOUS
    <3>1. CASE k \in DOMAIN registered
      BY <1>1, <1>2, <2>1, <2>2, <3>1 DEF Fresh, Id
    <3>2. CASE k = Len(registered) + 1
      BY <1>1, <2>1, <2>2, <2>4, <3>2
    <3> QED
      BY <2>3, <3>1, <3>2
  <2>7. \A c \in Id : (c <= created => c <= created + 1) /\ (c > created + 1 => c > created)
    BY <1>1 DEF Id
  <2>8. \A c \in running' : c <= created' /\ outcome'[c] = "none"
    BY <1>1, <2>1, <2>5, <2>7 DEF Fresh
  <2>9. \A c \in Id : c > created' => outcome'[c] = "none"
    BY <1>1, <2>1, <2>5, <2>7 DEF Fresh
  <2>10. \A k \in DOMAIN batch' :
           batch'[k] <= created' /\ (batch'[k] \in running' \/ outcome'[batch'[k]] # "none")
    BY <1>1, <1>2, <2>1, <2>5, <2>7 DEF Fresh
  <2>11. phase' = "running" <=> batch' # <<>>
    BY <1>1, <2>5 DEF Fresh
  <2> QED
    BY <2>5, <2>6, <2>8, <2>9, <2>10, <2>11 DEF Fresh, SetOf
<1>4. CASE Submit
  <2>1. /\ phase' = "running" /\ batch' = registered /\ registered' = registered
        /\ registered # <<>> /\ batch = <<>>
        /\ running' = running \cup SetOf(registered)
        /\ outcome' = outcome /\ created' = created
    BY <1>1, <1>4 DEF Submit, Fresh
  <2>2. \A k \in DOMAIN registered :
          registered[k] <= created /\ outcome[registered[k]] = "none"
    BY <1>1, <2>1 DEF Fresh, SetOf
  <2>3. \A c \in running' : c <= created /\ outcome[c] = "none"
    BY <1>1, <2>1, <2>2 DEF Fresh, SetOf
  <2> QED
    BY <1>1, <2>1, <2>2, <2>3 DEF Fresh, SetOf
<1>5. ASSUME NEW c \in Id, NEW o \in Outcomes, ChainEnds(c, o)
      PROVE  Fresh'
  <2>1. /\ phase' = phase /\ batch' = batch /\ registered' = registered /\ created' = created
        /\ c \in running /\ running' = running \ {c} /\ outcome'[c] = o /\ o # "none"
        /\ \A d \in Id : d # c => outcome'[d] = outcome[d]
    BY <1>1, <1>5 DEF ChainEnds
  <2>2. c <= created
    BY <1>1, <2>1 DEF Fresh
  <2>3. \A d \in Id : d > created => outcome'[d] = "none"
    BY <1>1, <2>1, <2>2 DEF Fresh, Id
  <2>4. \A d \in running' : d <= created /\ outcome'[d] = "none"
    BY <1>1, <2>1 DEF Fresh
  <2>5. \A k \in DOMAIN batch : batch[k] <= created
                                /\ (batch[k] \in running' \/ outcome'[batch[k]] # "none")
    BY <1>1, <1>2, <2>1 DEF Fresh
  <2>6. \A k \in DOMAIN registered :
          /\ registered[k] <= created
          /\ \/ registered[k] \in SetOf(batch)
             \/ registered[k] \notin running' /\ outcome'[registered[k]] = "none"
    <3>1. \A k \in DOMAIN registered :
            registered[k] \notin running => registered[k] \notin running' /\ registered[k] # c
      BY <2>1
    <3>2. \A k \in DOMAIN registered :
            registered[k] # c => outcome'[registered[k]] = outcome[registered[k]]
      BY <1>2, <2>1
    <3> QED
      BY <1>1, <3>1, <3>2 DEF Fresh
  <2> QED
    BY <1>1, <2>1, <2>3, <2>4, <2>5, <2>6 DEF Fresh, SetOf
<1>6. CASE BatchReturns
  BY <1>1, <1>6 DEF BatchReturns, Reset, Fresh, SetOf
<1>7. CASE BatchBreaks
  BY <1>1, <1>7 DEF BatchBreaks, Broken, Reset, Fresh, SetOf
<1>8. CASE NestedSubmit
  BY <1>1, <1>8 DEF NestedSubmit, Broken, Reset, Fresh, SetOf
<1>9. CASE \E how \in {"exit0", "exit1", "interrupt"} : Interrupted(how)
  BY <1>1, <1>9 DEF Interrupted, Reset, Fresh, SetOf
<1>10. CASE (\E how \in {"exit0", "exit1", "user"} : ScriptRaises(how)) \/ ScriptHandles
            \/ Exit \/ UNCHANGED vars
  <2>1. /\ batch' = batch /\ registered' = registered /\ running' = running
        /\ outcome' = outcome /\ created' = created
        /\ phase' = "running" <=> phase = "running"
    BY <1>10 DEF ScriptRaises, ScriptHandles, Exit, vars
  <2> QED
    BY <1>1, <2>1 DEF Fresh, SetOf
<1> QED
  BY <1>3, <1>4, <1>5, <1>6, <1>7, <1>8, <1>9, <1>10 DEF Next, Exited

LEMMA OrderKept == Inv /\ [Next]_vars => InOrder'
<1> SUFFICES ASSUME Inv, [Next]_vars PROVE InOrder'
  OBVIOUS
<1>1. /\ TypeOK /\ Fresh /\ InOrder
      /\ registered \in Seq(Id) /\ batch \in Seq(Id)
      /\ results \in Seq([chain : Id, failure : OutcomeKinds \ {"raised"}])
      /\ created \in 0..MaxChains /\ MaxChains \in Nat
  BY SessionAssumption DEF Inv, TypeOK
<1>2. /\ DOMAIN registered = 1..Len(registered) /\ Len(registered) \in Nat
      /\ \A k \in DOMAIN registered : registered[k] \in Id
      /\ \A k \in DOMAIN batch : batch[k] \in Id
      /\ \A k \in DOMAIN results : results[k].chain \in Id
  <2>1. \A k \in DOMAIN results :
          results[k] \in [chain : Id, failure : OutcomeKinds \ {"raised"}]
    BY <1>1, Members
  <2> QED
    BY <1>1, <2>1, Members
<1>3. CASE NewChain
  <2>1. /\ created + 1 \in Id /\ created' = created + 1
        /\ registered' = Append(registered, created + 1)
        /\ batch' = batch /\ results' = results
    BY <1>1, <1>3 DEF NewChain, Id
  <2>2. /\ DOMAIN registered' = 1..(Len(registered) + 1)
        /\ registered'[Len(registered) + 1] = created + 1
        /\ \A k \in 1..Len(registered) : registered'[k] = registered[k]
    BY <1>1, <2>1, Appended
  <2>3. \A c \in Id : c <= created => c < created + 1
    BY <1>1 DEF Id
  <2>4. /\ \A k \in 1..Len(registered) : registered[k] < created + 1
        /\ \A k \in DOMAIN results : results[k].chain < created + 1 /\ results[k].chain <= created + 1
    <3>1. \A k \in DOMAIN results : results[k].chain <= created
      BY <1>1 DEF InOrder
    <3>2. \A k \in 1..Len(registered) : registered[k] <= created
      BY <1>1, <1>2 DEF Fresh
    <3>3. \A c \in Id : c <= created => c <= created + 1
      BY <1>1 DEF Id
    <3> QED
      BY <1>2, <2>3, <3>1, <3>2, <3>3
  <2>5. \A k \in 1..(Len(registered) + 1) : k \in 1..Len(registered) \/ k = Len(registered) + 1
    BY <1>2
  <2>6. Increasing(registered)'
    <3> SUFFICES ASSUME NEW j \in DOMAIN registered', NEW k \in DOMAIN registered', j < k
                 PROVE  registered'[j] < registered'[k]
      BY DEF Increasing
    <3>1. j \in 1..Len(registered)
      BY <1>2, <2>2
    <3>2. CASE k \in 1..Len(registered)
      BY <1>1, <1>2, <2>2, <3>1, <3>2 DEF InOrder, Increasing
    <3>3. CASE k = Len(registered) + 1
      BY <2>2, <2>4, <3>1, <3>3
    <3> QED
      BY <2>2, <2>5, <3>2, <3>3
  <2>7. \A k \in DOMAIN results : \A j \in DOMAIN registered' : results[k].chain < registered'[j]
    BY <1>1, <1>2, <2>2, <2>4, <2>5 DEF InOrder
  <2> QED
    BY <1>1, <2>1, <2>4, <2>6, <2>7 DEF InOrder, Increasing
<1>4. CASE Submit
  BY <1>1, <1>4 DEF Submit, InOrder, Increasing
<1>5. CASE BatchReturns
  <2>1. /\ registered' = <<>> /\ batch' = <<>> /\ created' = created
    BY <1>5 DEF BatchReturns, Reset
  <2> DEFINE n == Len(results)
             m == Len(batch)
  <2>2. /\ n \in Nat /\ DOMAIN results = 1..n /\ m \in Nat /\ DOMAIN batch = 1..m
        /\ DOMAIN results' = 1..(n + m)
        /\ \A k \in DOMAIN results : results'[k] = results[k]
        /\ \A k \in DOMAIN batch : results'[n + k].chain = batch[k] /\ batch[k] <= created
        /\ \A k \in DOMAIN results' : k \in DOMAIN results \/ \E j \in DOMAIN batch : k = n + j
    BY <1>5, Grown
  <2> HIDE DEF n, m
  <2>3. \A k \in DOMAIN results' : results'[k].chain <= created
    BY <1>1, <2>2 DEF InOrder
  <2>4. ASSUME NEW j \in DOMAIN results', NEW k \in DOMAIN results', j < k
        PROVE  results'[j].chain < results'[k].chain
    <3>1. CASE k \in DOMAIN results
      <4>1. j \in DOMAIN results
        BY <2>2, <2>4, <3>1
      <4> QED
        BY <1>1, <2>2, <2>4, <3>1, <4>1 DEF InOrder
    <3>2. CASE \E i \in DOMAIN batch : k = n + i
      <4>1. PICK i \in DOMAIN batch : k = n + i
        BY <3>2
      <4>2. CASE j \in DOMAIN results
        BY <1>1, <2>2, <4>1, <4>2 DEF InOrder
      <4>3. CASE \E h \in DOMAIN batch : j = n + h
        <5>1. PICK h \in DOMAIN batch : j = n + h
          BY <4>3
        <5>2. h < i
          BY <2>2, <2>4, <4>1, <5>1
        <5> QED
          BY <1>1, <2>2, <4>1, <5>1, <5>2 DEF InOrder, Increasing
      <4> QED
        BY <2>2, <4>2, <4>3
    <3> QED
      BY <2>2, <3>1, <3>2
  <2> QED
    BY <2>1, <2>3, <2>4 DEF InOrder, Increasing
<1>6. CASE BatchBreaks
  BY <1>1, <1>6 DEF BatchBreaks, Broken, Reset, InOrder, Increasing
<1>7. CASE NestedSubmit
  BY <1>1, <1>7 DEF NestedSubmit, Broken, Reset, InOrder, Increasing
<1>8. CASE \E how \in {"exit0", "exit1", "interrupt"} : Interrupted(how)
  BY <1>1, <1>8 DEF Interrupted, Reset, InOrder, Increasing
<1>9. CASE (\E c \in Id, o \in Outcomes : ChainEnds(c, o))
           \/ (\E how \in {"exit0", "exit1", "user"} : ScriptRaises(how)) \/ ScriptHandles
           \/ Exit \/ UNCHANGED vars
  <2>1. /\ batch' = batch /\ registered' = registered
        /\ results' = results /\ created' = created
    BY <1>9 DEF ChainEnds, ScriptRaises, ScriptHandles, Exit, vars
  <2> QED
    BY <1>1, <2>1 DEF InOrder, Increasing
<1> QED
  BY <1>3, <1>4, <1>5, <1>6, <1>7, <1>8, <1>9 DEF Next, Exited

LEMMA ToldKept == Inv /\ [Next]_vars => Told'
<1> SUFFICES ASSUME Inv, [Next]_vars PROVE Told'
  OBVIOUS
<1>1. /\ TypeOK /\ Fresh /\ Told
      /\ registered \in Seq(Id) /\ batch \in Seq(Id) /\ callbackFailures \in Seq(Id)
      /\ outcome \in [Id -> Outcomes \cup {"none"}] /\ broken \in Nat
  BY DEF Inv, TypeOK
<1>2. \A k \in DOMAIN results : results[k].chain \in Id
  <2>1. results \in Seq([chain : Id, failure : OutcomeKinds \ {"raised"}])
    BY <1>1 DEF TypeOK
  <2>2. \A k \in DOMAIN results :
          results[k] \in [chain : Id, failure : OutcomeKinds \ {"raised"}]
    BY <2>1, Members
  <2> QED
    BY <2>2
<1>3. CASE BatchReturns
  <2> DEFINE n == Len(results)
             m == Len(batch)
             first == Having(batch, {"CALLBACK"})
             calls == Chosen(batch, {"CALLBACK"})
  <2>1. /\ n \in Nat /\ DOMAIN results = 1..n /\ m \in Nat /\ DOMAIN batch = 1..m
        /\ DOMAIN results' = 1..(n + m)
        /\ \A k \in DOMAIN results : results'[k] = results[k]
        /\ \A k \in DOMAIN batch : /\ results'[n + k].chain = batch[k]
                                   /\ results'[n + k].failure = FailureOf(outcome[batch[k]])
                                   /\ outcome[batch[k]] # "none"
        /\ \A k \in DOMAIN results' : k \in DOMAIN results \/ \E j \in DOMAIN batch : k = n + j
    BY <1>3, Grown
  <2>2. /\ outcome' = outcome /\ broken' = broken /\ phase' # "exited"
        /\ reportable' = (reportable \/ Chosen(batch, Reportable) # {})
        /\ callbackFailures' = callbackFailures \o first
    BY <1>3 DEF BatchReturns
  <2>3. /\ first \in Seq(Id)
        /\ first = <<>> <=> calls = {}
        /\ calls # {} => \E k \in calls : first[1] = batch[k] /\ \A j \in calls : k <= j
    BY <1>1, HavingFirst
  <2>4. \A k \in DOMAIN batch : /\ k \in calls <=> results'[n + k].failure = "CALLBACK"
                                /\ k \in Chosen(batch, Reportable)
                                     <=> results'[n + k].failure \in Reportable
    BY <2>1 DEF Chosen
  <2>5. calls \in SUBSET DOMAIN batch /\ Chosen(batch, Reportable) \in SUBSET DOMAIN batch
    BY DEF Chosen
  <2> HIDE DEF n, m, first, calls
  <2>6. \A k \in DOMAIN batch : n + k \in DOMAIN results'
    BY <2>1
  <2>7. \A k \in DOMAIN results : k \in DOMAIN results'
    BY <2>1
  <2>8. \A k \in DOMAIN results' : /\ outcome[results'[k].chain] # "none"
                                   /\ results'[k].failure = FailureOf(outcome[results'[k].chain])
    BY <1>1, <2>1 DEF Told
  <2>9. reportable' <=> broken > 0 \/ \E k \in DOMAIN results' : results'[k].failure \in Reportable
    <3>1. (\E k \in DOMAIN results' : results'[k].failure \in Reportable)
            <=> \/ \E k \in DOMAIN results : results[k].failure \in Reportable
                \/ Chosen(batch, Reportable) # {}
      BY <2>1, <2>4, <2>5, <2>6, <2>7
    <3> QED
      BY <1>1, <2>2, <3>1 DEF Told
  <2>10. callbackFailures' = <<>> <=> callbackFailures = <<>> /\ first = <<>>
    <3>1. callbackFailures = <<>> /\ first = <<>> => callbackFailures \o first = <<>>
      BY <2>3, ConcatEmptySeq
    <3>2. callbackFailures \o first = <<>> => callbackFailures = <<>> /\ first = <<>>
      <4>1. Len(callbackFailures \o first) = Len(callbackFailures) + Len(first)
        BY <1>1, <2>3, ConcatProperties
      <4>2. Len(callbackFailures) \in Nat /\ Len(first) \in Nat
        BY <1>1, <2>3, Members
      <4>3. callbackFailures \o first = <<>> => Len(callbackFailures) = 0 /\ Len(first) = 0
        BY <4>1, <4>2, EmptySeq
      <4> QED
        BY <1>1, <2>3, <4>3, EmptySeq
    <3> QED
      BY <2>2, <3>1, <3>2
  <2>11. callbackFailures' = <<>> <=> \A k \in DOMAIN results' : results'[k].failure # "CALLBACK"
    <3>1. (\A k \in DOMAIN results' : results'[k].failure # "CALLBACK")
            <=> (\A k \in DOMAIN results : results[k].failure # "CALLBACK") /\ calls = {}
      <4>1. (\A k \in DOMAIN results' : results'[k].failure # "CALLBACK")
              => (\A k \in DOMAIN results : results[k].failure # "CALLBACK")
        BY <2>1, <2>7
      <4>2. (\A k \in DOMAIN results' : results'[k].failure # "CALLBACK") => calls = {}
        BY <2>4, <2>5, <2>6
      <4>3. ASSUME \A k \in DOMAIN results : results[k].failure # "CALLBACK", calls = {},
                   NEW k \in DOMAIN results'
            PROVE  results'[k].failure # "CALLBACK"
        <5>1. CASE k \in DOMAIN results
          BY <2>1, <4>3, <5>1
        <5>2. CASE \E j \in DOMAIN batch : k = n + j
          BY <2>4, <4>3, <5>2
        <5> QED
          BY <2>1, <5>1, <5>2
      <4> QED
        BY <4>1, <4>2, <4>3
    <3> QED
      BY <1>1, <2>3, <2>10, <3>1 DEF Told
  <2>12. callbackFailures' # <<>> =>
           \E k \in DOMAIN results' :
             /\ results'[k].failure = "CALLBACK" /\ results'[k].chain = callbackFailures'[1]
             /\ \A j \in DOMAIN results' : results'[j].failure = "CALLBACK" => k <= j
    <3>1. \A k \in DOMAIN results : \A j \in DOMAIN results' : j \in DOMAIN results \/ k <= j
      BY <2>1
    <3>2. CASE callbackFailures # <<>>
      <4>1. callbackFailures'[1] = callbackFailures[1]
        <5>1. 1 \in 1..Len(callbackFailures) /\ 1 <= Len(callbackFailures)
          BY <1>1, <3>2, Members, EmptySeq
        <5>2. 1 \in 1..(Len(callbackFailures) + Len(first))
          BY <1>1, <2>3, <5>1, Members
        <5>3. \A k \in 1..(Len(callbackFailures) + Len(first)) :
                (callbackFailures \o first)[k] = IF k <= Len(callbackFailures)
                                                THEN callbackFailures[k]
                                                ELSE first[k - Len(callbackFailures)]
          BY <1>1, <2>3, ConcatProperties, Zenon
        <5> QED
          BY <2>2, <5>1, <5>2, <5>3
      <4>2. PICK k \in DOMAIN results :
              /\ results[k].failure = "CALLBACK" /\ results[k].chain = callbackFailures[1]
              /\ \A j \in DOMAIN results : results[j].failure = "CALLBACK" => k <= j
        BY <1>1, <3>2 DEF Told
      <4>3. \A j \in DOMAIN results' : results'[j].failure = "CALLBACK" => k <= j
        BY <2>1, <3>1, <4>2
      <4> QED
        BY <2>1, <2>7, <4>1, <4>2, <4>3
    <3>3. CASE callbackFailures = <<>> /\ first # <<>>
      <4>1. callbackFailures' = first
        BY <2>2, <2>3, <3>3, ConcatEmptySeq
      <4>2. PICK k \in calls : first[1] = batch[k] /\ \A j \in calls : k <= j
        BY <2>3, <3>3
      <4>3. \A j \in DOMAIN results : results[j].failure # "CALLBACK"
        BY <1>1, <3>3 DEF Told
      <4>4. \A j \in DOMAIN results' : results'[j].failure = "CALLBACK" => n + k <= j
        <5>1. \A j \in calls : n + k <= n + j
          BY <2>1, <2>5, <4>2
        <5> QED
          BY <2>1, <2>4, <4>3, <5>1
      <4> QED
        BY <2>1, <2>4, <2>5, <2>6, <4>1, <4>2, <4>4
    <3> QED
      BY <2>10, <3>2, <3>3
  <2> QED
    BY <2>2, <2>8, <2>9, <2>11, <2>12 DEF Told
<1>4. ASSUME results' = results, callbackFailures' = callbackFailures, outcome' = outcome,
             phase' # "exited", reportable' = TRUE, broken' > 0
      PROVE  Told'
  BY <1>1, <1>4 DEF Told
<1>5. ASSUME NEW chains \in Seq(Id), chains # <<>>, Broken(chains)
      PROVE  broken' > 0 /\ reportable' = TRUE
  <2>1. Len(chains) \in Nat /\ Len(chains) # 0
    BY <1>5, Members, EmptySeq
  <2> QED
    BY <1>1, <1>5, <2>1 DEF Broken
<1>6. CASE BatchBreaks
  <2>1. batch # <<>> /\ Broken(batch)
    BY <1>1, <1>6 DEF BatchBreaks, Fresh
  <2>2. broken' > 0 /\ reportable' = TRUE
    BY <1>1, <1>5, <2>1
  <2> QED
    BY <1>4, <1>6, <2>2 DEF BatchBreaks
<1>7. CASE NestedSubmit
  <2>1. registered # <<>> /\ Broken(registered)
    BY <1>7 DEF NestedSubmit
  <2>2. broken' > 0 /\ reportable' = TRUE
    BY <1>1, <1>5, <2>1
  <2> QED
    BY <1>4, <1>7, <2>2 DEF NestedSubmit
<1>8. ASSUME NEW c \in Id, NEW o \in Outcomes, ChainEnds(c, o)
      PROVE  Told'
  <2>1. \A k \in DOMAIN results : results[k].chain # c
    BY <1>1, <1>8 DEF ChainEnds, Fresh, Told
  <2>2. \A k \in DOMAIN results : outcome'[results[k].chain] = outcome[results[k].chain]
    BY <1>1, <1>2, <1>8, <2>1 DEF ChainEnds
  <2>3. /\ results' = results /\ broken' = broken /\ phase' # "exited"
        /\ callbackFailures' = callbackFailures /\ reportable' = reportable
    BY <1>8 DEF ChainEnds
  <2> QED
    BY <1>1, <2>2, <2>3 DEF Told
<1>9. CASE Exit
  <2>1. DecideExit' = DecideExit
    BY <1>9 DEF Exit, DecideExit, RecordedFailure
  <2>2. /\ results' = results /\ outcome' = outcome /\ broken' = broken
        /\ callbackFailures' = callbackFailures /\ reportable' = reportable
        /\ exit' = DecideExit
    BY <1>9 DEF Exit
  <2> QED
    BY <1>1, <2>1, <2>2 DEF Told
<1>10. CASE NewChain \/ Submit
            \/ (\E how \in {"exit0", "exit1", "interrupt"} : Interrupted(how))
            \/ (\E how \in {"exit0", "exit1", "user"} : ScriptRaises(how)) \/ ScriptHandles
  <2>1. /\ results' = results /\ outcome' = outcome /\ broken' = broken
        /\ callbackFailures' = callbackFailures /\ reportable' = reportable
        /\ phase' # "exited"
    BY <1>10 DEF NewChain, Submit, Interrupted, ScriptRaises, ScriptHandles
  <2> QED
    BY <1>1, <2>1 DEF Told
<1>11. CASE UNCHANGED vars
  <2>1. DecideExit' = DecideExit
    BY <1>11 DEF vars, DecideExit, RecordedFailure
  <2> QED
    BY <1>1, <1>11, <2>1 DEF vars, Told
<1> QED
  BY <1>3, <1>6, <1>7, <1>8, <1>9, <1>10, <1>11 DEF Next, Exited

THEOREM Invariant == Spec => []Inv
<1>1. Init => Inv
  <2> SUFFICES ASSUME Init PROVE Inv
    OBVIOUS
  <2>1. DOMAIN results = {} /\ DOMAIN registered = {} /\ DOMAIN batch = {}
    BY DEF Init
  <2>2. TypeOK
    <3>1. /\ <<>> \in Seq(Id)
          /\ <<>> \in Seq([chain : Id, failure : OutcomeKinds \ {"raised"}])
      BY EmptySeq
    <3>2. NotYet \in [code : {0, 1}, raises : Exits, chain : 0..MaxChains]
      BY SessionAssumption DEF NotYet, Exits
    <3>3. tally \in [processed : Nat, succeeded : Nat, failed : Nat, reportable : BOOLEAN]
      BY DEF Init
    <3>4. /\ registered \in Seq(Id) /\ batch \in Seq(Id) /\ callbackFailures \in Seq(Id)
          /\ results \in Seq([chain : Id, failure : OutcomeKinds \ {"raised"}])
          /\ exit \in [code : {0, 1}, raises : Exits, chain : 0..MaxChains]
      BY <3>1, <3>2 DEF Init
    <3>5. /\ phase \in {"script", "running", "raising", "exited"} /\ inflight \in Inflight
          /\ created \in 0..MaxChains /\ running \subseteq Id /\ broken \in Nat
      BY SessionAssumption DEF Init, Inflight
    <3>6. reportable \in BOOLEAN /\ exitOnFailure \in BOOLEAN
      BY DEF Init
    <3>7. outcome \in [Id -> Outcomes \cup {"none"}]
      BY DEF Init
    <3> QED
      BY <3>3, <3>4, <3>5, <3>6, <3>7 DEF TypeOK
  <2>3. Fresh
    BY <2>1 DEF Init, Fresh
  <2>4. InOrder
    BY <2>1 DEF Init, InOrder, Increasing
  <2>5. Told
    BY <2>1 DEF Init, Told
  <2> QED
    BY <2>2, <2>3, <2>4, <2>5 DEF Inv
<1>2. Inv /\ [Next]_vars => Inv'
  BY TypesKept, FreshKept, OrderKept, ToldKept DEF Inv
<1> QED
  BY <1>1, <1>2, PTL DEF Spec

-----------------------------------------------------------------------------
(***************************************************************************)
(* What follows from it.                                                   *)
(***************************************************************************)

\* The kinds of values the variables of a session take, for any number of
\* chains: above all that the result of a chain is never "raised" and that the
\* logger's counters, one of them a difference, stay natural numbers.
THEOREM Typing == Spec => []TypeOK
<1>1. Inv => TypeOK
  BY DEF Inv
<1> QED
  BY <1>1, Invariant, PTL

\* However many batches a session has, broken, nested and interrupted ones among
\* them: no chain is put on the event loop that has run before (submit_requests).
THEOREM ChainsRunOnce == Spec => RunAtMostOnce
<1> DEFINE Ran == \A c \in running' \ running : outcome[c] = "none"
<1>1. Inv /\ [Next]_vars => [Ran]_vars
  <2> SUFFICES ASSUME Inv, Next PROVE Ran
    BY DEF vars
  <2>1. CASE Submit
    <3>1. batch = <<>>
      BY <2>1 DEF Inv, Fresh, Submit
    <3>2. \A k \in DOMAIN registered : outcome[registered[k]] = "none"
      BY <3>1 DEF Inv, Fresh, SetOf
    <3> QED
      BY <2>1, <3>2 DEF Submit, SetOf
  <2>2. CASE ~Submit
    <3>1. running' \subseteq running
      BY <2>2 DEF Next, NewChain, ChainEnds, BatchReturns, BatchBreaks, NestedSubmit,
                  Interrupted, ScriptRaises, ScriptHandles, Exit, Exited, vars
    <3> QED
      BY <3>1
  <2> QED
    BY <2>1, <2>2
<1>2. [][Ran]_vars => RunAtMostOnce
  BY PTL DEF RunAtMostOnce
<1> QED
  BY <1>1, <1>2, Invariant, PTL DEF Spec

\* The flag with which the logger ends its tally and the flag on which __exit__
\* decides agree at every moment (log_batch_end, submit_requests).
THEOREM FlagsNeverDiffer == Spec => []FlagsAgree
<1>1. Init => FlagsAgree
  <2>1. Init => tally.reportable = FALSE /\ reportable = FALSE
    BY DEF Init
  <2> QED
    BY <2>1, Zenon DEF FlagsAgree
<1>2. Inv /\ FlagsAgree /\ [Next]_vars => FlagsAgree'
  <2> SUFFICES ASSUME Inv, FlagsAgree, [Next]_vars PROVE FlagsAgree'
    OBVIOUS
  <2>1. CASE BatchReturns
    BY <2>1 DEF BatchReturns, BatchEnd, FlagsAgree
  <2>2. CASE \E chains : Broken(chains)
    <3>1. PICK chains : Broken(chains)
      BY <2>2
    <3>2. tally'.reportable = (tally.reportable \/ TRUE) /\ reportable' = TRUE
      BY <3>1 DEF Broken, BatchEnd
    <3> QED
      BY <3>2, Zenon DEF FlagsAgree
  <2>3. CASE tally' = tally /\ reportable' = reportable
    BY <2>3 DEF FlagsAgree
  <2> QED
    BY <2>1, <2>2, <2>3 DEF Next, NewChain, Submit, ChainEnds, BatchBreaks, NestedSubmit,
                  Interrupted, ScriptRaises, ScriptHandles, Exit, Exited, vars
<1> QED
  BY <1>1, <1>2, Invariant, PTL DEF Spec

\* Left without an exception in flight, the block ends with code 0 exactly when
\* every chain whose result the script got ended well and no batch broke
\* (_decide_exit), over all the batches of the session.
THEOREM ExitIsTruthful == Spec => []ExitTellsFailures
<1>1. Inv => ExitTellsFailures
  <2> SUFFICES ASSUME Inv, phase = "exited", inflight = "none", exitOnFailure
               PROVE  exit.code = 0 <=>
                        /\ broken = 0
                        /\ \A k \in DOMAIN results : outcome[results[k].chain] = "ok"
    BY DEF ExitTellsFailures
  <2>1. exit = RecordedFailure
    BY DEF Inv, Told, DecideExit
  <2>2. exit.code = 0 <=> callbackFailures = <<>> /\ ~reportable
    BY <2>1 DEF RecordedFailure, NotYet
  <2>3. broken = 0 <=> ~(broken > 0)
    BY DEF Inv, TypeOK
  <2>4. ASSUME NEW k \in DOMAIN results
        PROVE  outcome[results[k].chain] = "ok"
                 <=> results[k].failure # "CALLBACK" /\ results[k].failure \notin Reportable
    <3>1. results \in Seq([chain : Id, failure : OutcomeKinds \ {"raised"}])
      BY DEF Inv, TypeOK
    <3>2. results[k].chain \in Id /\ results[k].failure \in OutcomeKinds \ {"raised"}
      <4>1. results[k] \in [chain : Id, failure : OutcomeKinds \ {"raised"}]
        BY <3>1, Members
      <4> QED
        BY <4>1
    <3>3. results[k].failure = FailureOf(outcome[results[k].chain])
      BY DEF Inv, Told
    <3> QED
      BY <3>2, <3>3 DEF FailureOf, OutcomeKinds, Reportable
  <2>5. /\ reportable <=> broken > 0 \/ \E k \in DOMAIN results : results[k].failure \in Reportable
        /\ callbackFailures = <<>> <=> \A k \in DOMAIN results : results[k].failure # "CALLBACK"
    BY DEF Inv, Told
  <2> QED
    BY <2>2, <2>3, <2>4, <2>5
<1> QED
  BY <1>1, Invariant, PTL

\* If callbacks raised in any batch, what leaves the block is the exception of
\* the first such chain in the order of their creation, in whatever order they
\* ended and whatever else failed (_decide_exit; README, "Error handling").
THEOREM FirstCallbackLeaves == Spec => []FirstCallbackRaised
<1>1. Inv => FirstCallbackRaised
  <2> DEFINE raised == { c \in { results[k].chain : k \in DOMAIN results } :
                           outcome[c] = "CALLBACK" }
  <2> SUFFICES ASSUME Inv, phase = "exited", inflight = "none", exitOnFailure, raised # {}
               PROVE  /\ exit.raises = "callback"
                      /\ exit.chain \in raised
                      /\ \A c \in raised : exit.chain <= c
    BY DEF FirstCallbackRaised
  <2>1. exit = RecordedFailure
    BY DEF Inv, Told, DecideExit
  <2>2. \A k \in DOMAIN results :
          outcome[results[k].chain] = "CALLBACK" <=> results[k].failure = "CALLBACK"
    BY DEF Inv, Told, FailureOf
  <2>3. callbackFailures # <<>>
    BY <2>2 DEF Inv, Told
  <2>4. PICK k \in DOMAIN results :
          /\ results[k].failure = "CALLBACK" /\ results[k].chain = callbackFailures[1]
          /\ \A j \in DOMAIN results : results[j].failure = "CALLBACK" => k <= j
    BY <2>3 DEF Inv, Told
  <2>5. exit.raises = "callback" /\ exit.chain = results[k].chain
    BY <2>1, <2>3, <2>4 DEF RecordedFailure
  <2>6. ASSUME NEW j \in DOMAIN results, outcome[results[j].chain] = "CALLBACK"
        PROVE  results[k].chain <= results[j].chain
    <3>1. results \in Seq([chain : Id, failure : OutcomeKinds \ {"raised"}])
      BY DEF Inv, TypeOK
    <3>2. j \in Nat /\ k \in Nat /\ results[j].chain \in Nat /\ results[k].chain \in Nat
      <4>1. /\ results[j] \in [chain : Id, failure : OutcomeKinds \ {"raised"}]
            /\ results[k] \in [chain : Id, failure : OutcomeKinds \ {"raised"}]
            /\ DOMAIN results = 1..Len(results)
        BY <3>1, Members
      <4> QED
        BY <4>1 DEF Id
    <3>3. k <= j
      BY <2>2, <2>4, <2>6
    <3>4. k < j => results[k].chain < results[j].chain
      BY DEF Inv, InOrder
    <3> QED
      BY <3>2, <3>3, <3>4
  <2> QED
    BY <2>2, <2>4, <2>5, <2>6
<1> QED
  BY <1>1, Invariant, PTL

(***************************************************************************)
(* The counters.  The good results of a batch are those of its chosen      *)
(* chains, moved behind the results of the batches before.                 *)
(***************************************************************************)
LEMMA Shifted ==
  ASSUME NEW n \in Nat, NEW S \in SUBSET Nat, IsFiniteSet(S)
  PROVE  /\ IsFiniteSet({ n + k : k \in S })
         /\ Cardinality({ n + k : k \in S }) = Cardinality(S)
<1> DEFINE T == { n + k : k \in S }
           f == [k \in S |-> n + k]
<1>1. f \in Bijection(S, T)
  <2>1. \A j, k \in S : n + j = n + k => j = k
    OBVIOUS
  <2>2. f \in [S -> T] /\ \A k \in S : f[k] = n + k
    OBVIOUS
  <2>3. \A t \in T : \E k \in S : f[k] = t
    BY <2>2
  <2> HIDE DEF f, T
  <2> QED
    BY <2>1, <2>2, <2>3 DEF Bijection, Injection, Surjection, IsInjective
<1> HIDE DEF f, T
<1>2. IsFiniteSet(T) /\ Cardinality(T) = Cardinality(S)
  BY <1>1, FS_Bijection DEF ExistsBijection
<1> QED
  BY <1>2 DEF T

LEMMA TallyGrows ==
  ASSUME Inv, TallyExact, BatchReturns
  PROVE  TallyExact'
<1> DEFINE n == Len(results)
           m == Len(batch)
           good == { k \in DOMAIN results : results[k].failure = "ok" }
           well == Chosen(batch, {"ok"})
           more == { n + k : k \in well }
           all == { k \in DOMAIN results' : results'[k].failure = "ok" }
<1>1. /\ n \in Nat /\ DOMAIN results = 1..n /\ m \in Nat /\ DOMAIN batch = 1..m
      /\ DOMAIN results' = 1..(n + m) /\ Len(results') = n + m
      /\ \A k \in DOMAIN results : results'[k] = results[k]
      /\ \A k \in DOMAIN batch : results'[n + k].failure = FailureOf(outcome[batch[k]])
      /\ \A k \in DOMAIN results' : k \in DOMAIN results \/ \E j \in DOMAIN batch : k = n + j
  BY Grown
<1>2. /\ well \in SUBSET (1..m) /\ well \in SUBSET Nat /\ IsFiniteSet(well)
      /\ Cardinality(well) \in Nat
  <2>1. batch \in Seq(Id)
    BY DEF Inv, TypeOK
  <2> QED
    BY <2>1, ChosenPlaces
<1>3. \A k \in 1..m : k \in well <=> results'[n + k].failure = "ok"
  BY <1>1 DEF Chosen
<1>4. /\ tally.processed = n + broken
      /\ tally.succeeded = Cardinality(good)
      /\ tally.failed = tally.processed - tally.succeeded
  BY DEF TallyExact
<1>5. /\ tally'.processed = tally.processed + m
      /\ tally'.succeeded = tally.succeeded + Cardinality(well)
      /\ tally'.failed = tally.failed + (m - Cardinality(well))
      /\ broken' = broken
  BY DEF BatchReturns, BatchEnd
<1>6. broken \in Nat
  BY DEF Inv, TypeOK
<1> HIDE DEF n, m, well
<1>7. all = good \cup more
  <2>1. \A k \in 1..n : k \in 1..(n + m)
    BY <1>1
  <2>2. \A k \in 1..m : n + k \in 1..(n + m)
    BY <1>1
  <2>3. ASSUME NEW k \in all PROVE k \in good \cup more
    <3>1. CASE k \in DOMAIN results
      BY <1>1, <3>1
    <3>2. CASE \E j \in DOMAIN batch : k = n + j
      BY <1>1, <1>3, <3>2
    <3> QED
      BY <1>1, <3>1, <3>2
  <2>4. good \subseteq all
    BY <1>1, <2>1
  <2>5. more \subseteq all
    BY <1>1, <1>2, <1>3, <2>2
  <2> HIDE DEF good, more, all
  <2> QED
    BY <2>3, <2>4, <2>5
<1>8. good \cap more = {}
  <2>1. \A k \in 1..m : n + k \notin 1..n
    BY <1>1
  <2> QED
    BY <1>1, <1>2, <2>1
<1>9. /\ IsFiniteSet(good) /\ Cardinality(good) \in Nat
      /\ IsFiniteSet(more) /\ Cardinality(more) = Cardinality(well)
  <2>1. IsFiniteSet(1..n) /\ good \subseteq 1..n
    BY <1>1, FS_Interval
  <2>2. IsFiniteSet(good) /\ Cardinality(good) \in Nat
    <3> HIDE DEF good
    <3> QED
      BY <2>1, FS_Subset, FS_CardinalityType
  <2>3. IsFiniteSet(more) /\ Cardinality(more) = Cardinality(well)
    BY <1>1, <1>2, Shifted
  <2> QED
    BY <2>2, <2>3
<1> HIDE DEF good, more, all
<1>10. Cardinality(all) = Cardinality(good) + Cardinality(well)
  <2>1. Cardinality(good \cup more)
          = Cardinality(good) + Cardinality(more) - Cardinality(good \cap more)
    BY <1>9, FS_Union
  <2>2. Cardinality(good \cap more) = 0
    BY <1>8, FS_EmptySet
  <2> DEFINE a == Cardinality(good)
             b == Cardinality(well)
             u == Cardinality(good \cup more)
             e == Cardinality(good \cap more)
  <2>3. a \in Nat /\ b \in Nat /\ u = a + b - e /\ e = 0
    BY <1>2, <1>9, <2>1, <2>2
  <2> HIDE DEF a, b, u, e
  <2>4. u = a + b
    BY <2>3
  <2> QED
    BY <1>7, <2>4 DEF a, b, u
<1>11. /\ tally'.processed = Len(results') + broken'
       /\ tally'.succeeded = Cardinality(all)
       /\ tally'.failed = tally'.processed - tally'.succeeded
  <2> DEFINE a == Cardinality(good)
             b == Cardinality(well)
  <2>1. a \in Nat /\ b \in Nat
    BY <1>2, <1>9
  <2>2. Cardinality(all) = a + b
    BY <1>10
  <2>3. /\ tally.succeeded = a /\ tally'.succeeded = tally.succeeded + b
        /\ tally'.failed = tally.failed + (m - b)
    BY <1>4, <1>5
  <2> HIDE DEF a, b
  <2> QED
    BY <1>1, <1>4, <1>5, <1>6, <2>1, <2>2, <2>3
<1> QED
  BY <1>11 DEF TallyExact, all

\* The logger's counters and the results the script got say the same, over all
\* the batches of a session (log_batch_end, submit_requests): every chain of a
\* batch that returned counts as what became of it, every chain of a broken one
\* as failed.
THEOREM TallyIsExact == Spec => []TallyExact
<1>1. Init => TallyExact
  <2> SUFFICES ASSUME Init PROVE TallyExact
    OBVIOUS
  <2>1. { k \in DOMAIN results : results[k].failure = "ok" } = {} /\ Len(results) = 0
    BY DEF Init
  <2>2. tally.processed = 0 /\ tally.succeeded = 0 /\ tally.failed = 0 /\ broken = 0
    BY DEF Init
  <2> QED
    BY <2>1, <2>2, FS_EmptySet DEF TallyExact
<1>2. Inv /\ TallyExact /\ [Next]_vars => TallyExact'
  <2> SUFFICES ASSUME Inv, TallyExact, [Next]_vars PROVE TallyExact'
    OBVIOUS
  <2>1. CASE BatchReturns
    BY <2>1, TallyGrows
  <2>2. ASSUME NEW chains \in Seq(Id), Broken(chains), results' = results
        PROVE  TallyExact'
    <3> DEFINE good == { k \in DOMAIN results : results[k].failure = "ok" }
               n == Len(results)
               m == Len(chains)
    <3>1. /\ tally.processed = n + broken
          /\ tally.succeeded = Cardinality(good)
          /\ tally.failed = tally.processed - tally.succeeded
      BY DEF TallyExact
    <3>2. /\ tally'.processed = tally.processed + m /\ broken' = broken + m
          /\ tally'.succeeded = tally.succeeded + 0
          /\ tally'.failed = tally.failed + (m - 0)
      BY <2>2 DEF Broken, BatchEnd
    <3>3. /\ n \in Nat /\ m \in Nat /\ broken \in Nat
          /\ tally.succeeded \in Nat /\ tally.failed \in Nat
      BY <2>2, Members DEF Inv, TypeOK
    <3>4. n = Len(results') /\ good = { k \in DOMAIN results' : results'[k].failure = "ok" }
      BY <2>2
    <3> HIDE DEF good, n, m
    <3>5. /\ tally'.processed = n + broken'
          /\ tally'.succeeded = Cardinality(good)
          /\ tally'.failed = tally'.processed - tally'.succeeded
      BY <3>1, <3>2, <3>3
    <3> QED
      BY <3>4, <3>5 DEF TallyExact
  <2>3. CASE BatchBreaks
    BY <2>2, <2>3 DEF BatchBreaks, Inv, TypeOK
  <2>4. CASE NestedSubmit
    BY <2>2, <2>4 DEF NestedSubmit, Inv, TypeOK
  <2>5. CASE tally' = tally /\ results' = results /\ broken' = broken
    BY <2>5 DEF TallyExact
  <2> QED
    BY <2>1, <2>3, <2>4, <2>5 DEF Next, NewChain, Submit, ChainEnds,
                  Interrupted, ScriptRaises, ScriptHandles, Exit, Exited, vars
<1> QED
  BY <1>1, <1>2, Invariant, PTL DEF Spec

(***************************************************************************)
(* How far NoChainDropped reaches (run dropped).  What is registered while  *)
(* a batch runs is a chain of that batch or was created after all of them. *)
(***************************************************************************)
Later ==
  \A k \in DOMAIN registered :
    registered[k] \in SetOf(batch) \/ \A j \in DOMAIN batch : batch[j] < registered[k]

LEMMA LaterKept == Inv /\ Later /\ [Next]_vars => Later'
<1> SUFFICES ASSUME Inv, Later, [Next]_vars PROVE Later'
  OBVIOUS
<1>1. /\ registered \in Seq(Id) /\ batch \in Seq(Id)
      /\ created \in 0..MaxChains /\ MaxChains \in Nat
      /\ \A j \in DOMAIN batch : batch[j] <= created
  BY SessionAssumption DEF Inv, TypeOK, Fresh
<1>2. CASE NewChain
  <2>1. /\ created + 1 \in Id /\ batch' = batch
        /\ registered' = Append(registered, created + 1)
    BY <1>1, <1>2 DEF NewChain, Id
  <2>2. /\ DOMAIN registered' = 1..(Len(registered) + 1)
        /\ registered'[Len(registered) + 1] = created + 1
        /\ \A k \in 1..Len(registered) : registered'[k] = registered[k]
    BY <1>1, <2>1, Appended
  <2>3. DOMAIN registered = 1..Len(registered) /\ Len(registered) \in Nat
    BY <1>1, Members
  <2>4. \A j \in DOMAIN batch : batch[j] \in Id
    BY <1>1, Members
  <2>5. \A j \in DOMAIN batch : batch[j] < created + 1
    BY <1>1, <2>4 DEF Id
  <2> SUFFICES ASSUME NEW k \in DOMAIN registered'
               PROVE  registered'[k] \in SetOf(batch) \/ \A j \in DOMAIN batch : batch[j] < registered'[k]
    BY <2>1 DEF Later, SetOf
  <2>6. CASE k \in DOMAIN registered
    BY <2>2, <2>3, <2>6 DEF Later
  <2>7. CASE k = Len(registered) + 1
    BY <2>2, <2>5, <2>7
  <2> QED
    BY <2>2, <2>3, <2>6, <2>7
<1>3. CASE Submit
  BY <1>3 DEF Submit, Later, SetOf
<1>4. ASSUME registered' = <<>>
      PROVE  Later'
  BY <1>4 DEF Later
<1>5. ASSUME registered' = registered, batch' = batch
      PROVE  Later'
  BY <1>5 DEF Later, SetOf
<1> QED
  BY <1>2, <1>3, <1>4, <1>5
     DEF Next, ChainEnds, BatchReturns, BatchBreaks, NestedSubmit, Broken, Reset, Interrupted,
         ScriptRaises, ScriptHandles, Exit, Exited, vars

\* When submit_requests() returns, a chain that was registered and has not run
\* was created after every chain of the batch, by one of its callbacks: of what
\* was registered when it was called, nothing is dropped.
DroppedAreLate ==
  [][phase = "running" /\ phase' = "script" =>
       \A c \in SetOf(registered) : outcome[c] = "none" =>
         \A d \in SetOf(batch) : d < c]_vars

THEOREM OnlyLateChainsDropped == Spec => DroppedAreLate
<1> DEFINE Dropped == phase = "running" /\ phase' = "script" =>
                        \A c \in SetOf(registered) : outcome[c] = "none" =>
                          \A d \in SetOf(batch) : d < c
<1>1. Init => Later
  BY DEF Init, Later
<1>2. Inv /\ Later /\ [Next]_vars => [Dropped]_vars
  <2> SUFFICES ASSUME Inv, Later, Next, phase = "running", phase' = "script",
                      NEW c \in SetOf(registered), outcome[c] = "none", NEW d \in SetOf(batch)
               PROVE  d < c
    BY DEF vars
  <2>1. BatchReturns
    BY DEF Next, NewChain, Submit, ChainEnds, BatchBreaks, NestedSubmit, Interrupted,
           ScriptRaises, ScriptHandles, Exit, Exited, vars
  <2>2. c \notin SetOf(batch)
    <3>1. \A k \in DOMAIN batch : batch[k] \notin running
      BY <2>1 DEF BatchReturns, SetOf
    <3> QED
      BY <3>1 DEF Inv, Fresh, SetOf
  <2>3. PICK k \in DOMAIN registered : c = registered[k]
    BY DEF SetOf
  <2> QED
    BY <2>2, <2>3 DEF Later, SetOf
<1>3. [][Dropped]_vars => DroppedAreLate
  BY PTL DEF DroppedAreLate
<1> QED
  BY <1>1, <1>2, <1>3, LaterKept, Invariant, PTL DEF Spec
=============================================================================
