----------------------------- MODULE BatchProofs -----------------------------
(***************************************************************************)
(* What follows from the promise of a batch alone, for every set of        *)
(* chains, of effects and of failures.                                     *)
(***************************************************************************)
EXTENDS Batch, TLAPS

LEMMA BatchTyping == Spec => []TypeOK
<1>1. Init => TypeOK
  BY DEF Init, TypeOK
<1>2. TypeOK /\ [Next]_vars => TypeOK'
  <2> SUFFICES ASSUME TypeOK, [Next]_vars PROVE TypeOK'
    OBVIOUS
  <2>1. ASSUME NEW c \in Chain, TakesEffect(c)
        PROVE  TypeOK'
    <3>1. PICK w \in Effect(c) : effects' = [effects EXCEPT ![c] = @ \cup {w}]
      BY <2>1 DEF TakesEffect
    <3>2. w \in UNION { Effect(d) : d \in Chain }
      OBVIOUS
    <3> QED
      BY <2>1, <3>1, <3>2 DEF TakesEffect, TypeOK
  <2>2. ASSUME NEW c \in Chain, Fails(c)
        PROVE  TypeOK'
    BY <2>2 DEF Fails, TypeOK
  <2>3. ASSUME NEW c \in Chain, Reports(c)
        PROVE  TypeOK'
    BY <2>3 DEF Reports, TypeOK
  <2>4. ASSUME NEW c \in Chain, Ends(c) \/ Breaks(c)
        PROVE  TypeOK'
    BY <2>4 DEF Ends, Breaks, TypeOK
  <2>5. CASE UNCHANGED vars
    BY <2>5 DEF vars, TypeOK
  <2> QED
    BY <2>1, <2>2, <2>3, <2>4, <2>5 DEF Next
<1> QED
  BY <1>1, <1>2, PTL DEF Spec

\* A batch that keeps the promise is honest: nothing is reported that did not
\* happen, and a chain that ended without a failure has reported everything.
THEOREM BatchIsHonest == Spec => []Honest
<1>1. Init => Honest
  BY DEF Init, Honest
<1>2. TypeOK /\ Honest /\ [Next]_vars => Honest'
  <2> SUFFICES ASSUME TypeOK, Honest, [Next]_vars PROVE Honest'
    OBVIOUS
  <2> USE DEF TypeOK, Honest
  <2>1. ASSUME NEW c \in Chain, TakesEffect(c)
        PROVE  Honest'
    BY <2>1 DEF TakesEffect
  <2>2. ASSUME NEW c \in Chain, Fails(c)
        PROVE  Honest'
    BY <2>2 DEF Fails
  <2>3. ASSUME NEW c \in Chain, Reports(c)
        PROVE  Honest'
    BY <2>3 DEF Reports
  <2>4. ASSUME NEW c \in Chain, Ends(c)
        PROVE  Honest'
    BY <2>4 DEF Ends
  <2>5. ASSUME NEW c \in Chain, Breaks(c)
        PROVE  Honest'
    BY <2>5 DEF Breaks
  <2>6. CASE UNCHANGED vars
    BY <2>6 DEF vars
  <2> QED
    BY <2>1, <2>2, <2>3, <2>4, <2>5, <2>6 DEF Next
<1> QED
  BY <1>1, <1>2, BatchTyping, PTL DEF Spec
==============================================================================
