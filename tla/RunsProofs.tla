----------------------------- MODULE RunsProofs -----------------------------
(***************************************************************************)
(* Theorems about sessions that overlap in one process, for any number of  *)
(* threads, callbacks, runs and notes.                                     *)
(***************************************************************************)
EXTENDS Runs, TLAPS, SequenceTheorems

Entry == [kind : Kind, by : Ctx, late : BOOLEAN]

LEMMA SetOfAppend ==
  ASSUME NEW S, NEW s \in Seq(S), NEW e \in S
  PROVE  SetOf(Append(s, e)) = SetOf(s) \cup {e}
BY AppendProperties, LenProperties DEF SetOf

LEMMA LineType ==
  ASSUME NEW x \in Ctx, NEW kind \in Kind
  PROVE  Line(kind, x) \in Entry
<1>1. Late(x) \in BOOLEAN
  BY DEF Late
<1> QED
  BY <1>1 DEF Line, Entry

\* What is left of a sequence without one of its elements.
LEMMA WithoutType ==
  ASSUME NEW s \in Seq(Run), NEW r \in SetOf(s)
  PROVE  /\ Without(s, r) \in Seq(Run)
         /\ Len(Without(s, r)) = Len(s) - 1
         /\ \E k \in DOMAIN s :
              /\ s[k] = r
              /\ \A i \in 1..(Len(s) - 1) :
                   Without(s, r)[i] = IF i < k THEN s[i] ELSE s[i + 1]
<1> DEFINE k == CHOOSE k \in DOMAIN s : s[k] = r
           front == SubSeq(s, 1, k - 1)
           back  == SubSeq(s, k + 1, Len(s))
<1>1. Len(s) \in Nat /\ DOMAIN s = 1..Len(s) /\ \A i \in 1..Len(s) : s[i] \in Run
  BY LenProperties, ElementOfSeq
<1>2. k \in 1..Len(s) /\ s[k] = r
  BY <1>1 DEF SetOf
<1>3. Without(s, r) = front \o back
  BY DEF Without
<1> HIDE DEF k
<1>4. /\ front \in Seq(Run) /\ Len(front) = k - 1
      /\ \A i \in 1..(k - 1) : front[i] = s[i]
  <2>1. \A i \in 1..(k - 1) : s[i] \in Run
    BY <1>1, <1>2
  <2> QED
    BY <1>1, <1>2, <2>1, SubSeqProperties
<1>5. /\ back \in Seq(Run) /\ Len(back) = Len(s) - k
      /\ \A i \in 1..(Len(s) - k) : back[i] = s[k + i]
  <2>1. \A i \in (k + 1)..Len(s) : s[i] \in Run
    BY <1>1, <1>2
  <2>2. back \in Seq(Run) /\ Len(back) = IF k + 1 <= Len(s) THEN Len(s) - (k + 1) + 1 ELSE 0
    BY <1>1, <1>2, <2>1, SubSeqProperties
  <2>3. \A i \in 1..(Len(s) - (k + 1) + 1) : back[i] = s[(k + 1) + i - 1]
    BY <1>1, <1>2, <2>1, SubSeqProperties
  <2>4. Len(s) - (k + 1) + 1 = Len(s) - k /\ \A i \in Nat : (k + 1) + i - 1 = k + i
    BY <1>1, <1>2
  <2> HIDE DEF back
  <2>5. Len(back) = Len(s) - k
    <3>1. CASE k + 1 <= Len(s)
      BY <2>2, <2>4, <3>1
    <3>2. CASE k = Len(s)
      BY <1>1, <2>2, <3>2
    <3>3. k \in Nat /\ k <= Len(s) /\ Len(s) \in Nat
      BY <1>1, <1>2
    <3>4. k + 1 <= Len(s) \/ k = Len(s)
      BY <3>3
    <3> QED
      BY <3>1, <3>2, <3>4
  <2>6. \A i \in 1..(Len(s) - k) : back[i] = s[k + i]
    BY <1>1, <1>2, <2>3, <2>4
  <2> QED
    BY <2>2, <2>5, <2>6
<1> HIDE DEF front, back
<1>6. /\ front \o back \in Seq(Run)
      /\ Len(front \o back) = Len(s) - 1
      /\ \A i \in 1..(Len(s) - 1) :
           (front \o back)[i] = IF i <= k - 1 THEN front[i] ELSE back[i - (k - 1)]
  <2>1. /\ front \o back \in Seq(Run)
        /\ Len(front \o back) = Len(front) + Len(back)
        /\ \A i \in 1..(Len(front) + Len(back)) :
             (front \o back)[i] = IF i <= Len(front) THEN front[i] ELSE back[i - Len(front)]
    BY <1>4, <1>5, ConcatProperties
  <2>2. Len(front) + Len(back) = Len(s) - 1
    BY <1>1, <1>2, <1>4, <1>5
  <2> QED
    BY <1>4, <2>1, <2>2
<1>7. \A i \in 1..(Len(s) - 1) : (front \o back)[i] = IF i < k THEN s[i] ELSE s[i + 1]
  BY <1>1, <1>2, <1>4, <1>5, <1>6
<1> QED
  BY <1>1, <1>2, <1>3, <1>6, <1>7

-----------------------------------------------------------------------------
(***************************************************************************)
(* The blocks that are open: each once, in the context that entered it.    *)
(***************************************************************************)
Opened ==
  /\ \A r \in Run :
       /\ stage[r] = "new" => owner[r] = None
       /\ stage[r] = "open" => owner[r] \in Ctx /\ r \in SetOf(open[owner[r]])
  /\ \A x \in Ctx : \A k \in DOMAIN open[x] :
       /\ owner[open[x][k]] = x
       /\ stage[open[x][k]] = "open"
       /\ \A j \in DOMAIN open[x] : open[x][j] = open[x][k] => j = k

TypeInv == TypeOK /\ Opened

LEMMA InitType == Init => TypeOK
<1> SUFFICES ASSUME Init PROVE TypeOK
  OBVIOUS
<1>1. line \in [Ctx -> Seq(Ctx)]
  <2>1. \A x \in Ctx : <<x>> \in Seq(Ctx) /\ <<>> \in Seq(Ctx)
    OBVIOUS
  <2> QED
    BY <2>1 DEF Init
<1>2. open \in [Ctx -> Seq(Run)] /\ log \in [Run -> Seq([kind : Kind, by : Ctx, late : BOOLEAN])]
  BY EmptySeq DEF Init
<1> QED
  BY <1>1, <1>2, RunsAssumption DEF Init, TypeOK, Stage

LEMMA WritesType ==
  ASSUME TypeOK, NEW x \in Ctx, exiting[x] # None, NEW kind \in Kind, Writes(x, kind)
  PROVE  log' \in [Run -> Seq(Entry)]
<1>1. exiting[x] \in Run
  BY DEF TypeOK
<1>2. Append(log[exiting[x]], Line(kind, x)) \in Seq(Entry)
  BY <1>1, LineType, AppendProperties DEF TypeOK, Entry
<1> QED
  BY <1>1, <1>2 DEF Writes, TypeOK, Entry

LEMMA StepType ==
  ASSUME TypeInv, [Next]_vars
  PROVE  TypeOK'
<1> USE DEF TypeInv, TypeOK
<1>1. ASSUME NEW x \in Ctx, NEW r \in Run, Enter(x, r)
      PROVE  TypeOK'
  <2>1. open' \in [Ctx -> Seq(Run)]
    BY <1>1, AppendProperties DEF Enter
  <2> QED
    BY <1>1, <2>1 DEF Enter, Activated, Stage
<1>2. ASSUME NEW x \in Ctx, NEW r \in Run, Leave(x, r)
      PROVE  TypeOK'
  <2>1. open' \in [Ctx -> Seq(Run)]
    BY <1>2, WithoutType DEF Leave
  <2>2. orderly' \in [Ctx -> BOOLEAN]
    BY <1>2 DEF Leave
  <2> QED
    BY <1>2, <2>1, <2>2 DEF Leave, Restored, Stage
<1>3. ASSUME NEW x \in Ctx, NEW r \in Run, LeaveElsewhere(x, r)
      PROVE  TypeOK'
  <2>1. owner[r] \in Ctx /\ r \in SetOf(open[owner[r]])
    BY <1>3 DEF LeaveElsewhere, Opened
  <2>2. open' \in [Ctx -> Seq(Run)]
    BY <1>3, <2>1, WithoutType DEF LeaveElsewhere
  <2>3. orderly' \in [Ctx -> BOOLEAN]
    BY <1>3, <2>1 DEF LeaveElsewhere
  <2> QED
    BY <1>3, <2>2, <2>3 DEF LeaveElsewhere, Stage
<1>4. ASSUME NEW x \in Ctx, Note(x)
      PROVE  TypeOK'
  <2>1. notes' \in 0..MaxNotes
    BY <1>4, RunsAssumption DEF Note
  <2>2. CASE UNCHANGED <<log, dropped>>
    BY <1>4, <2>1, <2>2 DEF Note
  <2>3. CASE /\ active[x] # None
             /\ log' = [log EXCEPT ![active[x]] = Append(@, Line("note", x))]
             /\ UNCHANGED dropped
    <3>1. Append(log[active[x]], Line("note", x)) \in Seq(Entry)
      <4>1. active[x] \in Run
        BY <2>3
      <4>2. log[active[x]] \in Seq(Entry)
        BY <4>1 DEF Entry
      <4>3. Line("note", x) \in Entry
        BY LineType DEF Kind
      <4> QED
        BY <4>2, <4>3, AppendProperties
    <3>2. log' \in [Run -> Seq(Entry)]
      BY <2>3, <3>1 DEF Entry
    <3> QED
      BY <1>4, <2>1, <2>3, <3>2 DEF Note, Entry
  <2>4. CASE /\ dropped' = dropped \cup {[late |-> Late(x), orderly |-> Orderly(x)]}
             /\ UNCHANGED log
    <3>1. Late(x) \in BOOLEAN /\ Orderly(x) \in BOOLEAN
      BY DEF Late, Orderly
    <3>2. [late |-> Late(x), orderly |-> Orderly(x)] \in [late : BOOLEAN, orderly : BOOLEAN]
      BY <3>1
    <3>3. dropped' \subseteq [late : BOOLEAN, orderly : BOOLEAN]
      BY <2>4, <3>2
    <3> QED
      BY <1>4, <2>1, <2>4, <3>3 DEF Note
  <2> QED
    BY <1>4, <2>2, <2>3, <2>4 DEF Note
<1>5. ASSUME NEW x \in Ctx, Submit(x) \/ SubmitReturns(x)
      PROVE  TypeOK'
  BY <1>5 DEF Submit, SubmitReturns
<1>6. ASSUME NEW x \in Ctx, Interrupt(x)
      PROVE  TypeOK'
  BY <1>6 DEF Interrupt
<1>7. ASSUME NEW x \in Ctx, NEW w \in Callback, Dispatch(x, w)
      PROVE  TypeOK'
  <2>1. w \in Ctx
    BY DEF Ctx
  <2>2. line' \in [Ctx -> Seq(Ctx)]
    BY <1>7, <2>1, AppendProperties DEF Dispatch
  <2> QED
    BY <1>7, <2>1, <2>2 DEF Dispatch, Copied
<1>8. ASSUME NEW w \in Callback, CallbackEnds(w)
      PROVE  TypeOK'
  BY <1>8 DEF CallbackEnds, Ctx
<1>9. ASSUME NEW x \in Ctx, LogExit(x)
      PROVE  TypeOK'
  BY <1>9, WritesType DEF LogExit, NextStage, Stage, Kind, Entry
<1>10. ASSUME NEW x \in Ctx, DriverCloses(x)
      PROVE  TypeOK'
  BY <1>10 DEF DriverCloses, NextStage, Stage
<1>11. ASSUME NEW x \in Ctx, DriverFails(x)
      PROVE  TypeOK'
  BY <1>11, WritesType DEF DriverFails, LoggedFailure, NextStage, Stage, Kind, Entry
<1>12. ASSUME NEW x \in Ctx, CleanupInterrupted(x)
      PROVE  TypeOK'
  BY <1>12 DEF CleanupInterrupted, NextStage, Stage
<1>13. ASSUME NEW x \in Ctx, LogExitCode(x)
      PROVE  TypeOK'
  BY <1>13, WritesType DEF LogExitCode, NextStage, Stage, Kind, Entry
<1>14. ASSUME NEW x \in Ctx, LoggerCloses(x)
      PROVE  TypeOK'
  BY <1>14 DEF LoggerCloses, NextStage, Stage
<1>15. CASE UNCHANGED vars
  BY <1>15 DEF vars
<1> QED
  BY <1>1, <1>2, <1>3, <1>4, <1>5, <1>6, <1>7, <1>8, <1>9, <1>10, <1>11, <1>12, <1>13,
     <1>14, <1>15 DEF Next, Finished

\* A step takes a block from a context, adds one, or leaves the blocks alone.
LEMMA StepOpened ==
  ASSUME TypeInv, [Next]_vars
  PROVE  Opened'
<1> USE DEF TypeInv
<1>1. ASSUME NEW x \in Ctx, NEW r \in Run, Enter(x, r)
      PROVE  Opened'
  <2>1. /\ stage[r] = "new" /\ owner[r] = None /\ None \notin Ctx
        /\ stage' = [stage EXCEPT ![r] = "open"]
        /\ owner' = [owner EXCEPT ![r] = x]
        /\ \A y \in Ctx \ {x} : open'[y] = open[y]
        /\ open'[x] = Append(open[x], r)
    BY <1>1, RunsAssumption DEF Enter, Opened, TypeOK
  <2>2. /\ Len(open[x]) \in Nat
        /\ DOMAIN open[x] = 1..Len(open[x])
        /\ DOMAIN open'[x] = 1..(Len(open[x]) + 1)
        /\ \A k \in DOMAIN open[x] : open'[x][k] = open[x][k] /\ open[x][k] # r
        /\ open'[x][Len(open[x]) + 1] = r
    BY <2>1, AppendProperties, LenProperties DEF Opened, TypeOK
  <2>3. \A y \in Ctx : \A k \in DOMAIN open[y] : open[y][k] # r
    BY <2>1 DEF Opened
  <2>4. \A q \in Run : stage'[q] = "open" => owner'[q] \in Ctx /\ q \in SetOf(open'[owner'[q]])
    <3> SUFFICES ASSUME NEW q \in Run, stage'[q] = "open"
                 PROVE  owner'[q] \in Ctx /\ q \in SetOf(open'[owner'[q]])
      OBVIOUS
    <3>1. CASE q = r
      <4>1. owner'[r] = x
        BY <2>1 DEF TypeOK
      <4> QED
        BY <2>2, <3>1, <4>1 DEF SetOf
    <3>2. CASE q # r
      <4>1. owner'[q] = owner[q] /\ owner[q] \in Ctx /\ q \in SetOf(open[owner[q]])
        BY <2>1, <3>2 DEF Opened, TypeOK
      <4>2. CASE owner[q] = x
        BY <2>2, <4>1, <4>2 DEF SetOf
      <4>3. CASE owner[q] # x
        BY <2>1, <4>1, <4>3
      <4> QED
        BY <4>2, <4>3
    <3> QED
      BY <3>1, <3>2
  <2>5. \A y \in Ctx : \A k \in DOMAIN open'[y] :
          /\ owner'[open'[y][k]] = y /\ stage'[open'[y][k]] = "open"
          /\ \A j \in DOMAIN open'[y] : open'[y][j] = open'[y][k] => j = k
    <3>1. ASSUME NEW y \in Ctx \ {x}, NEW k \in DOMAIN open[y]
          PROVE  /\ owner'[open[y][k]] = y /\ stage'[open[y][k]] = "open"
                 /\ \A j \in DOMAIN open[y] : open[y][j] = open[y][k] => j = k
      BY <2>1, <2>3, <3>1 DEF Opened, TypeOK
    <3>2. ASSUME NEW k \in DOMAIN open'[x]
          PROVE  /\ owner'[open'[x][k]] = x /\ stage'[open'[x][k]] = "open"
                 /\ \A j \in DOMAIN open'[x] : open'[x][j] = open'[x][k] => j = k
      <4>1. ASSUME NEW j \in DOMAIN open'[x], open'[x][j] = open'[x][k]
            PROVE  j = k
        <5>1. CASE k \in DOMAIN open[x]
          BY <2>2, <4>1, <5>1 DEF Opened
        <5>2. CASE k = Len(open[x]) + 1
          BY <2>2, <4>1, <5>2
        <5> QED
          BY <2>2, <3>2, <5>1, <5>2
      <4>2. CASE k \in DOMAIN open[x]
        BY <2>1, <2>2, <4>1, <4>2 DEF Opened, TypeOK
      <4>3. CASE k = Len(open[x]) + 1
        BY <2>1, <2>2, <4>1, <4>3 DEF TypeOK
      <4> QED
        BY <2>2, <3>2, <4>2, <4>3
    <3> QED
      <4> SUFFICES ASSUME NEW y \in Ctx
                   PROVE  \A k \in DOMAIN open'[y] :
                            /\ owner'[open'[y][k]] = y /\ stage'[open'[y][k]] = "open"
                            /\ \A j \in DOMAIN open'[y] : open'[y][j] = open'[y][k] => j = k
        OBVIOUS
      <4>1. CASE y = x
        BY <3>2, <4>1
      <4>2. CASE y # x
        <5>1. open'[y] = open[y]
          BY <2>1, <4>2
        <5> QED
          BY <3>1, <4>2, <5>1
      <4> QED
        BY <4>1, <4>2
  <2>6. \A q \in Run : stage'[q] = "new" => owner'[q] = None
    BY <2>1 DEF Opened, TypeOK
  <2> QED
    BY <2>4, <2>5, <2>6 DEF Opened
<1>2. ASSUME NEW y \in Ctx, NEW r \in SetOf(open[y]), NEW to \in Stage \ {"new", "open"},
             open' = [open EXCEPT ![y] = Without(@, r)],
             stage' = [stage EXCEPT ![r] = to], UNCHANGED owner
      PROVE  Opened'
  <2> DEFINE s == open[y]
             t == Without(s, r)
  <2>1. /\ s \in Seq(Run) /\ Len(s) \in Nat /\ DOMAIN s = 1..Len(s)
        /\ t \in Seq(Run) /\ Len(t) = Len(s) - 1 /\ DOMAIN t = 1..(Len(s) - 1)
        /\ r \in Run /\ owner[r] = y
    BY WithoutType, LenProperties, ElementOfSeq DEF TypeOK, SetOf, Opened
  <2>2. PICK k \in DOMAIN s :
          s[k] = r /\ \A i \in 1..(Len(s) - 1) : t[i] = IF i < k THEN s[i] ELSE s[i + 1]
    BY <2>1, WithoutType
  <2>3. open'[y] = t /\ \A x \in Ctx \ {y} : open'[x] = open[x]
    BY <1>2 DEF TypeOK
  <2> HIDE DEF s, t
  <2>4. \A q \in Run \ {r} : q \in SetOf(s) => q \in SetOf(t)
    <3> SUFFICES ASSUME NEW i \in DOMAIN s, s[i] # r
                 PROVE  \E j \in DOMAIN t : t[j] = s[i]
      BY DEF SetOf
    <3>1. CASE i < k
      BY <2>1, <2>2, <3>1
    <3>2. CASE i > k
      <4>1. i - 1 \in 1..(Len(s) - 1) /\ t[i - 1] = s[i]
        BY <2>1, <2>2, <3>2
      <4> QED
        BY <2>1, <4>1
    <3> QED
      BY <2>1, <2>2, <3>1, <3>2
  <2>5. \A q \in Run : stage'[q] = "open" => owner'[q] \in Ctx /\ q \in SetOf(open'[owner'[q]])
    <3> SUFFICES ASSUME NEW q \in Run, stage'[q] = "open"
                 PROVE  owner[q] \in Ctx /\ q \in SetOf(open'[owner[q]])
      BY <1>2
    <3>1. q # r /\ stage[q] = "open"
      BY <1>2, <2>1 DEF TypeOK
    <3> QED
      BY <2>3, <2>4, <3>1 DEF Opened, s
  <2>6. \A x \in Ctx : \A i \in DOMAIN open'[x] :
          /\ owner'[open'[x][i]] = x /\ stage'[open'[x][i]] = "open"
          /\ \A j \in DOMAIN open'[x] : open'[x][j] = open'[x][i] => j = i
    <3>1. ASSUME NEW x \in Ctx \ {y}, NEW i \in DOMAIN open[x]
          PROVE  /\ owner'[open[x][i]] = x /\ stage'[open[x][i]] = "open"
                 /\ \A j \in DOMAIN open[x] : open[x][j] = open[x][i] => j = i
      <4>1. /\ owner[open[x][i]] = x /\ stage[open[x][i]] = "open"
            /\ \A j \in DOMAIN open[x] : open[x][j] = open[x][i] => j = i
        BY <3>1 DEF Opened
      <4>2. open[x][i] \in Run
        BY <3>1, LenProperties, ElementOfSeq DEF TypeOK
      <4>3. open[x][i] # r /\ stage'[open[x][i]] = stage[open[x][i]]
        BY <1>2, <2>1, <3>1, <4>1, <4>2 DEF TypeOK
      <4> QED
        BY <1>2, <4>1, <4>3
    <3>2. \A i \in DOMAIN s : /\ owner[s[i]] = y /\ stage[s[i]] = "open"
                              /\ \A j \in DOMAIN s : s[j] = s[i] => j = i
      BY DEF Opened, s
    <3>3. ASSUME NEW i \in DOMAIN t
          PROVE  /\ owner'[t[i]] = y /\ stage'[t[i]] = "open"
                 /\ \A j \in DOMAIN t : t[j] = t[i] => j = i
      <4>1. owner[t[i]] = y /\ stage[t[i]] = "open" /\ t[i] # r
        <5>1. i \in 1..(Len(s) - 1)
          BY <2>1, <3>3
        <5>2. CASE i < k
          BY <2>1, <2>2, <3>2, <5>1, <5>2
        <5>3. CASE ~(i < k)
          <6>1. t[i] = s[i + 1] /\ i + 1 \in DOMAIN s /\ i + 1 # k
            BY <2>1, <2>2, <5>1, <5>3
          <6> QED
            BY <2>2, <3>2, <6>1
        <5> QED
          BY <5>2, <5>3
      <4>2. ASSUME NEW j \in DOMAIN t, t[j] = t[i]
            PROVE  j = i
        <5>1. i \in 1..(Len(s) - 1) /\ j \in 1..(Len(s) - 1)
          BY <2>1, <3>3, <4>2
        <5>2. CASE i < k /\ j < k
          BY <2>1, <2>2, <3>2, <4>2, <5>1, <5>2
        <5>3. CASE i < k /\ ~(j < k)
          <6>1. s[j + 1] = s[i] /\ i \in DOMAIN s /\ j + 1 \in DOMAIN s
            BY <2>1, <2>2, <4>2, <5>1, <5>3
          <6> QED
            BY <2>1, <2>2, <3>2, <5>1, <5>3, <6>1
        <5>4. CASE ~(i < k) /\ j < k
          <6>1. s[j] = s[i + 1] /\ i + 1 \in DOMAIN s /\ j \in DOMAIN s
            BY <2>1, <2>2, <4>2, <5>1, <5>4
          <6> QED
            BY <2>1, <2>2, <3>2, <5>1, <5>4, <6>1
        <5>5. CASE ~(i < k) /\ ~(j < k)
          <6>1. s[j + 1] = s[i + 1] /\ i + 1 \in DOMAIN s /\ j + 1 \in DOMAIN s
            BY <2>1, <2>2, <4>2, <5>1, <5>5
          <6>2. j + 1 = i + 1
            BY <3>2, <6>1
          <6> QED
            BY <5>1, <6>2
        <5> QED
          BY <5>2, <5>3, <5>4, <5>5
      <4> QED
        BY <1>2, <2>1, <4>1, <4>2 DEF TypeOK
    <3> QED
      BY <2>3, <3>1, <3>3
  <2>7. \A q \in Run : stage'[q] = "new" => owner'[q] = None
    BY <1>2, <2>1 DEF Opened, TypeOK
  <2> QED
    BY <2>5, <2>6, <2>7 DEF Opened
<1>3. ASSUME NEW x \in Ctx, NEW r \in Run, Leave(x, r)
      PROVE  Opened'
  BY <1>2, <1>3 DEF Leave, Stage
<1>4. ASSUME NEW x \in Ctx, NEW r \in Run, LeaveElsewhere(x, r)
      PROVE  Opened'
  <2>1. owner[r] \in Ctx /\ r \in SetOf(open[owner[r]])
    BY <1>4 DEF LeaveElsewhere, Opened
  <2> QED
    BY <1>2, <1>4, <2>1 DEF LeaveElsewhere, Stage
<1>5. ASSUME NEW x \in Ctx, NEW from \in Stage \ {"new", "open"},
             NEW to \in Stage \ {"new", "open"}, NextStage(x, from, to),
             UNCHANGED <<open, owner>>
      PROVE  Opened'
  <2>1. \A r \in Run : stage'[r] \in {"new", "open"} \/ stage[r] \in {"new", "open"}
                       => stage'[r] = stage[r]
    BY <1>5 DEF NextStage, TypeOK
  <2>2. \A y \in Ctx : \A k \in DOMAIN open[y] : open[y][k] \in Run
    BY LenProperties, ElementOfSeq DEF TypeOK
  <2> QED
    BY <1>5, <2>1, <2>2 DEF Opened
<1>6. ASSUME NEW x \in Ctx,
             \/ LogExit(x) \/ DriverCloses(x) \/ DriverFails(x) \/ CleanupInterrupted(x)
             \/ LogExitCode(x) \/ LoggerCloses(x)
      PROVE  Opened'
  BY <1>5, <1>6 DEF LogExit, DriverCloses, DriverFails, CleanupInterrupted, LogExitCode,
                    LoggerCloses, Stage
<1>7. ASSUME UNCHANGED <<open, owner, stage>>
      PROVE  Opened'
  BY <1>7 DEF Opened
<1>8. ASSUME NEW x \in Ctx,
             \/ Note(x) \/ Submit(x) \/ SubmitReturns(x) \/ Interrupt(x)
             \/ \E w \in Callback : Dispatch(x, w)
      PROVE  UNCHANGED <<open, owner, stage>>
  BY <1>8 DEF Note, Submit, SubmitReturns, Interrupt, Dispatch
<1>9. ASSUME (\E w \in Callback : CallbackEnds(w)) \/ UNCHANGED vars
      PROVE  UNCHANGED <<open, owner, stage>>
  BY <1>9 DEF CallbackEnds, vars
<1> QED
  BY <1>1, <1>3, <1>4, <1>6, <1>7, <1>8, <1>9 DEF Next, Finished

\* The kinds of values the variables take, for every number of runs.
THEOREM Typing == Spec => []TypeOK
<1>1. Init => TypeInv
  BY InitType, EmptySeq DEF Init, TypeInv, Opened
<1>2. TypeInv /\ [Next]_vars => TypeInv'
  BY StepType, StepOpened DEF TypeInv
<1>3. TypeInv => TypeOK
  BY DEF TypeInv
<1> QED
  BY <1>1, <1>2, <1>3, PTL DEF Spec

-----------------------------------------------------------------------------
(***************************************************************************)
(* Which run a note reaches.                                               *)
(***************************************************************************)

(***************************************************************************)
(* What a context finds active was entered by a context it comes from, and *)
(* what the token of a run restores by one its owner comes from.  Without  *)
(* the second conjunct the first would not survive a block that is left.   *)
(***************************************************************************)
UnusedIsBlank ==
  \A x \in Ctx : at[x] = "unused" => line[x] = <<>> /\ open[x] = <<>>

OwnLine ==
  \A x \in Ctx : at[x] # "unused" => x \in SetOf(line[x])

ActiveAtHome ==
  \A x \in Ctx : active[x] # None => owner[active[x]] \in SetOf(line[x])

TokenAtHome ==
  \A r \in Run : owner[r] # None /\ token[r] # None
                 => owner[token[r]] \in SetOf(line[owner[r]])

Home == UnusedIsBlank /\ OwnLine /\ ActiveAtHome /\ TokenAtHome /\ NotesStayHome

LEMMA LinesOfContexts ==
  ASSUME TypeOK, NEW x \in Ctx
  PROVE  SetOf(line[x]) \subseteq Ctx /\ None \notin SetOf(line[x])
BY LenProperties, ElementOfSeq, RunsAssumption DEF SetOf, TypeOK

LEMMA EntryOfLog ==
  ASSUME TypeOK, NEW r \in Run, NEW k \in DOMAIN log[r]
  PROVE  log[r][k].by \in Ctx
<1>1. log[r] \in Seq(Entry)
  BY DEF TypeOK, Entry
<1>2. log[r][k] \in Entry
  BY <1>1, LenProperties, ElementOfSeq
<1> QED
  BY <1>2 DEF Entry

LEMMA EmptyLine == SetOf(<<>>) = {}
BY DEF SetOf

LEMMA InitHome == Init => Home
<1> SUFFICES ASSUME Init PROVE Home
  OBVIOUS
<1>1. \A x \in Ctx : x \in SetOf(line[x]) \/ (at[x] = "unused" /\ line[x] = <<>>)
  <2> SUFFICES ASSUME NEW x \in Ctx
               PROVE  x \in SetOf(line[x]) \/ (at[x] = "unused" /\ line[x] = <<>>)
    OBVIOUS
  <2>1. CASE x \in Thread
    <3>1. line[x] = <<x>>
      BY <2>1 DEF Init
    <3>2. 1 \in DOMAIN <<x>> /\ <<x>>[1] = x
      OBVIOUS
    <3> QED
      BY <3>1, <3>2 DEF SetOf
  <2>2. CASE x \notin Thread
    BY <2>2 DEF Init
  <2> QED
    BY <2>1, <2>2
<1> QED
  BY <1>1, EmptyLine DEF Init, Home, UnusedIsBlank, OwnLine, ActiveAtHome, TokenAtHome,
                         NotesStayHome

\* Writing a line of __exit__ is not writing a note.
LEMMA WritesHome ==
  ASSUME TypeOK, NotesStayHome, NEW x \in Ctx, exiting[x] # None,
         NEW kind \in Kind \ {"note"}, Writes(x, kind), UNCHANGED <<owner, line>>
  PROVE  NotesStayHome'
<1> DEFINE q == exiting[x]
<1>1. q \in Run /\ log[q] \in Seq(Entry) /\ Line(kind, x) \in Entry
  BY LineType DEF TypeOK, Entry
<1>2. log'[q] = Append(log[q], Line(kind, x)) /\ \A r \in Run \ {q} : log'[r] = log[r]
  BY <1>1 DEF Writes, TypeOK
<1>3. /\ DOMAIN log'[q] = 1..(Len(log[q]) + 1) /\ DOMAIN log[q] = 1..Len(log[q])
      /\ Len(log[q]) \in Nat
      /\ log'[q][Len(log[q]) + 1].kind = kind
      /\ \A k \in DOMAIN log[q] : log'[q][k] = log[q][k]
  BY <1>1, <1>2, AppendProperties, LenProperties DEF Line
<1> HIDE DEF q
<1>4. ASSUME NEW k \in DOMAIN log'[q], log'[q][k].kind = "note"
      PROVE  k \in DOMAIN log[q] /\ log'[q][k] = log[q][k]
  BY <1>3, <1>4
<1> QED
  BY <1>2, <1>4 DEF NotesStayHome

LEMMA StepHome ==
  ASSUME TypeInv, Home, [Next]_vars
  PROVE  Home'
<1> USE DEF TypeInv
<1>0. \A x \in Ctx : SetOf(line[x]) \subseteq Ctx /\ None \notin SetOf(line[x]) /\ x # None
  BY LinesOfContexts, RunsAssumption
<1>1. ASSUME NEW x \in Ctx, NEW r \in Run, Enter(x, r)
      PROVE  Home'
  <2>1. /\ stage[r] = "new" /\ owner[r] = None /\ UNCHANGED <<line, at, log>>
        /\ \A q \in Run \ {r} : owner'[q] = owner[q] /\ token'[q] = token[q]
        /\ owner'[r] = x /\ token'[r] = active[x]
        /\ \A y \in Ctx \ {x} : active'[y] = active[y] /\ open'[y] = open[y]
        /\ active'[x] = r /\ at[x] # "unused" /\ x \in SetOf(line[x])
    <3>1. stage[r] = "new" /\ owner[r] = None /\ UNCHANGED <<line, at, log>>
      BY <1>1 DEF Enter, Opened
    <3>2. /\ \A q \in Run \ {r} : owner'[q] = owner[q] /\ token'[q] = token[q]
          /\ owner'[r] = x /\ token'[r] = active[x]
      BY <1>1 DEF Enter, TypeOK
    <3>3. /\ \A y \in Ctx \ {x} : active'[y] = active[y] /\ open'[y] = open[y]
          /\ active'[x] = r
      BY <1>1 DEF Enter, Activated, TypeOK
    <3>4. at[x] # "unused" /\ x \in SetOf(line[x])
      BY <1>1 DEF Enter, Free, Alive, Home, OwnLine
    <3> QED
      BY <3>1, <3>2, <3>3, <3>4
  <2>2. \A q \in Run : owner[q] # None => q # r /\ owner'[q] = owner[q] /\ token'[q] = token[q]
    BY <2>1
  <2>3. ActiveAtHome'
    <3> SUFFICES ASSUME NEW y \in Ctx \ {x}, active[y] # None
                 PROVE  owner'[active[y]] \in SetOf(line[y])
      BY <2>1 DEF ActiveAtHome
    <3>1. active[y] \in Run /\ owner[active[y]] \in SetOf(line[y])
      BY DEF Home, ActiveAtHome, TypeOK
    <3> QED
      BY <1>0, <2>2, <3>1
  <2>4. TokenAtHome'
    <3> SUFFICES ASSUME NEW q \in Run, owner'[q] # None, token'[q] # None
                 PROVE  owner'[token'[q]] \in SetOf(line[owner'[q]])
      BY <2>1 DEF TokenAtHome
    <3>1. CASE q = r
      <4>1. active[x] \in Run /\ owner[active[x]] \in SetOf(line[x])
        BY <2>1, <3>1 DEF Home, ActiveAtHome, TypeOK
      <4> QED
        BY <1>0, <2>1, <2>2, <3>1, <4>1
    <3>2. CASE q # r
      <4>1. /\ token[q] \in Run /\ owner[q] \in Ctx
            /\ owner[token[q]] \in SetOf(line[owner[q]])
        BY <2>1, <3>2 DEF Home, TokenAtHome, TypeOK
      <4> QED
        BY <1>0, <2>1, <2>2, <3>2, <4>1
    <3> QED
      BY <3>1, <3>2
  <2>5. NotesStayHome'
    <3> SUFFICES ASSUME NEW q \in Run, NEW k \in DOMAIN log[q], log[q][k].kind = "note"
                 PROVE  owner'[q] \in SetOf(line[log[q][k].by])
      BY <2>1 DEF NotesStayHome
    <3>1. owner[q] \in SetOf(line[log[q][k].by]) /\ log[q][k].by \in Ctx
      BY EntryOfLog DEF Home, NotesStayHome
    <3> QED
      BY <1>0, <2>2, <3>1
  <2> QED
    BY <2>1, <2>3, <2>4, <2>5 DEF Home, UnusedIsBlank, OwnLine
<1>2. ASSUME NEW x \in Ctx, NEW w \in Callback, Dispatch(x, w)
      PROVE  Home'
  <2>1. /\ w \in Ctx /\ at[w] = "unused" /\ line[w] = <<>> /\ active[w] = None
        /\ UNCHANGED <<open, owner, token, log>>
        /\ active'[w] = active[x] /\ line'[w] = Append(line[x], w)
        /\ \A y \in Ctx \ {w} : /\ active'[y] = active[y]
                                /\ line'[y] = line[y]
                                /\ at'[y] = at[y]
    BY <1>2, EmptyLine DEF Dispatch, Copied, Home, UnusedIsBlank, ActiveAtHome, Ctx, TypeOK
  <2>2. at'[w] = "running" /\ SetOf(line'[w]) = SetOf(line[x]) \cup {w}
    BY <1>2, <2>1, SetOfAppend DEF Dispatch, TypeOK
  <2>3. \A y \in Ctx : SetOf(line[y]) # {} => line'[y] = line[y]
    BY <2>1, EmptyLine
  <2>4. ActiveAtHome'
    <3> SUFFICES ASSUME NEW y \in Ctx, active'[y] # None
                 PROVE  owner[active'[y]] \in SetOf(line'[y])
      BY <2>1 DEF ActiveAtHome
    <3>1. CASE y = w
      <4>1. owner[active[x]] \in SetOf(line[x])
        BY <2>1, <3>1 DEF Home, ActiveAtHome
      <4> QED
        BY <2>1, <2>2, <3>1, <4>1
    <3>2. CASE y # w
      BY <2>1, <3>2 DEF Home, ActiveAtHome
    <3> QED
      BY <3>1, <3>2
  <2>5. TokenAtHome'
    <3> SUFFICES ASSUME NEW q \in Run, owner[q] # None, token[q] # None
                 PROVE  owner[token[q]] \in SetOf(line'[owner[q]])
      BY <2>1 DEF TokenAtHome
    <3>1. owner[q] \in Ctx /\ owner[token[q]] \in SetOf(line[owner[q]])
      BY DEF Home, TokenAtHome, TypeOK
    <3> QED
      BY <2>3, <3>1
  <2>6. NotesStayHome'
    <3> SUFFICES ASSUME NEW q \in Run, NEW k \in DOMAIN log[q], log[q][k].kind = "note"
                 PROVE  owner[q] \in SetOf(line'[log[q][k].by])
      BY <2>1 DEF NotesStayHome
    <3>1. owner[q] \in SetOf(line[log[q][k].by]) /\ log[q][k].by \in Ctx
      BY EntryOfLog DEF Home, NotesStayHome
    <3> QED
      BY <2>3, <3>1
  <2>7. UnusedIsBlank' /\ OwnLine'
    BY <2>1, <2>2 DEF Home, UnusedIsBlank, OwnLine
  <2> QED
    BY <2>4, <2>5, <2>6, <2>7 DEF Home
<1>3. ASSUME NEW x \in Ctx, Note(x)
      PROVE  Home'
  <2>1. UNCHANGED <<active, open, line, at, owner, token>>
    BY <1>3 DEF Note
  <2>2. CASE UNCHANGED log
    BY <2>1, <2>2 DEF Home, UnusedIsBlank, OwnLine, ActiveAtHome, TokenAtHome, NotesStayHome
  <2>3. CASE active[x] # None /\ log' = [log EXCEPT ![active[x]] = Append(@, Line("note", x))]
    <3> DEFINE q == active[x]
    <3>1. q \in Run /\ log[q] \in Seq(Entry) /\ Line("note", x) \in Entry
      BY <2>3, LineType DEF TypeOK, Entry, Kind
    <3>2. log'[q] = Append(log[q], Line("note", x)) /\ \A r \in Run \ {q} : log'[r] = log[r]
      BY <2>3, <3>1 DEF TypeOK
    <3>3. owner[q] \in SetOf(line[x])
      BY <2>3 DEF Home, ActiveAtHome
    <3>4. /\ DOMAIN log'[q] = 1..(Len(log[q]) + 1) /\ DOMAIN log[q] = 1..Len(log[q])
          /\ Len(log[q]) \in Nat
          /\ log'[q][Len(log[q]) + 1].by = x
          /\ \A k \in DOMAIN log[q] : log'[q][k] = log[q][k]
      BY <3>1, <3>2, AppendProperties, LenProperties DEF Line
    <3> HIDE DEF q
    <3>5. ASSUME NEW k \in DOMAIN log'[q]
          PROVE  k \in DOMAIN log[q] \/ k = Len(log[q]) + 1
      BY <3>4, <3>5
    <3>6. NotesStayHome'
      BY <2>1, <3>2, <3>3, <3>4, <3>5 DEF Home, NotesStayHome
    <3> QED
      BY <2>1, <3>6 DEF Home, UnusedIsBlank, OwnLine, ActiveAtHome, TokenAtHome
  <2> QED
    BY <1>3, <2>2, <2>3 DEF Note
<1>4. ASSUME NEW x \in Ctx, NEW r \in Run, Leave(x, r)
      PROVE  Home'
  <2>1. /\ owner[r] = x /\ UNCHANGED <<line, at, log, owner, token>>
        /\ active'[x] = token[r]
        /\ \A y \in Ctx \ {x} : active'[y] = active[y] /\ open'[y] = open[y]
        /\ at[x] # "unused" /\ x # None
    BY <1>0, <1>4 DEF Leave, Restored, Free, Alive, Opened, SetOf, TypeOK
  <2>2. ActiveAtHome'
    BY <2>1 DEF Home, ActiveAtHome, TokenAtHome
  <2> QED
    BY <2>1, <2>2 DEF Home, UnusedIsBlank, OwnLine, TokenAtHome, NotesStayHome
<1>5. ASSUME NEW x \in Ctx, NEW r \in Run, LeaveElsewhere(x, r)
      PROVE  Home'
  <2>1. owner[r] \in Ctx /\ r \in SetOf(open[owner[r]]) /\ open[owner[r]] # <<>>
    BY <1>5, EmptyLine DEF LeaveElsewhere, Opened
  <2>2. /\ UNCHANGED <<active, line, at, log, owner, token>>
        /\ \A y \in Ctx \ {owner[r]} : open'[y] = open[y]
    BY <1>5, <2>1 DEF LeaveElsewhere, TypeOK
  <2> QED
    BY <2>1, <2>2 DEF Home, UnusedIsBlank, OwnLine, ActiveAtHome, TokenAtHome, NotesStayHome
<1>6. ASSUME NEW x \in Ctx, LogExit(x) \/ DriverFails(x) \/ LogExitCode(x)
      PROVE  Home'
  <2>1. /\ UNCHANGED <<active, open, line, at, owner, token>> /\ exiting[x] # None
        /\ \E kind \in Kind \ {"note"} : Writes(x, kind)
    BY <1>6 DEF LogExit, DriverFails, LoggedFailure, LogExitCode, NextStage, Kind
  <2>2. NotesStayHome'
    BY <2>1, WritesHome DEF Home
  <2> QED
    BY <2>1, <2>2 DEF Home, UnusedIsBlank, OwnLine, ActiveAtHome, TokenAtHome
<1>7. ASSUME UNCHANGED <<active, open, line, owner, token, log>>,
             \A x \in Ctx : at'[x] = "unused" <=> at[x] = "unused"
      PROVE  Home'
  BY <1>7 DEF Home, UnusedIsBlank, OwnLine, ActiveAtHome, TokenAtHome, NotesStayHome
<1>8. ASSUME NEW x \in Ctx,
             \/ Submit(x) \/ SubmitReturns(x) \/ Interrupt(x) \/ DriverCloses(x)
             \/ CleanupInterrupted(x) \/ LoggerCloses(x) \/ (x \in Callback /\ CallbackEnds(x))
      PROVE  Home'
  <2>1. UNCHANGED <<active, open, line, owner, token, log>>
    BY <1>8 DEF Submit, SubmitReturns, Interrupt, DriverCloses, CleanupInterrupted,
                LoggerCloses, CallbackEnds
  <2>2. \A y \in Ctx : at'[y] = "unused" <=> at[y] = "unused"
    BY <1>8 DEF Submit, SubmitReturns, Interrupt, DriverCloses, CleanupInterrupted,
                LoggerCloses, CallbackEnds, Free, Alive, DispatchedBy, TypeOK
  <2> QED
    BY <1>7, <2>1, <2>2
<1>9. CASE UNCHANGED vars
  BY <1>7, <1>9 DEF vars
<1> QED
  BY <1>1, <1>2, <1>3, <1>4, <1>5, <1>6, <1>8, <1>9 DEF Next, Finished, Ctx

\* Notes stay in the logfile of a run around them, in whatever order blocks
\* are left and by whatever context.
THEOREM NotesAreHome == Spec => []NotesStayHome
<1>1. Init => TypeInv /\ Home
  BY InitType, InitHome, EmptySeq DEF Init, TypeInv, Opened
<1>2. TypeInv /\ Home /\ [Next]_vars => TypeInv' /\ Home'
  BY StepType, StepOpened, StepHome DEF TypeInv
<1>3. Home => NotesStayHome
  BY DEF Home
<1> QED
  BY <1>1, <1>2, <1>3, PTL DEF Spec

-----------------------------------------------------------------------------
(***************************************************************************)
(* A note reaches the innermost block around it, a note is lost only by    *)
(* code whose block is over, and a run ends with its exit code: for any    *)
(* number of threads, callbacks and runs, nested to any depth.             *)
(***************************************************************************)
(***************************************************************************)
(* The line of a context ends in the context itself, and the line of every *)
(* context on it is the part that leads there.                             *)
(***************************************************************************)
Placed ==
  \A x \in Ctx : at[x] # "unused" =>
    /\ line[x] # <<>> /\ Last(line[x]) = x
    /\ Len(line[x]) > 1 => x \in Callback
    /\ \A k \in DOMAIN line[x] :
         /\ at[line[x][k]] # "unused"
         /\ line[line[x][k]] = SubSeq(line[x], 1, k)

(***************************************************************************)
(* What a running callback comes from waits for it, as far back as the     *)
(* last batch on the way that was interrupted.                             *)
(***************************************************************************)
WaitersLive == \A x \in waiting : Alive(x)

Pending(x, k) ==
  /\ at[x] = "running" /\ k \in 1..(Len(line[x]) - 1)
  /\ \A j \in (k + 1)..Len(line[x]) : at[line[x][j]] # "stray"

Waits == \A x \in Ctx : \A k \in DOMAIN line[x] : Pending(x, k) => line[x][k] \in waiting

(***************************************************************************)
(* v is the innermost block of the first n contexts of l.                  *)
(***************************************************************************)
Around(l, blocks, n, v) ==
  \/ v = None /\ \A k \in 1..n : blocks[l[k]] = <<>>
  \/ \E k \in 1..n : /\ blocks[l[k]] # <<>> /\ v = Last(blocks[l[k]])
                     /\ \A j \in (k + 1)..n : blocks[l[j]] = <<>>

Good(x) == at[x] = "running" /\ Orderly(x) /\ ~Late(x)

(***************************************************************************)
(* The tokens of the blocks a context is in lead from the innermost one,   *)
(* which is active, to the one around them all.                            *)
(***************************************************************************)
NestedIn(x) ==
  /\ open[x] = <<>> => Around(line[x], open, Len(line[x]) - 1, active[x])
  /\ open[x] # <<>> => /\ active[x] = Last(open[x])
                       /\ Around(line[x], open, Len(line[x]) - 1, token[open[x][1]])
  /\ \A k \in 2..Len(open[x]) : token[open[x][k]] = open[x][k - 1]

Nested == \A x \in Ctx : Good(x) => NestedIn(x)

PInv == TypeInv /\ UnusedIsBlank /\ WaitersLive /\ Placed

LEMMA InitPlaced == Init => Placed
<1> SUFFICES ASSUME Init, NEW x \in Ctx, at[x] # "unused"
             PROVE  /\ line[x] # <<>> /\ Last(line[x]) = x
                    /\ Len(line[x]) > 1 => x \in Callback
                    /\ \A k \in DOMAIN line[x] :
                         /\ at[line[x][k]] # "unused"
                         /\ line[line[x][k]] = SubSeq(line[x], 1, k)
  BY DEF Placed
<1>1. line[x] = <<x>>
  BY DEF Init
<1>2. /\ <<x>> # <<>> /\ Len(<<x>>) = 1 /\ <<x>>[1] = x /\ DOMAIN <<x>> = {1}
      /\ SubSeq(<<x>>, 1, 1) = <<x>>
  <2>1. <<x>> \in Seq({x}) /\ Len(<<x>>) = 1 /\ <<x>>[1] = x
    OBVIOUS
  <2>2. DOMAIN <<x>> = {1} /\ <<x>> # <<>>
    BY <2>1, LenProperties, EmptySeq
  <2>3. SubSeq(<<x>>, 1, 1) = <<x>>
    BY <2>1, SubSeqFull
  <2> QED
    BY <2>1, <2>2, <2>3
<1>3. <<x>> # <<>> /\ Last(<<x>>) = x /\ ~(Len(<<x>>) > 1)
  BY <1>2 DEF Last
<1>4. \A k \in DOMAIN <<x>> : k = 1 /\ <<x>>[k] = x /\ SubSeq(<<x>>, 1, k) = <<x>>
  BY <1>2
<1> QED
  BY <1>1, <1>3, <1>4

\* The contexts on the line of a context, and how far their own lines go.
LEMMA OnLine ==
  ASSUME PInv, NEW x \in Ctx, at[x] # "unused"
  PROVE  /\ line[x] \in Seq(Ctx) /\ Len(line[x]) \in Nat \ {0}
         /\ DOMAIN line[x] = 1..Len(line[x])
         /\ line[x][Len(line[x])] = x
         /\ \A k \in 1..Len(line[x]) :
              /\ line[x][k] \in Ctx /\ at[line[x][k]] # "unused"
              /\ line[line[x][k]] = SubSeq(line[x], 1, k) /\ Len(line[line[x][k]]) = k
<1>1. line[x] \in Seq(Ctx) /\ Len(line[x]) \in Nat \ {0} /\ DOMAIN line[x] = 1..Len(line[x])
  BY LenProperties, EmptySeq DEF PInv, TypeInv, TypeOK, Placed
<1>2. line[x][Len(line[x])] = x
  BY DEF PInv, Placed, Last
<1>3. \A k \in 1..Len(line[x]) : line[x][k] \in Ctx
  BY <1>1, ElementOfSeq
<1>4. \A k \in 1..Len(line[x]) : at[line[x][k]] # "unused" /\ line[line[x][k]] = SubSeq(line[x], 1, k)
  BY <1>1 DEF PInv, Placed
<1>5. \A k \in 1..Len(line[x]) : Len(SubSeq(line[x], 1, k)) = k
  <2> SUFFICES ASSUME NEW k \in 1..Len(line[x]) PROVE Len(SubSeq(line[x], 1, k)) = k
    OBVIOUS
  <2>1. \A i \in 1..k : line[x][i] \in Ctx
    BY <1>1, <1>3
  <2> QED
    BY <1>1, <2>1, SubSeqProperties
<1> QED
  BY <1>1, <1>2, <1>3, <1>4, <1>5

LEMMA SubSeqOfAppend ==
  ASSUME NEW S, NEW s \in Seq(S), NEW e \in S
  PROVE  /\ \A k \in 1..Len(s) : SubSeq(Append(s, e), 1, k) = SubSeq(s, 1, k)
         /\ SubSeq(Append(s, e), 1, Len(s) + 1) = Append(s, e)
<1>1. /\ Append(s, e) \in Seq(S) /\ Len(Append(s, e)) = Len(s) + 1 /\ Len(s) \in Nat
      /\ \A i \in 1..Len(s) : Append(s, e)[i] = s[i] /\ s[i] \in S
  BY AppendProperties, LenProperties, ElementOfSeq
<1>2. SubSeq(Append(s, e), 1, Len(s) + 1) = Append(s, e)
  BY <1>1, SubSeqFull
<1>3. ASSUME NEW k \in 1..Len(s)
      PROVE  SubSeq(Append(s, e), 1, k) = SubSeq(s, 1, k)
  <2>1. \A i \in 1..k : Append(s, e)[i] = s[i] /\ s[i] \in S
    BY <1>1
  <2>2. /\ SubSeq(s, 1, k) \in Seq(S) /\ Len(SubSeq(s, 1, k)) = k
        /\ \A i \in 1..k : SubSeq(s, 1, k)[i] = s[i]
    BY <1>1, <2>1, SubSeqProperties
  <2>3. /\ SubSeq(Append(s, e), 1, k) \in Seq(S) /\ Len(SubSeq(Append(s, e), 1, k)) = k
        /\ \A i \in 1..k : SubSeq(Append(s, e), 1, k)[i] = Append(s, e)[i]
    BY <1>1, <2>1, SubSeqProperties
  <2> QED
    BY <2>1, <2>2, <2>3, SeqEqual
<1> QED
  BY <1>2, <1>3

LEMMA StepPlaced ==
  ASSUME PInv, [Next]_vars
  PROVE  Placed'
<1>1. ASSUME NEW x \in Ctx, NEW w \in Callback, Dispatch(x, w)
      PROVE  Placed'
  <2> DEFINE l == line[x]
  <2>0. at[x] # "unused"
    BY <1>1 DEF Dispatch, PInv, WaitersLive, Alive
  <2>1. /\ w \in Ctx /\ at[w] = "unused" /\ x # w
        /\ at'[w] = "running" /\ line'[w] = Append(l, w)
        /\ \A y \in Ctx \ {w} : line'[y] = line[y] /\ at'[y] = at[y]
    BY <1>1, <2>0 DEF Dispatch, PInv, TypeInv, TypeOK, Ctx
  <2>2. /\ l \in Seq(Ctx) /\ Len(l) \in Nat \ {0}
        /\ \A k \in 1..Len(l) : /\ l[k] \in Ctx \ {w} /\ at[l[k]] # "unused"
                                /\ line[l[k]] = SubSeq(l, 1, k)
    BY <2>0, <2>1, OnLine
  <2>3. /\ Append(l, w) \in Seq(Ctx) /\ Len(Append(l, w)) = Len(l) + 1
        /\ DOMAIN Append(l, w) = 1..(Len(l) + 1)
        /\ Append(l, w)[Len(l) + 1] = w
        /\ \A k \in 1..Len(l) : Append(l, w)[k] = l[k]
    BY <2>1, <2>2, AppendProperties, LenProperties
  <2>4. /\ Append(l, w) # <<>> /\ Last(Append(l, w)) = w
    BY <2>2, <2>3, EmptySeq DEF Last
  <2> HIDE DEF l
  <2>5. ASSUME NEW k \in DOMAIN line'[w]
        PROVE  at'[line'[w][k]] # "unused" /\ line'[line'[w][k]] = SubSeq(line'[w], 1, k)
    <3>1. CASE k \in 1..Len(l)
      <4>1. line'[w][k] = l[k] /\ l[k] \in Ctx \ {w} /\ at[l[k]] # "unused"
        BY <2>1, <2>2, <2>3, <3>1
      <4>2. line'[l[k]] = SubSeq(l, 1, k) /\ at'[l[k]] # "unused"
        BY <2>1, <2>2, <3>1, <4>1
      <4>3. SubSeq(Append(l, w), 1, k) = SubSeq(l, 1, k)
        BY <2>1, <2>2, <3>1, SubSeqOfAppend
      <4> QED
        BY <2>1, <4>1, <4>2, <4>3
    <3>2. CASE k = Len(l) + 1
      <4>1. SubSeq(Append(l, w), 1, k) = Append(l, w)
        BY <2>1, <2>2, <3>2, SubSeqOfAppend
      <4> QED
        BY <2>1, <2>3, <3>2, <4>1
    <3> QED
      BY <2>1, <2>2, <2>3, <2>5, <3>1, <3>2
  <2>6. ASSUME NEW y \in Ctx \ {w}, at[y] # "unused", NEW k \in DOMAIN line[y]
        PROVE  at'[line[y][k]] # "unused" /\ line'[line[y][k]] = SubSeq(line[y], 1, k)
    <3>1. /\ line[y][k] \in Ctx /\ at[line[y][k]] # "unused"
          /\ line[line[y][k]] = SubSeq(line[y], 1, k)
      BY <2>6, OnLine
    <3> QED
      BY <2>1, <3>1
  <2>7. ASSUME NEW y \in Ctx, at'[y] # "unused"
        PROVE  /\ line'[y] # <<>> /\ Last(line'[y]) = y
               /\ Len(line'[y]) > 1 => y \in Callback
               /\ \A k \in DOMAIN line'[y] :
                    /\ at'[line'[y][k]] # "unused"
                    /\ line'[line'[y][k]] = SubSeq(line'[y], 1, k)
    <3>1. CASE y = w
      BY <2>1, <2>4, <2>5, <3>1
    <3>2. CASE y # w
      <4>1. line'[y] = line[y] /\ at[y] # "unused"
        BY <2>1, <2>7, <3>2
      <4>2. line[y] # <<>> /\ Last(line[y]) = y /\ (Len(line[y]) > 1 => y \in Callback)
        BY <4>1 DEF PInv, Placed
      <4> QED
        BY <2>6, <3>2, <4>1, <4>2
    <3> QED
      BY <3>1, <3>2
  <2> QED
    BY <2>7 DEF Placed
<1>2. ASSUME UNCHANGED line, \A x \in Ctx : at'[x] = "unused" <=> at[x] = "unused"
      PROVE  Placed'
  <2> SUFFICES ASSUME NEW x \in Ctx, at[x] # "unused"
               PROVE  /\ line[x] # <<>> /\ Last(line[x]) = x
                      /\ Len(line[x]) > 1 => x \in Callback
                      /\ \A k \in DOMAIN line[x] :
                           /\ at'[line[x][k]] # "unused"
                           /\ line[line[x][k]] = SubSeq(line[x], 1, k)
    BY <1>2 DEF Placed
  <2>1. \A k \in DOMAIN line[x] : line[x][k] \in Ctx
    BY OnLine
  <2> QED
    BY <1>2, <2>1 DEF PInv, Placed
<1>3. ASSUME NEW x \in Ctx,
             \/ LogExit(x) \/ DriverCloses(x) \/ DriverFails(x) \/ CleanupInterrupted(x)
             \/ LogExitCode(x) \/ LoggerCloses(x) \/ Note(x) \/ Submit(x) \/ SubmitReturns(x)
             \/ \E r \in Run : Enter(x, r) \/ Leave(x, r) \/ LeaveElsewhere(x, r)
      PROVE  Placed'
  <2>1. UNCHANGED <<line, at>>
    BY <1>3 DEF LogExit, DriverCloses, DriverFails, CleanupInterrupted, LogExitCode,
                LoggerCloses, Note, Submit, SubmitReturns, Enter, Leave, LeaveElsewhere
  <2> QED
    BY <1>2, <2>1
<1>4. ASSUME NEW x \in Ctx, Interrupt(x) \/ (x \in Callback /\ CallbackEnds(x))
      PROVE  Placed'
  <2>1. UNCHANGED line /\ \A y \in Ctx : at'[y] = "unused" <=> at[y] = "unused"
    BY <1>4 DEF Interrupt, CallbackEnds, Free, Alive, DispatchedBy, PInv, TypeInv, TypeOK
  <2> QED
    BY <1>2, <2>1
<1>5. CASE UNCHANGED vars
  BY <1>2, <1>5 DEF vars
<1> QED
  BY <1>1, <1>3, <1>4, <1>5 DEF Next, Finished, Ctx

\* Only a context that runs waits, and while it waits it does nothing else.
LEMMA StepWaiters ==
  ASSUME PInv, [Next]_vars
  PROVE  WaitersLive'
<1> USE DEF PInv, WaitersLive, Alive
<1>1. ASSUME waiting' \subseteq waiting, UNCHANGED at
      PROVE  WaitersLive'
  BY <1>1
<1>2. ASSUME NEW x \in Ctx,
             \/ LogExit(x) \/ DriverCloses(x) \/ DriverFails(x) \/ CleanupInterrupted(x)
             \/ LogExitCode(x) \/ LoggerCloses(x) \/ Note(x) \/ SubmitReturns(x)
             \/ \E r \in Run : Enter(x, r) \/ Leave(x, r) \/ LeaveElsewhere(x, r)
      PROVE  WaitersLive'
  <2>1. waiting' \subseteq waiting /\ UNCHANGED at
    BY <1>2 DEF LogExit, DriverCloses, DriverFails, CleanupInterrupted, LogExitCode,
                LoggerCloses, Note, SubmitReturns, Enter, Leave, LeaveElsewhere
  <2> QED
    BY <1>1, <2>1
<1>3. ASSUME NEW x \in Ctx, Submit(x)
      PROVE  WaitersLive'
  BY <1>3 DEF Submit, Free
<1>4. ASSUME NEW x \in Ctx, Interrupt(x)
      PROVE  WaitersLive'
  BY <1>4 DEF Interrupt, DispatchedBy, TypeInv, TypeOK
<1>5. ASSUME NEW w \in Callback, CallbackEnds(w)
      PROVE  WaitersLive'
  BY <1>5 DEF CallbackEnds, Free, TypeInv, TypeOK
<1>6. ASSUME NEW x \in Ctx, NEW w \in Callback, Dispatch(x, w)
      PROVE  WaitersLive'
  BY <1>6 DEF Dispatch, TypeInv, TypeOK, Ctx
<1>7. CASE UNCHANGED vars
  BY <1>1, <1>7 DEF vars
<1> QED
  BY <1>2, <1>3, <1>4, <1>5, <1>6, <1>7 DEF Next, Finished

\* What a pending context waits for is one of its own batch's callbacks.
LEMMA PendingCalls ==
  ASSUME PInv, Waits, NEW x \in Ctx, NEW k, Pending(x, k)
  PROVE  /\ line[x][k] \in Ctx /\ line[x][k] \in waiting
         /\ line[x][k + 1] \in DispatchedBy(line[x][k])
<1>1. at[x] # "unused" /\ at[x] = "running"
  BY DEF Pending
<1>2. /\ line[x] \in Seq(Ctx) /\ Len(line[x]) \in Nat \ {0} /\ DOMAIN line[x] = 1..Len(line[x])
      /\ line[x][Len(line[x])] = x /\ k \in 1..Len(line[x]) /\ k + 1 \in 1..Len(line[x])
  BY <1>1, OnLine DEF Pending
<1>3. /\ line[x][k] \in waiting /\ line[x][k] \in Ctx
      /\ line[line[x][k]] = SubSeq(line[x], 1, k)
  BY <1>1, <1>2, OnLine DEF Waits
<1> DEFINE c == line[x][k + 1]
<1>4. /\ c \in Ctx /\ at[c] # "unused" /\ at[c] # "stray"
      /\ line[c] = SubSeq(line[x], 1, k + 1) /\ Len(line[c]) = k + 1
  BY <1>1, <1>2, OnLine DEF Pending
<1>5. at[c] = "running"
  <2>1. CASE k + 1 = Len(line[x])
    BY <1>1, <1>2, <2>1
  <2>2. CASE k + 1 \in 1..(Len(line[x]) - 1)
    <3>1. Pending(x, k + 1)
      BY <1>2, <2>2 DEF Pending
    <3>2. c \in waiting
      BY <1>2, <3>1 DEF Waits
    <3> QED
      BY <1>4, <3>2 DEF PInv, WaitersLive, Alive
  <2> QED
    BY <1>2, <2>1, <2>2
<1>6. c \in Callback
  <2>1. Len(line[c]) > 1
    BY <1>2, <1>4
  <2> QED
    BY <1>4, <2>1 DEF PInv, Placed
<1>7. line[c] = Append(line[line[x][k]], c)
  <2>1. /\ SubSeq(line[x], 1, k) \in Seq(Ctx) /\ Len(SubSeq(line[x], 1, k)) = k
        /\ \A i \in 1..k : SubSeq(line[x], 1, k)[i] = line[x][i]
    BY <1>2, ElementOfSeq, SubSeqProperties
  <2>2. /\ SubSeq(line[x], 1, k + 1) \in Seq(Ctx) /\ Len(SubSeq(line[x], 1, k + 1)) = k + 1
        /\ \A i \in 1..(k + 1) : SubSeq(line[x], 1, k + 1)[i] = line[x][i]
    BY <1>2, ElementOfSeq, SubSeqProperties
  <2>3. /\ Append(SubSeq(line[x], 1, k), c) \in Seq(Ctx)
        /\ Len(Append(SubSeq(line[x], 1, k), c)) = k + 1
        /\ \A i \in 1..k : Append(SubSeq(line[x], 1, k), c)[i] = line[x][i]
        /\ Append(SubSeq(line[x], 1, k), c)[k + 1] = c
    BY <1>4, <2>1, AppendProperties
  <2>4. \A i \in 1..(k + 1) :
           SubSeq(line[x], 1, k + 1)[i] = Append(SubSeq(line[x], 1, k), c)[i]
    BY <1>2, <2>2, <2>3
  <2>5. SubSeq(line[x], 1, k + 1) = Append(SubSeq(line[x], 1, k), c)
    BY <2>2, <2>3, <2>4, SeqEqual
  <2> QED
    BY <1>3, <1>4, <2>5
<1> QED
  BY <1>3, <1>5, <1>6, <1>7 DEF DispatchedBy

\* While a batch runs its callbacks keep what they come from waiting.
LEMMA StepWaits ==
  ASSUME PInv, Waits, [Next]_vars
  PROVE  Waits'
<1> USE DEF PInv, TypeInv
<1>1. ASSUME waiting \subseteq waiting', UNCHANGED <<line, at>>
      PROVE  Waits'
  BY <1>1 DEF Waits, Pending
<1>2. ASSUME NEW x \in Ctx,
             \/ LogExit(x) \/ DriverCloses(x) \/ DriverFails(x) \/ CleanupInterrupted(x)
             \/ LogExitCode(x) \/ LoggerCloses(x) \/ Note(x) \/ Submit(x)
             \/ \E r \in Run : Enter(x, r) \/ Leave(x, r) \/ LeaveElsewhere(x, r)
      PROVE  Waits'
  <2>1. waiting \subseteq waiting' /\ UNCHANGED <<line, at>>
    BY <1>2 DEF LogExit, DriverCloses, DriverFails, CleanupInterrupted, LogExitCode,
                LoggerCloses, Note, Submit, Enter, Leave, LeaveElsewhere
  <2> QED
    BY <1>1, <2>1
<1>3. ASSUME NEW p \in Ctx, SubmitReturns(p)
      PROVE  Waits'
  <2> SUFFICES ASSUME NEW x \in Ctx, NEW k \in DOMAIN line[x], Pending(x, k)
               PROVE  line[x][k] \in waiting'
    BY <1>3 DEF SubmitReturns, Waits, Pending
  <2> QED
    BY <1>3, PendingCalls DEF SubmitReturns
<1>4. ASSUME NEW p \in Ctx, Interrupt(p)
      PROVE  Waits'
  <2> SUFFICES ASSUME NEW x \in Ctx, NEW k \in DOMAIN line[x], Pending(x, k)'
               PROVE  line[x][k] \in waiting'
    BY <1>4 DEF Interrupt, Waits
  <2>1. /\ waiting' = waiting \ {p} /\ line' = line
        /\ \A y \in Ctx : at'[y] = IF y \in DispatchedBy(p) THEN "stray" ELSE at[y]
    BY <1>4 DEF Interrupt
  <2>2. at'[x] = "running" /\ at[x] = "running"
    BY <2>1 DEF Pending
  <2>3. /\ Len(line[x]) \in Nat /\ k \in 1..(Len(line[x]) - 1)
        /\ \A j \in 1..Len(line[x]) : line[x][j] \in Ctx
    BY <2>1, <2>2, OnLine DEF Pending
  <2>4. Pending(x, k)
    BY <2>1, <2>2, <2>3 DEF Pending
  <2>5. line[x][k] \in waiting /\ line[x][k + 1] \in DispatchedBy(line[x][k])
    BY <2>4, PendingCalls
  <2>6. line[x][k + 1] \in Ctx /\ at'[line[x][k + 1]] # "stray"
    BY <2>1, <2>3 DEF Pending
  <2> QED
    BY <2>1, <2>5, <2>6
<1>5. ASSUME NEW w \in Callback, CallbackEnds(w)
      PROVE  Waits'
  <2> SUFFICES ASSUME NEW x \in Ctx, NEW k \in DOMAIN line[x], Pending(x, k)'
               PROVE  line[x][k] \in waiting
    BY <1>5 DEF CallbackEnds, Waits
  <2>1. /\ line' = line /\ w \in Ctx /\ w \notin waiting /\ at'[w] = "done"
        /\ \A y \in Ctx \ {w} : at'[y] = at[y]
    BY <1>5 DEF CallbackEnds, Free, Ctx, TypeOK
  <2>2. at'[x] = "running" /\ at[x] = "running" /\ x # w
    BY <2>1 DEF Pending
  <2>3. /\ Len(line[x]) \in Nat \ {0} /\ k \in 1..(Len(line[x]) - 1)
        /\ DOMAIN line[x] = 1..Len(line[x]) /\ line[x][Len(line[x])] = x
        /\ \A j \in 1..Len(line[x]) : line[x][j] \in Ctx /\ Len(line[line[x][j]]) = j
    BY <2>1, <2>2, OnLine DEF Pending
  <2>4. ASSUME NEW j \in (k + 1)..Len(line[x]), at[line[x][j]] = "stray"
        PROVE  FALSE
    <3>1. line[x][j] = w /\ j \in 1..(Len(line[x]) - 1) /\ j > k
      BY <2>1, <2>2, <2>3, <2>4 DEF Pending
    <3>2. \A i \in (j + 1)..Len(line[x]) : line[x][i] # w
      BY <2>3, <3>1
    <3>3. \A i \in (j + 1)..Len(line[x]) : at[line[x][i]] # "stray"
      BY <2>1, <2>3, <3>1, <3>2 DEF Pending
    <3>4. Pending(x, j)
      BY <2>2, <3>1, <3>3 DEF Pending
    <3> QED
      BY <2>1, <2>3, <3>1, <3>4 DEF Waits
  <2>5. Pending(x, k)
    BY <2>2, <2>3, <2>4 DEF Pending
  <2> QED
    BY <2>5 DEF Waits
<1>6. ASSUME NEW p \in Ctx, NEW w \in Callback, Dispatch(p, w)
      PROVE  Waits'
  <2>1. /\ w \in Ctx /\ at[w] = "unused" /\ at'[w] = "running" /\ line'[w] = Append(line[p], w)
        /\ waiting' = waiting /\ p \in waiting /\ Alive(p) /\ at[p] # "unused" /\ p # w
        /\ \A y \in Ctx \ {w} : at'[y] = at[y] /\ line'[y] = line[y]
    BY <1>6 DEF Dispatch, WaitersLive, Alive, Ctx, TypeOK
  <2>2. ASSUME NEW x \in Ctx, at[x] # "unused"
        PROVE  /\ line[x] \in Seq(Ctx) /\ Len(line[x]) \in Nat \ {0}
               /\ DOMAIN line[x] = 1..Len(line[x]) /\ line[x][Len(line[x])] = x
               /\ \A j \in 1..Len(line[x]) : /\ line[x][j] \in Ctx \ {w}
                                           /\ at'[line[x][j]] = at[line[x][j]]
    BY <2>1, <2>2, OnLine
  <2>3. ASSUME NEW x \in Ctx \ {w}, NEW k \in DOMAIN line[x], Pending(x, k)'
        PROVE  line[x][k] \in waiting
    <3>1. at[x] = "running" /\ line'[x] = line[x]
      BY <2>1, <2>3 DEF Pending
    <3>2. Pending(x, k)
      BY <2>2, <2>3, <3>1 DEF Pending
    <3> QED
      BY <2>3, <3>2 DEF Waits
  <2>4. ASSUME NEW k \in DOMAIN line'[w], Pending(w, k)'
        PROVE  line'[w][k] \in waiting
    <3>1. /\ Len(line'[w]) = Len(line[p]) + 1 /\ k \in 1..Len(line[p])
          /\ \A j \in 1..Len(line[p]) : line'[w][j] = line[p][j]
          /\ Len(line[p]) \in Nat \ {0} /\ line[p][Len(line[p])] = p
      BY <2>1, <2>2, <2>4, AppendProperties DEF Pending
    <3>2. CASE k = Len(line[p])
      BY <2>1, <3>1, <3>2
    <3>3. CASE k \in 1..(Len(line[p]) - 1)
      <4>1. \A j \in (k + 1)..Len(line[p]) : at[line[p][j]] # "stray"
        <5> SUFFICES ASSUME NEW j \in (k + 1)..Len(line[p])
                     PROVE  at[line[p][j]] # "stray"
          OBVIOUS
        <5>1. j \in 1..Len(line[p]) /\ j \in (k + 1)..Len(line'[w])
          BY <3>1, <3>3
        <5>2. at'[line'[w][j]] # "stray" /\ line'[w][j] = line[p][j]
          BY <2>4, <3>1, <5>1 DEF Pending
        <5> QED
          BY <2>1, <2>2, <5>1, <5>2
      <4>2. at[p] = "running"
        <5>1. Len(line[p]) \in (k + 1)..Len(line[p])
          BY <3>1, <3>3
        <5>2. at[p] # "stray"
          BY <3>1, <4>1, <5>1
        <5> QED
          BY <2>1, <5>2 DEF Alive
      <4>3. Pending(p, k)
        BY <3>3, <4>1, <4>2 DEF Pending
      <4> QED
        BY <2>1, <2>2, <3>1, <4>3 DEF Waits
    <3> QED
      BY <3>1, <3>2, <3>3
  <2> QED
    BY <2>1, <2>3, <2>4 DEF Waits
<1>7. CASE UNCHANGED vars
  BY <1>1, <1>7 DEF vars
<1> QED
  BY <1>2, <1>3, <1>4, <1>5, <1>6, <1>7 DEF Next, Finished

-----------------------------------------------------------------------------
\* Whoever is not late and runs was called by contexts that all wait.
LEMMA CallersWait ==
  ASSUME PInv, Waits, NEW x \in Ctx, at[x] = "running", ~Late(x)
  PROVE  /\ line[x] \in Seq(Ctx) /\ Len(line[x]) \in Nat \ {0}
         /\ DOMAIN line[x] = 1..Len(line[x]) /\ line[x][Len(line[x])] = x
         /\ \A k \in 1..(Len(line[x]) - 1) : line[x][k] \in Ctx /\ line[x][k] \in waiting
<1>1. at[x] # "unused"
  OBVIOUS
<1>2. /\ line[x] \in Seq(Ctx) /\ Len(line[x]) \in Nat \ {0}
      /\ DOMAIN line[x] = 1..Len(line[x]) /\ line[x][Len(line[x])] = x
      /\ \A k \in 1..Len(line[x]) : line[x][k] \in Ctx
  BY <1>1, OnLine
<1>3. \A k \in 1..Len(line[x]) : at[line[x][k]] # "stray"
  BY <1>1, <1>2 DEF Late, SetOf
<1>4. \A k \in 1..(Len(line[x]) - 1) : Pending(x, k)
  BY <1>1, <1>2, <1>3 DEF Pending
<1> QED
  BY <1>2, <1>4 DEF Waits

LEMMA GoodAreAwaited ==
  ASSUME PInv, Waits, NEW x \in Ctx, Good(x)
  PROVE  /\ line[x] \in Seq(Ctx) /\ Len(line[x]) \in Nat \ {0}
         /\ DOMAIN line[x] = 1..Len(line[x]) /\ line[x][Len(line[x])] = x
         /\ \A k \in 1..(Len(line[x]) - 1) : line[x][k] \in Ctx /\ line[x][k] \in waiting
BY CallersWait DEF Good

LEMMA AroundSame ==
  ASSUME NEW l, NEW o1, NEW o2, NEW n \in Int, NEW v, Around(l, o1, n, v),
         \A k \in 1..n : o2[l[k]] = o1[l[k]]
  PROVE  Around(l, o2, n, v)
<1>1. CASE v = None /\ \A k \in 1..n : o1[l[k]] = <<>>
  BY <1>1 DEF Around
<1>2. ASSUME NEW k \in 1..n, o1[l[k]] # <<>>, v = Last(o1[l[k]]),
             \A j \in (k + 1)..n : o1[l[j]] = <<>>
      PROVE  Around(l, o2, n, v)
  <2>1. \A j \in (k + 1)..n : j \in 1..n
    OBVIOUS
  <2>2. o2[l[k]] # <<>> /\ v = Last(o2[l[k]]) /\ \A j \in (k + 1)..n : o2[l[j]] = <<>>
    BY <1>2, <2>1
  <2> QED
    BY <2>2 DEF Around
<1> QED
  BY <1>1, <1>2 DEF Around

LEMMA AroundSameLine ==
  ASSUME NEW l1, NEW l2, NEW o, NEW n \in Int, NEW v, Around(l1, o, n, v),
         \A k \in 1..n : l2[k] = l1[k]
  PROVE  Around(l2, o, n, v)
<1>1. CASE v = None /\ \A k \in 1..n : o[l1[k]] = <<>>
  BY <1>1 DEF Around
<1>2. ASSUME NEW k \in 1..n, o[l1[k]] # <<>>, v = Last(o[l1[k]]),
             \A j \in (k + 1)..n : o[l1[j]] = <<>>
      PROVE  Around(l2, o, n, v)
  <2>1. \A j \in (k + 1)..n : j \in 1..n
    OBVIOUS
  <2>2. o[l2[k]] # <<>> /\ v = Last(o[l2[k]]) /\ \A j \in (k + 1)..n : o[l2[j]] = <<>>
    BY <1>2, <2>1
  <2> QED
    BY <2>2 DEF Around
<1> QED
  BY <1>1, <1>2 DEF Around

\* One context more: its own innermost block, or what was around it.
LEMMA AroundNext ==
  ASSUME NEW l, NEW o, NEW n \in Nat, NEW v,
         \/ o[l[n + 1]] # <<>> /\ v = Last(o[l[n + 1]])
         \/ o[l[n + 1]] = <<>> /\ Around(l, o, n, v)
  PROVE  Around(l, o, n + 1, v)
<1>1. CASE o[l[n + 1]] # <<>> /\ v = Last(o[l[n + 1]])
  <2>1. n + 1 \in 1..(n + 1) /\ \A j \in ((n + 1) + 1)..(n + 1) : FALSE
    OBVIOUS
  <2> QED
    BY <1>1, <2>1 DEF Around
<1>2. ASSUME o[l[n + 1]] = <<>>, v = None, \A k \in 1..n : o[l[k]] = <<>>
      PROVE  Around(l, o, n + 1, v)
  <2>1. \A k \in 1..(n + 1) : o[l[k]] = <<>>
    BY <1>2
  <2> QED
    BY <1>2, <2>1 DEF Around
<1>3. ASSUME o[l[n + 1]] = <<>>, NEW k \in 1..n, o[l[k]] # <<>>, v = Last(o[l[k]]),
             \A j \in (k + 1)..n : o[l[j]] = <<>>
      PROVE  Around(l, o, n + 1, v)
  <2>1. k \in 1..(n + 1) /\ \A j \in (k + 1)..(n + 1) : o[l[j]] = <<>>
    BY <1>3
  <2> QED
    BY <1>3, <2>1 DEF Around
<1> QED
  BY <1>1, <1>2, <1>3 DEF Around

\* What Around says is what Innermost picks.
LEMMA AroundIsInnermost ==
  ASSUME NEW x, DOMAIN line[x] = 1..Len(line[x]), Len(line[x]) \in Nat, NEW v,
         Around(line[x], open, Len(line[x]), v)
  PROVE  Innermost(x) = v
<1> DEFINE l == line[x]
           within == { k \in DOMAIN l : open[l[k]] # <<>> }
           top == CHOOSE k \in within : \A j \in within : j <= k
<1>1. CASE v = None /\ \A k \in 1..Len(l) : open[l[k]] = <<>>
  <2>1. within = {}
    BY <1>1
  <2> QED
    BY <1>1, <2>1 DEF Innermost
<1>2. ASSUME NEW k \in 1..Len(l), open[l[k]] # <<>>, v = Last(open[l[k]]),
             \A j \in (k + 1)..Len(l) : open[l[j]] = <<>>
      PROVE  Innermost(x) = v
  <2>1. k \in within /\ \A j \in within : j \in 1..Len(l) /\ j <= k
    BY <1>2
  <2>2. \A i \in within : (\A j \in within : j <= i) => i = k
    BY <1>2, <2>1
  <2>3. top = k
    BY <2>1, <2>2
  <2>4. within # {}
    BY <2>1
  <2>5. Innermost(x) = Last(open[l[top]])
    BY <2>4 DEF Innermost
  <2> QED
    BY <1>2, <2>3, <2>5
<1> QED
  BY <1>1, <1>2 DEF Around

\* Taking the last of a sequence without repetition leaves the rest as it is.
LEMMA WithoutLast ==
  ASSUME NEW s \in Seq(Run), s # <<>>,
         \A i, j \in DOMAIN s : s[i] = s[j] => i = j
  PROVE  /\ Len(s) \in Nat \ {0} /\ Len(Without(s, Last(s))) = Len(s) - 1
         /\ \A i \in 1..(Len(s) - 1) : Without(s, Last(s))[i] = s[i]
<1>1. /\ Len(s) \in Nat \ {0} /\ DOMAIN s = 1..Len(s) /\ Last(s) \in SetOf(s)
      /\ Last(s) = s[Len(s)] /\ Len(s) \in DOMAIN s
  BY EmptySeq, LenProperties DEF Last, SetOf
<1>2. Len(Without(s, Last(s))) = Len(s) - 1
  BY <1>1, WithoutType
<1> DEFINE t == Without(s, Last(s))
<1>3. PICK k \in DOMAIN s :
        s[k] = Last(s) /\ \A i \in 1..(Len(s) - 1) : t[i] = IF i < k THEN s[i] ELSE s[i + 1]
  BY <1>1, WithoutType
<1>4. k = Len(s)
  BY <1>1, <1>3
<1> HIDE DEF t
<1>5. \A i \in 1..(Len(s) - 1) : t[i] = s[i]
  BY <1>1, <1>3, <1>4
<1> QED
  BY <1>1, <1>2, <1>5 DEF t

\* A step that leaves the blocks of a context and of those it comes from alone.
LEMMA NestedStays ==
  ASSUME PInv, Waits, Nested, NEW x \in Ctx, Good(x),
         line'[x] = line[x], active'[x] = active[x], open'[x] = open[x],
         \A k \in 1..(Len(line[x]) - 1) : open'[line[x][k]] = open[line[x][k]],
         \A k \in DOMAIN open[x] : token'[open[x][k]] = token[open[x][k]]
  PROVE  NestedIn(x)'
<1>0. Len(line[x]) - 1 \in Int
  BY GoodAreAwaited
<1>1. NestedIn(x)
  BY Zenon DEF Nested
<1>2. Len(open[x]) \in Nat /\ DOMAIN open[x] = 1..Len(open[x]) /\ (open[x] # <<>> => 1 \in DOMAIN open[x])
  <2>1. open[x] \in Seq(Run)
    BY DEF PInv, TypeInv, TypeOK
  <2>2. Len(open[x]) \in Nat /\ DOMAIN open[x] = 1..Len(open[x])
    BY <2>1, LenProperties
  <2>3. open[x] # <<>> => Len(open[x]) \in Nat \ {0}
    BY <2>1, EmptySeq
  <2> QED
    BY <2>2, <2>3
<1>3. open[x] = <<>> => Around(line[x], open', Len(line[x]) - 1, active[x])
  BY <1>0, <1>1, AroundSame DEF NestedIn
<1>4. open[x] # <<>> => Around(line[x], open', Len(line[x]) - 1, token[open[x][1]])
  BY <1>0, <1>1, AroundSame DEF NestedIn
<1>5. \A k \in 2..Len(open[x]) : token'[open[x][k]] = open[x][k - 1]
  BY <1>1, <1>2 DEF NestedIn
<1> QED
  BY <1>1, <1>2, <1>3, <1>4, <1>5 DEF NestedIn

\* A context that was good before every step but its own dispatch.
LEMMA GoodBefore ==
  ASSUME PInv, NEW x \in Ctx, at[x] # "unused", line'[x] = line[x], Good(x)',
         \A y \in Ctx : /\ at'[y] = "running" => at[y] \in {"running", "unused"}
                        /\ at[y] = "stray" => at'[y] = "stray" \/ y \notin SetOf(line[x])
                        /\ orderly'[y] => orderly[y]
  PROVE  Good(x)
<1>1. \A y \in SetOf(line[x]) : y \in Ctx
  BY OnLine DEF SetOf
<1> QED
  BY <1>1 DEF Good, Late, Orderly

\* No step but those on its own blocks disturbs how a context is nested.
LEMMA StepNested ==
  ASSUME PInv, Waits, Nested, [Next]_vars
  PROVE  Nested'
<1> USE DEF PInv, TypeInv
<1>1. ASSUME UNCHANGED <<active, open, line, token>>, \A x \in Ctx : Good(x)' => Good(x)
      PROVE  Nested'
  BY <1>1, NestedStays DEF Nested
<1>2. ASSUME NEW x \in Ctx,
             \/ LogExit(x) \/ DriverCloses(x) \/ DriverFails(x) \/ CleanupInterrupted(x)
             \/ LogExitCode(x) \/ LoggerCloses(x) \/ Note(x) \/ Submit(x) \/ SubmitReturns(x)
      PROVE  Nested'
  <2>1. UNCHANGED <<active, open, line, token, at, orderly>>
    BY <1>2 DEF LogExit, DriverCloses, DriverFails, CleanupInterrupted, LogExitCode,
                LoggerCloses, Note, Submit, SubmitReturns
  <2>2. \A y \in Ctx : Good(y)' => Good(y)
    BY <2>1 DEF Good, Late, Orderly
  <2> QED
    BY <1>1, <2>1, <2>2
<1>3. ASSUME NEW p \in Ctx, Interrupt(p)
      PROVE  Nested'
  <2>1. /\ UNCHANGED <<active, open, line, token, orderly>>
        /\ \A y \in Ctx : at'[y] = IF y \in DispatchedBy(p) THEN "stray" ELSE at[y]
    BY <1>3 DEF Interrupt
  <2>2. \A y \in Ctx : Good(y)' => at[y] # "unused"
    BY <2>1 DEF Good
  <2>3. \A y \in Ctx : Good(y)' => Good(y)
    BY <2>1, <2>2, GoodBefore
  <2> QED
    BY <1>1, <2>1, <2>3
<1>4. ASSUME NEW w \in Callback, CallbackEnds(w)
      PROVE  Nested'
  <2>1. /\ UNCHANGED <<active, open, line, token, orderly>> /\ w \notin waiting /\ w \in Ctx
        /\ at'[w] = "done" /\ \A y \in Ctx \ {w} : at'[y] = at[y]
    BY <1>4 DEF CallbackEnds, Free, Ctx, TypeOK
  <2>2. ASSUME NEW x \in Ctx, Good(x)', w \in SetOf(line[x]), at[w] = "stray"
        PROVE  FALSE
    <3>1. /\ at[x] = "running" /\ at[x] # "unused"
          /\ \A y \in SetOf(line[x]) : y # w => at'[y] # "stray"
      BY <2>1, <2>2 DEF Good, Late
    <3>2. /\ Len(line[x]) \in Nat \ {0} /\ DOMAIN line[x] = 1..Len(line[x])
          /\ line[x][Len(line[x])] = x
          /\ \A k \in 1..Len(line[x]) : line[x][k] \in Ctx /\ Len(line[line[x][k]]) = k
      BY <3>1, OnLine
    <3>3. PICK k \in 1..Len(line[x]) : line[x][k] = w
      BY <2>2, <3>2 DEF SetOf
    <3>4. k \in 1..(Len(line[x]) - 1)
      BY <2>2, <3>1, <3>2, <3>3
    <3>5. \A j \in (k + 1)..Len(line[x]) : j \in 1..Len(line[x]) /\ line[x][j] # w
      BY <3>2, <3>3
    <3>6. \A j \in (k + 1)..Len(line[x]) : at[line[x][j]] # "stray"
      BY <2>1, <3>1, <3>2, <3>5 DEF SetOf
    <3>7. Pending(x, k)
      BY <3>1, <3>4, <3>6 DEF Pending
    <3> QED
      BY <2>1, <3>2, <3>3, <3>7 DEF Waits
  <2>3. \A y \in Ctx : Good(y)' => at[y] # "unused"
    BY <2>1 DEF Good
  <2>4. \A y \in Ctx : Good(y)' => Good(y)
    BY <2>1, <2>2, <2>3, GoodBefore
  <2> QED
    BY <1>1, <2>1, <2>4
<1>5. CASE UNCHANGED vars
  <2>1. UNCHANGED <<active, open, line, token, at, orderly>>
    BY <1>5 DEF vars
  <2>2. \A y \in Ctx : Good(y)' => Good(y)
    BY <2>1 DEF Good, Late, Orderly
  <2> QED
    BY <1>1, <2>1, <2>2
<1>6. \A x \in Ctx : /\ open[x] \in Seq(Run) /\ Len(open[x]) \in Nat
                     /\ DOMAIN open[x] = 1..Len(open[x])
                     /\ open[x] # <<>> <=> Len(open[x]) \in Nat \ {0}
  BY LenProperties, EmptySeq DEF TypeOK
<1>7. ASSUME NEW x \in Ctx, NEW r \in Run, Enter(x, r)
      PROVE  Nested'
  <2>1. /\ UNCHANGED <<line, at, orderly>> /\ x \notin waiting
        /\ active'[x] = r /\ token'[r] = active[x] /\ open'[x] = Append(open[x], r)
        /\ \A y \in Ctx \ {x} : active'[y] = active[y] /\ open'[y] = open[y]
        /\ \A q \in Run \ {r} : token'[q] = token[q]
    BY <1>7 DEF Enter, Activated, Free, TypeOK
  <2>2. \A y \in Ctx : \A k \in DOMAIN open[y] :
          open[y][k] # r /\ token'[open[y][k]] = token[open[y][k]]
    <3>1. \A y \in Ctx : \A k \in DOMAIN open[y] : open[y][k] # r /\ open[y][k] \in Run
      BY <1>6, <1>7, ElementOfSeq DEF Enter, Opened
    <3> QED
      BY <2>1, <3>1
  <2>3. \A y \in Ctx : Good(y)' => Good(y)
    BY <2>1 DEF Good, Late, Orderly
  <2>4. ASSUME NEW y \in Ctx, Good(y)
        PROVE  \A k \in 1..(Len(line[y]) - 1) : open'[line[y][k]] = open[line[y][k]]
    BY <2>1, <2>4, GoodAreAwaited
  <2>5. ASSUME NEW y \in Ctx \ {x}, Good(y)
        PROVE  NestedIn(y)'
    BY <2>1, <2>2, <2>4, <2>5, NestedStays
  <2>6. ASSUME Good(x)
        PROVE  NestedIn(x)'
    <3>1. NestedIn(x) /\ Len(line[x]) - 1 \in Int
      <4>1. NestedIn(x)
        BY <2>6, Zenon DEF Nested
      <4>2. Len(line[x]) - 1 \in Int
        BY <2>6, GoodAreAwaited
      <4> QED
        BY <4>1, <4>2
    <3> DEFINE n == Len(open[x])
               a == Append(open[x], r)
    <3>2. /\ n \in Nat /\ DOMAIN a = 1..(n + 1) /\ Len(a) = n + 1
          /\ a # <<>> /\ Last(a) = r /\ a[n + 1] = r
          /\ \A k \in 1..n : a[k] = open[x][k] /\ token'[a[k]] = token[open[x][k]]
      BY <1>6, <2>2, AppendProperties, LenProperties, EmptySeq DEF Last
    <3>3. \A k \in 2..n : token'[a[k]] = a[k - 1]
      BY <3>1, <3>2 DEF NestedIn
    <3> HIDE DEF a
    <3>4. CASE open[x] = <<>>
      <4>1. n = 0
        BY <3>4
      <4>2. Around(line[x], open', Len(line[x]) - 1, token'[a[1]])
        BY <2>1, <2>4, <2>6, <3>1, <3>2, <3>4, <4>1, AroundSame DEF NestedIn
      <4> QED
        BY <2>1, <3>2, <4>1, <4>2 DEF NestedIn, a
    <3>5. CASE open[x] # <<>>
      <4>1. n \in Nat \ {0} /\ 1 \in 1..n
        BY <1>6, <3>5
      <4>2. Around(line[x], open', Len(line[x]) - 1, token'[a[1]])
        BY <2>4, <2>6, <3>1, <3>2, <3>5, <4>1, AroundSame DEF NestedIn
      <4>3. token'[a[n + 1]] = a[n]
        BY <2>1, <3>1, <3>2, <3>5, <4>1 DEF NestedIn, Last
      <4>4. \A k \in 2..(n + 1) : token'[a[k]] = a[k - 1]
        <5> SUFFICES ASSUME NEW k \in 2..(n + 1) PROVE token'[a[k]] = a[k - 1]
          OBVIOUS
        <5>1. CASE k \in 2..n
          BY <3>3, <5>1
        <5>2. CASE k = n + 1
          BY <3>2, <4>3, <5>2
        <5> QED
          BY <3>2, <5>1, <5>2
      <4> QED
        BY <2>1, <3>2, <4>2, <4>4 DEF NestedIn, a
    <3> QED
      BY <3>4, <3>5
  <2> QED
    BY <2>3, <2>5, <2>6 DEF Nested
<1>8. ASSUME NEW x \in Ctx, NEW r \in Run, LeaveElsewhere(x, r)
      PROVE  Nested'
  <2>1. owner[r] \in Ctx
    BY <1>8 DEF LeaveElsewhere, Opened
  <2>2. /\ UNCHANGED <<active, line, at, token>>
        /\ orderly'[owner[r]] = FALSE
        /\ \A y \in Ctx \ {owner[r]} : open'[y] = open[y] /\ orderly'[y] = orderly[y]
    BY <1>8, <2>1 DEF LeaveElsewhere, TypeOK
  <2>3. ASSUME NEW y \in Ctx, Good(y)'
        PROVE  Good(y) /\ owner[r] \notin SetOf(line[y])
    <3>1. at[y] # "unused" /\ at[y] = "running" /\ owner[r] \notin SetOf(line[y])
      BY <2>2, <2>3 DEF Good, Orderly
    <3>2. \A z \in SetOf(line[y]) : z \in Ctx
      BY <3>1, OnLine DEF SetOf
    <3> QED
      BY <2>2, <2>3, <3>1, <3>2 DEF Good, Late, Orderly
  <2>4. ASSUME NEW y \in Ctx, Good(y)'
        PROVE  NestedIn(y)'
    <3>1. Good(y) /\ owner[r] \notin SetOf(line[y])
      BY <2>3, <2>4
    <3>2. /\ DOMAIN line[y] = 1..Len(line[y]) /\ Len(line[y]) \in Nat \ {0}
          /\ line[y][Len(line[y])] = y
          /\ \A k \in 1..(Len(line[y]) - 1) : line[y][k] \in Ctx
      BY <3>1, GoodAreAwaited
    <3>3. \A k \in 1..Len(line[y]) : line[y][k] # owner[r]
      BY <3>1, <3>2 DEF SetOf
    <3>4. y # owner[r] /\ open'[y] = open[y]
      BY <2>2, <3>2, <3>3
    <3>5. \A k \in 1..(Len(line[y]) - 1) : open'[line[y][k]] = open[line[y][k]]
      BY <2>2, <3>2, <3>3
    <3> QED
      BY <2>2, <3>1, <3>4, <3>5, NestedStays
  <2> QED
    BY <2>4 DEF Nested
<1>9. ASSUME NEW x \in Ctx, NEW r \in Run, Leave(x, r)
      PROVE  Nested'
  <2>1. /\ UNCHANGED <<line, at, token>> /\ x \notin waiting /\ r \in SetOf(open[x])
        /\ active'[x] = token[r] /\ open'[x] = Without(open[x], r)
        /\ orderly'[x] = (orderly[x] /\ r = Last(open[x]))
        /\ \A y \in Ctx \ {x} : /\ active'[y] = active[y] /\ open'[y] = open[y]
                                /\ orderly'[y] = orderly[y]
    BY <1>9 DEF Leave, Restored, Free, TypeOK
  <2>2. ASSUME NEW y \in Ctx, Good(y)'
        PROVE  Good(y)
    <3>1. at[y] # "unused"
      BY <2>1, <2>2 DEF Good
    <3>2. \A z \in Ctx : orderly'[z] => orderly[z]
      BY <2>1 DEF TypeOK
    <3> QED
      BY <2>1, <2>2, <3>1, <3>2, GoodBefore
  <2>3. ASSUME NEW y \in Ctx, Good(y)
        PROVE  \A k \in 1..(Len(line[y]) - 1) : open'[line[y][k]] = open[line[y][k]]
    BY <2>1, <2>3, GoodAreAwaited
  <2>4. ASSUME NEW y \in Ctx \ {x}, Good(y)
        PROVE  NestedIn(y)'
    BY <2>1, <2>3, <2>4, NestedStays
  <2>5. ASSUME Good(x), Good(x)'
        PROVE  NestedIn(x)'
    <3>1. NestedIn(x)
      BY <2>5, Zenon DEF Nested
    <3>2. Len(line[x]) - 1 \in Int /\ x \in SetOf(line[x])
      BY <2>5, GoodAreAwaited DEF SetOf
    <3>3. r = Last(open[x])
      BY <2>1, <2>5, <3>2 DEF Good, Orderly
    <3>4. open[x] # <<>> /\ \A i, j \in DOMAIN open[x] : open[x][i] = open[x][j] => i = j
      BY <1>6, <2>1 DEF Opened, SetOf
    <3> DEFINE n == Len(open[x])
               w == Without(open[x], r)
    <3>5. n \in Nat \ {0} /\ Len(w) = n - 1 /\ \A k \in 1..(n - 1) : w[k] = open[x][k]
      BY <1>6, <3>3, <3>4, WithoutLast
    <3>6. w \in Seq(Run) /\ (w # <<>> <=> Len(w) \in Nat \ {0})
      BY <1>6, <2>1, WithoutType, EmptySeq
    <3> HIDE DEF w
    <3>7. CASE n = 1
      <4>1. r = open[x][1] /\ w = <<>> /\ Len(w) = 0
        BY <3>3, <3>5, <3>6, <3>7 DEF Last
      <4>2. Around(line[x], open', Len(line[x]) - 1, token[r])
        BY <2>3, <2>5, <3>1, <3>2, <3>4, <4>1, AroundSame DEF NestedIn
      <4> QED
        BY <2>1, <4>1, <4>2 DEF NestedIn, w
    <3>8. CASE n > 1
      <4>1. w # <<>> /\ w[1] = open[x][1]
        BY <3>5, <3>6, <3>8
      <4>2. Around(line[x], open', Len(line[x]) - 1, token[w[1]])
        BY <2>3, <2>5, <3>1, <3>2, <3>4, <4>1, AroundSame DEF NestedIn
      <4>3. token[r] = open[x][n - 1]
        <5>1. r = open[x][n] /\ n \in 2..n
          BY <3>3, <3>5, <3>8 DEF Last
        <5> QED
          BY <3>1, <5>1 DEF NestedIn
      <4>4. active'[x] = Last(w)
        BY <2>1, <3>5, <3>8, <4>3 DEF Last
      <4>5. \A k \in 2..Len(w) : token[w[k]] = w[k - 1]
        <5> SUFFICES ASSUME NEW k \in 2..(n - 1) PROVE token[w[k]] = w[k - 1]
          BY <3>5
        <5>1. w[k] = open[x][k] /\ w[k - 1] = open[x][k - 1] /\ k \in 2..n
          BY <3>5
        <5> QED
          BY <3>1, <5>1 DEF NestedIn
      <4>6. open'[x] = w
        BY <2>1 DEF w
      <4> QED
        BY <2>1, <4>1, <4>2, <4>4, <4>5, <4>6 DEF NestedIn
    <3> HIDE DEF n
    <3>9. n = 1 \/ n > 1
      BY <3>5
    <3> QED
      BY <3>7, <3>8, <3>9
  <2> QED
    BY <2>2, <2>4, <2>5 DEF Nested
<1>10. ASSUME NEW x \in Ctx, NEW w \in Callback, Dispatch(x, w)
       PROVE  Nested'
  <2>1. /\ UNCHANGED <<open, token, orderly>> /\ w \in Ctx /\ w # x /\ open[w] = <<>>
        /\ at[w] = "unused" /\ at'[w] = "running" /\ at[x] # "unused" /\ Alive(x)
        /\ active'[w] = active[x] /\ line'[w] = Append(line[x], w)
        /\ \A y \in Ctx \ {w} : /\ active'[y] = active[y] /\ line'[y] = line[y]
                                /\ at'[y] = at[y]
    BY <1>10 DEF Dispatch, Copied, WaitersLive, Alive, UnusedIsBlank, Ctx, TypeOK
  <2>2. /\ line[x] \in Seq(Ctx) /\ Len(line[x]) \in Nat \ {0} /\ DOMAIN line[x] = 1..Len(line[x])
        /\ line[x][Len(line[x])] = x
    BY <2>1, OnLine
  <2>3. ASSUME NEW y \in Ctx \ {w}, Good(y)'
        PROVE  NestedIn(y)'
    <3>1. at[y] # "unused" /\ line'[y] = line[y]
      BY <2>1, <2>3 DEF Good
    <3>2. Good(y)
      BY <2>1, <2>3, <3>1, GoodBefore
    <3> QED
      BY <2>1, <3>1, <3>2, NestedStays
  <2>4. ASSUME Good(w)'
        PROVE  NestedIn(w)'
    <3> DEFINE n == Len(line[x])
    <3>1. /\ Len(line'[w]) = n + 1 /\ \A k \in 1..n : line'[w][k] = line[x][k]
          /\ SetOf(line'[w]) = SetOf(line[x]) \cup {w}
      BY <2>1, <2>2, AppendProperties, SetOfAppend
    <3>2. x \in SetOf(line[x])
      BY <2>2 DEF SetOf
    <3>3. \A y \in SetOf(line[x]) : y \in Ctx \ {w}
      BY <2>1, OnLine DEF SetOf
    <3>4. Good(x)
      BY <2>1, <2>4, <3>1, <3>2, <3>3 DEF Good, Late, Orderly, Alive
    <3>5. NestedIn(x)
      BY <3>4, Zenon DEF Nested
    <3>6. n - 1 \in Nat /\ (n - 1) + 1 = n
      BY <2>2
    <3>7. Around(line[x], open, n, active[x])
      <4>1. CASE open[x] = <<>>
        BY <2>2, <3>5, <3>6, <4>1, AroundNext DEF NestedIn
      <4>2. CASE open[x] # <<>>
        <5>1. active[x] = Last(open[x]) /\ line[x][n] = x
          BY <2>2, <3>5, <4>2 DEF NestedIn
        <5>2. n \in 1..n /\ \A j \in (n + 1)..n : FALSE
          BY <2>2
        <5> QED
          BY <4>2, <5>1, <5>2 DEF Around
      <4> QED
        BY <4>1, <4>2
    <3>8. Around(line'[w], open, n, active[x])
      BY <2>2, <3>1, <3>7, AroundSameLine
    <3>9. Len(line'[w]) - 1 = n /\ Len(open[w]) = 0
      BY <2>1, <2>2, <3>1
    <3> QED
      BY <2>1, <3>8, <3>9 DEF NestedIn
  <2> QED
    BY <2>3, <2>4 DEF Nested
<1> QED
  BY <1>2, <1>3, <1>4, <1>5, <1>7, <1>8, <1>9, <1>10 DEF Next, Finished

LEMMA GoodIsAround ==
  ASSUME PInv, Waits, Nested, NEW x \in Ctx, Good(x)
  PROVE  /\ Len(line[x]) \in Nat /\ DOMAIN line[x] = 1..Len(line[x])
         /\ Around(line[x], open, Len(line[x]), active[x])
<1> DEFINE n == Len(line[x])
<1>1. n \in Nat \ {0} /\ DOMAIN line[x] = 1..n /\ line[x][n] = x
  BY GoodAreAwaited
<1>2. NestedIn(x)
  BY Zenon DEF Nested
<1>3. n - 1 \in Nat /\ (n - 1) + 1 = n
  BY <1>1
<1>4. Around(line[x], open, n, active[x])
  <2>1. CASE open[x] = <<>>
    BY <1>1, <1>2, <1>3, <2>1, AroundNext DEF NestedIn
  <2>2. CASE open[x] # <<>>
    <3>1. active[x] = Last(open[x])
      BY <1>2, <2>2 DEF NestedIn
    <3>2. n \in 1..n /\ \A j \in (n + 1)..n : FALSE
      BY <1>1
    <3> QED
      BY <1>1, <2>2, <3>1, <3>2 DEF Around
  <2> QED
    BY <2>1, <2>2
<1> QED
  BY <1>1, <1>4

LEMMA GoodIsInnermost == PInv /\ Waits /\ Nested => ActiveIsInnermost
<1> SUFFICES ASSUME PInv, Waits, Nested, NEW x \in Ctx, Good(x)
             PROVE  active[x] = Innermost(x)
  BY Zenon DEF ActiveIsInnermost, Good
<1> QED
  BY GoodIsAround, AroundIsInnermost

NInv == PInv /\ Home /\ Waits /\ Nested

LEMMA NestingInvariant == Spec => []NInv
<1> USE DEF NInv
<1>1. Init => NInv
  <2> SUFFICES ASSUME Init PROVE NInv
    OBVIOUS
  <2>1. TypeInv /\ Home /\ UnusedIsBlank
    BY InitType, InitHome, EmptySeq DEF Init, TypeInv, Opened, Home
  <2>2. WaitersLive /\ Placed
    BY InitPlaced DEF Init, WaitersLive
  <2>3. \A x \in Ctx : active[x] = None /\ open[x] = <<>> /\ (at[x] = "running" => line[x] = <<x>>)
    BY DEF Init
  <2>4. ASSUME NEW x, line[x] = <<x>>
        PROVE  Len(line[x]) - 1 = 0
    <3>1. Len(<<x>>) = 1
      OBVIOUS
    <3>2. Len(line[x]) = 1
      BY <2>4, <3>1, Zenon
    <3> QED
      BY <3>2
  <2>5. \A x \in Ctx : at[x] = "running" => Len(line[x]) - 1 = 0
    BY <2>3, <2>4
  <2>6. Waits
    <3>1. ASSUME NEW x \in Ctx, NEW k, Pending(x, k)
          PROVE  FALSE
      <4>1. at[x] = "running" /\ k \in 1..(Len(line[x]) - 1)
        BY <3>1 DEF Pending
      <4>2. k \in 1..0
        BY <2>5, <4>1
      <4> QED
        BY <4>2
    <3> QED
      BY <3>1 DEF Waits
  <2>7. Nested
    <3> SUFFICES ASSUME NEW x \in Ctx, at[x] = "running"
                 PROVE  NestedIn(x)
      BY DEF Nested, Good
    <3>1. open[x] = <<>> /\ Len(open[x]) = 0 /\ Len(line[x]) - 1 = 0 /\ active[x] = None
      BY <2>3, <2>5, EmptySeq
    <3> QED
      BY <3>1 DEF NestedIn, Around
  <2> QED
    BY <2>1, <2>2, <2>6, <2>7 DEF PInv
<1>2. NInv /\ [Next]_vars => NInv'
  <2> SUFFICES ASSUME NInv, [Next]_vars PROVE NInv'
    OBVIOUS
  <2>1. TypeInv' /\ Home' /\ UnusedIsBlank'
    BY StepType, StepOpened, StepHome DEF PInv, TypeInv, Home
  <2> QED
    BY <2>1, StepPlaced, StepWaiters, StepWaits, StepNested DEF PInv
<1> QED
  BY <1>1, <1>2, PTL DEF Spec

\* Where blocks are left innermost first, and no batch on the way was
\* interrupted, what is active is the innermost block, nested batches and
\* their callbacks included.
THEOREM InnermostIsActive == Spec => []ActiveIsInnermost
<1>1. NInv => ActiveIsInnermost
  BY GoodIsInnermost DEF NInv
<1> QED
  BY <1>1, NestingInvariant, PTL

-----------------------------------------------------------------------------
(***************************************************************************)
(* Notes that are lost.                                                    *)
(***************************************************************************)

\* A note is lost without a warning only if its callback outlived its batch or
\* blocks were left out of order (script_log.note, __exit__): otherwise what is
\* active is the innermost block, and that one is open.
THEOREM LossIsLate == Spec => []NoteLostOnlyLate
<1>1. Init => NoteLostOnlyLate
  BY DEF Init, NoteLostOnlyLate
<1>2. NInv /\ NoteLostOnlyLate /\ [Next]_vars => NoteLostOnlyLate'
  <2> SUFFICES ASSUME NInv, NoteLostOnlyLate, [Next]_vars PROVE NoteLostOnlyLate'
    OBVIOUS
  <2>1. ASSUME NEW x \in Ctx, Free(x), active[x] # None, stage[active[x]] = "left"
        PROVE  Late(x) \/ ~Orderly(x)
    <3> SUFFICES ASSUME ~Late(x), Orderly(x) PROVE FALSE
      OBVIOUS
    <3>1. at[x] = "running"
      <4>1. at[x] \in {"running", "stray"} /\ x \in SetOf(line[x])
        BY <2>1 DEF Free, Alive, NInv, Home, OwnLine
      <4> QED
        BY <4>1 DEF Late
    <3>2. PICK k \in DOMAIN line[x] :
                 open[line[x][k]] # <<>> /\ active[x] = Last(open[line[x][k]])
      BY <2>1, <3>1, GoodIsAround DEF NInv, Good, Around
    <3>3. PICK y \in Ctx : open[y] # <<>> /\ active[x] = Last(open[y])
      BY <3>2, LenProperties, ElementOfSeq DEF NInv, PInv, TypeInv, TypeOK
    <3>4. stage[active[x]] = "open"
      <4>1. open[y] \in Seq(Run) /\ Len(open[y]) \in DOMAIN open[y]
        BY <3>3, LenProperties, EmptySeq DEF NInv, PInv, TypeInv, TypeOK
      <4> QED
        BY <3>3, <4>1 DEF Last, NInv, PInv, TypeInv, Opened
    <3> QED
      BY <2>1, <3>4
  <2>2. ASSUME NEW x \in Ctx, Note(x)
        PROVE  NoteLostOnlyLate'
    <3>1. CASE UNCHANGED dropped
      BY <3>1 DEF NoteLostOnlyLate
    <3>2. CASE /\ active[x] # None /\ stage[active[x]] = "left"
               /\ dropped' = dropped \cup {[late |-> Late(x), orderly |-> Orderly(x)]}
      <4>1. Late(x) \/ ~Orderly(x)
        BY <2>1, <2>2, <3>2 DEF Note
      <4>2. \A note \in dropped' : note \in dropped \/ (note.late = Late(x) /\ note.orderly = Orderly(x))
        BY <3>2
      <4> QED
        BY <4>1, <4>2, Zenon DEF NoteLostOnlyLate
    <3> QED
      BY <2>2, <3>1, <3>2 DEF Note
  <2>3. CASE UNCHANGED dropped
    BY <2>3 DEF NoteLostOnlyLate
  <2> QED
    BY <2>2, <2>3 DEF Next, Enter, Leave, LeaveElsewhere, Submit, SubmitReturns, Interrupt,
                      LogExit, DriverCloses, DriverFails, CleanupInterrupted, LogExitCode,
                      LoggerCloses, Dispatch, CallbackEnds, Finished, vars
<1> QED
  BY <1>1, <1>2, NestingInvariant, PTL DEF Spec

-----------------------------------------------------------------------------
(***************************************************************************)
(* The end of a logfile.  A run is left by the context that entered it,    *)
(* which does nothing else until it is out of __exit__ and did not wait    *)
(* for a batch when it began.                                              *)
(***************************************************************************)
Exiting == {"leaving", "closing", "deciding", "decided"}

ExitsAlone ==
  /\ \A x \in Ctx : exiting[x] # None =>
       /\ x \notin waiting
       /\ owner[exiting[x]] = x /\ stage[exiting[x]] \in Exiting
  /\ \A r \in Run : stage[r] \in Exiting => owner[r] \in Ctx /\ exiting[owner[r]] = r

LEMMA StepExits ==
  ASSUME TypeInv, ExitsAlone, [Next]_vars
  PROVE  ExitsAlone'
<1>0. /\ None \notin Run /\ None \notin Ctx
      /\ exiting \in [Ctx -> Run \cup {None}] /\ stage \in [Run -> Stage]
      /\ owner \in [Run -> Ctx \cup {None}] /\ open \in [Ctx -> Seq(Run)]
  BY RunsAssumption DEF TypeInv, TypeOK
<1>1. ASSUME exiting' = exiting, waiting' \subseteq waiting,
             \A q \in Run : /\ stage'[q] \in Exiting <=> stage[q] \in Exiting
                            /\ stage[q] \in Exiting => owner'[q] = owner[q]
      PROVE  ExitsAlone'
  <2>1. ASSUME NEW x \in Ctx, exiting[x] # None
        PROVE  x \notin waiting' /\ owner'[exiting[x]] = x /\ stage'[exiting[x]] \in Exiting
    <3>1. PICK q \in Run : q = exiting[x]
      BY <1>0, <2>1
    <3>2. x \notin waiting /\ owner[q] = x /\ stage[q] \in Exiting
      BY <2>1, <3>1 DEF ExitsAlone
    <3>3. owner'[q] = x /\ stage'[q] \in Exiting
      BY <1>1, <3>2
    <3>4. x \notin waiting'
      BY <1>1, <3>2
    <3> QED
      BY <3>1, <3>3, <3>4
  <2>2. ASSUME NEW q \in Run, stage'[q] \in Exiting
        PROVE  owner'[q] \in Ctx /\ exiting[owner'[q]] = q
    <3>1. stage[q] \in Exiting /\ owner'[q] = owner[q]
      BY <1>1, <2>2
    <3> QED
      BY <3>1 DEF ExitsAlone
  <2> QED
    BY <1>1, <2>1, <2>2 DEF ExitsAlone
<1>2. ASSUME NEW x \in Ctx, NEW r \in Run, Leave(x, r)
      PROVE  ExitsAlone'
  <2>1. owner[r] = x /\ stage[r] = "open"
    BY <1>2 DEF Leave, SetOf, TypeInv, Opened
  <2>2. /\ UNCHANGED <<waiting, owner>> /\ exiting[x] = None /\ x \notin waiting
        /\ exiting'[x] = r /\ \A y \in Ctx \ {x} : exiting'[y] = exiting[y]
        /\ stage'[r] = "leaving" /\ \A q \in Run \ {r} : stage'[q] = stage[q]
    BY <1>0, <1>2 DEF Leave, Free
  <2>3. ASSUME NEW y \in Ctx, exiting'[y] # None
        PROVE  y \notin waiting /\ owner[exiting'[y]] = y /\ stage'[exiting'[y]] \in Exiting
    <3>1. CASE y = x
      BY <2>1, <2>2, <3>1 DEF Exiting
    <3>2. CASE y # x
      <4>1. /\ exiting'[y] = exiting[y] /\ exiting[y] \in Run /\ y \notin waiting
            /\ owner[exiting[y]] = y /\ stage[exiting[y]] \in Exiting
        BY <1>0, <2>2, <2>3, <3>2 DEF ExitsAlone
      <4>2. exiting[y] # r
        BY <2>1, <4>1 DEF Exiting
      <4> QED
        BY <2>2, <4>1, <4>2
    <3> QED
      BY <3>1, <3>2
  <2>4. ASSUME NEW q \in Run, stage'[q] \in Exiting
        PROVE  owner[q] \in Ctx /\ exiting'[owner[q]] = q
    <3>1. CASE q = r
      BY <2>1, <2>2, <3>1
    <3>2. CASE q # r
      <4>1. owner[q] \in Ctx /\ exiting[owner[q]] = q
        BY <2>2, <2>4, <3>2 DEF ExitsAlone
      <4>2. owner[q] # x
        BY <1>0, <2>2, <4>1
      <4> QED
        BY <2>2, <4>1, <4>2
    <3> QED
      BY <3>1, <3>2
  <2> QED
    BY <2>2, <2>3, <2>4 DEF ExitsAlone
<1>3. ASSUME NEW x \in Ctx, NEW r \in Run, Enter(x, r) \/ LeaveElsewhere(x, r)
      PROVE  ExitsAlone'
  <2>1. UNCHANGED <<waiting, exiting>> /\ stage[r] \in {"new", "open"}
    BY <1>3 DEF Enter, LeaveElsewhere
  <2>2. /\ \A q \in Run \ {r} : stage'[q] = stage[q] /\ owner'[q] = owner[q]
        /\ stage'[r] \in {"open", "abandoned"}
    BY <1>0, <1>3 DEF Enter, LeaveElsewhere
  <2> QED
    BY <1>1, <2>1, <2>2 DEF Exiting
<1>4. ASSUME NEW x \in Ctx, Submit(x)
      PROVE  ExitsAlone'
  BY <1>4 DEF Submit, Free, ExitsAlone
<1>5. ASSUME NEW x \in Ctx, LogExit(x) \/ DriverCloses(x) \/ DriverFails(x) \/ LogExitCode(x)
      PROVE  ExitsAlone'
  <2>1. PICK q \in Run : q = exiting[x]
    BY <1>0, <1>5 DEF LogExit, DriverCloses, DriverFails, LogExitCode, NextStage
  <2>2. /\ UNCHANGED <<waiting, owner, exiting>>
        /\ stage[q] \in Exiting /\ stage'[q] \in Exiting
        /\ \A p \in Run \ {q} : stage'[p] = stage[p]
    BY <1>0, <1>5, <2>1 DEF LogExit, DriverCloses, DriverFails, LogExitCode, NextStage, Exiting
  <2> QED
    BY <1>1, <2>2
<1>6. ASSUME NEW x \in Ctx, CleanupInterrupted(x) \/ LoggerCloses(x)
      PROVE  ExitsAlone'
  <2>1. PICK q \in Run : q = exiting[x]
    BY <1>0, <1>6 DEF CleanupInterrupted, LoggerCloses, NextStage
  <2>2. /\ UNCHANGED <<waiting, owner>> /\ stage'[q] \notin Exiting
        /\ \A p \in Run \ {q} : stage'[p] = stage[p]
        /\ exiting'[x] = None /\ \A y \in Ctx \ {x} : exiting'[y] = exiting[y]
    BY <1>0, <1>6, <2>1 DEF CleanupInterrupted, LoggerCloses, NextStage, Exiting
  <2>3. ASSUME NEW y \in Ctx, exiting'[y] # None
        PROVE  y \notin waiting /\ owner[exiting'[y]] = y /\ stage'[exiting'[y]] \in Exiting
    <3>1. /\ y # x /\ exiting'[y] = exiting[y] /\ exiting[y] \in Run /\ y \notin waiting
          /\ owner[exiting[y]] = y /\ stage[exiting[y]] \in Exiting
      BY <1>0, <2>2, <2>3 DEF ExitsAlone
    <3>2. owner[q] = x
      BY <1>0, <2>1 DEF ExitsAlone
    <3> QED
      BY <2>2, <3>1, <3>2
  <2>4. ASSUME NEW p \in Run, stage'[p] \in Exiting
        PROVE  owner[p] \in Ctx /\ exiting'[owner[p]] = p
    <3>1. p # q /\ owner[p] \in Ctx /\ exiting[owner[p]] = p
      BY <2>2, <2>4 DEF ExitsAlone
    <3>2. owner[p] # x
      BY <2>1, <3>1
    <3> QED
      BY <2>2, <3>1, <3>2
  <2> QED
    BY <2>2, <2>3, <2>4 DEF ExitsAlone
<1>7. ASSUME NEW x \in Ctx,
             \/ Note(x) \/ SubmitReturns(x) \/ Interrupt(x)
             \/ \E w \in Callback : Dispatch(x, w)
      PROVE  UNCHANGED <<owner, exiting, stage>> /\ waiting' \subseteq waiting
  BY <1>7 DEF Note, SubmitReturns, Interrupt, Dispatch
<1>8. ASSUME (\E w \in Callback : CallbackEnds(w)) \/ UNCHANGED vars
      PROVE  UNCHANGED <<owner, exiting, stage>> /\ waiting' \subseteq waiting
  BY <1>8 DEF CallbackEnds, vars
<1> QED
  BY <1>1, <1>2, <1>3, <1>4, <1>5, <1>6, <1>7, <1>8 DEF Next, Finished

(***************************************************************************)
(* What the logfile of a run tells at each stage of its end.               *)
(***************************************************************************)
Reported(r) ==
  \E t \in Places(r, "tally"), e \in Places(r, "exit code") :
    /\ t < e
    /\ Places(r, "exit code") = {e}
    /\ driver[r] # "closed" => \E k \in Places(r, "error") : t < k /\ k < e

OnlyLateAfter(r) ==
  \A e \in Places(r, "exit code") : \A k \in (e + 1)..Len(log[r]) :
    log[r][k].kind = "note" /\ log[r][k].late

Story(r) ==
  /\ stage[r] \notin {"decided", "left"} => Places(r, "exit code") = {}
  /\ stage[r] \in {"closing", "deciding"} => Places(r, "tally") # {}
  /\ stage[r] = "deciding" /\ driver[r] # "closed" =>
       \E t \in Places(r, "tally"), k \in Places(r, "error") : t < k
  /\ stage[r] \in {"decided", "left"} => Reported(r)
  /\ OnlyLateAfter(r)

\* What another line changes.
LEMMA OneMoreLine ==
  ASSUME NEW r \in Run, log[r] \in Seq(Entry), NEW e \in Entry, log'[r] = Append(log[r], e)
  PROVE  /\ Len(log[r]) \in Nat /\ Len(log'[r]) = Len(log[r]) + 1
         /\ log'[r][Len(log[r]) + 1] = e
         /\ \A k \in 1..Len(log[r]) : log'[r][k] = log[r][k]
         /\ \A kind \in Kind : Places(r, kind) \in SUBSET (1..Len(log[r]))
         /\ \A kind \in Kind : kind # e.kind => Places(r, kind)' = Places(r, kind)
         /\ \A kind \in Kind : kind = e.kind =>
              Places(r, kind)' = Places(r, kind) \cup {Len(log[r]) + 1}
<1> DEFINE n == Len(log[r])
<1>1. n \in Nat /\ DOMAIN log[r] = 1..n
  BY LenProperties
<1>2. Append(log[r], e) \in Seq(Entry) /\ Len(Append(log[r], e)) = n + 1
      /\ Append(log[r], e)[n + 1] = e
      /\ \A k \in 1..n : Append(log[r], e)[k] = log[r][k]
  BY AppendProperties
<1>3. DOMAIN Append(log[r], e) = 1..(n + 1)
  BY <1>2, LenProperties
<1>4. /\ DOMAIN log'[r] = 1..(n + 1) /\ Len(log'[r]) = n + 1
      /\ log'[r][n + 1] = e /\ \A k \in 1..n : log'[r][k] = log[r][k]
  BY <1>2, <1>3
<1> HIDE DEF n
<1>5. \A kind : Places(r, kind) \in SUBSET (1..n)
  BY <1>1 DEF Places
<1>6. \A k \in 1..(n + 1) : k \in 1..n \/ k = n + 1
  BY <1>1
<1>7. \A k \in 1..n : k \in 1..(n + 1)
  BY <1>1
<1>8. n + 1 \in 1..(n + 1)
  BY <1>1
<1>9. ASSUME NEW kind, kind # e.kind
      PROVE  Places(r, kind)' = Places(r, kind)
  BY <1>1, <1>4, <1>6, <1>7, <1>9 DEF Places
<1>10. ASSUME NEW kind, kind = e.kind
       PROVE  Places(r, kind)' = Places(r, kind) \cup {n + 1}
  BY <1>1, <1>4, <1>6, <1>7, <1>8, <1>10 DEF Places
<1> QED
  BY <1>1, <1>4, <1>5, <1>9, <1>10 DEF n

\* Whoever takes a note for a run that has its exit code is late: the context
\* that entered the run is in __exit__, and waits for no batch.
LEMMA LateAtTheEnd ==
  ASSUME NInv, ExitsAlone, NEW x \in Ctx, Free(x), active[x] # None,
         stage[active[x]] \in Exiting
  PROVE  Late(x)
<1> SUFFICES ASSUME ~Late(x) PROVE FALSE
  OBVIOUS
<1>1. at[x] = "running"
  <2>1. at[x] \in {"running", "stray"} /\ x \in SetOf(line[x])
    BY DEF Free, Alive, NInv, Home, OwnLine
  <2> QED
    BY <2>1 DEF Late
<1>2. PICK r \in Run : r = active[x]
  BY DEF NInv, PInv, TypeInv, TypeOK
<1>3. owner[r] \in Ctx /\ exiting[owner[r]] = r /\ owner[r] \notin waiting
  BY <1>2, RunsAssumption DEF ExitsAlone
<1>4. owner[r] # x
  BY <1>2, <1>3 DEF Free
<1>5. owner[r] \in SetOf(line[x])
  BY <1>2 DEF NInv, Home, ActiveAtHome
<1>6. /\ Len(line[x]) \in Nat \ {0} /\ DOMAIN line[x] = 1..Len(line[x])
      /\ line[x][Len(line[x])] = x
      /\ \A k \in 1..(Len(line[x]) - 1) : line[x][k] \in waiting
  BY <1>1, CallersWait DEF NInv
<1>7. PICK k \in 1..Len(line[x]) : owner[r] = line[x][k]
  BY <1>5, <1>6 DEF SetOf
<1>8. k = Len(line[x]) \/ k \in 1..(Len(line[x]) - 1)
  BY <1>6
<1> QED
  BY <1>3, <1>4, <1>6, <1>7, <1>8

\* A place after c in a log one line longer is the new one, or was there.
LEMMA Beyond ==
  ASSUME NEW n \in Nat, NEW c \in 1..n, NEW k \in (c + 1)..(n + 1)
  PROVE  k = n + 1 \/ (k \in (c + 1)..n /\ k \in 1..n)
  OBVIOUS

LEMMA StepStory ==
  ASSUME NInv, ExitsAlone, [Next]_vars, NEW r \in Run, Story(r)
  PROVE  Story(r)'
<1> DEFINE n == Len(log[r])
<1>1. /\ log[r] \in Seq(Entry) /\ log \in [Run -> Seq(Entry)] /\ stage \in [Run -> Stage]
      /\ driver \in [Run -> {"up", "closed", "leaked"}]
  BY DEF NInv, PInv, TypeInv, TypeOK, Entry
<1>0. n \in Nat
  BY <1>1, LenProperties
<1> HIDE DEF n
<1>2. ASSUME stage'[r] = stage[r], log'[r] = log[r], driver'[r] = driver[r]
      PROVE  Story(r)'
  <2>1. \A kind : Places(r, kind)' = Places(r, kind)
    BY <1>2 DEF Places
  <2>2. OnlyLateAfter(r)'
    BY <1>2, <2>1, Zenon DEF Story, OnlyLateAfter
  <2>3. Reported(r) => Reported(r)'
    <3>1. /\ Places(r, "tally")' = Places(r, "tally")
          /\ Places(r, "error")' = Places(r, "error")
          /\ Places(r, "exit code")' = Places(r, "exit code")
      BY <2>1, Zenon
    <3> QED
      BY <1>2, <3>1, Zenon DEF Reported
  <2> QED
    BY <1>2, <2>1, <2>2, <2>3, Zenon DEF Story
<1>3. ASSUME stage[r] \notin {"decided", "left"}, log'[r] = log[r],
             stage'[r] \in {"open", "leaving", "abandoned"}
      PROVE  Story(r)'
  <2>1. \A kind : Places(r, kind)' = Places(r, kind)
    BY <1>3 DEF Places
  <2>2. Places(r, "exit code") = {}
    BY <1>3 DEF Story
  <2>3. Places(r, "exit code")' = {}
    BY <2>1, <2>2, Zenon
  <2>4. OnlyLateAfter(r)'
    BY <2>3 DEF OnlyLateAfter
  <2> QED
    BY <1>3, <2>3, <2>4 DEF Story
<1>4. ASSUME NEW x \in Ctx, NEW q \in Run,
             Enter(x, q) \/ Leave(x, q) \/ LeaveElsewhere(x, q)
      PROVE  Story(r)'
  <2>1. stage[q] \in {"new", "open"}
    BY <1>4 DEF Enter, Leave, LeaveElsewhere, SetOf, NInv, PInv, TypeInv, Opened
  <2>2. /\ stage'[q] \in {"open", "leaving", "abandoned"}
        /\ \A p \in Run \ {q} : stage'[p] = stage[p]
        /\ UNCHANGED <<log, driver>>
    BY <1>1, <1>4 DEF Enter, Leave, LeaveElsewhere
  <2> QED
    BY <1>2, <1>3, <2>1, <2>2
<1>5. ASSUME NEW x \in Ctx, Note(x)
      PROVE  Story(r)'
  <2>1. stage'[r] = stage[r] /\ driver'[r] = driver[r]
    BY <1>5 DEF Note
  <2>2. CASE log'[r] = log[r]
    BY <1>2, <2>1, <2>2
  <2>3. CASE active[x] = r /\ stage[r] # "left" /\ log'[r] = Append(log[r], Line("note", x))
    <3> DEFINE e == Line("note", x)
    <3>1. e \in Entry /\ e.kind = "note" /\ e.late = Late(x)
      BY LineType DEF Kind, Line
    <3> HIDE DEF e
    <3>2. /\ n \in Nat /\ n = Len(log[r]) /\ Len(log'[r]) = n + 1 /\ log'[r][n + 1] = e
          /\ \A k \in 1..n : log'[r][k] = log[r][k]
          /\ \A kind \in Kind : Places(r, kind) \in SUBSET (1..n)
          /\ \A kind \in Kind : kind # "note" => Places(r, kind)' = Places(r, kind)
      BY <1>1, <2>3, <3>1, OneMoreLine DEF e, n
    <3>3. /\ Places(r, "tally")' = Places(r, "tally")
          /\ Places(r, "error")' = Places(r, "error")
          /\ Places(r, "exit code")' = Places(r, "exit code")
          /\ Places(r, "exit code") \in SUBSET (1..n)
      BY <3>2 DEF Kind
    <3>4. Reported(r) => Reported(r)'
      BY <2>1, <3>3, Zenon DEF Reported
    <3>5. OnlyLateAfter(r)'
      <4> SUFFICES ASSUME NEW c \in 1..n, c \in Places(r, "exit code"),
                          NEW k \in (c + 1)..(n + 1)
                   PROVE  log'[r][k].kind = "note" /\ log'[r][k].late
        BY <3>2, <3>3 DEF OnlyLateAfter
      <4>2. CASE k \in (c + 1)..n /\ k \in 1..n
        <5>1. log[r][k].kind = "note" /\ log[r][k].late
          BY <3>2, <4>2 DEF Story, OnlyLateAfter
        <5> QED
          BY <3>2, <4>2, <5>1
      <4>3. CASE k = n + 1
        <5>1. stage[r] = "decided"
          BY <2>3, <3>3 DEF Story
        <5>2. Late(x)
          BY <1>5, <2>3, <5>1, RunsAssumption, LateAtTheEnd DEF Note, Exiting
        <5> QED
          BY <3>1, <3>2, <4>3, <5>2
      <4>4. k = n + 1 \/ (k \in (c + 1)..n /\ k \in 1..n)
        BY <1>0, Beyond, Zenon
      <4> QED
        BY <4>2, <4>3, <4>4
    <3> QED
      BY <2>1, <3>3, <3>4, <3>5, Zenon DEF Story
  <2> QED
    <3>1. CASE UNCHANGED log
      BY <2>2, <3>1
    <3>2. CASE /\ active[x] # None /\ stage[active[x]] # "left"
               /\ log' = [log EXCEPT ![active[x]] = Append(@, Line("note", x))]
      <4>1. active[x] \in Run
        BY <3>2 DEF NInv, PInv, TypeInv, TypeOK
      <4>2. CASE active[x] = r
        BY <1>1, <2>3, <3>2, <4>2
      <4>3. CASE active[x] # r
        BY <1>1, <2>2, <3>2, <4>1, <4>3
      <4> QED
        BY <4>2, <4>3
    <3> QED
      BY <1>5, <3>1, <3>2 DEF Note
<1>6. ASSUME NEW x \in Ctx, exiting[x] # r,
             \/ LogExit(x) \/ DriverCloses(x) \/ DriverFails(x) \/ CleanupInterrupted(x)
             \/ LogExitCode(x) \/ LoggerCloses(x)
      PROVE  Story(r)'
  <2>1. exiting[x] \in Run
    BY <1>6 DEF LogExit, DriverCloses, DriverFails, CleanupInterrupted, LogExitCode,
                LoggerCloses, NextStage, NInv, PInv, TypeInv, TypeOK
  <2>2. stage'[r] = stage[r]
    BY <1>1, <1>6, <2>1 DEF LogExit, DriverCloses, DriverFails, CleanupInterrupted,
                LogExitCode, LoggerCloses, NextStage
  <2>3. log'[r] = log[r]
    BY <1>1, <1>6, <2>1 DEF LogExit, DriverCloses, DriverFails, CleanupInterrupted,
                LogExitCode, LoggerCloses, LoggedFailure, Writes
  <2>4. driver'[r] = driver[r]
    BY <1>1, <1>6, <2>1 DEF LogExit, DriverCloses, DriverFails, CleanupInterrupted,
                LogExitCode, LoggerCloses
  <2> QED
    BY <1>2, <2>2, <2>3, <2>4
<1>7. ASSUME NEW x \in Ctx, exiting[x] = r, NEW kind \in Kind \ {"note"}, Writes(x, kind)
      PROVE  /\ n \in Nat /\ Len(log'[r]) = n + 1
             /\ \A k \in Kind : Places(r, k) \in SUBSET (1..n)
             /\ \A k \in Kind : k # kind => Places(r, k)' = Places(r, k)
             /\ Places(r, kind)' = Places(r, kind) \cup {n + 1}
  <2> DEFINE e == Line(kind, x)
  <2>1. e \in Entry /\ e.kind = kind
    BY LineType DEF Line
  <2>2. log'[r] = Append(log[r], e)
    BY <1>1, <1>7 DEF Writes
  <2> HIDE DEF e
  <2>3. /\ Len(log[r]) \in Nat /\ Len(log'[r]) = Len(log[r]) + 1
        /\ \A k \in Kind : Places(r, k) \in SUBSET (1..Len(log[r]))
        /\ \A k \in Kind : k # e.kind => Places(r, k)' = Places(r, k)
        /\ \A k \in Kind : k = e.kind => Places(r, k)' = Places(r, k) \cup {Len(log[r]) + 1}
    <3>1. log[r] \in Seq(Entry)
      BY <1>1
    <3> QED
      BY <2>1, <2>2, <3>1, OneMoreLine
  <2> QED
    BY <2>1, <2>3 DEF n
<1>8. ASSUME NEW x \in Ctx, exiting[x] = r, LogExit(x)
      PROVE  Story(r)'
  <2>1. stage[r] = "leaving" /\ stage'[r] = "closing"
    BY <1>1, <1>8 DEF LogExit, NextStage
  <2>2. Places(r, "exit code")' = {} /\ Places(r, "tally")' # {}
    BY <1>7, <1>8, <2>1 DEF LogExit, Kind, Story
  <2> QED
    BY <2>1, <2>2 DEF Story, OnlyLateAfter
<1>9. ASSUME NEW x \in Ctx, exiting[x] = r, DriverCloses(x)
      PROVE  Story(r)'
  <2>1. /\ stage[r] = "closing" /\ stage'[r] = "deciding" /\ driver'[r] = "closed"
        /\ log' = log
    BY <1>1, <1>9 DEF DriverCloses, NextStage
  <2> QED
    BY <2>1 DEF Story, OnlyLateAfter, Places
<1>10. ASSUME NEW x \in Ctx, exiting[x] = r, DriverFails(x)
       PROVE  Story(r)'
  <2>1. stage[r] = "closing" /\ stage'[r] = "deciding"
    BY <1>1, <1>10 DEF DriverFails, NextStage
  <2>2. /\ n \in Nat /\ Places(r, "exit code")' = {}
        /\ Places(r, "tally")' = Places(r, "tally") /\ Places(r, "tally") \in SUBSET (1..n)
        /\ n + 1 \in Places(r, "error")' /\ Places(r, "tally") # {}
    BY <1>7, <1>10, <2>1 DEF DriverFails, LoggedFailure, Kind, Story
  <2>3. \E t \in Places(r, "tally")', k \in Places(r, "error")' : t < k
    <3>1. \A t \in 1..n : t < n + 1
      BY <1>0
    <3> QED
      BY <2>2, <3>1
  <2> QED
    BY <2>1, <2>2, <2>3 DEF Story, OnlyLateAfter
<1>11. ASSUME NEW x \in Ctx, exiting[x] = r, CleanupInterrupted(x)
       PROVE  Story(r)'
  <2>1. stage[r] = "closing" /\ stage'[r] = "abandoned" /\ log' = log
    BY <1>1, <1>11 DEF CleanupInterrupted, NextStage
  <2> QED
    BY <1>3, <2>1
<1>12. ASSUME NEW x \in Ctx, exiting[x] = r, LogExitCode(x)
       PROVE  Story(r)'
  <2>1. stage[r] = "deciding" /\ stage'[r] = "decided" /\ driver'[r] = driver[r]
    BY <1>1, <1>12 DEF LogExitCode, NextStage
  <2>2. /\ n \in Nat /\ Len(log'[r]) = n + 1
        /\ Places(r, "exit code")' = {n + 1}
        /\ Places(r, "tally")' = Places(r, "tally") /\ Places(r, "tally") \in SUBSET (1..n)
        /\ Places(r, "error")' = Places(r, "error") /\ Places(r, "error") \in SUBSET (1..n)
        /\ Places(r, "tally") # {}
    BY <1>7, <1>12, <2>1 DEF LogExitCode, Kind, Story
  <2>3. driver[r] # "closed" => \E t \in Places(r, "tally"), k \in Places(r, "error") : t < k
    BY <2>1 DEF Story
  <2>4. \A k \in 1..n : k < n + 1
    BY <1>0
  <2>5. Reported(r)'
    <3>1. CASE driver[r] = "closed"
      BY <2>1, <2>2, <2>4, <3>1 DEF Reported
    <3>2. CASE driver[r] # "closed"
      BY <2>1, <2>2, <2>3, <2>4, <3>2 DEF Reported
    <3> QED
      BY <3>1, <3>2
  <2>6. OnlyLateAfter(r)'
    <3>1. \A k \in ((n + 1) + 1)..(n + 1) : FALSE
      BY <1>0
    <3> QED
      BY <2>2, <3>1 DEF OnlyLateAfter
  <2> QED
    BY <2>1, <2>5, <2>6 DEF Story
<1>13. ASSUME NEW x \in Ctx, exiting[x] = r, LoggerCloses(x)
       PROVE  Story(r)'
  <2>1. stage[r] = "decided" /\ stage'[r] = "left" /\ UNCHANGED <<log, driver>>
    BY <1>1, <1>13 DEF LoggerCloses, NextStage
  <2> QED
    BY <2>1 DEF Story, Reported, OnlyLateAfter, Places
<1>14. ASSUME NEW x \in Ctx,
              \/ Submit(x) \/ SubmitReturns(x) \/ Interrupt(x)
              \/ \E w \in Callback : Dispatch(x, w)
       PROVE  UNCHANGED <<stage, log, driver>>
  BY <1>14 DEF Submit, SubmitReturns, Interrupt, Dispatch
<1>15. ASSUME (\E w \in Callback : CallbackEnds(w)) \/ UNCHANGED vars
       PROVE  UNCHANGED <<stage, log, driver>>
  BY <1>15 DEF CallbackEnds, vars
<1> QED
  BY <1>2, <1>4, <1>5, <1>6, <1>8, <1>9, <1>10, <1>11, <1>12, <1>13, <1>14, <1>15
     DEF Next, Finished

Stories == \A r \in Run : Story(r)

LEMMA EndInvariant == Spec => [](ExitsAlone /\ Stories)
<1>1. Init => ExitsAlone /\ Stories
  <2> SUFFICES ASSUME Init PROVE ExitsAlone /\ Stories
    OBVIOUS
  <2>1. ExitsAlone
    BY DEF Init, ExitsAlone, Exiting
  <2>2. \A r \in Run : log[r] = <<>> /\ stage[r] = "new"
    BY DEF Init
  <2>3. \A r \in Run : \A kind : Places(r, kind) = {}
    BY <2>2 DEF Places
  <2> QED
    BY <2>1, <2>2, <2>3 DEF Stories, Story, OnlyLateAfter
<1>2. NInv /\ ExitsAlone /\ Stories /\ [Next]_vars => ExitsAlone' /\ Stories'
  <2>1. NInv => TypeInv
    BY DEF NInv, PInv
  <2> QED
    BY <2>1, StepExits, StepStory DEF Stories
<1> QED
  BY <1>1, <1>2, NestingInvariant, PTL DEF Spec

\* A closed logfile tells the tally and, after it, one exit code, and between
\* the two that cleanup failed if the driver was not closed (__exit__: "Run
\* cleanup, then decide").
THEOREM CleanupIsReported == Spec => []CleanupReported
<1>1. Stories => CleanupReported
  <2>1. ASSUME NEW r \in Run, Story(r), stage[r] = "left"
        PROVE  Reported(r)
    BY <2>1 DEF Story
  <2> QED
    BY <2>1, Zenon DEF Stories, CleanupReported, Reported
<1> QED
  BY <1>1, EndInvariant, PTL

\* Whatever callbacks still do while a run is left, nothing follows its exit
\* code but notes of those that outlived their batch (README: "[EXIT-CODE]: is
\* the last line written to the logfile").
THEOREM ExitCodeIsLast == Spec => []ExitCodeLast
<1>1. Stories => ExitCodeLast
  BY Zenon DEF Stories, Story, OnlyLateAfter, ExitCodeLast
<1> QED
  BY <1>1, EndInvariant, PTL
=============================================================================
