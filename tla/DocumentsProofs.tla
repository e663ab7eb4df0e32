--------------------------- MODULE DocumentsProofs ---------------------------
(***************************************************************************)
(* What is read out of an answer, for every document: the walk of          *)
(* get_data_structure(), down into a group and on to its later siblings,   *)
(* finds the fields that are defined by their place in the document.       *)
(*                                                                         *)
(* The argument goes from sets of nodes to the functions that walk over    *)
(* them.  Onward says which nodes the walk from a node still passes, and   *)
(* each function of the walk is the only solution of its own equation, so  *)
(* it is what it should be as soon as that solves the equation, too.       *)
(***************************************************************************)
EXTENDS Documents, Integers, FiniteSetTheorems, FunctionTheorems, SequenceTheorems, TLAPS

(***************************************************************************)
(* Sets of numbers: the least and the greatest member, by counting, as     *)
(* LeastExists in ChainsRecord, and the place of a member among the others. *)
(***************************************************************************)
LEMMA LeastExists ==
  ASSUME NEW T \in SUBSET Nat, T # {}
  PROVE  \E i \in T : \A j \in T : i <= j
<1> SUFFICES ASSUME \A i \in T : \E j \in T : j < i
             PROVE  FALSE
  OBVIOUS
<1> PICK top \in T : TRUE
  OBVIOUS
<1> DEFINE Above == { n \in 0..top : \E i \in T : i <= n }
           below == [n \in Above |-> n - 1]
<1>1. top \in Above
  OBVIOUS
<1>2. \A n \in Above : n - 1 \in Above /\ n - 1 # top
  <2> SUFFICES ASSUME NEW n \in Above PROVE n - 1 \in Above /\ n - 1 # top
    OBVIOUS
  <2>1. PICK i \in T : i <= n
    OBVIOUS
  <2>2. PICK j \in T : j < i
    OBVIOUS
  <2>3. n \in 0..top /\ i \in Nat /\ j \in Nat /\ top \in Nat /\ j <= n - 1
    BY <2>1, <2>2
  <2> QED
    BY <2>3
<1>3. IsFiniteSet(Above)
  <2>1. IsFiniteSet(0..top) /\ Above \in SUBSET (0..top)
    BY FS_Interval
  <2> HIDE DEF Above
  <2> QED
    BY <2>1, FS_Subset
<1>4. below \in Injection(Above, Above)
  <2>1. \A n \in Above : n \in Nat
    OBVIOUS
  <2> HIDE DEF Above
  <2>2. below \in [Above -> Above] /\ \A m, n \in Above : below[m] = below[n] => m = n
    BY <1>2, <2>1
  <2> HIDE DEF below
  <2> QED
    BY <2>2, Fun_IsInj
<1> HIDE DEF Above
<1>5. \A m \in Above : \E n \in Above : below[n] = m
  <2> HIDE DEF below
  <2> QED
    BY <1>3, <1>4, FS_Injection, Fun_SurjectionProperties
<1>6. PICK n \in Above : below[n] = top
  BY <1>1, <1>5
<1> QED
  BY <1>2, <1>6

LEMMA GreatestExists ==
  ASSUME NEW N \in Nat, NEW T \in SUBSET (0..N), T # {}
  PROVE  \E i \in T : \A j \in T : j <= i
<1> DEFINE U == { n \in 0..N : N - n \in T }
<1>1. U \in SUBSET Nat /\ U # {}
  <2>1. PICK j \in T : j \in 0..N
    OBVIOUS
  <2>2. N - j \in 0..N /\ N - (N - j) = j
    BY <2>1
  <2>3. N - j \in U /\ \A n \in U : n \in Nat
    BY <2>1, <2>2
  <2> HIDE DEF U
  <2> QED
    BY <2>3
<1>2. PICK n \in U : \A m \in U : n <= m
  BY <1>1, LeastExists
<1>3. \A j \in T : j \in 0..N /\ N - j \in U
  OBVIOUS
<1>4. n \in 0..N /\ N - n \in T
  BY <1>2
<1> HIDE DEF U
<1> QED
  BY <1>2, <1>3, <1>4

Rank(S, g) == Cardinality({ h \in S : h <= g })

LEMMA RankRises ==
  ASSUME NEW S \in SUBSET Nat, IsFiniteSet(S), NEW g \in S, NEW h \in S, g < h
  PROVE  Rank(S, g) \in Nat /\ Rank(S, h) \in Nat /\ Rank(S, g) < Rank(S, h)
<1> DEFINE G == { k \in S : k <= g }
           H == { k \in S : k <= h }
<1>1. IsFiniteSet(G) /\ IsFiniteSet(H)
  BY FS_Subset
<1>2. Cardinality(G) \in Nat /\ Cardinality(H) \in Nat
  BY <1>1, FS_CardinalityType
<1>3. Cardinality(G) <= Cardinality(H) /\ (Cardinality(H) = Cardinality(G) => H = G)
  <2>1. G \in SUBSET H
    <3>1. g \in Nat /\ h \in Nat /\ \A k \in S : k \in Nat
      OBVIOUS
    <3>2. \A k \in S : k <= g => k <= h
      BY <3>1
    <3> QED
      BY <3>2
  <2> HIDE DEF G, H
  <2> QED
    BY <1>1, <2>1, FS_Subset
<1>4. h \in H /\ h \notin G
  OBVIOUS
<1>5. Cardinality(G) < Cardinality(H)
  <2> HIDE DEF G, H
  <2> QED
    BY <1>2, <1>3, <1>4
<1> QED
  BY <1>2, <1>5 DEF Rank

\* The places of a set of n numbers are 1..n, each of them once.
LEMMA RankIsPlace ==
  ASSUME NEW S \in SUBSET Nat, IsFiniteSet(S)
  PROVE  /\ Cardinality(S) \in Nat
         /\ \A g \in S : Rank(S, g) \in 1..Cardinality(S)
         /\ \A g, h \in S : Rank(S, g) = Rank(S, h) => g = h
         /\ \A k \in 1..Cardinality(S) : \E g \in S : Rank(S, g) = k
<1> DEFINE N == Cardinality(S)
           rank == [g \in S |-> Rank(S, g)]
<1>1. N \in Nat
  BY FS_CardinalityType
<1>2. ASSUME NEW g \in S
      PROVE  Rank(S, g) \in 1..N
  <2> DEFINE G == { h \in S : h <= g }
  <2>1. IsFiniteSet(G) /\ Cardinality(G) <= N /\ g \in G
    BY FS_Subset
  <2>2. Cardinality(G) \in Nat /\ Cardinality(G) # 0
    BY <2>1, FS_CardinalityType, FS_EmptySet
  <2>3. Rank(S, g) = Cardinality(G)
    BY DEF Rank
  <2> HIDE DEF G, N
  <2> QED
    BY <1>1, <2>1, <2>2, <2>3
<1>3. ASSUME NEW g \in S, NEW h \in S, Rank(S, g) = Rank(S, h)
      PROVE  g = h
  <2>1. ~(g < h) /\ ~(h < g)
    BY <1>3, RankRises
  <2>2. g \in Nat /\ h \in Nat
    OBVIOUS
  <2> QED
    BY <2>1, <2>2
<1>4. rank \in Injection(S, 1..N)
  <2>1. rank \in [S -> 1..N] /\ \A g, h \in S : rank[g] = rank[h] => g = h
    BY <1>2, <1>3
  <2> HIDE DEF rank, N
  <2> QED
    BY <2>1, Fun_IsInj
<1>5. rank \in Surjection(S, 1..N)
  <2>1. IsFiniteSet(1..N) /\ Cardinality(1..N) = N
    BY <1>1, FS_Interval
  <2> HIDE DEF rank
  <2> QED
    BY <1>4, <2>1, FS_Injection
<1>6. \A k \in 1..N : \E g \in S : rank[g] = k
  <2> HIDE DEF rank
  <2> QED
    BY <1>5, Fun_SurjectionProperties
<1> QED
  BY <1>1, <1>2, <1>3, <1>6

(***************************************************************************)
(* The values of a function on a set of numbers, in their order.           *)
(***************************************************************************)
Listing(S, f) == [k \in 1..Cardinality(S) |-> f[CHOOSE g \in S : Rank(S, g) = k]]

LEMMA ListingIs ==
  ASSUME NEW S \in SUBSET Nat, IsFiniteSet(S), NEW f
  PROVE  /\ Cardinality(S) \in Nat
         /\ DOMAIN Listing(S, f) = 1..Cardinality(S)
         /\ \A g \in S : /\ Rank(S, g) \in 1..Cardinality(S)
                         /\ Listing(S, f)[Rank(S, g)] = f[g]
         /\ \A k \in 1..Cardinality(S) : \E g \in S : Rank(S, g) = k /\ Listing(S, f)[k] = f[g]
<1>1. ASSUME NEW g \in S
      PROVE  (CHOOSE h \in S : Rank(S, h) = Rank(S, g)) = g
  BY RankIsPlace
<1>2. ASSUME NEW g \in S
      PROVE  /\ Rank(S, g) \in 1..Cardinality(S)
             /\ Listing(S, f)[Rank(S, g)] = f[g]
  BY <1>1, RankIsPlace DEF Listing
<1> QED
  BY <1>2, RankIsPlace DEF Listing

LEMMA ListingType ==
  ASSUME NEW S \in SUBSET Nat, IsFiniteSet(S), NEW f, NEW V, \A g \in S : f[g] \in V
  PROVE  /\ Listing(S, f) \in Seq(V)
         /\ Len(Listing(S, f)) = Cardinality(S)
<1>1. Cardinality(S) \in Nat /\ Listing(S, f) \in [1..Cardinality(S) -> V]
  BY ListingIs DEF Listing
<1>2. Listing(S, f) \in Seq(V)
  BY <1>1, SeqDef
<1> QED
  BY <1>1, <1>2, LenProperties, SeqEqual

LEMMA ListingOfNone ==
  ASSUME NEW f
  PROVE  Listing({}, f) = <<>>
<1>1. Cardinality({}) = 0 /\ IsFiniteSet({})
  BY FS_EmptySet
<1>2. Listing({}, f) \in Seq({}) /\ Len(Listing({}, f)) = 0
  BY <1>1, ListingType
<1> QED
  BY <1>2, EmptySeq

LEMMA ListingOfOne ==
  ASSUME NEW n \in Nat, NEW f
  PROVE  Listing({n}, f) = <<f[n]>>
<1>1. Cardinality({n}) = 1 /\ IsFiniteSet({n})
  BY FS_Singleton
<1>2. Listing({n}, f) \in Seq({f[n]}) /\ Len(Listing({n}, f)) = 1
  BY <1>1, ListingType
<1>3. Listing({n}, f)[1] = f[n]
  BY <1>1, ListingIs
<1> QED
  BY <1>2, <1>3

LEMMA Behind ==
  ASSUME NEW A \in SUBSET Nat, NEW B \in SUBSET Nat, IsFiniteSet(A), IsFiniteSet(B),
         \A a \in A, b \in B : a < b
  PROVE  /\ IsFiniteSet(A \cup B)
         /\ Cardinality(A \cup B) = Cardinality(A) + Cardinality(B)
         /\ \A g \in A : Rank(A \cup B, g) = Rank(A, g)
         /\ \A g \in B : Rank(A \cup B, g) = Cardinality(A) + Rank(B, g)
<1>1. A \cap B = {}
  OBVIOUS
<1>2. /\ IsFiniteSet(A \cup B)
      /\ Cardinality(A \cup B) = Cardinality(A) + Cardinality(B)
  <2>1. Cardinality(A) \in Nat /\ Cardinality(B) \in Nat /\ Cardinality(A \cap B) = 0
    BY <1>1, FS_EmptySet, FS_CardinalityType
  <2>2. /\ IsFiniteSet(A \cup B)
        /\ Cardinality(A \cup B) = Cardinality(A) + Cardinality(B) - Cardinality(A \cap B)
    BY FS_Union
  <2> QED
    BY <2>1, <2>2
<1>3. ASSUME NEW g \in A
      PROVE  Rank(A \cup B, g) = Rank(A, g)
  <2>1. { h \in A \cup B : h <= g } = { h \in A : h <= g }
    <3>1. \A b \in B : ~(b <= g)
      OBVIOUS
    <3> QED
      BY <3>1
  <2> QED
    BY <2>1 DEF Rank
<1>4. ASSUME NEW g \in B
      PROVE  Rank(A \cup B, g) = Cardinality(A) + Rank(B, g)
  <2> DEFINE G == { h \in B : h <= g }
  <2>1. { h \in A \cup B : h <= g } = A \cup G
    <3>1. \A a \in A : a <= g
      OBVIOUS
    <3> QED
      BY <3>1
  <2>2. IsFiniteSet(G) /\ A \cap G = {}
    BY <1>1, FS_Subset
  <2>3. Cardinality(A \cup G) = Cardinality(A) + Cardinality(G)
    <3> HIDE DEF G
    <3>1. Cardinality(A) \in Nat /\ Cardinality(G) \in Nat /\ Cardinality(A \cap G) = 0
      BY <2>2, FS_EmptySet, FS_CardinalityType
    <3>2. Cardinality(A \cup G) = Cardinality(A) + Cardinality(G) - Cardinality(A \cap G)
      BY <2>2, FS_Union
    <3> QED
      BY <3>1, <3>2
  <2> QED
    BY <2>1, <2>3 DEF Rank
<1> QED
  BY <1>2, <1>3, <1>4

LEMMA ListingBehind ==
  ASSUME NEW A \in SUBSET Nat, NEW B \in SUBSET Nat, IsFiniteSet(A), IsFiniteSet(B),
         \A a \in A, b \in B : a < b, NEW f, NEW V, \A g \in A \cup B : f[g] \in V
  PROVE  Listing(A \cup B, f) = Listing(A, f) \o Listing(B, f)
<1> DEFINE C == A \cup B
           left == Listing(A, f)
           right == Listing(B, f)
<1>1. IsFiniteSet(C) /\ Cardinality(C) = Cardinality(A) + Cardinality(B)
  BY Behind
<1>2. /\ left \in Seq(V) /\ Len(left) = Cardinality(A)
      /\ right \in Seq(V) /\ Len(right) = Cardinality(B)
      /\ Listing(C, f) \in Seq(V) /\ Len(Listing(C, f)) = Cardinality(C)
  BY <1>1, ListingType
<1>3. /\ left \o right \in Seq(V)
      /\ Len(left \o right) = Len(left) + Len(right)
      /\ \A k \in 1..(Len(left) + Len(right)) :
           (left \o right)[k] = IF k <= Len(left) THEN left[k] ELSE right[k - Len(left)]
  <2> HIDE DEF left, right
  <2> QED
    BY <1>2, ConcatProperties
<1>4. ASSUME NEW k \in 1..Cardinality(C)
      PROVE  Listing(C, f)[k] = (left \o right)[k]
  <2>1. PICK g \in C : Rank(C, g) = k /\ Listing(C, f)[k] = f[g]
    BY <1>1, ListingIs
  <2>2. CASE g \in A
    <3>0. Rank(C, g) = Rank(A, g)
      BY <2>2, Behind
    <3>1. Rank(A, g) = k /\ k \in 1..Cardinality(A) /\ left[k] = f[g]
      BY <2>1, <2>2, <3>0, ListingIs
    <3> HIDE DEF left, right, C
    <3> QED
      BY <1>1, <1>2, <1>3, <2>1, <3>1
  <2>3. CASE g \in B
    <3>0. Rank(C, g) = Cardinality(A) + Rank(B, g)
      BY <2>3, Behind
    <3>1. /\ k = Cardinality(A) + Rank(B, g)
          /\ Rank(B, g) \in 1..Cardinality(B) /\ right[Rank(B, g)] = f[g]
      BY <2>1, <2>3, <3>0, ListingIs
    <3>2. Cardinality(A) \in Nat
      BY FS_CardinalityType
    <3> HIDE DEF left, right, C
    <3> QED
      BY <1>1, <1>2, <1>3, <2>1, <3>1, <3>2
  <2> QED
    BY <2>2, <2>3
<1> HIDE DEF left, right, C
<1>5. Listing(C, f) = left \o right
  BY <1>1, <1>2, <1>3, <1>4, SeqEqual
<1> QED
  BY <1>5 DEF left, right, C

(***************************************************************************)
(* The order of a document.                                                *)
(***************************************************************************)
IsDocument(t) == \E size \in 0..MaxTree : t \in Document(size)

LEMMA DocumentType ==
  ASSUME NEW t, IsDocument(t)
  PROVE  /\ t \in Seq(TreeNode) /\ Len(t) \in Nat /\ Len(t) <= MaxTree
         /\ DOMAIN t = 1..Len(t)
         /\ Nothing(t) = Len(t) + 1 /\ Nothing(t) \notin DOMAIN t /\ KeyError \notin DOMAIN t
         /\ Nothing(t) # KeyError
         /\ \A n \in DOMAIN t :
              /\ n \in Nat /\ t[n] \in TreeNode /\ t[n].parent \in 0..(n - 1)
              /\ t[n].ident \in Ident \cup {Missing}
              /\ t[n].parent # 0 => /\ t[n].parent \in Enclosing(t, n - 1)
                                    /\ t[t[n].parent].kind = "group"
<1>1. PICK size \in 0..MaxTree : t \in [1..size -> TreeNode] /\ InDocumentOrder(t)
  BY DEF IsDocument, Document
<1>2. size \in Nat /\ t \in Seq(TreeNode) /\ size <= MaxTree
  BY <1>1, SeqDef, StructuredAssumption
<1>3. Len(t) = size /\ DOMAIN t = 1..size
  BY <1>1, <1>2, LenProperties
<1>4. ASSUME NEW n \in DOMAIN t
      PROVE  /\ n \in Nat /\ t[n] \in TreeNode /\ t[n].parent \in 0..(n - 1)
             /\ t[n].ident \in Ident \cup {Missing}
             /\ t[n].parent # 0 => /\ t[n].parent \in Enclosing(t, n - 1)
                                   /\ t[t[n].parent].kind = "group"
  <2>1. /\ n \in Nat /\ 1 <= n /\ t[n] \in TreeNode /\ t[n].parent \in Nat
        /\ t[n].ident \in Ident \cup {Missing}
    BY <1>1, <1>2, <1>3, StructuredAssumption DEF TreeNode
  <2>2. t[n].parent # 0 => /\ t[n].parent \in Enclosing(t, n - 1)
                           /\ t[t[n].parent].kind = "group"
    BY <1>1 DEF InDocumentOrder
  <2>3. t[n].parent \in 0..(n - 1)
    BY <2>1, <2>2 DEF Enclosing
  <2> QED
    BY <2>1, <2>2, <2>3
<1>5. /\ Nothing(t) = Len(t) + 1 /\ Nothing(t) \notin DOMAIN t
      /\ KeyError \notin DOMAIN t /\ Nothing(t) # KeyError
  BY <1>2, <1>3 DEF Nothing, KeyError
<1> QED
  BY <1>2, <1>3, <1>4, <1>5

LEMMA EarliestIs ==
  ASSUME NEW t, IsDocument(t), NEW S \in SUBSET DOMAIN t
  PROVE  /\ S = {} => Earliest(t, S) = Nothing(t)
         /\ S # {} => Earliest(t, S) \in S /\ \A m \in S : Earliest(t, S) <= m
         /\ \A n \in S : (\A m \in S : n <= m) => Earliest(t, S) = n
         /\ Earliest(t, S) \in DOMAIN t \cup {Nothing(t)}
<1>1. S \in SUBSET Nat
  BY DocumentType
<1>2. S # {} => Earliest(t, S) \in S /\ \A m \in S : Earliest(t, S) <= m
  BY <1>1, LeastExists DEF Earliest
<1>3. ASSUME NEW n \in S, \A m \in S : n <= m
      PROVE  Earliest(t, S) = n
  <2>1. Earliest(t, S) \in S /\ Earliest(t, S) <= n
    BY <1>2
  <2> QED
    BY <1>1, <1>3, <2>1
<1> QED
  BY <1>2, <1>3 DEF Earliest

\* A later node is inside a node, or beside it, or outside what it is in.
LEMMA NoCrossing ==
  ASSUME NEW t, IsDocument(t), NEW n \in DOMAIN t, NEW k \in DOMAIN t, n < k
  PROVE  n <= t[k].parent \/ t[k].parent <= t[n].parent
<1> DEFINE p == t[k].parent
<1>1. /\ n \in Nat /\ k \in Nat /\ 1 <= n /\ t[n].parent \in Nat /\ p \in Nat
      /\ p # 0 => p \in Enclosing(t, k - 1)
  BY DocumentType
<1>2. CASE p # 0 /\ p < n
  <2>1. n \in (p + 1)..(k - 1)
    BY <1>1, <1>2
  <2> QED
    BY <1>1, <1>2, <2>1 DEF Enclosing
<1> QED
  BY <1>1, <1>2

\* What is in a node follows it, up to where it is left.
LEMMA FirstChildIs ==
  ASSUME NEW t, IsDocument(t), NEW n \in DOMAIN t
  PROVE  \/ /\ n + 1 \in DOMAIN t /\ t[n + 1].parent = n
            /\ FirstChild(t, n) = n + 1
         \/ /\ FirstChild(t, n) = Nothing(t)
            /\ \A m \in DOMAIN t : n < m => n \notin Enclosing(t, m)
            /\ \A m \in DOMAIN t : t[m].parent # n
<1> DEFINE C == { m \in DOMAIN t : t[m].parent = n }
<1>0. /\ n \in Nat /\ 1 <= n /\ DOMAIN t = 1..Len(t) /\ Len(t) \in Nat
      /\ \A m \in DOMAIN t : m \in Nat /\ t[m].parent \in 0..(m - 1)
  BY DocumentType
<1>1. CASE n + 1 \in DOMAIN t /\ t[n + 1].parent = n
  <2>1. n + 1 \in C /\ \A m \in C : n + 1 <= m
    BY <1>0, <1>1
  <2> QED
    BY <1>1, <2>1, EarliestIs DEF FirstChild
<1>2. CASE ~(n + 1 \in DOMAIN t /\ t[n + 1].parent = n)
  <2>1. ASSUME NEW m \in DOMAIN t, n < m, n \in Enclosing(t, m)
        PROVE  FALSE
    <3>1. n + 1 \in DOMAIN t /\ n + 1 \in (n + 1)..m
      BY <1>0, <2>1
    <3>2. n <= t[n + 1].parent
      BY <2>1, <3>1 DEF Enclosing
    <3> QED
      BY <1>0, <1>2, <3>1, <3>2
  <2>2. ASSUME NEW m \in DOMAIN t, t[m].parent = n
        PROVE  FALSE
    <3>1. n \in Enclosing(t, m - 1) /\ n < m
      BY <1>0, <2>2, DocumentType
    <3>2. CASE m = n + 1
      BY <1>2, <2>2, <3>2
    <3>3. CASE m # n + 1
      <4>1. m - 1 \in DOMAIN t /\ n < m - 1
        BY <1>0, <3>1, <3>3
      <4> QED
        BY <2>1, <3>1, <4>1
    <3> QED
      BY <3>2, <3>3
  <2>3. FirstChild(t, n) = Nothing(t)
    BY <2>2, EarliestIs DEF FirstChild
  <2> QED
    BY <2>1, <2>2, <2>3
<1> QED
  BY <1>1, <1>2

LEMMA NextSiblingIs ==
  ASSUME NEW t, IsDocument(t), NEW n \in DOMAIN t, NEW s, s = NextSibling(t, n)
  PROVE  \/ /\ s \in DOMAIN t /\ n < s /\ t[s].parent = t[n].parent
            /\ \A m \in DOMAIN t : n < m /\ t[m].parent = t[n].parent => s <= m
         \/ /\ s = Nothing(t)
            /\ \A m \in DOMAIN t : n < m => t[m].parent # t[n].parent
<1> DEFINE S == { m \in DOMAIN t : n < m /\ t[m].parent = t[n].parent }
<1>1. s = Earliest(t, S)
  BY DEF NextSibling
<1>2. CASE S = {}
  BY <1>1, <1>2, EarliestIs
<1>3. CASE S # {}
  BY <1>1, <1>3, EarliestIs
<1> QED
  BY <1>2, <1>3

\* Only a group that has nodes has any inside.
LEMMA OnlyInGroups ==
  ASSUME NEW t, IsDocument(t), NEW n \in DOMAIN t, t[n].kind # "group"
  PROVE  FirstChild(t, n) = Nothing(t)
<1>1. n # 0 /\ \A m \in DOMAIN t : t[m].parent # 0 => t[t[m].parent].kind = "group"
  BY DocumentType
<1>2. ~(n + 1 \in DOMAIN t /\ t[n + 1].parent = n)
  BY <1>1
<1> QED
  BY <1>2, FirstChildIs

(***************************************************************************)
(* The nodes a walk still passes from node n on: n, its later siblings,    *)
(* and, unless it is direct, all that is in them.                          *)
(***************************************************************************)
Onward(t, n, direct) ==
  { m \in DOMAIN t :
      /\ n <= m
      /\ IF direct THEN t[m].parent = t[n].parent
         ELSE \A k \in n..m : t[n].parent <= t[k].parent }

LEMMA OnwardFromNowhere ==
  ASSUME NEW t, IsDocument(t), NEW direct
  PROVE  Onward(t, Nothing(t), direct) = {}
<1>1. \A m \in DOMAIN t : ~(Nothing(t) <= m)
  BY DocumentType
<1> QED
  BY <1>1 DEF Onward

LEMMA BelowIsOnward ==
  ASSUME NEW t, IsDocument(t), NEW n \in DOMAIN t, NEW direct \in BOOLEAN
  PROVE  Below(t, n, direct) = Onward(t, FirstChild(t, n), direct)
<1>0. /\ n \in Nat /\ 1 <= n /\ DOMAIN t = 1..Len(t) /\ Len(t) \in Nat
      /\ \A m \in DOMAIN t : m \in Nat /\ t[m].parent \in 0..(m - 1)
  BY DocumentType
<1>1. CASE FirstChild(t, n) = Nothing(t)
  <2>1. /\ \A m \in DOMAIN t : t[m].parent # n
        /\ \A m \in DOMAIN t : n < m => n \notin Enclosing(t, m)
    BY <1>0, <1>1, FirstChildIs, DocumentType
  <2>2. \A m \in DOMAIN t : n \in Enclosing(t, m) => n <= m
    BY <1>0 DEF Enclosing
  <2>3. \A m \in DOMAIN t : m # n => n \notin Enclosing(t, m)
    BY <1>0, <2>1, <2>2
  <2>4. Below(t, n, direct) = {}
    BY <2>1, <2>3 DEF Below
  <2> QED
    BY <1>1, <2>4, OnwardFromNowhere
<1>2. CASE n + 1 \in DOMAIN t /\ t[n + 1].parent = n /\ FirstChild(t, n) = n + 1
  <2>1. CASE direct
    <3>1. \A m \in DOMAIN t : t[m].parent = n => n + 1 <= m
      BY <1>0
    <3> QED
      BY <1>2, <2>1, <3>1 DEF Below, Onward
  <2>2. CASE ~direct
    <3>1. ASSUME NEW m \in DOMAIN t
          PROVE  m # n /\ n \in Enclosing(t, m) <=>
                 n + 1 <= m /\ \A k \in (n + 1)..m : n <= t[k].parent
      BY <1>0 DEF Enclosing
    <3> QED
      BY <1>2, <2>2, <3>1 DEF Below, Onward
  <2> QED
    BY <2>1, <2>2
<1> QED
  BY <1>1, <1>2, FirstChildIs

\* A direct walk passes a node, then the nodes from its next sibling on.
LEMMA OnwardDirect ==
  ASSUME NEW t, IsDocument(t), NEW n \in DOMAIN t
  PROVE  /\ Onward(t, n, TRUE) = {n} \cup Onward(t, NextSibling(t, n), TRUE)
         /\ \A m \in Onward(t, NextSibling(t, n), TRUE) : n < m
<1> DEFINE s == NextSibling(t, n)
<1>0. \A m \in DOMAIN t : m \in Nat
  BY DocumentType
<1>1. CASE s \in DOMAIN t
  <2>1. /\ n < s /\ t[s].parent = t[n].parent
        /\ \A m \in DOMAIN t : n < m /\ t[m].parent = t[n].parent => s <= m
    BY <1>1, NextSiblingIs, DocumentType
  <2> HIDE DEF s
  <2>2. \A m \in DOMAIN t : n <= m /\ t[m].parent = t[n].parent <=>
                            m = n \/ (s <= m /\ t[m].parent = t[s].parent)
    BY <1>0, <1>1, <2>1
  <2>3. \A m \in DOMAIN t : s <= m => n < m
    BY <1>0, <1>1, <2>1
  <2>4. Onward(t, n, TRUE) = {n} \cup Onward(t, s, TRUE)
    BY <2>2 DEF Onward
  <2> QED
    BY <2>3, <2>4 DEF Onward, s
<1>2. CASE s = Nothing(t)
  <2>1. \A m \in DOMAIN t : n < m => t[m].parent # t[n].parent
    BY <1>2, NextSiblingIs, DocumentType
  <2>2. \A m \in DOMAIN t : n <= m /\ t[m].parent = t[n].parent <=> m = n
    BY <1>0, <2>1
  <2>3. Onward(t, n, TRUE) = {n}
    BY <2>2 DEF Onward
  <2> QED
    BY <1>2, <2>3, OnwardFromNowhere
<1> QED
  BY <1>1, <1>2, NextSiblingIs

\* Any other walk passes a node, then what is below it, then the nodes from its
\* next sibling on.
LEMMA OnwardDeep ==
  ASSUME NEW t, IsDocument(t), NEW n \in DOMAIN t
  PROVE  /\ Onward(t, n, FALSE) =
              {n} \cup Below(t, n, FALSE) \cup Onward(t, NextSibling(t, n), FALSE)
         /\ \A m \in Below(t, n, FALSE) : n < m
         /\ \A m \in Onward(t, NextSibling(t, n), FALSE) : n < m
         /\ \A m \in Below(t, n, FALSE), k \in Onward(t, NextSibling(t, n), FALSE) : m < k
<1> DEFINE s == NextSibling(t, n)
           p == t[n].parent
<1>0. /\ n \in Nat /\ 1 <= n /\ DOMAIN t = 1..Len(t) /\ Len(t) \in Nat
      /\ \A m \in DOMAIN t : m \in Nat /\ t[m].parent \in Nat /\ t[m].parent < m
  BY DocumentType
<1>1. \A m \in DOMAIN t : m \in Below(t, n, FALSE) <=>
                          n < m /\ \A k \in (n + 1)..m : n <= t[k].parent
  BY <1>0 DEF Below, Enclosing
<1>2. \A m \in Below(t, n, FALSE) : m \in DOMAIN t /\ n < m
  BY <1>1 DEF Below
<1>3. \A m \in Onward(t, s, FALSE) : s \in DOMAIN t /\ m \in DOMAIN t /\ s <= m /\ n < s /\ n < m
  <2> SUFFICES ASSUME NEW m \in Onward(t, s, FALSE)
               PROVE  s \in DOMAIN t /\ m \in DOMAIN t /\ s <= m /\ n < s /\ n < m
    OBVIOUS
  <2>1. s \in DOMAIN t /\ n < s
    BY NextSiblingIs, OnwardFromNowhere
  <2>2. m \in DOMAIN t /\ s <= m
    BY DEF Onward
  <2> HIDE DEF s
  <2> QED
    BY <1>0, <2>1, <2>2
<1>4. ASSUME NEW m \in Below(t, n, FALSE), NEW k \in Onward(t, s, FALSE)
      PROVE  m < k
  <2>1. m \in DOMAIN t /\ s \in DOMAIN t /\ n < s /\ s <= k /\ k \in DOMAIN t /\ t[s].parent = p
    <3>1. m \in DOMAIN t /\ s \in DOMAIN t /\ n < s /\ s <= k /\ k \in DOMAIN t
      BY <1>2, <1>3
    <3>2. s # Nothing(t)
      BY <3>1, DocumentType
    <3> QED
      BY <3>1, <3>2, NextSiblingIs
  <2>2. ~(s <= m)
    <3> HIDE DEF s
    <3> SUFFICES ASSUME s <= m PROVE FALSE
      OBVIOUS
    <3>1. s \in (n + 1)..m
      BY <1>0, <2>1
    <3>2. n <= t[s].parent
      BY <1>1, <2>1, <3>1
    <3> QED
      BY <1>0, <2>1, <3>2
  <2> HIDE DEF s
  <2> QED
    BY <1>0, <2>1, <2>2
<1>5. ASSUME NEW m \in Below(t, n, FALSE)
      PROVE  m \in Onward(t, n, FALSE)
  <2>1. m \in DOMAIN t /\ n < m /\ \A k \in (n + 1)..m : n <= t[k].parent
    BY <1>1, <1>2
  <2>2. \A k \in n..m : p <= t[k].parent
    BY <1>0, <2>1
  <2> QED
    BY <1>0, <2>1, <2>2 DEF Onward
<1>6. ASSUME NEW m \in Onward(t, s, FALSE)
      PROVE  m \in Onward(t, n, FALSE)
  <2>1. /\ m \in DOMAIN t /\ s \in DOMAIN t /\ n < s /\ s <= m /\ t[s].parent = p
        /\ \A k \in s..m : t[s].parent <= t[k].parent
    BY <1>3, NextSiblingIs, DocumentType DEF Onward
  <2> HIDE DEF s
  <2>2. ASSUME NEW k \in n..m
        PROVE  p <= t[k].parent
    <3>0. k \in DOMAIN t /\ s \in Nat /\ m \in Nat
      BY <1>0, <2>1
    <3>1. CASE s <= k
      BY <1>0, <2>1, <3>0, <3>1
    <3>2. CASE ~(s <= k)
      BY <1>0, <2>1, <3>0, <3>2, NoCrossing
    <3> QED
      BY <3>1, <3>2
  <2>3. n <= m
    BY <1>0, <2>1
  <2> QED
    BY <2>1, <2>2, <2>3 DEF Onward
<1>7. ASSUME NEW m \in Onward(t, n, FALSE), m # n, m \notin Below(t, n, FALSE)
      PROVE  m \in Onward(t, s, FALSE)
  <2>1. m \in DOMAIN t /\ n < m /\ \A k \in n..m : p <= t[k].parent
    BY <1>0, <1>7 DEF Onward
  <2>2. PICK k \in (n + 1)..m : ~(n <= t[k].parent)
    BY <1>1, <1>7, <2>1
  <2>3. k \in DOMAIN t /\ n < k /\ k <= m /\ t[k].parent = p
    <3>1. k \in DOMAIN t /\ n < k /\ k <= m /\ k \in n..m
      BY <1>0, <2>1, <2>2
    <3>2. t[k].parent <= p
      BY <2>2, <3>1, NoCrossing
    <3> QED
      BY <1>0, <2>1, <3>1, <3>2
  <2>4. s \in DOMAIN t /\ n < s /\ s <= k /\ t[s].parent = p
    BY <2>3, NextSiblingIs
  <2> HIDE DEF s
  <2>5. s <= m /\ \A j \in s..m : t[s].parent <= t[j].parent
    BY <1>0, <2>1, <2>3, <2>4
  <2> QED
    BY <2>1, <2>5 DEF Onward
<1>8. n \in Onward(t, n, FALSE)
  BY <1>0 DEF Onward
<1>9. Onward(t, n, FALSE) = {n} \cup Below(t, n, FALSE) \cup Onward(t, s, FALSE)
  <2> HIDE DEF s
  <2> QED
    BY <1>5, <1>6, <1>7, <1>8
<1> QED
  BY <1>2, <1>3, <1>4, <1>9

(***************************************************************************)
(* The first field of a set of nodes: what the first node decides that is  *)
(* such a field or has no identifier.                                      *)
(***************************************************************************)
Notable(t, S, ident) ==
  { m \in S : t[m].ident = Missing \/ (t[m].ident = ident /\ t[m].kind # "group") }

Verdict(t, n) ==
  IF n = Nothing(t) THEN Nothing(t) ELSE IF t[n].ident = Missing THEN KeyError ELSE n

LEMMA FirstOfIs ==
  ASSUME NEW t, IsDocument(t), NEW S \in SUBSET DOMAIN t, NEW ident \in Ident
  PROVE  FirstOf(t, S, ident) = Verdict(t, Earliest(t, Notable(t, S, ident)))
<1> DEFINE fields == { n \in S : t[n].ident = ident /\ t[n].kind # "group" }
           seen   == { n \in S : \A f \in fields : n < f }
           N      == Notable(t, S, ident)
           e      == Earliest(t, N)
<1>0. /\ ident # Missing /\ S \in SUBSET Nat /\ Nothing(t) \notin S /\ Nothing(t) # KeyError
      /\ N \in SUBSET DOMAIN t /\ fields \in SUBSET DOMAIN t /\ fields \subseteq N
      /\ \A n \in N : n \in S /\ (n \notin fields => t[n].ident = Missing)
      /\ \A n \in S : t[n].ident = Missing => n \in N /\ n \notin fields
  BY StructuredAssumption, DocumentType DEF Notable
<1>1. FirstOf(t, S, ident) =
        IF \E n \in seen : t[n].ident = Missing THEN KeyError ELSE Earliest(t, fields)
  BY DEF FirstOf
<1>2. CASE N = {}
  <2>1. e = Nothing(t) /\ fields = {} /\ \A n \in S : t[n].ident # Missing
    BY <1>0, <1>2, EarliestIs
  <2>2. FirstOf(t, S, ident) = Nothing(t)
    BY <1>0, <1>1, <2>1, EarliestIs
  <2> QED
    BY <2>1, <2>2 DEF Verdict
<1>3. CASE N # {}
  <2>1. e \in N /\ \A n \in N : e <= n
    BY <1>0, <1>3, EarliestIs
  <2>2. e # Nothing(t) /\ e \in S
    BY <1>0, <2>1
  <2>3. CASE t[e].ident = Missing
    <3> HIDE DEF e, N
    <3>1. \A f \in fields : e < f
      BY <1>0, <2>1, <2>2, <2>3
    <3>2. e \in seen
      BY <2>2, <3>1
    <3> HIDE DEF seen, fields
    <3>3. FirstOf(t, S, ident) = KeyError
      BY <1>1, <2>3, <3>2
    <3> QED
      BY <2>2, <2>3, <3>3 DEF Verdict, e, N
  <2>4. CASE t[e].ident # Missing
    <3> HIDE DEF e, N
    <3>1. e \in fields /\ \A f \in fields : e <= f
      BY <1>0, <2>1, <2>4
    <3>2. Earliest(t, fields) = e
      <4> HIDE DEF fields
      <4> QED
        BY <1>0, <3>1, EarliestIs
    <3>3. \A n \in seen : t[n].ident # Missing
      <4> SUFFICES ASSUME NEW n \in seen, t[n].ident = Missing PROVE FALSE
        OBVIOUS
      <4>1. n \in N /\ n < e
        BY <1>0, <3>1
      <4> QED
        BY <1>0, <2>1, <2>2, <4>1
    <3> HIDE DEF seen, fields
    <3> QED
      BY <1>1, <2>2, <2>4, <3>2, <3>3 DEF Verdict, e, N
  <2> QED
    BY <2>3, <2>4
<1> QED
  BY <1>2, <1>3

LEMMA FirstOfType ==
  ASSUME NEW t, IsDocument(t), NEW S \in SUBSET DOMAIN t, NEW ident \in Ident
  PROVE  \/ FirstOf(t, S, ident) = KeyError
         \/ FirstOf(t, S, ident) = Nothing(t)
         \/ /\ FirstOf(t, S, ident) \in S
            /\ t[FirstOf(t, S, ident)].kind # "group"
<1>1. Notable(t, S, ident) \in SUBSET S
  BY DEF Notable
<1>2. Earliest(t, Notable(t, S, ident)) \in Notable(t, S, ident) \cup {Nothing(t)}
  BY <1>1, EarliestIs
<1> QED
  BY <1>2, FirstOfIs DEF Verdict, Notable

LEMMA FirstOfNone ==
  ASSUME NEW t, IsDocument(t), NEW ident \in Ident
  PROVE  FirstOf(t, {}, ident) = Nothing(t)
<1>1. Notable(t, {}, ident) = {}
  BY DEF Notable
<1>2. Earliest(t, {}) = Nothing(t)
  BY EarliestIs
<1> QED
  BY <1>1, <1>2, FirstOfIs DEF Verdict

LEMMA FirstOfOne ==
  ASSUME NEW t, IsDocument(t), NEW n \in DOMAIN t, NEW ident \in Ident
  PROVE  FirstOf(t, {n}, ident) =
           IF t[n].ident = Missing THEN KeyError
           ELSE IF t[n].ident = ident /\ t[n].kind # "group" THEN n ELSE Nothing(t)
<1> DEFINE N == Notable(t, {n}, ident)
<1>1. N \in SUBSET {n} /\ N \in SUBSET DOMAIN t
  BY DEF Notable
<1>2. n \in Nat /\ n # Nothing(t)
  BY DocumentType
<1>3. FirstOf(t, {n}, ident) = Verdict(t, Earliest(t, N))
  BY FirstOfIs
<1>4. CASE n \in N
  <2>1. Earliest(t, N) = n
    <3> HIDE DEF N
    <3> QED
      BY <1>1, <1>2, <1>4, EarliestIs
  <2> QED
    BY <1>2, <1>3, <1>4, <2>1 DEF Verdict, Notable
<1>5. CASE n \notin N
  <2>1. Earliest(t, N) = Nothing(t)
    <3>1. N = {}
      BY <1>1, <1>5
    <3> HIDE DEF N
    <3> QED
      BY <1>1, <3>1, EarliestIs
  <2> QED
    BY <1>2, <1>3, <1>5, <2>1 DEF Verdict, Notable
<1> QED
  BY <1>4, <1>5

LEMMA FirstOfBehind ==
  ASSUME NEW t, IsDocument(t), NEW A \in SUBSET DOMAIN t, NEW B \in SUBSET DOMAIN t,
         \A a \in A, b \in B : a < b, NEW ident \in Ident
  PROVE  FirstOf(t, A \cup B, ident) =
           IF FirstOf(t, A, ident) # Nothing(t) THEN FirstOf(t, A, ident)
           ELSE FirstOf(t, B, ident)
<1> DEFINE NA == Notable(t, A, ident)
           NB == Notable(t, B, ident)
<1>1. /\ NA \in SUBSET DOMAIN t /\ NB \in SUBSET DOMAIN t
      /\ \A a \in NA, b \in NB : a < b
      /\ Notable(t, A \cup B, ident) = NA \cup NB
  BY DEF Notable
<1>2. /\ FirstOf(t, A, ident) = Verdict(t, Earliest(t, NA))
      /\ FirstOf(t, B, ident) = Verdict(t, Earliest(t, NB))
      /\ FirstOf(t, A \cup B, ident) = Verdict(t, Earliest(t, NA \cup NB))
  <2>1. A \cup B \in SUBSET DOMAIN t
    OBVIOUS
  <2> QED
    BY <1>1, <2>1, FirstOfIs
<1>3. /\ Nothing(t) \notin DOMAIN t /\ Nothing(t) # KeyError
      /\ \A m \in DOMAIN t : m \in Nat
  BY DocumentType
<1> HIDE DEF NA, NB
<1>4. CASE NA = {}
  <2>1. Verdict(t, Earliest(t, NA)) = Nothing(t) /\ NA \cup NB = NB
    BY <1>1, <1>4, EarliestIs DEF Verdict
  <2> QED
    BY <1>2, <2>1
<1>5. CASE NA # {}
  <2>1. Earliest(t, NA) \in NA /\ \A m \in NA : Earliest(t, NA) <= m
    BY <1>1, <1>5, EarliestIs
  <2>2. \A m \in NA \cup NB : Earliest(t, NA) <= m
    BY <1>1, <1>3, <2>1
  <2>3. Earliest(t, NA \cup NB) = Earliest(t, NA)
    <3>1. NA \cup NB \in SUBSET DOMAIN t /\ Earliest(t, NA) \in NA \cup NB
      BY <1>1, <2>1
    <3> QED
      BY <2>2, <3>1, EarliestIs
  <2>4. Verdict(t, Earliest(t, NA)) # Nothing(t)
    BY <1>1, <1>3, <2>1 DEF Verdict
  <2> QED
    BY <1>2, <2>3, <2>4
<1> QED
  BY <1>4, <1>5

(***************************************************************************)
(* find_in_nodes(): one step of it, and what all its steps find.           *)
(***************************************************************************)
Places(t) == 1..(Len(t) + 1)

FindStep(t, ident, direct, find, n) ==
  IF n = Nothing(t) THEN Nothing(t)
  ELSE LET nested == IF Enters(t, n, direct) THEN find[FirstChild(t, n)] ELSE Nothing(t)
       IN  IF t[n].ident = Missing THEN KeyError
           ELSE IF t[n].ident = ident /\ t[n].kind # "group" THEN n
           ELSE IF nested # Nothing(t) THEN nested
           ELSE find[NextSibling(t, n)]

Found(t, ident, direct) == [n \in Places(t) |-> FirstOf(t, Onward(t, n, direct), ident)]

\* A step asks for what comes behind.
LEMMA LaterPlaces ==
  ASSUME NEW t, IsDocument(t), NEW n \in Places(t), n # Nothing(t)
  PROVE  /\ n \in DOMAIN t
         /\ FirstChild(t, n) \in Places(t) /\ n < FirstChild(t, n)
         /\ NextSibling(t, n) \in Places(t) /\ n < NextSibling(t, n)
<1>1. /\ n \in DOMAIN t /\ n \in Nat /\ Nothing(t) \in Places(t) /\ n < Nothing(t)
      /\ DOMAIN t \subseteq Places(t)
  BY DocumentType DEF Places
<1>2. FirstChild(t, n) \in Places(t) /\ n < FirstChild(t, n)
  BY <1>1, FirstChildIs
<1>3. NextSibling(t, n) \in Places(t) /\ n < NextSibling(t, n)
  BY <1>1, NextSiblingIs
<1> QED
  BY <1>1, <1>2, <1>3

LEMMA FoundStep ==
  ASSUME NEW t, IsDocument(t), NEW ident \in Ident, NEW direct \in BOOLEAN, NEW n \in Places(t)
  PROVE  Found(t, ident, direct)[n] = FindStep(t, ident, direct, Found(t, ident, direct), n)
<1> DEFINE F == Found(t, ident, direct)
           c == FirstChild(t, n)
           s == NextSibling(t, n)
           onward == Onward(t, s, direct)
<1>1. CASE n = Nothing(t)
  BY <1>1, OnwardFromNowhere, FirstOfNone DEF Found, FindStep
<1>2. CASE n # Nothing(t)
  <2>1. /\ n \in DOMAIN t /\ c \in Places(t) /\ s \in Places(t) /\ n # KeyError
        /\ n \in Nat
    BY <1>2, LaterPlaces, DocumentType
  <2>2. /\ F[n] = FirstOf(t, Onward(t, n, direct), ident)
        /\ F[c] = FirstOf(t, Below(t, n, direct), ident)
        /\ F[s] = FirstOf(t, onward, ident)
    BY <2>1, BelowIsOnward DEF Found
  <2>3. onward \in SUBSET DOMAIN t /\ Below(t, n, direct) \in SUBSET DOMAIN t
    BY DEF Onward, Below
  <2> DEFINE here == IF t[n].ident = Missing THEN KeyError
                     ELSE IF t[n].ident = ident /\ t[n].kind # "group" THEN n ELSE Nothing(t)
  <2>4. FirstOf(t, {n}, ident) = here
    BY <2>1, FirstOfOne
  <2>5. CASE direct
    <3>1. /\ Onward(t, n, direct) = {n} \cup onward
          /\ \A m \in onward : n < m
      BY <2>1, <2>5, OnwardDirect
    <3>2. F[n] = IF here # Nothing(t) THEN here ELSE F[s]
      <4>1. {n} \in SUBSET DOMAIN t /\ \A a \in {n}, b \in onward : a < b
        BY <2>1, <3>1
      <4> HIDE DEF F, onward, here
      <4> QED
        BY <2>2, <2>3, <2>4, <3>1, <4>1, FirstOfBehind
    <3> QED
      BY <1>2, <2>1, <2>5, <3>2, DocumentType DEF FindStep, Enters
  <2>6. CASE ~direct
    <3> DEFINE below == Below(t, n, direct)
    <3>1. /\ Onward(t, n, direct) = {n} \cup below \cup onward
          /\ \A m \in below : n < m
          /\ \A m \in onward : n < m
          /\ \A m \in below, k \in onward : m < k
      BY <2>1, <2>6, OnwardDeep
    <3>2. F[n] = IF here # Nothing(t) THEN here ELSE IF F[c] # Nothing(t) THEN F[c] ELSE F[s]
      <4>1. /\ {n} \in SUBSET DOMAIN t /\ \A a \in {n}, b \in below \cup onward : a < b
            /\ below \cup onward \in SUBSET DOMAIN t
            /\ {n} \cup (below \cup onward) = Onward(t, n, direct)
        BY <2>1, <2>3, <3>1
      <4>2. below \in SUBSET DOMAIN t /\ onward \in SUBSET DOMAIN t
        BY <2>3
      <4> HIDE DEF F, onward, here, below
      <4>3. FirstOf(t, below \cup onward, ident) =
              IF FirstOf(t, below, ident) # Nothing(t) THEN FirstOf(t, below, ident)
              ELSE FirstOf(t, onward, ident)
        BY <3>1, <4>2, FirstOfBehind
      <4>4. FirstOf(t, {n} \cup (below \cup onward), ident) =
              IF FirstOf(t, {n}, ident) # Nothing(t) THEN FirstOf(t, {n}, ident)
              ELSE FirstOf(t, below \cup onward, ident)
        <5> DEFINE rest == below \cup onward
        <5>1. /\ {n} \in SUBSET DOMAIN t /\ rest \in SUBSET DOMAIN t
              /\ \A a \in {n}, b \in rest : a < b
          BY <4>1
        <5> HIDE DEF rest
        <5>2. FirstOf(t, {n} \cup rest, ident) =
                IF FirstOf(t, {n}, ident) # Nothing(t) THEN FirstOf(t, {n}, ident)
                ELSE FirstOf(t, rest, ident)
          BY <5>1, FirstOfBehind
        <5> QED
          BY <5>2 DEF rest
      <4>5. F[n] = FirstOf(t, {n} \cup (below \cup onward), ident)
        BY <2>2, <4>1
      <4>6. F[c] = FirstOf(t, below, ident) /\ F[s] = FirstOf(t, onward, ident)
        BY <2>2 DEF below
      <4>7. F[n] = IF here # Nothing(t) THEN here ELSE FirstOf(t, below \cup onward, ident)
        BY <2>4, <4>4, <4>5
      <4>8. FirstOf(t, below \cup onward, ident) = IF F[c] # Nothing(t) THEN F[c] ELSE F[s]
        BY <4>3, <4>6
      <4> QED
        BY <4>7, <4>8
    <3>3. ~Enters(t, n, direct) => F[c] = Nothing(t)
      <4>1. ~Enters(t, n, direct) => c = Nothing(t)
        BY <2>1, <2>6, OnlyInGroups DEF Enters
      <4> QED
        BY <2>1, <4>1, OnwardFromNowhere, FirstOfNone DEF Found
    <3> QED
      BY <1>2, <2>1, <3>2, <3>3, DocumentType DEF FindStep
  <2> QED
    BY <2>5, <2>6
<1> QED
  BY <1>1, <1>2

\* From every node on, find_in_nodes() finds the first field of what it passes.
LEMMA FindIs ==
  ASSUME NEW t, IsDocument(t), NEW ident \in Ident, NEW direct \in BOOLEAN
  PROVE  \A n \in Places(t) :
           FindInNodes(t, ident, direct)[n] = FirstOf(t, Onward(t, n, direct), ident)
<1> DEFINE F == Found(t, ident, direct)
           find == FindInNodes(t, ident, direct)
<1>1. F = [n \in Places(t) |-> FindStep(t, ident, direct, F, n)]
  BY FoundStep DEF Found
<1>2. find = [n \in Places(t) |-> FindStep(t, ident, direct, find, n)]
  <2> HIDE DEF F
  <2> QED
    BY <1>1 DEF FindInNodes, FindStep, Places
<1>3. \A n \in Places(t) : find[n] = F[n]
  <2> DEFINE Bad == { n \in Places(t) : find[n] # F[n] }
  <2> SUFFICES ASSUME Bad # {} PROVE FALSE
    OBVIOUS
  <2>1. Len(t) + 1 \in Nat /\ Bad \in SUBSET (0..(Len(t) + 1))
    BY DocumentType DEF Places
  <2>2. PICK n \in Bad : \A m \in Bad : m <= n
    <3> HIDE DEF Bad
    <3> QED
      BY <2>1, GreatestExists
  <2>3. \A m \in Places(t) : n < m => find[m] = F[m]
    BY <2>1, <2>2 DEF Places
  <2> HIDE DEF F, find
  <2>4. n \in Places(t) /\ find[n] # F[n]
    BY <2>2
  <2>5. FindStep(t, ident, direct, find, n) = FindStep(t, ident, direct, F, n)
    BY <2>3, <2>4, LaterPlaces DEF FindStep
  <2> QED
    BY <1>1, <1>2, <2>4, <2>5
<1> QED
  BY <1>3 DEF Found

\* InGroup, which walks, is FirstField, which does not.
LEMMA InGroupIs ==
  ASSUME NEW t, IsDocument(t), NEW n \in DOMAIN t, NEW ident \in Ident, NEW direct \in BOOLEAN
  PROVE  InGroup(t, n, ident, direct) = FirstField(t, n, ident, direct)
<1>1. n \in Places(t) /\ n # Nothing(t)
  BY DocumentType DEF Places
<1>2. FirstChild(t, n) \in Places(t)
  BY <1>1, LaterPlaces
<1> QED
  BY <1>2, FindIs, BelowIsOnward DEF InGroup, FirstField

(***************************************************************************)
(* find_group(), on its way down: `here' are the identifiers of the groups *)
(* around a node, and ends with a path where the path leads to the node.   *)
(***************************************************************************)
TrailStep(t, here, n) ==
  IF n = 0 THEN <<>>
  ELSE IF IsGroup(t, n) THEN Append(here[t[n].parent], t[n].ident)
  ELSE here[t[n].parent]

Groups(t, n) == { g \in Enclosing(t, n) : IsGroup(t, g) }

Outline(t) == [n \in 0..Len(t) |-> Listing(Groups(t, n), [g \in DOMAIN t |-> t[g].ident])]

Name == Ident \cup {Missing}

LEMMA GroupsAre ==
  ASSUME NEW t, IsDocument(t), NEW n \in DOMAIN t
  PROVE  /\ Groups(t, 0) = {}
         /\ Groups(t, n) = Groups(t, t[n].parent) \cup (IF IsGroup(t, n) THEN {n} ELSE {})
         /\ \A g \in Groups(t, t[n].parent) : g < n
<1> DEFINE p == t[n].parent
<1>0. /\ n \in Nat /\ 1 <= n /\ p \in Nat /\ p < n
      /\ p # 0 => p \in Enclosing(t, n - 1)
  BY DocumentType
<1>1. Enclosing(t, 0) = {}
  BY DEF Enclosing
<1>2. \A g \in Enclosing(t, p) : g \in Nat /\ g <= p /\ g < n
  BY <1>0 DEF Enclosing
<1>3. ASSUME NEW g \in Enclosing(t, n), g # n
      PROVE  g \in Enclosing(t, p)
  <2>1. g \in 1..n /\ \A m \in (g + 1)..n : g <= t[m].parent
    BY <1>3 DEF Enclosing
  <2>2. g <= p
    BY <1>0, <1>3, <2>1
  <2>3. \A m \in (g + 1)..p : g <= t[m].parent
    BY <1>0, <2>1, <2>2
  <2> QED
    BY <1>0, <2>1, <2>2, <2>3 DEF Enclosing
<1>4. ASSUME NEW g \in Enclosing(t, p)
      PROVE  g \in Enclosing(t, n)
  <2>1. g \in 1..p /\ \A m \in (g + 1)..p : g <= t[m].parent
    BY <1>4 DEF Enclosing
  <2>2. /\ p # 0 /\ p \in Enclosing(t, n - 1)
    BY <1>0, <2>1
  <2>3. \A m \in (p + 1)..(n - 1) : p <= t[m].parent
    BY <2>2 DEF Enclosing
  <2>4. ASSUME NEW m \in (g + 1)..n
        PROVE  g <= t[m].parent
    <3>1. CASE m <= p
      BY <1>0, <2>1, <2>4, <3>1
    <3>2. CASE m = n
      BY <1>0, <2>1, <3>2
    <3>3. CASE ~(m <= p) /\ m # n
      <4>1. m \in (p + 1)..(n - 1) /\ m \in DOMAIN t
        BY <1>0, <2>1, <2>4, <3>3, DocumentType
      <4>2. p <= t[m].parent /\ t[m].parent \in Nat
        BY <2>3, <4>1, DocumentType
      <4> QED
        BY <1>0, <2>1, <4>2
    <3> QED
      BY <3>1, <3>2, <3>3
  <2>5. g \in 1..n
    BY <1>0, <2>1
  <2> QED
    BY <2>4, <2>5 DEF Enclosing
<1>5. n \in Enclosing(t, n)
  BY <1>0 DEF Enclosing
<1>6. Enclosing(t, n) = Enclosing(t, p) \cup {n}
  BY <1>3, <1>4, <1>5
<1> QED
  BY <1>1, <1>2, <1>6 DEF Groups

LEMMA GroupsFinite ==
  ASSUME NEW t, IsDocument(t), NEW n \in 0..Len(t)
  PROVE  /\ Groups(t, n) \in SUBSET Nat /\ Groups(t, n) \in SUBSET DOMAIN t
         /\ IsFiniteSet(Groups(t, n))
<1>1. n \in Nat /\ Len(t) \in Nat /\ DOMAIN t = 1..Len(t)
  BY DocumentType
<1>2. Groups(t, n) \in SUBSET (1..n)
  BY DEF Groups, Enclosing
<1>3. IsFiniteSet(1..n) /\ 1..n \subseteq DOMAIN t /\ 1..n \subseteq Nat
  <2>1. n \in Int /\ 1 \in Int
    BY <1>1
  <2>2. IsFiniteSet(1..n)
    BY <2>1, FS_Interval
  <2>3. \A m \in 1..n : m \in 1..Len(t) /\ m \in Nat
    BY <1>1
  <2> QED
    BY <1>1, <2>2, <2>3
<1>4. IsFiniteSet(Groups(t, n))
  BY <1>2, <1>3, FS_Subset
<1> QED
  BY <1>2, <1>3, <1>4

LEMMA OutlineStep ==
  ASSUME NEW t, IsDocument(t), NEW n \in 0..Len(t)
  PROVE  /\ Outline(t)[n] \in Seq(Name)
         /\ Outline(t)[n] = TrailStep(t, Outline(t), n)
<1> DEFINE names == [g \in DOMAIN t |-> t[g].ident]
<1>1. ASSUME NEW m \in 0..Len(t)
      PROVE  Outline(t)[m] = Listing(Groups(t, m), names) /\ Outline(t)[m] \in Seq(Name)
  <2>1. \A g \in Groups(t, m) : names[g] \in Name
    BY <1>1, GroupsFinite, DocumentType DEF Name
  <2> HIDE DEF names
  <2>2. Listing(Groups(t, m), names) \in Seq(Name)
    BY <1>1, <2>1, GroupsFinite, ListingType
  <2> QED
    BY <2>2 DEF Outline, names
<1>2. CASE n = 0
  <2>1. Groups(t, 0) = {}
    BY DEF Groups, Enclosing
  <2> QED
    BY <1>1, <1>2, <2>1, ListingOfNone DEF TrailStep
<1>3. CASE n # 0
  <2> DEFINE p == t[n].parent
             A == Groups(t, p)
  <2>1. n \in DOMAIN t /\ n \in Nat /\ p \in 0..Len(t)
    BY <1>3, DocumentType
  <2>2. Groups(t, n) = A \cup (IF IsGroup(t, n) THEN {n} ELSE {}) /\ \A g \in A : g < n
    BY <2>1, GroupsAre
  <2>3. CASE IsGroup(t, n)
    <3>1. /\ A \in SUBSET Nat /\ IsFiniteSet(A) /\ {n} \in SUBSET Nat /\ IsFiniteSet({n})
          /\ \A a \in A, b \in {n} : a < b
          /\ \A g \in A \cup {n} : names[g] \in Name
      <4>1. A \in SUBSET Nat /\ IsFiniteSet(A) /\ A \in SUBSET DOMAIN t
        BY <2>1, GroupsFinite
      <4>2. {n} \in SUBSET Nat /\ IsFiniteSet({n}) /\ \A a \in A, b \in {n} : a < b
        BY <2>1, <2>2, FS_Singleton
      <4>3. \A g \in A \cup {n} : g \in DOMAIN t
        BY <2>1, <4>1
      <4>4. \A g \in DOMAIN t : names[g] \in Name
        BY DocumentType DEF Name
      <4> QED
        BY <4>1, <4>2, <4>3, <4>4
    <3>2. names[n] = t[n].ident
      BY <2>1
    <3> HIDE DEF A, names
    <3>3. Listing(A \cup {n}, names) = Listing(A, names) \o <<names[n]>>
      <4>1. Listing({n}, names) = <<names[n]>>
        BY <2>1, ListingOfOne
      <4>2. Listing(A \cup {n}, names) = Listing(A, names) \o Listing({n}, names)
        BY <3>1, ListingBehind
      <4> QED
        BY <4>1, <4>2
    <3>4. Outline(t)[p] = Listing(A, names) /\ Outline(t)[p] \in Seq(Name) /\ names[n] \in Name
      BY <1>1, <2>1, <3>1 DEF A
    <3>5. Append(Outline(t)[p], names[n]) = Listing(A, names) \o <<names[n]>>
      BY <3>4, AppendIsConcat
    <3> QED
      BY <1>1, <1>3, <2>2, <2>3, <3>2, <3>3, <3>5 DEF TrailStep
  <2>4. CASE ~IsGroup(t, n)
    BY <1>1, <1>3, <2>1, <2>2, <2>4 DEF TrailStep
  <2> QED
    BY <2>3, <2>4
<1> QED
  BY <1>1, <1>2, <1>3

LEMMA TrailIs ==
  ASSUME NEW t, IsDocument(t)
  PROVE  \A n \in 0..Len(t) : /\ Trail(t)[n] \in Seq(Name)
                              /\ Trail(t)[n] = TrailStep(t, Trail(t), n)
<1> DEFINE F == Outline(t)
           here == Trail(t)
<1>1. F = [n \in 0..Len(t) |-> TrailStep(t, F, n)]
  BY OutlineStep DEF Outline
<1>2. here = [n \in 0..Len(t) |-> TrailStep(t, here, n)]
  <2> HIDE DEF F
  <2> QED
    BY <1>1 DEF Trail, TrailStep
<1>3. \A n \in 0..Len(t) : here[n] = F[n]
  <2> DEFINE Bad == { n \in 0..Len(t) : here[n] # F[n] }
  <2> SUFFICES ASSUME Bad # {} PROVE FALSE
    OBVIOUS
  <2>1. PICK n \in Bad : \A m \in Bad : n <= m
    <3>1. Bad \in SUBSET Nat
      OBVIOUS
    <3> HIDE DEF Bad
    <3> QED
      BY <3>1, LeastExists
  <2>2. n \in 0..Len(t) /\ here[n] # F[n] /\ \A m \in 0..Len(t) : m < n => here[m] = F[m]
    BY <2>1, DocumentType
  <2> HIDE DEF F, here, Bad
  <2>3. CASE n = 0
    BY <1>1, <1>2, <2>2, <2>3 DEF TrailStep
  <2>4. CASE n # 0
    <3>1. n \in DOMAIN t /\ t[n].parent \in 0..Len(t) /\ t[n].parent < n
      BY <2>2, <2>4, DocumentType
    <3>2. TrailStep(t, here, n) = TrailStep(t, F, n)
      BY <2>2, <2>4, <3>1 DEF TrailStep
    <3> QED
      BY <1>1, <1>2, <2>2, <3>2
  <2> QED
    BY <2>3, <2>4
<1> QED
  BY <1>2, <1>3, OutlineStep

Front(parts) == [k \in 1..(Len(parts) - 1) |-> parts[k]]

LEMMA FrontType ==
  ASSUME NEW parts \in Seq(Ident), parts # <<>>
  PROVE  /\ Len(parts) \in Nat /\ 1 <= Len(parts) /\ DOMAIN parts = 1..Len(parts)
         /\ Front(parts) \in Seq(Ident) /\ Len(Front(parts)) = Len(parts) - 1
         /\ \A k \in 1..(Len(parts) - 1) : Front(parts)[k] = parts[k]
<1>1. Len(parts) \in Nat /\ 1 <= Len(parts) /\ DOMAIN parts = 1..Len(parts)
  BY EmptySeq, LenProperties
<1>2. Len(parts) - 1 \in Nat /\ Front(parts) \in [1..(Len(parts) - 1) -> Ident]
  BY <1>1, ElementOfSeq DEF Front
<1>3. Front(parts) \in Seq(Ident)
  BY <1>2, SeqDef
<1>4. Len(Front(parts)) = Len(parts) - 1
  BY <1>2, <1>3, LenProperties
<1> QED
  BY <1>1, <1>3, <1>4 DEF Front

LEMMA EndsWithIs ==
  ASSUME NEW parts \in Seq(Ident), NEW here \in Seq(Name)
  PROVE  EndsWith(parts, here) <=>
           /\ Len(parts) <= Len(here)
           /\ \A k \in 1..Len(parts) : parts[k] = here[Len(here) - Len(parts) + k]
<1>1. parts \in [1..Len(parts) -> Ident]
  BY LenProperties
<1> QED
  BY <1>1 DEF EndsWith

LEMMA EndsWithAppend ==
  ASSUME NEW parts \in Seq(Ident), parts # <<>>, NEW here \in Seq(Name), NEW name \in Name
  PROVE  EndsWith(parts, Append(here, name)) <=>
           parts[Len(parts)] = name /\ EndsWith(Front(parts), here)
<1> DEFINE L == Len(parts)
           H == Len(here)
           more == Append(here, name)
<1>1. L \in Nat /\ 1 <= L /\ H \in Nat
  BY FrontType, LenProperties
<1>2. /\ more \in Seq(Name) /\ Len(more) = H + 1 /\ more[H + 1] = name
      /\ \A k \in 1..H : more[k] = here[k]
  BY AppendProperties, LenProperties
<1>3. EndsWith(parts, more) <=>
        L <= H + 1 /\ \A k \in 1..L : parts[k] = more[H + 1 - L + k]
  <2> HIDE DEF more
  <2>1. EndsWith(parts, more) <=>
          /\ Len(parts) <= Len(more)
          /\ \A k \in 1..Len(parts) : parts[k] = more[Len(more) - Len(parts) + k]
    BY <1>2, EndsWithIs
  <2> QED
    BY <1>2, <2>1
<1>4. EndsWith(Front(parts), here) <=>
        L - 1 <= H /\ \A k \in 1..(L - 1) : parts[k] = here[H - (L - 1) + k]
  <2> DEFINE front == Front(parts)
  <2>1. front \in Seq(Ident) /\ Len(front) = L - 1 /\ \A k \in 1..(L - 1) : front[k] = parts[k]
    BY FrontType
  <2> HIDE DEF front
  <2>2. EndsWith(front, here) <=>
          /\ Len(front) <= Len(here)
          /\ \A k \in 1..Len(front) : front[k] = here[Len(here) - Len(front) + k]
    BY <2>1, EndsWithIs
  <2>3. EndsWith(front, here) <=>
          L - 1 <= H /\ \A k \in 1..(L - 1) : front[k] = here[H - (L - 1) + k]
    <3> HIDE DEF L, H
    <3> QED
      BY <2>1, <2>2 DEF H
  <2> HIDE DEF L, H
  <2> QED
    BY <2>1, <2>3 DEF front
<1> HIDE DEF L, H, more
<1>5. ASSUME L <= H + 1
      PROVE  /\ more[H + 1 - L + L] = name
             /\ \A k \in 1..(L - 1) : more[H + 1 - L + k] = here[H - (L - 1) + k]
  <2>1. H + 1 - L + L = H + 1
    BY <1>1
  <2>2. \A k \in 1..(L - 1) : /\ H + 1 - L + k \in 1..H
                              /\ H - (L - 1) + k = H + 1 - L + k
    BY <1>1, <1>5
  <2> QED
    BY <1>2, <2>1, <2>2
<1>6. \A k \in 1..L : k = L \/ k \in 1..(L - 1)
  BY <1>1
<1>7. L \in 1..L /\ \A k \in 1..(L - 1) : k \in 1..L
  BY <1>1
<1>8. L <= H + 1 <=> L - 1 <= H
  BY <1>1
<1>9. EndsWith(parts, more) <=> parts[L] = name /\ EndsWith(Front(parts), here)
  BY <1>3, <1>4, <1>5, <1>6, <1>7, <1>8
<1> QED
  BY <1>9 DEF L, more

\* A path leads to a group by its last part if the rest of it leads to the
\* group around that.
LEMMA MatchingStep ==
  ASSUME NEW t, IsDocument(t), NEW n \in DOMAIN t, NEW parts \in Seq(Ident), parts # <<>>
  PROVE  n \in Matching(t, parts) <=>
           /\ IsGroup(t, n)
           /\ t[n].ident = parts[Len(parts)]
           /\ Len(parts) = 1 \/ t[n].parent \in Matching(t, Front(parts))
<1> DEFINE L == Len(parts)
           front == Front(parts)
           p == t[n].parent
           Leads(path, names, m) ==
             /\ path \in [DOMAIN names -> DOMAIN t]
             /\ path[Len(names)] = m
             /\ \A k \in DOMAIN names : t[path[k]].ident = names[k]
             /\ \A k \in DOMAIN names : k > 1 => path[k - 1] = t[path[k]].parent
<1>1. /\ L \in Nat /\ 1 <= L /\ DOMAIN parts = 1..L
      /\ front \in Seq(Ident) /\ Len(front) = L - 1 /\ DOMAIN front = 1..(L - 1)
      /\ \A k \in 1..(L - 1) : front[k] = parts[k]
  BY FrontType, LenProperties
<1>2. /\ \A m : m \in Matching(t, parts) <=>
                  m \in DOMAIN t /\ IsGroup(t, m) /\ \E path : Leads(path, parts, m)
      /\ \A m : m \in Matching(t, front) <=>
                  m \in DOMAIN t /\ IsGroup(t, m) /\ \E path : Leads(path, front, m)
  BY DEF Matching
<1> HIDE DEF L, front
<1>3. ASSUME NEW path, Leads(path, parts, n)
      PROVE  /\ t[n].ident = parts[L]
             /\ L = 1 \/ p \in Matching(t, front)
  <2>1. t[n].ident = parts[L]
    BY <1>1, <1>3 DEF L
  <2>2. CASE L # 1
    <3> DEFINE short == [k \in 1..(L - 1) |-> path[k]]
    <3>1. L - 1 \in 1..L /\ L \in 1..L /\ L > 1 /\ L - 1 \in 1..(L - 1)
      BY <1>1, <2>2
    <3>2. path[L - 1] = p /\ path[L - 1] \in DOMAIN t
      BY <1>1, <1>3, <3>1 DEF L
    <3>3. p # 0
      BY <3>2, DocumentType DEF KeyError
    <3>4. IsGroup(t, p)
      BY <3>3, DocumentType DEF IsGroup
    <3>5. Leads(short, front, p)
      <4>1. short \in [DOMAIN front -> DOMAIN t]
        BY <1>1, <1>3
      <4>2. short[Len(front)] = p
        BY <1>1, <3>1, <3>2
      <4>3. \A k \in 1..(L - 1) : /\ k \in 1..L /\ short[k] = path[k]
                                  /\ k > 1 => k - 1 \in 1..(L - 1) /\ short[k - 1] = path[k - 1]
        BY <1>1
      <4> HIDE DEF short
      <4> QED
        BY <1>1, <1>3, <4>1, <4>2, <4>3
    <3>6. \E any : Leads(any, front, p)
      BY <3>5
    <3> HIDE DEF Leads, short
    <3> QED
      BY <1>2, <2>1, <3>2, <3>4, <3>6
  <2> QED
    BY <2>1, <2>2
<1>4. ASSUME t[n].ident = parts[L], L = 1
      PROVE  \E path : Leads(path, parts, n)
  <2> DEFINE path == [k \in DOMAIN parts |-> n]
  <2>1. Leads(path, parts, n)
    BY <1>1, <1>4 DEF L
  <2> QED
    BY <2>1
<1>5. ASSUME t[n].ident = parts[L], L # 1, p \in Matching(t, front)
      PROVE  \E path : Leads(path, parts, n)
  <2>1. PICK short : Leads(short, front, p)
    BY <1>2, <1>5
  <2> DEFINE path == [k \in DOMAIN parts |-> IF k = L THEN n ELSE short[k]]
  <2>2. \A k \in 1..L : k # L => k \in 1..(L - 1)
    BY <1>1
  <2>3. path \in [DOMAIN parts -> DOMAIN t]
    BY <1>1, <2>1, <2>2
  <2>4. path[L] = n /\ \A k \in 1..(L - 1) : path[k] = short[k]
    BY <1>1
  <2> HIDE DEF path
  <2>5. \A k \in 1..L : t[path[k]].ident = parts[k]
    BY <1>1, <1>5, <2>1, <2>2, <2>4
  <2>6. ASSUME NEW k \in 1..L, k > 1
        PROVE  path[k - 1] = t[path[k]].parent
    <3>1. k - 1 \in 1..(L - 1)
      BY <1>1, <2>6
    <3>2. CASE k = L
      BY <1>1, <2>1, <2>4, <3>1, <3>2
    <3>3. CASE k # L
      BY <1>1, <2>1, <2>2, <2>4, <2>6, <3>1, <3>3
    <3> QED
      BY <3>2, <3>3
  <2>7. Leads(path, parts, n)
    BY <1>1, <2>3, <2>4, <2>5, <2>6 DEF L
  <2> QED
    BY <2>7
<1>6. n \in Matching(t, parts) <=>
        IsGroup(t, n) /\ t[n].ident = parts[L] /\ (L = 1 \/ p \in Matching(t, front))
  BY <1>2, <1>3, <1>4, <1>5
<1> QED
  BY <1>6 DEF L, front

LEMMA MatchingIs ==
  ASSUME NEW t, IsDocument(t), NEW n \in DOMAIN t, NEW parts \in Seq(Ident), parts # <<>>
  PROVE  n \in Matching(t, parts) <=> IsGroup(t, n) /\ EndsWith(parts, Trail(t)[n])
<1> DEFINE Agree(m, names) ==
             m \in Matching(t, names) <=> IsGroup(t, m) /\ EndsWith(names, Trail(t)[m])
           Bad == { m \in DOMAIN t : \E names \in Seq(Ident) : names # <<>> /\ ~Agree(m, names) }
<1> SUFFICES ASSUME Bad # {} PROVE FALSE
  OBVIOUS
<1>1. PICK m \in Bad : \A k \in Bad : m <= k
  <2>1. Bad \in SUBSET Nat
    BY DocumentType
  <2> HIDE DEF Bad
  <2> QED
    BY <2>1, LeastExists
<1>2. /\ m \in DOMAIN t
      /\ \A k \in DOMAIN t : k < m => \A names \in Seq(Ident) : names # <<>> => Agree(k, names)
  <2> HIDE DEF Agree
  <2>1. m \in DOMAIN t /\ \A k \in DOMAIN t : k < m => k \notin Bad
    <3>1. m \in DOMAIN t
      OBVIOUS
    <3>2. m \in Nat /\ \A k \in DOMAIN t : k \in Nat
      BY <3>1, DocumentType
    <3> HIDE DEF Bad
    <3>3. \A k \in DOMAIN t : k \in Bad => ~(k < m)
      BY <1>1, <3>2
    <3> QED
      BY <3>1, <3>3
  <2> QED
    BY <2>1
<1>3. PICK names \in Seq(Ident) : names # <<>> /\ ~Agree(m, names)
  BY <1>1
<1> DEFINE p == t[m].parent
           front == Front(names)
<1>4. m \in 0..Len(t) /\ m # 0 /\ p \in 0..Len(t) /\ (p # 0 => p \in DOMAIN t /\ p < m)
  <2>1. /\ Len(t) \in Nat /\ DOMAIN t = 1..Len(t) /\ m \in 1..Len(t) /\ p \in 0..(m - 1)
    BY <1>2, DocumentType
  <2> HIDE DEF p
  <2> QED
    BY <2>1
<1>5. /\ Len(names) \in Nat /\ 1 <= Len(names)
      /\ front \in Seq(Ident) /\ Len(front) = Len(names) - 1
  BY <1>3, FrontType
<1>6. m \in Matching(t, names) <=>
        /\ IsGroup(t, m)
        /\ t[m].ident = names[Len(names)]
        /\ Len(names) = 1 \/ p \in Matching(t, front)
  BY <1>2, <1>3, MatchingStep
<1>7. CASE IsGroup(t, m)
  <2>1. Trail(t)[m] = Append(Trail(t)[p], t[m].ident) /\ Trail(t)[p] \in Seq(Name)
    BY <1>4, <1>7, TrailIs DEF TrailStep
  <2>2. EndsWith(names, Trail(t)[m]) <=>
          names[Len(names)] = t[m].ident /\ EndsWith(front, Trail(t)[p])
    <3>1. t[m].ident \in Name
      BY <1>2, DocumentType DEF Name
    <3> QED
      BY <1>3, <2>1, <3>1, EndsWithAppend
  <2>3. CASE Len(names) = 1
    <3>1. EndsWith(front, Trail(t)[p])
      <4>1. Len(Trail(t)[p]) \in Nat
        BY <2>1, LenProperties
      <4>2. Len(front) = 0 /\ \A k \in 1..0 : FALSE
        BY <1>5, <2>3
      <4> DEFINE here == Trail(t)[p]
      <4>3. EndsWith(front, here) <=>
              /\ Len(front) <= Len(here)
              /\ \A k \in 1..Len(front) : front[k] = here[Len(here) - Len(front) + k]
        <5> HIDE DEF here, front
        <5> QED
          BY <1>5, <2>1, EndsWithIs DEF here
      <4> HIDE DEF front
      <4> QED
        BY <4>1, <4>2, <4>3
    <3> QED
      BY <1>3, <1>6, <1>7, <2>2, <2>3, <3>1
  <2>4. CASE Len(names) # 1 /\ p = 0
    <3>1. Trail(t)[p] = <<>> /\ Len(Trail(t)[p]) = 0
      BY <1>4, <2>4, TrailIs, EmptySeq DEF TrailStep
    <3>2. ~EndsWith(front, Trail(t)[p])
      BY <1>5, <2>4, <3>1 DEF EndsWith
    <3>3. p \notin Matching(t, front)
      BY <2>4, DocumentType DEF Matching, KeyError
    <3> QED
      BY <1>3, <1>6, <1>7, <2>2, <2>4, <3>2, <3>3
  <2>5. CASE Len(names) # 1 /\ p # 0
    <3>1. IsGroup(t, p)
      BY <1>2, <2>5, DocumentType DEF IsGroup
    <3>2. front # <<>>
      BY <1>5, <2>5, EmptySeq
    <3>3. Agree(p, front)
      BY <1>2, <1>4, <1>5, <2>5, <3>2
    <3> QED
      BY <1>3, <1>6, <1>7, <2>2, <2>5, <3>1, <3>3
  <2> QED
    BY <2>3, <2>4, <2>5
<1>8. CASE ~IsGroup(t, m)
  BY <1>3, <1>6, <1>8
<1> QED
  BY <1>7, <1>8

(***************************************************************************)
(* find_group() and the loop over what it yields: the groups that match    *)
(* and hold such a field, in the order of the document.                    *)
(***************************************************************************)
FirstFields(t, ident, direct) == [g \in DOMAIN t |-> FirstField(t, g, ident, direct)]

Hits(t, parts, ident, direct) ==
  { g \in Matching(t, parts) : FirstField(t, g, ident, direct) # Nothing(t) }

GroupStep(t, parts, ident, direct, matches, n) ==
  IF n = Nothing(t) THEN <<>>
  ELSE MatchAt(t, n, parts, ident, direct)
         \o matches[FirstChild(t, n)] \o matches[NextSibling(t, n)]

\* The hits among the nodes from n on.
Ahead(t, parts, ident, direct, n) == Hits(t, parts, ident, direct) \cap Onward(t, n, FALSE)

Matches(t, parts, ident, direct) ==
  [n \in Places(t) |->
     Listing(Ahead(t, parts, ident, direct, n), FirstFields(t, ident, direct))]

Value(t) == DOMAIN t \cup {KeyError, Nothing(t)}

LEMMA FirstFieldType ==
  ASSUME NEW t, IsDocument(t), NEW g \in DOMAIN t, NEW ident \in Ident, NEW direct \in BOOLEAN
  PROVE  /\ FirstField(t, g, ident, direct) \in Value(t)
         /\ FirstField(t, g, ident, direct) \notin {KeyError, Nothing(t)} =>
              /\ FirstField(t, g, ident, direct) \in Below(t, g, direct)
              /\ FirstField(t, g, ident, direct) \in DOMAIN t
              /\ t[FirstField(t, g, ident, direct)].kind # "group"
<1>1. Below(t, g, direct) \in SUBSET DOMAIN t
  BY DEF Below
<1> QED
  BY <1>1, FirstOfType DEF FirstField, Value

LEMMA DocumentSets ==
  ASSUME NEW t, IsDocument(t), NEW S \in SUBSET DOMAIN t
  PROVE  S \in SUBSET Nat /\ IsFiniteSet(S)
<1>1. Len(t) \in Int /\ 1 \in Int /\ DOMAIN t = 1..Len(t) /\ DOMAIN t \subseteq Nat
  BY DocumentType
<1>2. IsFiniteSet(1..Len(t))
  BY <1>1, FS_Interval
<1> QED
  BY <1>1, <1>2, FS_Subset

LEMMA MatchAtIs ==
  ASSUME NEW t, IsDocument(t), NEW n \in DOMAIN t, NEW parts \in Seq(Ident), parts # <<>>,
         NEW ident \in Ident, NEW direct \in BOOLEAN
  PROVE  MatchAt(t, n, parts, ident, direct) =
           Listing(Hits(t, parts, ident, direct) \cap {n}, FirstFields(t, ident, direct))
<1> DEFINE hits == Hits(t, parts, ident, direct)
           fields == FirstFields(t, ident, direct)
<1>1. n \in hits <=> /\ IsGroup(t, n) /\ EndsWith(parts, Trail(t)[n])
                     /\ InGroup(t, n, ident, direct) # Nothing(t)
  BY MatchingIs, InGroupIs DEF Hits
<1>2. fields[n] = InGroup(t, n, ident, direct) /\ n \in Nat
  BY InGroupIs, DocumentType DEF FirstFields
<1> HIDE DEF hits, fields
<1>3. CASE n \in hits
  <2>1. hits \cap {n} = {n}
    BY <1>3
  <2> QED
    BY <1>1, <1>2, <1>3, <2>1, ListingOfOne DEF MatchAt, hits, fields
<1>4. CASE n \notin hits
  <2>1. hits \cap {n} = {}
    BY <1>4
  <2> QED
    BY <1>1, <1>4, <2>1, ListingOfNone DEF MatchAt, hits, fields
<1> QED
  BY <1>3, <1>4

LEMMA MatchesStep ==
  ASSUME NEW t, IsDocument(t), NEW parts \in Seq(Ident), parts # <<>>,
         NEW ident \in Ident, NEW direct \in BOOLEAN, NEW n \in Places(t)
  PROVE  Matches(t, parts, ident, direct)[n] =
           GroupStep(t, parts, ident, direct, Matches(t, parts, ident, direct), n)
<1> DEFINE F == Matches(t, parts, ident, direct)
           fields == FirstFields(t, ident, direct)
           hits == Hits(t, parts, ident, direct)
           c == FirstChild(t, n)
           s == NextSibling(t, n)
<1>1. CASE n = Nothing(t)
  <2>1. Ahead(t, parts, ident, direct, n) = {}
    BY <1>1, OnwardFromNowhere DEF Ahead
  <2>2. F[n] = Listing({}, fields)
    BY <2>1 DEF Matches
  <2> QED
    BY <1>1, <2>2, ListingOfNone DEF GroupStep
<1>2. CASE n # Nothing(t)
  <2> DEFINE A == hits \cap {n}
             B == hits \cap Below(t, n, FALSE)
             C == hits \cap Onward(t, s, FALSE)
  <2>1. n \in DOMAIN t /\ c \in Places(t) /\ s \in Places(t)
    BY <1>2, LaterPlaces
  <2>2. /\ F[n] = Listing(hits \cap Onward(t, n, FALSE), fields)
        /\ F[c] = Listing(B, fields)
        /\ F[s] = Listing(C, fields)
    BY <2>1, BelowIsOnward DEF Matches, Ahead
  <2>3. /\ Onward(t, n, FALSE) = {n} \cup Below(t, n, FALSE) \cup Onward(t, s, FALSE)
        /\ \A m \in Below(t, n, FALSE) : n < m
        /\ \A m \in Onward(t, s, FALSE) : n < m
        /\ \A m \in Below(t, n, FALSE), k \in Onward(t, s, FALSE) : m < k
    BY <2>1, OnwardDeep
  <2>4. hits \cap Onward(t, n, FALSE) = (A \cup B) \cup C
    BY <2>3
  <2>5. /\ \A a \in A, b \in B : a < b
        /\ \A a \in A \cup B, b \in C : a < b
    BY <2>3
  <2>6. /\ A \in SUBSET DOMAIN t /\ B \in SUBSET DOMAIN t /\ C \in SUBSET DOMAIN t
        /\ A \cup B \in SUBSET DOMAIN t
    BY <2>1 DEF Hits, Matching
  <2>7. \A g \in DOMAIN t : fields[g] \in Value(t)
    BY FirstFieldType DEF FirstFields
  <2>8. MatchAt(t, n, parts, ident, direct) = Listing(A, fields)
    BY <2>1, MatchAtIs
  <2> HIDE DEF A, B, C, fields, F, hits
  <2>9. /\ A \in SUBSET Nat /\ B \in SUBSET Nat /\ C \in SUBSET Nat /\ A \cup B \in SUBSET Nat
        /\ IsFiniteSet(A) /\ IsFiniteSet(B) /\ IsFiniteSet(C) /\ IsFiniteSet(A \cup B)
    BY <2>6, DocumentSets
  <2>10. Listing(A \cup B, fields) = Listing(A, fields) \o Listing(B, fields)
    <3>1. /\ A \in SUBSET Nat /\ B \in SUBSET Nat /\ IsFiniteSet(A) /\ IsFiniteSet(B)
          /\ \A a \in A, b \in B : a < b
          /\ \A g \in A \cup B : fields[g] \in Value(t)
      BY <2>5, <2>6, <2>7, <2>9
    <3> QED
      BY <3>1, ListingBehind
  <2>11. Listing((A \cup B) \cup C, fields) = Listing(A \cup B, fields) \o Listing(C, fields)
    <3> DEFINE AB == A \cup B
    <3>1. /\ AB \in SUBSET Nat /\ C \in SUBSET Nat /\ IsFiniteSet(AB) /\ IsFiniteSet(C)
          /\ \A a \in AB, b \in C : a < b
          /\ \A g \in AB \cup C : fields[g] \in Value(t)
      BY <2>5, <2>6, <2>7, <2>9
    <3> HIDE DEF AB
    <3>2. Listing(AB \cup C, fields) = Listing(AB, fields) \o Listing(C, fields)
      BY <3>1, ListingBehind
    <3> QED
      BY <3>2 DEF AB
  <2>12. F[n] = MatchAt(t, n, parts, ident, direct) \o F[c] \o F[s]
    BY <2>2, <2>4, <2>8, <2>10, <2>11
  <2> QED
    BY <1>2, <2>12 DEF GroupStep, F
<1> QED
  BY <1>1, <1>2

LEMMA FindGroupIs ==
  ASSUME NEW t, IsDocument(t), NEW parts \in Seq(Ident), parts # <<>>,
         NEW ident \in Ident, NEW direct \in BOOLEAN
  PROVE  \A n \in Places(t) :
           FindGroup(t, parts, ident, direct)[n] =
             Listing(Ahead(t, parts, ident, direct, n), FirstFields(t, ident, direct))
<1> DEFINE F == Matches(t, parts, ident, direct)
           matches == FindGroup(t, parts, ident, direct)
<1>1. F = [n \in Places(t) |-> GroupStep(t, parts, ident, direct, F, n)]
  BY MatchesStep DEF Matches
<1>2. matches = [n \in Places(t) |-> GroupStep(t, parts, ident, direct, matches, n)]
  <2> HIDE DEF F
  <2> QED
    BY <1>1 DEF FindGroup, GroupStep, Places
<1>3. \A n \in Places(t) : matches[n] = F[n]
  <2> DEFINE Bad == { n \in Places(t) : matches[n] # F[n] }
  <2> SUFFICES ASSUME Bad # {} PROVE FALSE
    OBVIOUS
  <2>1. Len(t) + 1 \in Nat /\ Bad \in SUBSET (0..(Len(t) + 1))
    BY DocumentType DEF Places
  <2>2. PICK n \in Bad : \A m \in Bad : m <= n
    <3> HIDE DEF Bad
    <3> QED
      BY <2>1, GreatestExists
  <2>3. \A m \in Places(t) : n < m => matches[m] = F[m]
    BY <2>1, <2>2 DEF Places
  <2> HIDE DEF F, matches
  <2>4. n \in Places(t) /\ matches[n] # F[n]
    BY <2>2
  <2>5. GroupStep(t, parts, ident, direct, matches, n) = GroupStep(t, parts, ident, direct, F, n)
    BY <2>3, <2>4, LaterPlaces DEF GroupStep
  <2> QED
    BY <1>1, <1>2, <2>4, <2>5
<1> QED
  BY <1>3 DEF Matches

LEMMA WholeDocument ==
  ASSUME NEW t, IsDocument(t)
  PROVE  FirstChild(t, 0) \in Places(t) /\ Onward(t, FirstChild(t, 0), FALSE) = DOMAIN t
<1> DEFINE S == { m \in DOMAIN t : t[m].parent = 0 }
<1>0. /\ Len(t) \in Nat /\ DOMAIN t = 1..Len(t) /\ Nothing(t) = Len(t) + 1
      /\ \A m \in DOMAIN t : m \in Nat /\ t[m].parent \in 0..(m - 1)
  BY DocumentType
<1>1. CASE Len(t) = 0
  <2>1. DOMAIN t = {}
    BY <1>0, <1>1
  <2>2. FirstChild(t, 0) = Nothing(t)
    BY <2>1, EarliestIs DEF FirstChild
  <2>3. Onward(t, Nothing(t), FALSE) = {}
    BY OnwardFromNowhere
  <2>4. Nothing(t) \in Places(t)
    BY <1>0 DEF Places
  <2> QED
    BY <2>1, <2>2, <2>3, <2>4
<1>2. CASE Len(t) # 0
  <2>1. 1 \in DOMAIN t /\ t[1].parent = 0
    BY <1>0, <1>2
  <2>2. FirstChild(t, 0) = 1
    <3>1. 1 \in S /\ \A m \in S : 1 <= m
      BY <1>0, <2>1
    <3> QED
      BY <3>1, EarliestIs DEF FirstChild
  <2>3. \A m \in DOMAIN t : 1 <= m /\ \A k \in 1..m : t[1].parent <= t[k].parent
    BY <1>0, <2>1
  <2> QED
    BY <1>0, <2>1, <2>2, <2>3 DEF Onward, Places
<1> QED
  BY <1>1, <1>2

\* The lookup, without a walk.
LEMMA LookUpIs ==
  ASSUME NEW t, IsDocument(t), NEW parts \in Seq(Ident), parts # <<>>,
         NEW ident \in Ident, NEW direct \in BOOLEAN
  PROVE  /\ Hits(t, parts, ident, direct) \in SUBSET DOMAIN t
         /\ GetDataStructure(t, parts, ident, direct) =
              Returned(Listing(Hits(t, parts, ident, direct), FirstFields(t, ident, direct)))
<1>1. Hits(t, parts, ident, direct) \in SUBSET DOMAIN t
  BY DEF Hits, Matching
<1>2. Ahead(t, parts, ident, direct, FirstChild(t, 0)) = Hits(t, parts, ident, direct)
  BY <1>1, WholeDocument DEF Ahead
<1>3. FindGroup(t, parts, ident, direct)[FirstChild(t, 0)] =
        Listing(Ahead(t, parts, ident, direct, FirstChild(t, 0)), FirstFields(t, ident, direct))
  <2> HIDE DEF Ahead
  <2> QED
    BY WholeDocument, FindGroupIs
<1> QED
  BY <1>1, <1>2, <1>3 DEF GetDataStructure

\* What the lookup returns, of every hit by its place among them.
Promised(t, ident, direct, hits, r) ==
  /\ r = Returned(Listing(hits, FirstFields(t, ident, direct)))
  /\ r.error = (\E g \in hits : FirstField(t, g, ident, direct) = KeyError)
  /\ r.error => r.found = <<>>
  /\ ~r.error =>
       /\ Len(r.found) = Cardinality(hits)
       /\ DOMAIN r.found = 1..Cardinality(hits)
       /\ \A g \in hits : r.found[Rank(hits, g)] = FirstField(t, g, ident, direct)
       /\ \A k \in DOMAIN r.found : \E g \in hits :
            /\ Rank(hits, g) = k
            /\ r.found[k] = FirstField(t, g, ident, direct)
            /\ r.found[k] \notin {KeyError, Nothing(t)}

LEMMA ReturnedIs ==
  ASSUME NEW t, IsDocument(t), NEW parts \in Seq(Ident), parts # <<>>,
         NEW ident \in Ident, NEW direct \in BOOLEAN,
         NEW r, r = GetDataStructure(t, parts, ident, direct),
         NEW hits, hits = Hits(t, parts, ident, direct)
  PROVE  Promised(t, ident, direct, hits, r)
<1> DEFINE fields == FirstFields(t, ident, direct)
           list == Listing(hits, fields)
<1>1. /\ hits \in SUBSET DOMAIN t /\ hits \in SUBSET Nat /\ IsFiniteSet(hits)
      /\ \A g \in hits : /\ fields[g] = FirstField(t, g, ident, direct)
                         /\ fields[g] \in Value(t) /\ fields[g] # Nothing(t)
  <2>1. hits \in SUBSET DOMAIN t
    BY LookUpIs
  <2>2. hits \in SUBSET Nat /\ IsFiniteSet(hits)
    BY <2>1, DocumentSets
  <2>3. \A g \in hits : fields[g] = FirstField(t, g, ident, direct)
    BY <2>1 DEF FirstFields
  <2>4. \A g \in hits : fields[g] \in Value(t) /\ fields[g] # Nothing(t)
    BY <2>1, <2>3, FirstFieldType DEF Hits
  <2> QED
    BY <2>1, <2>2, <2>3, <2>4
<1>2. r = Returned(list)
  BY LookUpIs
<1>3. r = Returned(Listing(hits, FirstFields(t, ident, direct)))
  BY <1>2
<1> HIDE DEF fields
<1>4. /\ DOMAIN list = 1..Cardinality(hits)
      /\ \A g \in hits : Rank(hits, g) \in DOMAIN list /\ list[Rank(hits, g)] = fields[g]
      /\ \A k \in DOMAIN list : \E g \in hits : Rank(hits, g) = k /\ list[k] = fields[g]
  BY <1>1, ListingIs
<1>5. Len(list) = Cardinality(hits)
  BY <1>1, ListingType
<1> HIDE DEF list
<1>6. (\E k \in DOMAIN list : list[k] = KeyError) <=>
        \E g \in hits : FirstField(t, g, ident, direct) = KeyError
  BY <1>1, <1>4
<1>7. CASE \E k \in DOMAIN list : list[k] = KeyError
  BY <1>2, <1>6, <1>7, <1>3 DEF Returned, Promised
<1>8. CASE ~ \E k \in DOMAIN list : list[k] = KeyError
  <2>1. r.error = FALSE /\ r.found = list
    BY <1>2, <1>8 DEF Returned
  <2>2. \A g \in hits : r.found[Rank(hits, g)] = FirstField(t, g, ident, direct)
    BY <1>1, <1>4, <2>1
  <2>3. ASSUME NEW k \in DOMAIN r.found
        PROVE  \E g \in hits : /\ Rank(hits, g) = k
                               /\ r.found[k] = FirstField(t, g, ident, direct)
                               /\ r.found[k] \notin {KeyError, Nothing(t)}
    BY <1>1, <1>4, <1>8, <2>1
  <2> QED
    BY <1>4, <1>5, <1>6, <1>8, <1>3, <2>1, <2>2, <2>3 DEF Promised
<1> QED
  BY <1>7, <1>8

(***************************************************************************)
(* The states: what the chain gets is what its parser makes of the answer, *)
(* and a result is that of the last lookup in the document.                *)
(***************************************************************************)
Query == [parts : Paths, ident : Ident, direct : BOOLEAN]

DocumentInv ==
  /\ parser \in Parser /\ answer \in Answer
  /\ outcome # "none" => outcome = Fetched(parser, answer)
  /\ IsDocument(tree)
  /\ outcome = "none" => tree = <<>> /\ query = NoQuery
  /\ query = NoQuery => result = NoResult
  /\ query # NoQuery =>
       /\ query \in Query
       /\ result = GetDataStructure(tree, query.parts, query.ident, query.direct)

LEMMA EmptyDocument == IsDocument(<<>>)
<1>1. 0 \in 0..MaxTree
  BY StructuredAssumption
<1>2. <<>> \in [1..0 -> TreeNode]
  BY EmptySeq, LenProperties
<1>3. InDocumentOrder(<<>>)
  <2>1. DOMAIN <<>> = {}
    OBVIOUS
  <2> QED
    BY <2>1 DEF InDocumentOrder
<1> QED
  BY <1>1, <1>2, <1>3 DEF IsDocument, Document

LEMMA PathType ==
  ASSUME NEW parts \in Paths
  PROVE  parts \in Seq(Ident) /\ parts # <<>>
<1>1. PICK n \in 1..MaxPath : parts \in [1..n -> Ident]
  BY DEF Paths
<1>2. n \in Nat /\ 1 <= n
  BY <1>1, DocumentsAssumption
<1>3. parts \in Seq(Ident)
  BY <1>1, <1>2, SeqDef
<1>4. 1 \in DOMAIN parts
  BY <1>1, <1>2
<1> QED
  BY <1>3, <1>4

LEMMA FetchedType ==
  ASSUME NEW p, NEW a
  PROVE  Fetched(p, a) \in {"refusal", "value", "raises"}
BY DEF Fetched, Parsed

LEMMA DocumentInvariant == Spec => []DocumentInv
<1>1. Init => DocumentInv
  BY EmptyDocument DEF Init, DocumentInv
<1>2. DocumentInv /\ [Next]_vars => DocumentInv'
  <2> SUFFICES ASSUME DocumentInv, [Next]_vars PROVE DocumentInv'
    OBVIOUS
  <2>1. CASE Fetch
    <3>1. /\ outcome = "none" /\ outcome' = Fetched(parser, answer)
          /\ \E size \in 0..MaxTree : tree' \in Document(size)
          /\ UNCHANGED <<parser, answer, query, result>>
      BY <2>1, StructuredAssumption DEF Fetch
    <3>2. IsDocument(tree)'
      BY <3>1 DEF IsDocument
    <3>3. outcome' # "none"
      BY <3>1, FetchedType
    <3> QED
      BY <3>1, <3>2, <3>3 DEF DocumentInv
  <2>2. CASE LookUp
    <3>1. /\ query = NoQuery /\ query' \in Query
          /\ result' = GetDataStructure(tree, query'.parts, query'.ident, query'.direct)
          /\ UNCHANGED <<parser, answer, outcome, tree>>
      BY <2>2 DEF LookUp, Query
    <3>2. query' # NoQuery
      BY <3>1, StructuredAssumption DEF Query, NoQuery
    <3>3. outcome # "none"
      BY <2>2, <3>1 DEF LookUp, DocumentInv
    <3> QED
      BY <3>1, <3>2, <3>3 DEF DocumentInv
  <2>3. CASE UNCHANGED vars
    BY <2>3 DEF vars, DocumentInv, IsDocument
  <2> QED
    BY <2>1, <2>2, <2>3 DEF Next, Done
<1> QED
  BY <1>1, <1>2, PTL DEF Spec

\* What a state says about the last lookup.
LEMMA LookedIs ==
  ASSUME DocumentInv, Looked
  PROVE  /\ query.parts \in Seq(Ident) /\ query.parts # <<>>
         /\ query.ident \in Ident /\ query.direct \in BOOLEAN
         /\ IsDocument(tree)
         /\ result = GetDataStructure(tree, query.parts, query.ident, query.direct)
<1>1. /\ query \in Query /\ IsDocument(tree)
      /\ result = GetDataStructure(tree, query.parts, query.ident, query.direct)
  BY DEF DocumentInv, Looked
<1> QED
  BY <1>1, PathType DEF Query

Wanted == Hits(tree, query.parts, query.ident, query.direct)

LEMMA ResultIs ==
  ASSUME DocumentInv, Looked
  PROVE  /\ Wanted \in SUBSET DOMAIN tree /\ Wanted \in SUBSET Nat /\ IsFiniteSet(Wanted)
         /\ Wanted \subseteq Matching(tree, query.parts)
         /\ Promised(tree, query.ident, query.direct, Wanted, result)
<1>1. Wanted \subseteq Matching(tree, query.parts)
  BY DEF Wanted, Hits
<1>2. /\ Wanted \in SUBSET DOMAIN tree
      /\ Promised(tree, query.ident, query.direct, Wanted, result)
  BY LookedIs, LookUpIs, ReturnedIs DEF Wanted
<1>3. Wanted \in SUBSET Nat /\ IsFiniteSet(Wanted)
  BY <1>2, LookedIs, DocumentSets
<1> QED
  BY <1>1, <1>2, <1>3

\* The type invariant: what a lookup returns are fields of the document, and
\* nothing where it raises.
THEOREM Typing == Spec => []TypeOK
<1>1. DocumentInv => TypeOK
  <2> SUFFICES ASSUME DocumentInv PROVE TypeOK
    OBVIOUS
  <2>1. outcome \in {"none", "refusal", "value", "raises"}
    BY FetchedType DEF DocumentInv
  <2>2. Len(tree) <= MaxTree /\ \A n \in DOMAIN tree : tree[n] \in TreeNode /\ tree[n].parent < n
    BY DocumentType DEF DocumentInv
  <2>3. /\ result.error \in BOOLEAN
        /\ result.error => result.found = <<>>
        /\ \A k \in DOMAIN result.found :
             result.found[k] \in DOMAIN tree /\ tree[result.found[k]].kind # "group"
    <3>1. CASE ~Looked
      <4>1. result = NoResult
        BY <3>1 DEF DocumentInv, Looked
      <4>2. result.error = FALSE /\ result.found = <<>> /\ DOMAIN <<>> = {}
        BY <4>1 DEF NoResult
      <4> QED
        BY <4>2
    <3>2. CASE Looked
      <4>1. Wanted \in SUBSET DOMAIN tree
        BY <3>2, ResultIs DEF Promised
      <4>2. /\ result.error \in BOOLEAN /\ (result.error => result.found = <<>>)
            /\ ~result.error => \A k \in DOMAIN result.found : \E g \in Wanted :
                 /\ result.found[k] = FirstField(tree, g, query.ident, query.direct)
                 /\ result.found[k] \notin {KeyError, Nothing(tree)}
        <5> HIDE DEF Wanted
        <5> QED
          BY <3>2, ResultIs DEF Promised
      <4>3. result.error => DOMAIN result.found = {}
        BY <4>2
      <4>4. ASSUME NEW k \in DOMAIN result.found
            PROVE  result.found[k] \in DOMAIN tree /\ tree[result.found[k]].kind # "group"
        <5>1. PICK g \in Wanted :
                /\ result.found[k] = FirstField(tree, g, query.ident, query.direct)
                /\ result.found[k] \notin {KeyError, Nothing(tree)}
          BY <4>2, <4>3, <4>4
        <5> QED
          BY <3>2, <4>1, <5>1, LookedIs, FirstFieldType
      <4> QED
        BY <4>2, <4>4
    <3> QED
      BY <3>1, <3>2
  <2> QED
    BY <2>1, <2>2, <2>3 DEF TypeOK
<1> QED
  BY <1>1, DocumentInvariant, PTL

\* For every parser and every answer: what is not 200, says no, or says nothing
\* reaches the script as a failure of category CASCADE.
THEOREM RefusalsAreHeard == Spec => []RefusalHeard
<1>1. DocumentInv => RefusalHeard
  <2> SUFFICES ASSUME DocumentInv, outcome # "none",
                      answer.status = "other" \/ (Bare(answer) /\ answer.success # "true")
               PROVE  Category(outcome) = "CASCADE"
    BY DEF RefusalHeard
  <2>1. outcome = Fetched(parser, answer)
    BY DEF DocumentInv
  <2>2. outcome = "refusal"
    BY <2>1 DEF Fetched, Parsed, ErrorShaped, Bare
  <2> QED
    BY <2>2 DEF Category
<1> QED
  BY <1>1, DocumentInvariant, PTL

\* For every parser and every answer: a chain goes on only with what its
\* operation is after.
THEOREM ValuesAreAnswered == Spec => []ValueIsAnswered
<1>1. DocumentInv => ValueIsAnswered
  <2> SUFFICES ASSUME DocumentInv, outcome = "value"
               PROVE  /\ answer.status = "200" /\ answer.object
                      /\ CASE parser = "parse_success"  -> Bare(answer) /\ answer.success = "true"
                           [] parser = "parse_payloads" -> ~Bare(answer) \/ answer.success = "true"
                           [] OTHER                     -> answer.part = "good"
    BY DEF ValueIsAnswered
  <2>1. outcome = Fetched(parser, answer) /\ parser \in Parser /\ answer \in Answer
    BY DEF DocumentInv
  <2>2. answer.status = "200" /\ ~ErrorShaped(answer) /\ Accepts(parser, answer)
    BY <2>1 DEF Fetched, Parsed
  <2>3. answer.success \in {"none", "true", "false"} /\ answer.part \in {"none", "good", "bad"}
    BY <2>1 DEF Answer
  <2>4. CASE parser = "parse_success"
    BY <2>2, <2>3, <2>4 DEF ErrorShaped, Accepts, Bare
  <2>5. CASE parser = "parse_payloads"
    BY <2>2, <2>3, <2>5 DEF ErrorShaped, Accepts, Bare
  <2>6. CASE parser \notin {"parse_success", "parse_payloads"}
    BY <2>2, <2>6 DEF Accepts
  <2> QED
    BY <2>4, <2>5, <2>6
<1> QED
  BY <1>1, DocumentInvariant, PTL

\* For every document, every path and both ways of looking: the walk returns
\* the first field of every group the path names, in document order, or raises
\* where it meets a node that lacks what it needs.
THEOREM LookupIsFirstPerGroup == Spec => []FirstPerGroup
<1>1. DocumentInv => FirstPerGroup
  <2> SUFFICES ASSUME DocumentInv, Looked PROVE FirstPerGroup
    BY DEF FirstPerGroup
  <2> DEFINE First(g) == FirstField(tree, g, query.ident, query.direct)
             hits == { g \in Matching(tree, query.parts) : First(g) # Nothing(tree) }
  <2>1. hits = Wanted
    BY DEF Hits, Wanted
  <2>2. /\ result.error = (\E g \in hits : First(g) = KeyError)
        /\ ~result.error =>
             /\ Len(result.found) = Cardinality(hits)
             /\ \A g \in hits : result.found[Rank(hits, g)] = First(g)
    <3> HIDE DEF hits
    <3> QED
      BY <2>1, ResultIs DEF Promised
  <2> QED
    BY <2>2 DEF FirstPerGroup, Rank
<1> QED
  BY <1>1, DocumentInvariant, PTL

\* For every document: direct=True returns no field of a nested group, and none
\* of them twice.
THEOREM DirectStaysOwn == Spec => []DirectIsOwn
<1>1. DocumentInv => DirectIsOwn
  <2> SUFFICES ASSUME DocumentInv, Looked, query.direct
               PROVE  /\ \A k \in DOMAIN result.found :
                           tree[result.found[k]].parent \in Matching(tree, query.parts)
                      /\ Cardinality({ result.found[k] : k \in DOMAIN result.found }) =
                           Len(result.found)
    BY DEF DirectIsOwn
  <2> DEFINE n == Cardinality(Wanted)
             found == result.found
             fields == { found[k] : k \in DOMAIN found }
  <2>0. /\ Wanted \in SUBSET DOMAIN tree /\ Wanted \in SUBSET Nat /\ IsFiniteSet(Wanted)
        /\ Wanted \subseteq Matching(tree, query.parts)
    BY ResultIs DEF Promised
  <2>1. CASE result.error
    <3>1. found = <<>>
      BY <2>1, ResultIs DEF Promised
    <3>2. DOMAIN found = {} /\ fields = {} /\ Len(found) = 0
      BY <3>1, EmptySeq
    <3> QED
      BY <3>2, FS_EmptySet
  <2>2. CASE ~result.error
    <3>1. /\ Len(found) = n /\ DOMAIN found = 1..n
          /\ \A k \in DOMAIN found : \E g \in Wanted :
               /\ Rank(Wanted, g) = k
               /\ found[k] = FirstField(tree, g, query.ident, query.direct)
               /\ found[k] \notin {KeyError, Nothing(tree)}
      BY <2>2, ResultIs DEF Promised
    <3>2. \A g \in Wanted :
            FirstField(tree, g, query.ident, query.direct) \notin {KeyError, Nothing(tree)} =>
              tree[FirstField(tree, g, query.ident, query.direct)].parent = g
      <4>1. query.direct = TRUE
        BY LookedIs
      <4> QED
        BY <2>0, <4>1, LookedIs, FirstFieldType DEF Below
    <3> HIDE DEF n, found
    <3>3. \A k \in DOMAIN found : /\ tree[found[k]].parent \in Wanted
                                  /\ Rank(Wanted, tree[found[k]].parent) = k
      BY <3>1, <3>2
    <3>4. found \in Bijection(1..n, fields)
      <4>1. \A j, k \in 1..n : found[j] = found[k] => j = k
        BY <3>1, <3>3
      <4>2. found = [k \in 1..n |-> found[k]]
        <5>1. result = Returned(Listing(Wanted, FirstFields(tree, query.ident, query.direct)))
          BY ResultIs DEF Promised
        <5>2. found = Listing(Wanted, FirstFields(tree, query.ident, query.direct))
          BY <2>2, <5>1 DEF Returned, found
        <5> QED
          BY <5>2 DEF Listing, n
      <4>3. found \in [1..n -> fields] /\ \A v \in fields : \E k \in 1..n : found[k] = v
        BY <3>1, <4>2
      <4> HIDE DEF fields
      <4>4. found \in Injection(1..n, fields) /\ found \in Surjection(1..n, fields)
        BY <4>1, <4>3, Fun_IsInj, Fun_IsSurj
      <4> QED
        BY <4>4 DEF Bijection
    <3>5. Cardinality(fields) = n
      <4>1. n \in Nat
        BY <2>0, FS_CardinalityType DEF n
      <4>2. ExistsBijection(1..n, fields)
        <5> HIDE DEF fields
        <5> QED
          BY <3>4 DEF ExistsBijection
      <4> HIDE DEF fields
      <4> QED
        BY <4>1, <4>2, FS_CountingElements
    <3> QED
      BY <2>0, <3>1, <3>3, <3>5 DEF found
  <2> QED
    BY <2>1, <2>2
<1> QED
  BY <1>1, DocumentInvariant, PTL
=============================================================================
