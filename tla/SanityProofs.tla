----------------------------- MODULE SanityProofs -----------------------------
(***************************************************************************)
(* Proofs about the checks of a submission, for every name, payload and    *)
(* schema: what normalize_player_name makes of a name, and that the        *)
(* verdicts of sanitize_submission are the documented ones.                *)
(*                                                                         *)
(* Induction is over sets of numbers and of sequences here, since no       *)
(* predicate can be passed to a lemma: the least element of a set of       *)
(* numbers is that of a well-founded order, subsets under inclusion.       *)
(***************************************************************************)
EXTENDS Sanity, FiniteSetTheorems, SequenceTheorems, TLAPS

LEMMA Least ==
  ASSUME NEW U \in SUBSET Nat, U # {}
  PROVE  \E k \in U : \A j \in U : k <= j
<1> DEFINE R == StrictSubsetOrdering(Nat)
           T == {1 .. k : k \in U}
<1>1. IsWellFoundedOn(R, FiniteSubsetsOf(Nat))
  BY FS_StrictSubsetOrderingWellFounded
<1>2. T \subseteq FiniteSubsetsOf(Nat) /\ T # {}
  <2>1. ASSUME NEW k \in U PROVE 1 .. k \in FiniteSubsetsOf(Nat)
    <3>1. k \in Int /\ 1 \in Int /\ 1 .. k \in SUBSET Nat
      OBVIOUS
    <3>2. IsFiniteSet(1 .. k)
      BY <3>1, FS_Interval
    <3>3. QED BY <3>1, <3>2 DEF FiniteSubsetsOf
  <2>2. QED BY <2>1
<1>3. PICK x \in T : \A y \in T : <<y, x>> \notin R
  BY <1>1, <1>2, WFMin
<1>4. PICK k \in U : x = 1 .. k
  OBVIOUS
<1>5. ASSUME NEW j \in U, j < k PROVE FALSE
  <2>1. j \in Nat /\ k \in Nat
    OBVIOUS
  <2>2. 1 .. j \in T /\ 1 .. j \subseteq 1 .. k /\ k \in 1 .. k /\ k \notin 1 .. j
    BY <1>5, <2>1
  <2>3. 1 .. j # 1 .. k
    BY <2>2
  <2>4. <<1 .. j, 1 .. k>> \in R
    BY <2>1, <2>2, <2>3 DEF StrictSubsetOrdering
  <2>5. QED BY <1>3, <1>4, <2>2, <2>4
<1>6. QED BY <1>5

LEMMA Induct ==
  ASSUME NEW n \in Nat, NEW T, 0 \in T,
         \A k \in Nat : k < n /\ k \in T => k + 1 \in T
  PROVE  \A k \in 0 .. n : k \in T
<1> DEFINE U == {k \in 0 .. n : k \notin T}
<1>1. ASSUME U # {} PROVE FALSE
  <2>1. U \in SUBSET Nat
    OBVIOUS
  <2>2. PICK k \in U : \A j \in U : k <= j
    BY <1>1, <2>1, Least
  <2>3. k # 0 /\ k - 1 \in Nat /\ k - 1 < n /\ (k - 1) + 1 = k /\ ~(k <= k - 1)
    OBVIOUS
  <2>4. k - 1 \notin U
    BY <2>2, <2>3
  <2>5. k - 1 \in T
    BY <2>3, <2>4
  <2>6. k \in T
    BY <2>3, <2>5
  <2>7. QED BY <2>6
<1>2. QED BY <1>1

LEMMA SeqInduct ==
  ASSUME NEW C, NEW T, <<>> \in T,
         \A s \in Seq(C), c \in C : s \in T => Append(s, c) \in T
  PROVE  Seq(C) \subseteq T
<1> DEFINE U == {Len(s) : s \in Seq(C) \ T}
<1>1. ASSUME U # {} PROVE FALSE
  <2>1. U \in SUBSET Nat
    OBVIOUS
  <2>2. PICK k \in U : \A j \in U : k <= j
    BY <1>1, <2>1, Least
  <2>3. PICK s \in Seq(C) \ T : Len(s) = k
    OBVIOUS
  <2>4. s # <<>>
    OBVIOUS
  <2>5. PICK t \in Seq(C), c \in C : s = Append(t, c)
    BY <2>4, SequenceEmptyOrAppend
  <2>6. Len(t) \in Nat /\ Len(s) = Len(t) + 1
    BY <2>5, AppendProperties
  <2>7. t \in T
    BY <2>2, <2>3, <2>6
  <2>8. QED BY <2>5, <2>7
<1>2. QED BY <1>1

LEMMA MinIs ==
  ASSUME NEW S \in SUBSET Nat, S # {}
  PROVE  Min(S) \in S /\ \A y \in S : Min(S) <= y
BY Least DEF Min

LEMMA MaxIs ==
  ASSUME NEW n \in Nat, NEW S \in SUBSET (1 .. n), S # {}
  PROVE  Max(S) \in S /\ \A y \in S : y <= Max(S)
<1> DEFINE U == {n - x : x \in S}
<1>1. U \in SUBSET Nat /\ U # {}
  <2>1. \A x \in S : n - x \in Nat
    OBVIOUS
  <2>2. QED BY <2>1
<1>2. PICK k \in U : \A j \in U : k <= j
  BY <1>1, Least
<1>3. PICK x \in S : k = n - x
  OBVIOUS
<1>4. \A y \in S : x >= y
  <2>1. ASSUME NEW y \in S PROVE x >= y
    <3>1. n - x <= n - y
      BY <1>2, <1>3
    <3>2. QED BY <3>1
  <2>2. QED BY <2>1
<1>5. Max(S) \in S /\ \A y \in S : Max(S) >= y
  BY <1>4 DEF Max
<1>6. QED BY <1>5

LEMMA MaxOfPrefix ==
  ASSUME NEW k \in Nat
  PROVE  Max(1 .. k + 1) = k + 1 /\ (1 .. k + 1) \ {k + 1} = 1 .. k /\ 1 .. k + 1 # {}
<1>1. 1 .. k + 1 # {} /\ 1 .. k + 1 \in SUBSET (1 .. k + 1) /\ k + 1 \in Nat
  OBVIOUS
<1>2. Max(1 .. k + 1) \in 1 .. k + 1 /\ \A y \in 1 .. k + 1 : y <= Max(1 .. k + 1)
  BY <1>1, MaxIs
<1>3. Max(1 .. k + 1) = k + 1
  BY <1>2
<1>4. QED BY <1>3

-------------------------------------------------------------------------------
(* A fold is a function on the subsets of the places, each from the one      *)
(* without its greatest place; such a function exists for every step.        *)

IsFoldFunction(h, n, base, step, x) ==
  \A s \in SUBSET (1 .. n) :
    h[s] = IF s = {} THEN base ELSE step[<<h[s \ {Max(s)}], x[Max(s)]>>]

LEMMA FoldExists ==
  ASSUME NEW n, n \in Nat, NEW C, NEW X, NEW base, base \in X,
         NEW step, step \in [X \X C -> X], NEW x, x \in [1 .. n -> C]
  PROVE  \E h \in [SUBSET (1 .. n) -> X] : IsFoldFunction(h, n, base, step, x)
<1> DEFINE D == SUBSET (1 .. n)
           K(k) == {s \in D : Cardinality(s) <= k}
           Next(h, s) == IF s = {} THEN base ELSE step[<<h[s \ {Max(s)}], x[Max(s)]>>]
           T == {k \in Nat : \E h \in [K(k) -> X] : \A s \in K(k) : h[s] = Next(h, s)}
<1>1. ASSUME NEW s \in D, s # {}
      PROVE  /\ Max(s) \in s /\ x[Max(s)] \in C
             /\ s \ {Max(s)} \in D
             /\ Cardinality(s) \in Nat /\ Cardinality(s \ {Max(s)}) = Cardinality(s) - 1
  <2>1. Max(s) \in s
    BY <1>1, MaxIs
  <2>2. IsFiniteSet(1 .. n)
    BY FS_Interval
  <2>3. IsFiniteSet(s)
    BY <2>2, FS_Subset
  <2>4. QED BY <2>1, <2>3, FS_RemoveElement, FS_CardinalityType
<1>2. ASSUME NEW s \in D
      PROVE  IsFiniteSet(s) /\ Cardinality(s) \in Nat /\ Cardinality(s) <= n
  <2>1. n \in Int /\ 1 \in Int /\ s \in SUBSET (1 .. n)
    OBVIOUS
  <2>2. IsFiniteSet(1 .. n) /\ Cardinality(1 .. n) = n
    BY <2>1, FS_Interval
  <2> HIDE DEF D
  <2>3. IsFiniteSet(s) /\ Cardinality(s) <= Cardinality(1 .. n)
    BY <2>1, <2>2, FS_Subset
  <2>4. QED BY <2>2, <2>3, FS_CardinalityType
<1>3. 0 \in T
  <2>1. K(0) = {{}}
    <3>1. ASSUME NEW s \in K(0) PROVE s = {}
      <4>1. IsFiniteSet(s) /\ Cardinality(s) = 0
        BY <1>2
      <4>2. QED BY <4>1, FS_EmptySet
    <3>2. {} \in K(0)
      BY FS_EmptySet
    <3>3. QED BY <3>1, <3>2
  <2>2. [s \in K(0) |-> base] \in [K(0) -> X]
    OBVIOUS
  <2>3. QED BY <2>1, <2>2
<1>4. ASSUME NEW k \in Nat, k \in T PROVE k + 1 \in T
  <2>1. PICK h \in [K(k) -> X] : \A s \in K(k) : h[s] = Next(h, s)
    BY <1>4
  <2> DEFINE h1 == [s \in K(k + 1) |-> Next(h, s)]
  <2>2. ASSUME NEW s \in K(k + 1), s # {} PROVE s \ {Max(s)} \in K(k)
    <3>1. s \in D /\ Cardinality(s) <= k + 1
      OBVIOUS
    <3>2. s \ {Max(s)} \in D /\ Cardinality(s \ {Max(s)}) <= k
      BY <3>1, <2>2, <1>1
    <3>3. QED BY <3>2
  <2>3. h1 \in [K(k + 1) -> X]
    <3>1. ASSUME NEW s \in K(k + 1) PROVE Next(h, s) \in X
      <4>1. CASE s = {}
        BY <4>1
      <4>2. CASE s # {}
        <5>1. h[s \ {Max(s)}] \in X /\ x[Max(s)] \in C
          BY <4>2, <2>1, <2>2, <1>1
        <5>2. step[<<h[s \ {Max(s)}], x[Max(s)]>>] \in X
          BY <5>1
        <5>3. QED BY <4>2, <5>2
      <4>3. QED BY <4>1, <4>2
    <3>2. QED BY <3>1
  <2>4. ASSUME NEW s \in K(k) PROVE h1[s] = h[s]
    <3>1. s \in K(k + 1)
      <4>1. Cardinality(s) \in Nat /\ Cardinality(s) <= k
        BY <1>2
      <4>2. QED BY <4>1
    <3>2. QED BY <2>1, <3>1
  <2>5. ASSUME NEW s \in K(k + 1) PROVE h1[s] = Next(h1, s)
    BY <2>2, <2>4
  <2> HIDE DEF h1, Next, K
  <2>6. QED BY <2>3, <2>5
<1>5. n \in T
  <2>1. \A k \in Nat : k < n /\ k \in T => k + 1 \in T
    BY <1>4
  <2> HIDE DEF T
  <2>2. \A k \in 0 .. n : k \in T
    BY <1>3, <2>1, Induct
  <2>3. QED BY <2>2
<1>6. K(n) = D
  BY <1>2
<1>7. QED BY <1>5, <1>6 DEF IsFoldFunction

(* The value of a fold over x, by what it has made of every prefix of x. *)
Steps == [Names \X Characters -> Names]
IsFold(step, x, result) ==
  \E f \in [0 .. Len(x) -> Names] :
    /\ f[0] = <<>>
    /\ \A k \in 0 .. Len(x) - 1 : f[k + 1] = step[<<f[k], x[k + 1]>>]
    /\ result = f[Len(x)]

LEMMA FoldOfPrefixes ==
  ASSUME NEW step \in Steps, NEW x \in Names, NEW g,
         g[{}] = <<>>,
         \A s \in (SUBSET (1 .. Len(x))) \ {{}} :
           g[s \ {Max(s)}] \in Names => g[s] = step[<<g[s \ {Max(s)}], x[Max(s)]>>]
  PROVE  IsFold(step, x, g[1 .. Len(x)])
<1> DEFINE n == Len(x)
           f == [k \in 0 .. n |-> g[1 .. k]]
           T == {k \in 0 .. n : g[1 .. k] \in Names}
<1>1. n \in Nat /\ \A k \in 0 .. n - 1 : x[k + 1] \in Characters
  BY DEF Names
<1>2. <<>> \in Names /\ 1 .. 0 = {}
  BY DEF Names
<1>3. ASSUME NEW k \in 0 .. n - 1, g[1 .. k] \in Names
      PROVE  g[1 .. k + 1] = step[<<g[1 .. k], x[k + 1]>>] /\ g[1 .. k + 1] \in Names
  <2>0. k \in Nat /\ k + 1 <= n
    BY <1>1
  <2>1. /\ Max(1 .. k + 1) = k + 1 /\ (1 .. k + 1) \ {k + 1} = 1 .. k
        /\ 1 .. k + 1 # {}
    BY <2>0, MaxOfPrefix
  <2>2. 1 .. k + 1 \in (SUBSET (1 .. n)) \ {{}}
    <3>1. 1 .. k + 1 \subseteq 1 .. n
      BY <1>1, <2>0
    <3>2. QED BY <2>1, <3>1
  <2>3. g[1 .. k + 1] = step[<<g[1 .. k], x[k + 1]>>]
    BY <1>3, <2>1, <2>2
  <2>4. QED BY <1>1, <1>3, <2>3 DEF Steps
<1>4. \A k \in 0 .. n : k \in T
  <2>1. 0 \in T
    BY <1>1, <1>2
  <2>2. ASSUME NEW k \in Nat, k < n, k \in T PROVE k + 1 \in T
    <3>1. k \in 0 .. n - 1 /\ k + 1 \in 0 .. n /\ g[1 .. k] \in Names
      BY <1>1, <2>2
    <3>2. QED BY <1>3, <3>1
  <2> HIDE DEF T
  <2>3. QED BY <1>1, <2>1, <2>2, Induct
<1>5. f \in [0 .. n -> Names] /\ f[0] = <<>> /\ g[1 .. n] = f[n]
  BY <1>1, <1>2, <1>4
<1>6. ASSUME NEW k \in 0 .. n - 1 PROVE f[k + 1] = step[<<f[k], x[k + 1]>>]
  BY <1>1, <1>3, <1>4
<1> HIDE DEF f
<1>7. QED BY <1>5, <1>6 DEF IsFold

LEMMA FoldOfEmpty ==
  ASSUME NEW step, NEW result, IsFold(step, <<>>, result)
  PROVE  result = <<>>
BY DEF IsFold

LEMMA FoldOfAppend ==
  ASSUME NEW step \in Steps, NEW x \in Names, NEW c \in Characters, NEW r, NEW r1,
         IsFold(step, x, r), IsFold(step, Append(x, c), r1)
  PROVE  r \in Names /\ r1 = step[<<r, c>>]
<1> DEFINE n == Len(x)
           y == Append(x, c)
<1>1. /\ n \in Nat /\ Len(y) = n + 1 /\ y[n + 1] = c
      /\ \A k \in 0 .. n - 1 : y[k + 1] = x[k + 1]
  BY DEF Names
<1>2. PICK f \in [0 .. n -> Names] :
        /\ f[0] = <<>>
        /\ \A k \in 0 .. n - 1 : f[k + 1] = step[<<f[k], x[k + 1]>>]
        /\ r = f[n]
  BY DEF IsFold
<1> HIDE DEF y
<1>3. PICK h \in [0 .. n + 1 -> Names] :
        /\ h[0] = <<>>
        /\ \A k \in 0 .. n : h[k + 1] = step[<<h[k], y[k + 1]>>]
        /\ r1 = h[n + 1]
  <2>1. IsFold(step, y, r1) /\ Len(y) - 1 = n
    BY <1>1 DEF y
  <2>2. QED BY <1>1, <2>1 DEF IsFold
<1> DEFINE T == {k \in 0 .. n : f[k] = h[k]}
<1>4. \A k \in 0 .. n : k \in T
  <2>1. 0 \in T
    BY <1>1, <1>2, <1>3
  <2>2. ASSUME NEW k \in Nat, k < n, k \in T PROVE k + 1 \in T
    <3>1. k \in 0 .. n - 1 /\ k \in 0 .. n /\ k + 1 \in 0 .. n /\ f[k] = h[k]
      BY <1>1, <2>2
    <3>2. y[k + 1] = x[k + 1]
      BY <1>1, <3>1
    <3>3. QED BY <1>2, <1>3, <3>1, <3>2
  <2> HIDE DEF T
  <2>3. QED BY <1>1, <2>1, <2>2, Induct
<1>5. f[n] = h[n] /\ f[n] \in Names /\ h[n + 1] = step[<<h[n], c>>]
  BY <1>1, <1>2, <1>3, <1>4
<1>6. QED BY <1>2, <1>3, <1>5

-------------------------------------------------------------------------------
(* The three folds of PlayerNames: NFC, what is stripped, and NFD. *)

LEMMA FrontIs ==
  ASSUME NEW C, NEW q \in Seq(C), q # <<>>
  PROVE  /\ Front(q) \in Seq(C) /\ Len(Front(q)) = Len(q) - 1
         /\ \A i \in 1 .. Len(q) - 1 : Front(q)[i] = q[i]
<1> DEFINE k == Len(q) - 1
<1>1. /\ 1 \in Int /\ k \in Int /\ 0 <= k
      /\ \A i \in 1 .. k : q[i] \in C
  OBVIOUS
<1> HIDE DEF k
<1>2. \A i \in 1 .. k : i \in 1 .. (k - 1) + 1 /\ (1 + i) - 1 = i
  BY <1>1
<1>3. /\ SubSeq(q, 1, k) \in Seq(C)
      /\ Len(SubSeq(q, 1, k)) = IF 1 <= k THEN (k - 1) + 1 ELSE 0
      /\ \A i \in 1 .. (k - 1) + 1 : SubSeq(q, 1, k)[i] = q[(1 + i) - 1]
  BY <1>1, SubSeqProperties
<1>4. \A i \in 1 .. k : SubSeq(q, 1, k)[i] = q[i]
  BY <1>2, <1>3
<1>5. Len(SubSeq(q, 1, k)) = k
  BY <1>1, <1>3
<1>6. Front(q) = SubSeq(q, 1, k)
  BY DEF Front, k
<1>7. QED BY <1>3, <1>4, <1>5, <1>6 DEF k

LEMMA FrontAppend ==
  ASSUME NEW C, NEW q \in Seq(C), NEW c \in C
  PROVE  Front(Append(q, c)) = q
<1>1. /\ Append(q, c) \in Seq(C) /\ Append(q, c) # <<>> /\ Len(Append(q, c)) = Len(q) + 1
      /\ Len(q) \in Nat /\ \A i \in 1 .. Len(q) : Append(q, c)[i] = q[i]
  BY AppendProperties
<1>2. /\ Front(Append(q, c)) \in Seq(C) /\ Len(Front(Append(q, c))) = Len(q)
      /\ \A i \in 1 .. Len(q) : Front(Append(q, c))[i] = q[i]
  <2> DEFINE y == Append(q, c)
  <2> HIDE DEF y
  <2>1. y \in Seq(C) /\ y # <<>> /\ Len(y) - 1 = Len(q)
    BY <1>1 DEF y
  <2>2. /\ Front(y) \in Seq(C) /\ Len(Front(y)) = Len(y) - 1
        /\ \A i \in 1 .. Len(y) - 1 : Front(y)[i] = y[i]
    BY <2>1, FrontIs
  <2>3. QED BY <1>1, <2>1, <2>2 DEF y
<1>3. QED BY <1>1, <1>2, SeqEqual

LEMMA FrontSplits ==
  ASSUME NEW C, NEW q \in Seq(C), q # <<>>
  PROVE  Front(q) \in Seq(C) /\ q = Append(Front(q), q[Len(q)])
<1>1. PICK t \in Seq(C), c \in C : q = Append(t, c)
  BY SequenceEmptyOrAppend
<1>2. Front(q) = t /\ q[Len(q)] = c
  BY <1>1, FrontAppend, AppendProperties
<1>3. QED BY <1>1, <1>2

LEMMA ComposeType ==
  ASSUME NEW q \in Names, NEW c \in Characters
  PROVE  /\ Compose(q, c) \in Names
         /\ c = "mark" /\ q # <<>> /\ q[Len(q)] = "letter" =>
              /\ Len(Compose(q, c)) = Len(q)
              /\ Compose(q, c)[Len(q)] = "composed"
              /\ \A i \in 1 .. Len(q) - 1 : Compose(q, c)[i] = q[i]
         /\ ~(c = "mark" /\ q # <<>> /\ q[Len(q)] = "letter") => Compose(q, c) = Append(q, c)
<1>1. CASE c = "mark" /\ q # <<>> /\ q[Len(q)] = "letter"
  <2>1. Compose(q, c) = Append(Front(q), "composed")
    BY <1>1 DEF Compose, Last
  <2>2. /\ Front(q) \in Seq(Characters) /\ Len(Front(q)) = Len(q) - 1
        /\ \A i \in 1 .. Len(q) - 1 : Front(q)[i] = q[i]
    BY <1>1, FrontIs DEF Names
  <2>3. "composed" \in Characters
    BY DEF Characters
  <2>4. Len(q) \in Nat
    BY DEF Names
  <2>5. /\ Append(Front(q), "composed") \in Names
        /\ Len(Append(Front(q), "composed")) = Len(q)
        /\ Append(Front(q), "composed")[Len(q)] = "composed"
        /\ \A i \in 1 .. Len(q) - 1 : Append(Front(q), "composed")[i] = q[i]
    BY <2>2, <2>3, <2>4, AppendProperties DEF Names
  <2>6. QED BY <1>1, <2>1, <2>5
<1>2. CASE ~(c = "mark" /\ q # <<>> /\ q[Len(q)] = "letter")
  <2>1. Compose(q, c) = Append(q, c)
    BY <1>2 DEF Compose, Last
  <2>2. Append(q, c) \in Names
    BY DEF Names
  <2>3. QED BY <1>2, <2>1, <2>2
<1>3. QED BY <1>1, <1>2

Composes == [p \in Names \X Characters |-> Compose(p[1], p[2])]

LEMMA ComposesType ==
  Composes \in Steps /\ \A q \in Names, c \in Characters : Composes[<<q, c>>] = Compose(q, c)
BY ComposeType DEF Composes, Steps

LEMMA NFCIsFold ==
  ASSUME NEW x \in Names
  PROVE  IsFold(Composes, x, NFC(x))
<1> DEFINE n == Len(x)
           D == DOMAIN x
           Of(it) == [s \in SUBSET D |->
                        IF s = {} THEN <<>> ELSE Compose(it[s \ {Max(s)}], x[Max(s)])]
           g == CHOOSE it : it = Of(it)
<1>1. n \in Nat /\ D = 1 .. n /\ x \in [1 .. n -> Characters] /\ <<>> \in Names
  BY DEF Names
<1>2. PICK h \in [SUBSET (1 .. n) -> Names] : IsFoldFunction(h, n, <<>>, Composes, x)
  <2>1. Composes \in [Names \X Characters -> Names]
    BY ComposesType DEF Steps
  <2> HIDE DEF n, D
  <2>2. QED BY <1>1, <2>1, FoldExists
<1>3. \A s \in (SUBSET (1 .. n)) \ {{}} : x[Max(s)] \in Characters
  BY <1>1, MaxIs
<1>4. h = Of(h)
  <2>1. ASSUME NEW s \in SUBSET D
        PROVE  h[s] = IF s = {} THEN <<>> ELSE Compose(h[s \ {Max(s)}], x[Max(s)])
    <3>1. CASE s = {}
      BY <1>1, <1>2, <3>1 DEF IsFoldFunction
    <3>2. CASE s # {}
      <4>1. h[s \ {Max(s)}] \in Names /\ x[Max(s)] \in Characters
        BY <1>1, <1>2, <1>3, <3>2
      <4>2. QED BY <1>1, <1>2, <3>2, <4>1, ComposesType DEF IsFoldFunction
    <3>3. QED BY <3>1, <3>2
  <2>2. QED BY <1>1, <1>2, <2>1
<1>5. g = Of(g)
  BY <1>4
<1>6. NFC(x) = g[D]
  BY DEF NFC, FoldLeft, MapThenFoldSet
<1>7. g[{}] = <<>> /\ \A s \in (SUBSET (1 .. n)) \ {{}} :
        g[s] = Compose(g[s \ {Max(s)}], x[Max(s)])
  BY <1>1, <1>5
<1> HIDE DEF g
<1>8. IsFold(Composes, x, g[1 .. n])
  <2>1. Composes \in Steps
    BY ComposesType
  <2>2. \A s \in (SUBSET (1 .. n)) \ {{}} : g[s \ {Max(s)}] \in Names =>
          g[s] = Composes[<<g[s \ {Max(s)}], x[Max(s)]>>]
    BY <1>3, <1>7, ComposesType
  <2>3. QED BY <1>7, <2>1, <2>2, FoldOfPrefixes
<1>9. QED BY <1>1, <1>6, <1>8

(* NFC takes a name a character at a time. *)
LEMMA NFCLaws ==
  /\ NFC(<<>>) = <<>>
  /\ \A x \in Names : NFC(x) \in Names
  /\ \A x \in Names, c \in Characters : NFC(Append(x, c)) = Compose(NFC(x), c)
<1>1. ASSUME NEW x \in Names, NEW c \in Characters
      PROVE  NFC(x) \in Names /\ NFC(Append(x, c)) = Compose(NFC(x), c)
  <2>1. Append(x, c) \in Names
    BY DEF Names
  <2>2. IsFold(Composes, x, NFC(x)) /\ IsFold(Composes, Append(x, c), NFC(Append(x, c)))
    BY <2>1, NFCIsFold
  <2>3. Composes \in Steps
    BY ComposesType
  <2>4. NFC(x) \in Names /\ NFC(Append(x, c)) = Composes[<<NFC(x), c>>]
    BY <2>2, <2>3, FoldOfAppend
  <2>5. QED BY <2>4, ComposesType
<1>2. <<>> \in Names /\ "letter" \in Characters
  BY DEF Names, Characters
<1>3. NFC(<<>>) = <<>>
  BY <1>2, NFCIsFold, FoldOfEmpty
<1>4. QED BY <1>1, <1>2, <1>3

LEMMA StripType ==
  ASSUME NEW q \in Names, NEW c \in Characters
  PROVE  Strip(q, c) \in Names
BY DEF Strip, Names

Strips == [p \in Names \X Characters |-> Strip(p[1], p[2])]

LEMMA StripsType ==
  Strips \in Steps /\ \A q \in Names, c \in Characters : Strips[<<q, c>>] = Strip(q, c)
BY StripType DEF Strips, Steps

LEMMA StrippedIsFold ==
  ASSUME NEW x \in Names
  PROVE  IsFold(Strips, x, Stripped(x))
<1> DEFINE n == Len(x)
           D == DOMAIN x
           Of(it) == [s \in SUBSET D |->
                        IF s = {} THEN <<>> ELSE Strip(it[s \ {Max(s)}], x[Max(s)])]
           g == CHOOSE it : it = Of(it)
<1>1. n \in Nat /\ D = 1 .. n /\ x \in [1 .. n -> Characters] /\ <<>> \in Names
  BY DEF Names
<1>2. PICK h \in [SUBSET (1 .. n) -> Names] : IsFoldFunction(h, n, <<>>, Strips, x)
  <2>1. Strips \in [Names \X Characters -> Names]
    BY StripsType DEF Steps
  <2> HIDE DEF n, D
  <2>2. QED BY <1>1, <2>1, FoldExists
<1>3. \A s \in (SUBSET (1 .. n)) \ {{}} : x[Max(s)] \in Characters
  BY <1>1, MaxIs
<1>4. h = Of(h)
  <2>1. ASSUME NEW s \in SUBSET D
        PROVE  h[s] = IF s = {} THEN <<>> ELSE Strip(h[s \ {Max(s)}], x[Max(s)])
    <3>1. CASE s = {}
      BY <1>1, <1>2, <3>1 DEF IsFoldFunction
    <3>2. CASE s # {}
      <4>1. h[s \ {Max(s)}] \in Names /\ x[Max(s)] \in Characters
        BY <1>1, <1>2, <1>3, <3>2
      <4>2. QED BY <1>1, <1>2, <3>2, <4>1, StripsType DEF IsFoldFunction
    <3>3. QED BY <3>1, <3>2
  <2>2. QED BY <1>1, <1>2, <2>1
<1>5. g = Of(g)
  BY <1>4
<1>6. Stripped(x) = g[D]
  BY DEF Stripped, FoldLeft, MapThenFoldSet
<1>7. g[{}] = <<>> /\ \A s \in (SUBSET (1 .. n)) \ {{}} :
        g[s] = Strip(g[s \ {Max(s)}], x[Max(s)])
  BY <1>1, <1>5
<1> HIDE DEF g
<1>8. IsFold(Strips, x, g[1 .. n])
  <2>1. Strips \in Steps
    BY StripsType
  <2>2. \A s \in (SUBSET (1 .. n)) \ {{}} : g[s \ {Max(s)}] \in Names =>
          g[s] = Strips[<<g[s \ {Max(s)}], x[Max(s)]>>]
    BY <1>3, <1>7, StripsType
  <2>3. QED BY <1>7, <2>1, <2>2, FoldOfPrefixes
<1>9. QED BY <1>1, <1>6, <1>8

(* So does stripping, and NFD. *)
LEMMA StrippedLaws ==
  /\ Stripped(<<>>) = <<>>
  /\ \A x \in Names : Stripped(x) \in Names
  /\ \A x \in Names, c \in Characters : Stripped(Append(x, c)) = Strip(Stripped(x), c)
<1>1. ASSUME NEW x \in Names, NEW c \in Characters
      PROVE  Stripped(x) \in Names /\ Stripped(Append(x, c)) = Strip(Stripped(x), c)
  <2>1. Append(x, c) \in Names
    BY DEF Names
  <2>2. IsFold(Strips, x, Stripped(x)) /\ IsFold(Strips, Append(x, c), Stripped(Append(x, c)))
    BY <2>1, StrippedIsFold
  <2>3. Strips \in Steps
    BY StripsType
  <2>4. Stripped(x) \in Names /\ Stripped(Append(x, c)) = Strips[<<Stripped(x), c>>]
    BY <2>2, <2>3, FoldOfAppend
  <2>5. QED BY <2>4, StripsType
<1>2. <<>> \in Names /\ "letter" \in Characters
  BY DEF Names, Characters
<1>3. Stripped(<<>>) = <<>>
  BY <1>2, StrippedIsFold, FoldOfEmpty
<1>4. QED BY <1>1, <1>2, <1>3

LEMMA DecomposeType ==
  ASSUME NEW q \in Names, NEW c \in Characters
  PROVE  /\ Decompose(q, c) \in Names
         /\ c = "composed" => Decompose(q, c) = Append(Append(q, "letter"), "mark")
         /\ c # "composed" => Decompose(q, c) = Append(q, c)
<1>1. "letter" \in Characters /\ "mark" \in Characters
  BY DEF Characters
<1>2. q \o <<"letter", "mark">> = Append(Append(q, "letter"), "mark")
  BY DEF Names
<1>3. Append(Append(q, "letter"), "mark") \in Names /\ Append(q, c) \in Names
  BY <1>1 DEF Names
<1>4. QED BY <1>2, <1>3 DEF Decompose

Decomposes == [p \in Names \X Characters |-> Decompose(p[1], p[2])]

LEMMA DecomposesType ==
  /\ Decomposes \in Steps
  /\ \A q \in Names, c \in Characters : Decomposes[<<q, c>>] = Decompose(q, c)
BY DecomposeType DEF Decomposes, Steps

LEMMA DecomposedIsFold ==
  ASSUME NEW x \in Names
  PROVE  IsFold(Decomposes, x, Decomposed(x))
<1> DEFINE n == Len(x)
           D == DOMAIN x
           Of(it) == [s \in SUBSET D |->
                        IF s = {} THEN <<>> ELSE Decompose(it[s \ {Max(s)}], x[Max(s)])]
           g == CHOOSE it : it = Of(it)
<1>1. n \in Nat /\ D = 1 .. n /\ x \in [1 .. n -> Characters] /\ <<>> \in Names
  BY DEF Names
<1>2. PICK h \in [SUBSET (1 .. n) -> Names] : IsFoldFunction(h, n, <<>>, Decomposes, x)
  <2>1. Decomposes \in [Names \X Characters -> Names]
    BY DecomposesType DEF Steps
  <2> HIDE DEF n, D
  <2>2. QED BY <1>1, <2>1, FoldExists
<1>3. \A s \in (SUBSET (1 .. n)) \ {{}} : x[Max(s)] \in Characters
  BY <1>1, MaxIs
<1>4. h = Of(h)
  <2>1. ASSUME NEW s \in SUBSET D
        PROVE  h[s] = IF s = {} THEN <<>> ELSE Decompose(h[s \ {Max(s)}], x[Max(s)])
    <3>1. CASE s = {}
      BY <1>1, <1>2, <3>1 DEF IsFoldFunction
    <3>2. CASE s # {}
      <4>1. h[s \ {Max(s)}] \in Names /\ x[Max(s)] \in Characters
        BY <1>1, <1>2, <1>3, <3>2
      <4>2. QED BY <1>1, <1>2, <3>2, <4>1, DecomposesType DEF IsFoldFunction
    <3>3. QED BY <3>1, <3>2
  <2>2. QED BY <1>1, <1>2, <2>1
<1>5. g = Of(g)
  BY <1>4
<1>6. Decomposed(x) = g[D]
  BY DEF Decomposed, FoldLeft, MapThenFoldSet
<1>7. g[{}] = <<>> /\ \A s \in (SUBSET (1 .. n)) \ {{}} :
        g[s] = Decompose(g[s \ {Max(s)}], x[Max(s)])
  BY <1>1, <1>5
<1> HIDE DEF g
<1>8. IsFold(Decomposes, x, g[1 .. n])
  <2>1. Decomposes \in Steps
    BY DecomposesType
  <2>2. \A s \in (SUBSET (1 .. n)) \ {{}} : g[s \ {Max(s)}] \in Names =>
          g[s] = Decomposes[<<g[s \ {Max(s)}], x[Max(s)]>>]
    BY <1>3, <1>7, DecomposesType
  <2>3. QED BY <1>7, <2>1, <2>2, FoldOfPrefixes
<1>9. QED BY <1>1, <1>6, <1>8

(* Likewise for NFD. *)
LEMMA DecomposedLaws ==
  /\ Decomposed(<<>>) = <<>>
  /\ \A x \in Names : Decomposed(x) \in Names
  /\ \A x \in Names, c \in Characters : Decomposed(Append(x, c)) = Decompose(Decomposed(x), c)
<1>1. ASSUME NEW x \in Names, NEW c \in Characters
      PROVE  Decomposed(x) \in Names /\ Decomposed(Append(x, c)) = Decompose(Decomposed(x), c)
  <2>1. Append(x, c) \in Names
    BY DEF Names
  <2>2. IsFold(Decomposes, x, Decomposed(x)) /\ IsFold(Decomposes, Append(x, c), Decomposed(Append(x, c)))
    BY <2>1, DecomposedIsFold
  <2>3. Decomposes \in Steps
    BY DecomposesType
  <2>4. Decomposed(x) \in Names /\ Decomposed(Append(x, c)) = Decomposes[<<Decomposed(x), c>>]
    BY <2>2, <2>3, FoldOfAppend
  <2>5. QED BY <2>4, DecomposesType
<1>2. <<>> \in Names /\ "letter" \in Characters
  BY DEF Names, Characters
<1>3. Decomposed(<<>>) = <<>>
  BY <1>2, DecomposedIsFold, FoldOfEmpty
<1>4. QED BY <1>1, <1>2, <1>3

-------------------------------------------------------------------------------
(* What is stored of a name. *)

Visible(x) == \A i \in DOMAIN x : x[i] # "invisible"

(* No mark right after a letter, with which it would compose. *)
Joined(x) == \A i \in 1 .. Len(x) - 1 : ~(x[i] = "letter" /\ x[i + 1] = "mark")

LEMMA Appended ==
  ASSUME NEW x \in Names, NEW c \in Characters
  PROVE  /\ Append(x, c) \in Names /\ Len(x) \in Nat /\ Len(Append(x, c)) = Len(x) + 1
         /\ Append(x, c)[Len(x) + 1] = c
         /\ \A i \in 1 .. Len(x) : Append(x, c)[i] = x[i]
         /\ DOMAIN x = 1 .. Len(x) /\ DOMAIN Append(x, c) = 1 .. Len(x) + 1
         /\ Visible(Append(x, c)) <=> Visible(x) /\ c # "invisible"
         /\ Joined(Append(x, c)) <=>
              Joined(x) /\ ~(c = "mark" /\ x # <<>> /\ x[Len(x)] = "letter")
<1>1. /\ Append(x, c) \in Names /\ Len(x) \in Nat /\ Len(Append(x, c)) = Len(x) + 1
      /\ Append(x, c)[Len(x) + 1] = c
      /\ \A i \in 1 .. Len(x) : Append(x, c)[i] = x[i]
      /\ DOMAIN x = 1 .. Len(x) /\ DOMAIN Append(x, c) = 1 .. Len(x) + 1
      /\ x = <<>> <=> Len(x) = 0
  BY DEF Names
<1> DEFINE y == Append(x, c)
           n == Len(x)
<1> HIDE DEF y, n
<1>2. Visible(y) <=> Visible(x) /\ c # "invisible"
  BY <1>1 DEF Visible, y, n
<1>3. ASSUME Joined(x), ~(c = "mark" /\ x # <<>> /\ x[n] = "letter") PROVE Joined(y)
  <2>1. ASSUME NEW i \in 1 .. Len(y) - 1 PROVE ~(y[i] = "letter" /\ y[i + 1] = "mark")
    <3>1. i \in 1 .. n /\ n \in Nat
      BY <1>1 DEF y, n
    <3>2. CASE i = n
      BY <1>1, <1>3, <3>1, <3>2 DEF y, n
    <3>3. CASE i # n
      <4>1. i \in 1 .. n - 1 /\ i + 1 \in 1 .. n
        BY <3>1, <3>3
      <4>2. y[i] = x[i] /\ y[i + 1] = x[i + 1]
        BY <1>1, <3>1, <4>1 DEF y, n
      <4>3. QED BY <1>3, <4>1, <4>2 DEF Joined, n
    <3>4. QED BY <3>2, <3>3
  <2>2. QED BY <2>1 DEF Joined
<1>4. ASSUME Joined(y) PROVE Joined(x) /\ ~(c = "mark" /\ x # <<>> /\ x[n] = "letter")
  <2>1. ASSUME NEW i \in 1 .. n - 1 PROVE ~(x[i] = "letter" /\ x[i + 1] = "mark")
    <3>1. i \in 1 .. n /\ i + 1 \in 1 .. n /\ i \in 1 .. Len(y) - 1
      BY <1>1 DEF y, n
    <3>2. y[i] = x[i] /\ y[i + 1] = x[i + 1]
      BY <1>1, <3>1 DEF y, n
    <3>3. QED BY <1>4, <3>1, <3>2 DEF Joined
  <2>2. ASSUME x # <<>> PROVE ~(x[n] = "letter" /\ c = "mark")
    <3>0. n \in Nat \ {0} /\ Len(y) = n + 1
      BY <1>1, <2>2 DEF y, n
    <3>1. n \in 1 .. Len(y) - 1 /\ n \in 1 .. n
      BY <3>0
    <3>2. y[n] = x[n] /\ y[n + 1] = c
      BY <1>1, <3>1 DEF y, n
    <3>3. QED BY <1>4, <3>1, <3>2 DEF Joined
  <2>3. QED BY <2>1, <2>2 DEF Joined, n
<1>5. QED BY <1>1, <1>2, <1>3, <1>4 DEF y, n

LEMMA EmptyName == <<>> \in Names /\ Visible(<<>>) /\ Joined(<<>>)
BY DEF Names, Visible, Joined

(* Stripping leaves nothing invisible, and everything else. *)
LEMMA StrippedShows ==
  ASSUME NEW x \in Names
  PROVE  Visible(Stripped(x)) /\ (Visible(x) => Stripped(x) = x)
<1> DEFINE T == {y \in Names : Visible(Stripped(y)) /\ (Visible(y) => Stripped(y) = y)}
<1>1. <<>> \in T
  BY StrippedLaws, EmptyName
<1>2. ASSUME NEW y \in Seq(Characters), NEW c \in Characters, y \in T
      PROVE  Append(y, c) \in T
  <2>1. y \in Names /\ Stripped(y) \in Names /\ Stripped(Append(y, c)) = Strip(Stripped(y), c)
    BY StrippedLaws DEF Names
  <2>2. Append(y, c) \in Names /\ (Visible(Append(y, c)) <=> Visible(y) /\ c # "invisible")
    BY <2>1, Appended
  <2>3. Visible(Append(Stripped(y), c)) <=> Visible(Stripped(y)) /\ c # "invisible"
    BY <2>1, Appended
  <2>4. QED BY <1>2, <2>1, <2>2, <2>3 DEF Strip
<1> HIDE DEF T
<1>3. Seq(Characters) \subseteq T
  BY <1>1, <1>2, SeqInduct
<1>4. QED BY <1>3 DEF T, Names

(* NFC joins every mark to the letter before it and adds nothing invisible;  *)
(* a name that is joined is in NFC.                                          *)
LEMMA NFCJoins ==
  ASSUME NEW x \in Names
  PROVE  /\ Joined(NFC(x)) /\ (Visible(x) => Visible(NFC(x)))
         /\ Joined(x) => NFC(x) = x
<1> DEFINE T == {y \in Names : /\ Joined(NFC(y)) /\ (Visible(y) => Visible(NFC(y)))
                               /\ Joined(y) => NFC(y) = y}
<1>1. <<>> \in T
  BY NFCLaws, EmptyName
<1>2. ASSUME NEW y \in Seq(Characters), NEW c \in Characters, y \in T
      PROVE  Append(y, c) \in T
  <2>1. y \in Names /\ NFC(y) \in Names /\ NFC(Append(y, c)) = Compose(NFC(y), c)
    BY NFCLaws DEF Names
  <2> DEFINE q == NFC(y)
             joins == c = "mark" /\ q # <<>> /\ q[Len(q)] = "letter"
  <2>2. /\ Append(y, c) \in Names
        /\ Visible(Append(y, c)) <=> Visible(y) /\ c # "invisible"
        /\ Joined(Append(y, c)) <=>
              Joined(y) /\ ~(c = "mark" /\ y # <<>> /\ y[Len(y)] = "letter")
    BY <2>1, Appended
  <2>3. CASE joins
    <3>1. /\ Len(Compose(q, c)) = Len(q) /\ Compose(q, c)[Len(q)] = "composed"
          /\ \A i \in 1 .. Len(q) - 1 : Compose(q, c)[i] = q[i]
          /\ Compose(q, c) \in Names
      BY <2>1, <2>3, ComposeType
    <3>2. Len(q) \in Nat /\ DOMAIN q = 1 .. Len(q) /\ DOMAIN Compose(q, c) = 1 .. Len(q)
      BY <2>1, <3>1 DEF Names
    <3> HIDE DEF q
    <3>0. Len(q) \in Int
      BY <3>2 DEF q
    <3>3. ASSUME NEW i \in 1 .. Len(q) - 1
          PROVE  ~(Compose(q, c)[i] = "letter" /\ Compose(q, c)[i + 1] = "mark")
      <4>1. CASE i + 1 = Len(q)
        BY <3>1, <4>1
      <4>2. CASE i + 1 # Len(q)
        <5>1. i + 1 \in 1 .. Len(q) - 1
          BY <3>0, <4>2
        <5>2. Compose(q, c)[i] = q[i] /\ Compose(q, c)[i + 1] = q[i + 1]
          BY <3>1, <5>1
        <5>3. Joined(q)
          BY <1>2 DEF q
        <5>4. QED BY <5>2, <5>3 DEF Joined
      <4>3. QED BY <4>1, <4>2
    <3>4. Joined(Compose(q, c))
      BY <3>1, <3>3 DEF Joined
    <3>5. ASSUME Visible(q) PROVE Visible(Compose(q, c))
      <4>1. ASSUME NEW i \in 1 .. Len(q) PROVE Compose(q, c)[i] # "invisible"
        <5>1. CASE i = Len(q)
          BY <3>1, <5>1
        <5>2. CASE i # Len(q)
          <6>1. i \in 1 .. Len(q) - 1
            BY <3>0, <5>2
          <6>2. QED BY <3>1, <3>2, <3>5, <6>1 DEF Visible
        <5>3. QED BY <5>1, <5>2
      <4>2. QED BY <3>2, <4>1 DEF Visible
    <3>6. ~Joined(Append(y, c))
      BY <1>2, <2>2, <2>3 DEF q
    <3>7. QED BY <1>2, <2>1, <2>2, <3>4, <3>5, <3>6 DEF q
  <2>4. CASE ~joins
    <3>1. Compose(q, c) = Append(q, c)
      BY <2>1, <2>4, ComposeType
    <3>2. /\ Visible(Append(q, c)) <=> Visible(q) /\ c # "invisible"
          /\ Joined(Append(q, c)) <=> Joined(q) /\ ~joins
      BY <2>1, Appended
    <3> HIDE DEF q, joins
    <3>3. Joined(NFC(Append(y, c)))
      BY <1>2, <2>1, <2>4, <3>1, <3>2 DEF q
    <3>4. Visible(Append(y, c)) => Visible(NFC(Append(y, c)))
      BY <1>2, <2>1, <2>2, <3>1, <3>2 DEF q
    <3>5. Joined(Append(y, c)) => NFC(Append(y, c)) = Append(y, c)
      BY <1>2, <2>1, <2>2, <3>1 DEF q
    <3>6. QED BY <2>2, <3>3, <3>4, <3>5
  <2>5. QED BY <2>3, <2>4
<1> HIDE DEF T
<1>3. Seq(Characters) \subseteq T
  BY <1>1, <1>2, SeqInduct
<1>4. QED BY <1>3 DEF T, Names

(* Decomposing changes nothing of what NFC makes of a name. *)
LEMMA NFCOfDecomposed ==
  ASSUME NEW x \in Names
  PROVE  NFC(Decomposed(x)) = NFC(x)
<1> DEFINE T == {y \in Names : NFC(Decomposed(y)) = NFC(y)}
<1>1. <<>> \in T
  BY NFCLaws, DecomposedLaws, EmptyName
<1>2. ASSUME NEW y \in Seq(Characters), NEW c \in Characters, y \in T
      PROVE  Append(y, c) \in T
  <2>1. /\ y \in Names /\ Append(y, c) \in Names
        /\ NFC(y) \in Names /\ NFC(Append(y, c)) = Compose(NFC(y), c)
        /\ Decomposed(y) \in Names
        /\ Decomposed(Append(y, c)) = Decompose(Decomposed(y), c)
    BY NFCLaws, DecomposedLaws DEF Names
  <2>2. CASE c # "composed"
    <3>1. Decompose(Decomposed(y), c) = Append(Decomposed(y), c)
      BY <2>1, <2>2, DecomposeType
    <3>2. NFC(Append(Decomposed(y), c)) = Compose(NFC(Decomposed(y)), c)
      BY <2>1, NFCLaws
    <3>3. QED BY <1>2, <2>1, <3>1, <3>2
  <2>3. CASE c = "composed"
    <3> DEFINE d == Decomposed(y)
               q == NFC(y)
    <3>1. "letter" \in Characters /\ "mark" \in Characters /\ "composed" \in Characters
      BY DEF Characters
    <3>2. Decompose(d, c) = Append(Append(d, "letter"), "mark") /\ Append(d, "letter") \in Names
      BY <2>1, <2>3, <3>1, DecomposeType, Appended
    <3>3. NFC(Append(Append(d, "letter"), "mark")) = Compose(NFC(Append(d, "letter")), "mark")
      BY <3>1, <3>2, NFCLaws
    <3>4. NFC(Append(d, "letter")) = Compose(NFC(d), "letter")
      BY <2>1, <3>1, NFCLaws
    <3>5. Compose(q, "letter") = Append(q, "letter") /\ Compose(q, "composed") = Append(q, "composed")
      BY DEF Compose
    <3>6. Compose(Append(q, "letter"), "mark") = Append(q, "composed")
      <4>1. q \in Seq(Characters)
        BY <2>1 DEF Names
      <4> HIDE DEF q
      <4>2. /\ Append(q, "letter") # <<>>
            /\ Append(q, "letter")[Len(Append(q, "letter"))] = "letter"
        BY <3>1, <4>1
      <4>3. Front(Append(q, "letter")) = q
        BY <3>1, <4>1, FrontAppend
      <4>4. QED BY <4>2, <4>3 DEF Compose, Last
    <3>7. QED BY <1>2, <2>1, <2>3, <3>2, <3>3, <3>4, <3>5, <3>6
  <2>4. QED BY <2>2, <2>3
<1> HIDE DEF T
<1>3. Seq(Characters) \subseteq T
  BY <1>1, <1>2, SeqInduct
<1>4. QED BY <1>3 DEF T, Names

(* A stretch of a sequence, and what it inherits. *)
LEMMA StretchIs ==
  ASSUME NEW y \in Names, NEW a \in 1 .. Len(y), NEW b \in a .. Len(y)
  PROVE  /\ SubSeq(y, a, b) \in Names /\ Len(SubSeq(y, a, b)) = (b - a) + 1
         /\ \A i \in 1 .. (b - a) + 1 : SubSeq(y, a, b)[i] = y[(a + i) - 1]
<1>1. Len(y) \in Nat /\ \A i \in 1 .. Len(y) : y[i] \in Characters
  BY DEF Names
<1>2. a \in Int /\ b \in Int /\ a <= b /\ \A i \in a .. b : y[i] \in Characters
  BY <1>1
<1>3. /\ SubSeq(y, a, b) \in Seq(Characters)
      /\ Len(SubSeq(y, a, b)) = IF a <= b THEN (b - a) + 1 ELSE 0
      /\ \A i \in 1 .. (b - a) + 1 : SubSeq(y, a, b)[i] = y[(a + i) - 1]
  BY <1>2, SubSeqProperties
<1>4. QED BY <1>2, <1>3 DEF Names

LEMMA TrimmedIs ==
  ASSUME NEW y \in Names
  PROVE  /\ Trimmed(y) \in Names
         /\ Visible(y) => Visible(Trimmed(y))
         /\ Joined(y) => Joined(Trimmed(y))
         /\ Trimmed(y) # <<>> =>
              Trimmed(y)[1] # "space" /\ Trimmed(y)[Len(Trimmed(y))] # "space"
<1> DEFINE shown == {i \in DOMAIN y : y[i] # "space"}
           a == Min(shown)
           b == Max(shown)
<1>1. Len(y) \in Nat /\ DOMAIN y = 1 .. Len(y)
  BY DEF Names
<1>2. CASE shown = {}
  BY <1>2, EmptyName DEF Trimmed
<1>3. CASE shown # {}
  <2>1. /\ a \in 1 .. Len(y) /\ b \in a .. Len(y)
        /\ y[a] # "space" /\ y[b] # "space"
    <3>1. shown \in SUBSET Nat /\ shown \in SUBSET (1 .. Len(y))
      BY <1>1
    <3> HIDE DEF shown
    <3>2. a \in shown /\ b \in shown /\ \A i \in shown : a <= i
      BY <1>1, <1>3, <3>1, MinIs, MaxIs
    <3>3. a <= b /\ a \in 1 .. Len(y) /\ b \in 1 .. Len(y)
      BY <3>1, <3>2
    <3>4. b \in a .. Len(y)
      BY <1>1, <3>3
    <3>5. QED BY <3>2, <3>3, <3>4 DEF shown
  <2>2. Trimmed(y) = SubSeq(y, a, b)
    BY <1>3 DEF Trimmed
  <2> HIDE DEF a, b
  <2> DEFINE t == SubSeq(y, a, b)
             m == (b - a) + 1
  <2>3. t \in Names /\ Len(t) = m /\ \A i \in 1 .. m : t[i] = y[(a + i) - 1]
    BY <2>1, StretchIs
  <2>4. DOMAIN t = 1 .. m
    BY <2>3 DEF Names
  <2>5. a \in Int /\ b \in Int /\ 1 <= a /\ a <= b /\ b <= Len(y)
    BY <1>1, <2>1
  <2>6. m \in 1 .. m /\ 1 \in 1 .. m /\ (a + 1) - 1 = a /\ (a + m) - 1 = b
    BY <2>5
  <2>7. t[1] # "space" /\ t[Len(t)] # "space"
    BY <2>1, <2>3, <2>6
  <2>8. \A i \in 1 .. m : (a + i) - 1 \in 1 .. Len(y)
    BY <1>1, <2>5
  <2>9. Visible(y) => Visible(t)
    <3> HIDE DEF t, m
    <3>1. QED BY <1>1, <2>3, <2>4, <2>8 DEF Visible, t, m
  <2>10. ASSUME Joined(y) PROVE Joined(t)
    <3>1. ASSUME NEW i \in 1 .. Len(t) - 1 PROVE ~(t[i] = "letter" /\ t[i + 1] = "mark")
      <4>1. m \in Int /\ i \in 1 .. m - 1
        BY <2>3, <2>5
      <4>2. i \in 1 .. m /\ i + 1 \in 1 .. m
        BY <4>1
      <4>3. t[i] = y[(a + i) - 1] /\ t[i + 1] = y[((a + i) - 1) + 1]
        <5>1. (a + (i + 1)) - 1 = ((a + i) - 1) + 1
          BY <2>5, <4>1
        <5>2. t[i + 1] = y[(a + (i + 1)) - 1]
          BY <2>3, <4>2
        <5>3. QED BY <2>3, <4>2, <5>1, <5>2
      <4>4. (a + i) - 1 \in 1 .. Len(y) - 1
        BY <1>1, <2>5, <4>1
      <4>5. QED BY <2>10, <4>3, <4>4 DEF Joined
    <3>2. QED BY <3>1 DEF Joined
  <2>11. QED BY <2>2, <2>3, <2>7, <2>9, <2>10
<1>4. QED BY <1>2, <1>3

(* Stripping brings a mark next to a letter only where nothing else stood    *)
(* between them.  The induction needs to know where the last letter of what  *)
(* is left came from (Ends).                                                 *)
Ends(y) ==
  LET s == Stripped(NFC(y)) IN
  /\ s # <<>> /\ s[Len(s)] = "letter" =>
       \E i \in 1 .. Len(y) : y[i] = "letter" /\ \A k \in i + 1 .. Len(y) : y[k] = "invisible"
  /\ y # <<>> /\ y[Len(y)] = "letter" =>
       NFC(y) # <<>> /\ NFC(y)[Len(NFC(y))] = "letter"

LEMMA RejoinedGrows ==
  ASSUME NEW y \in Names, NEW c \in Characters
  PROVE  /\ Rejoined(y) => Rejoined(Append(y, c))
         /\ \A i \in 1 .. Len(y) :
              /\ c = "mark" /\ y[i] = "letter" /\ i # Len(y)
              /\ \A k \in i + 1 .. Len(y) : y[k] = "invisible"
              => Rejoined(Append(y, c))
<1> DEFINE x == Append(y, c)
           n == Len(y)
<1>1. /\ n \in Nat /\ x[n + 1] = c /\ \A i \in 1 .. n : x[i] = y[i]
      /\ DOMAIN y = 1 .. n /\ DOMAIN x = 1 .. n + 1
  BY Appended
<1> HIDE DEF x, n
<1>2. ASSUME Rejoined(y) PROVE Rejoined(x)
  <2>1. PICK i, j \in 1 .. n : /\ i + 1 < j /\ y[i] = "letter" /\ y[j] = "mark"
                              /\ \A k \in i + 1 .. j - 1 : y[k] = "invisible"
    BY <1>1, <1>2 DEF Rejoined
  <2>2. \A k \in i + 1 .. j - 1 : k \in 1 .. n
    BY <1>1
  <2>3. i \in DOMAIN x /\ j \in DOMAIN x /\ x[i] = "letter" /\ x[j] = "mark"
    BY <1>1, <2>1
  <2>4. \A k \in i + 1 .. j - 1 : x[k] = "invisible"
    BY <1>1, <2>1, <2>2
  <2>5. QED BY <2>1, <2>3, <2>4 DEF Rejoined
<1>3. ASSUME c = "mark", NEW i \in 1 .. n, y[i] = "letter", i # n,
             \A k \in i + 1 .. n : y[k] = "invisible"
      PROVE  Rejoined(x)
  <2>1. /\ i \in DOMAIN x /\ n + 1 \in DOMAIN x /\ i + 1 < n + 1
        /\ x[i] = "letter" /\ x[n + 1] = "mark"
    BY <1>1, <1>3
  <2>2. \A k \in i + 1 .. (n + 1) - 1 : k \in i + 1 .. n /\ k \in 1 .. n
    BY <1>1
  <2>3. \A k \in i + 1 .. (n + 1) - 1 : x[k] = "invisible"
    BY <1>1, <1>3, <2>2
  <2>4. QED BY <2>1, <2>3 DEF Rejoined
<1>4. QED BY <1>2, <1>3 DEF x, n

LEMMA StripKeepsJoined ==
  ASSUME NEW x \in Names, ~Rejoined(x)
  PROVE  Joined(Stripped(NFC(x)))
<1> DEFINE T == {y \in Names : ~Rejoined(y) => Joined(Stripped(NFC(y))) /\ Ends(y)}
<1>1. <<>> \in T
  BY NFCLaws, StrippedLaws, EmptyName DEF Ends
<1>2. ASSUME NEW y \in Seq(Characters), NEW c \in Characters, y \in T
      PROVE  Append(y, c) \in T
  <2> DEFINE q == NFC(y)
             s == Stripped(q)
             z == Append(y, c)
             n == Len(y)
  <2>1. /\ y \in Names /\ q \in Names /\ s \in Names /\ z \in Names
        /\ NFC(z) = Compose(q, c)
    BY NFCLaws, StrippedLaws, Appended DEF Names
  <2>2. /\ n \in Nat /\ Len(z) = n + 1 /\ z[n + 1] = c /\ \A i \in 1 .. n : z[i] = y[i]
        /\ z # <<>> /\ (n # 0 => y # <<>>)
    <3>1. n \in Nat /\ Len(z) = n + 1 /\ z[n + 1] = c /\ \A i \in 1 .. n : z[i] = y[i]
      BY <2>1, Appended
    <3> HIDE DEF z
    <3>2. z # <<>> /\ (n # 0 => y # <<>>)
      BY <3>1
    <3>3. QED BY <3>1, <3>2
  <2> SUFFICES ASSUME ~Rejoined(z) PROVE Joined(Stripped(NFC(z))) /\ Ends(z)
    BY <2>1
  <2>3. Joined(s) /\ Ends(y)
    BY <1>2, <2>1, RejoinedGrows
  <2>4. CASE c = "mark" /\ q # <<>> /\ q[Len(q)] = "letter"
    <3> DEFINE f == Front(q)
               t == Stripped(f)
    <3>1. f \in Names /\ q = Append(f, "letter") /\ Compose(q, c) = Append(f, "composed")
      BY <2>1, <2>4, FrontSplits DEF Compose, Last, Names
    <3>2. /\ "letter" \in Characters /\ "composed" \in Characters /\ t \in Names
          /\ s = Append(t, "letter") /\ Stripped(NFC(z)) = Append(t, "composed")
      <4>1. "letter" \in Characters /\ "composed" \in Characters
        BY DEF Characters
      <4> HIDE DEF q, f, z
      <4>2. /\ t \in Names /\ Stripped(Append(f, "letter")) = Strip(t, "letter")
            /\ Stripped(Append(f, "composed")) = Strip(t, "composed")
        BY <3>1, <4>1, StrippedLaws
      <4>3. Strip(t, "letter") = Append(t, "letter") /\ Strip(t, "composed") = Append(t, "composed")
        BY DEF Strip
      <4>4. QED BY <2>1, <3>1, <4>1, <4>2, <4>3
    <3> HIDE DEF q, s, z, n, f, t
    <3>3. Joined(t)
      BY <2>3, <3>2, Appended
    <3>4. Joined(Append(t, "composed")) /\ Last(Append(t, "composed")) = "composed"
      <4>1. /\ Joined(Append(t, "composed"))
            /\ Len(Append(t, "composed")) = Len(t) + 1
            /\ Append(t, "composed")[Len(t) + 1] = "composed"
        BY <3>2, <3>3, Appended
      <4>2. QED BY <4>1 DEF Last
    <3>5. Ends(z)
      BY <2>2, <2>4, <3>2, <3>4 DEF Ends, Last
    <3>6. QED BY <3>2, <3>4, <3>5
  <2>5. CASE ~(c = "mark" /\ q # <<>> /\ q[Len(q)] = "letter")
    <3>1. NFC(z) = Append(q, c) /\ Stripped(NFC(z)) = Strip(s, c)
      <4> HIDE DEF q, z
      <4>1. Compose(q, c) = Append(q, c)
        BY <2>1, <2>5, ComposeType
      <4>2. QED BY <2>1, <4>1, StrippedLaws
    <3>2. c = "letter" => NFC(z) # <<>> /\ NFC(z)[Len(NFC(z))] = "letter"
      <4> HIDE DEF q
      <4>1. q \in Seq(Characters) /\ NFC(z) = Append(q, c)
        BY <2>1, <3>1 DEF Names
      <4>2. Append(q, c) # <<>> /\ Append(q, c)[Len(Append(q, c))] = c
        BY <4>1
      <4>3. QED BY <4>1, <4>2
    <3>3. CASE c = "invisible"
      <4>1. Stripped(NFC(z)) = s
        BY <3>1, <3>3 DEF Strip
      <4>2. ASSUME s # <<>>, s[Len(s)] = "letter"
            PROVE  \E i \in 1 .. n + 1 :
                     z[i] = "letter" /\ \A k \in i + 1 .. n + 1 : z[k] = "invisible"
        <5>1. PICK i \in 1 .. n : y[i] = "letter" /\ \A k \in i + 1 .. n : y[k] = "invisible"
          BY <2>3, <4>2 DEF Ends
        <5> HIDE DEF z, n
        <5>2. ASSUME NEW k \in i + 1 .. n + 1 PROVE z[k] = "invisible"
          <6>1. k = n + 1 \/ (k \in i + 1 .. n /\ k \in 1 .. n)
            BY <2>2
          <6>2. QED BY <2>2, <3>3, <5>1, <6>1
        <5>3. i \in 1 .. n + 1 /\ z[i] = "letter"
          BY <2>2, <5>1
        <5>4. QED BY <5>2, <5>3
      <4> HIDE DEF s, z, n
      <4>3. Ends(z)
        BY <2>2, <3>3, <4>1, <4>2 DEF Ends
      <4>4. QED BY <2>3, <4>1, <4>3
    <3>4. CASE c # "invisible"
      <4>1. /\ Stripped(NFC(z)) = Append(s, c) /\ Len(Append(s, c)) = Len(s) + 1
            /\ Append(s, c)[Len(s) + 1] = c
            /\ Joined(Append(s, c)) <=>
                 Joined(s) /\ ~(c = "mark" /\ s # <<>> /\ s[Len(s)] = "letter")
        BY <2>1, <3>1, <3>4, Appended DEF Strip
      <4>2. ASSUME c = "mark", s # <<>>, s[Len(s)] = "letter" PROVE FALSE
        <5>1. PICK i \in 1 .. n : y[i] = "letter" /\ \A k \in i + 1 .. n : y[k] = "invisible"
          BY <2>3, <4>2 DEF Ends
        <5>2. CASE i = n
          BY <2>2, <2>3, <2>5, <4>2, <5>1, <5>2 DEF Ends
        <5>3. CASE i # n
          BY <2>1, <4>2, <5>1, <5>3, RejoinedGrows
        <5>4. QED BY <5>2, <5>3
      <4> HIDE DEF q, s, z, n
      <4>3. c = "letter" => \E i \in 1 .. n + 1 :
              z[i] = "letter" /\ \A k \in i + 1 .. n + 1 : z[k] = "invisible"
        BY <2>2
      <4>4. Ends(z)
        BY <2>2, <3>2, <4>1, <4>3 DEF Ends
      <4>5. QED BY <2>3, <4>1, <4>2, <4>4
    <3>5. QED BY <3>3, <3>4
  <2>6. QED BY <2>4, <2>5
<1> HIDE DEF T
<1>3. Seq(Characters) \subseteq T
  BY <1>1, <1>2, SeqInduct
<1>4. QED BY <1>3 DEF T, Names

(* What is stored of a name that passes: nothing invisible, no white space   *)
(* at its ends, a legal length, and NFC unless stripping brought a mark next *)
(* to a letter.                                                              *)
THEOREM StoredNames ==
  ASSUME NEW raw \in Names, ~InvalidPlayerName(raw)
  PROVE  CleanName(normalize_player_name(raw)) /\ NormalName(raw, normalize_player_name(raw))
<1> DEFINE nfc == NFC(raw)
           stripped == Stripped(nfc)
           name == Trimmed(stripped)
<1>1. normalize_player_name(raw) = name
  BY DEF normalize_player_name
<1>2. nfc \in Names /\ stripped \in Names /\ name \in Names
  BY NFCLaws, StrippedLaws, TrimmedIs
<1>3. Len(name) \in 1 .. MAX_LEN
  BY <1>1 DEF InvalidPlayerName
<1>4. name # <<>>
  BY <1>2, <1>3 DEF Names
<1>5. CleanName(name)
  <2>1. Visible(name)
    BY <1>2, StrippedShows, TrimmedIs
  <2>2. name[1] # "space" /\ name[Len(name)] # "space"
    BY <1>2, <1>4, TrimmedIs
  <2>3. QED BY <1>3, <2>1, <2>2 DEF CleanName, Visible
<1>6. ASSUME ~Rejoined(raw) PROVE NFC(name) = name
  <2>1. Joined(name)
    BY <1>2, <1>6, StripKeepsJoined, TrimmedIs
  <2>2. QED BY <1>2, <2>1, NFCJoins
<1>7. QED BY <1>1, <1>5, <1>6 DEF NormalName

(* Canonically equivalent names are stored as one. *)
THEOREM EquivalentNames ==
  ASSUME NEW x \in Names, NEW y \in Names, Decomposed(x) = Decomposed(y)
  PROVE  normalize_player_name(x) = normalize_player_name(y)
<1>1. NFC(x) = NFC(y)
  BY NFCOfDecomposed
<1>2. QED BY <1>1 DEF normalize_player_name

-------------------------------------------------------------------------------
(* The verdict of sanitize_submission. *)

LEMMA FirstRefusalIs ==
  ASSUME NEW v, NEW n \in Nat, DOMAIN v = 1 .. n
  PROVE  \/ FirstRefusal(v) = "ok" /\ \A i \in 1 .. n : v[i] = "ok"
         \/ \E i \in 1 .. n : v[i] # "ok" /\ FirstRefusal(v) = v[i]
<1> DEFINE refused == {i \in DOMAIN v : v[i] # "ok"}
<1>1. CASE refused = {}
  BY <1>1 DEF FirstRefusal
<1>2. CASE refused # {}
  <2>1. refused \in SUBSET Nat
    OBVIOUS
  <2>2. Min(refused) \in refused
    BY <1>2, <2>1, MinIs
  <2>3. FirstRefusal(v) = v[Min(refused)]
    BY <1>2 DEF FirstRefusal
  <2>4. QED BY <2>2, <2>3
<1>3. QED BY <1>1, <1>2

LEMMA JoinOf ==
  ASSUME NEW S, NEW a \in Seq(S), NEW b \in Seq(S)
  PROVE  /\ DOMAIN (a \o b) = 1 .. Len(a) + Len(b)
         /\ \A i \in 1 .. Len(a) : (a \o b)[i] = a[i]
         /\ \A j \in 1 .. Len(b) : (a \o b)[Len(a) + j] = b[j]
         /\ \A k \in 1 .. Len(a) + Len(b) :
              k \in 1 .. Len(a) \/ \E j \in 1 .. Len(b) : k = Len(a) + j
<1>1. Len(a) \in Nat /\ Len(b) \in Nat
  OBVIOUS
<1>2. /\ a \o b \in Seq(S) /\ Len(a \o b) = Len(a) + Len(b)
      /\ \A k \in 1 .. Len(a) + Len(b) :
           (a \o b)[k] = IF k <= Len(a) THEN a[k] ELSE b[k - Len(a)]
  BY ConcatProperties
<1>3. ASSUME NEW i \in 1 .. Len(a) PROVE (a \o b)[i] = a[i]
  BY <1>1, <1>2
<1>4. ASSUME NEW j \in 1 .. Len(b) PROVE (a \o b)[Len(a) + j] = b[j]
  <2>1. /\ Len(a) + j \in 1 .. Len(a) + Len(b)
        /\ ~(Len(a) + j <= Len(a)) /\ (Len(a) + j) - Len(a) = j
    BY <1>1
  <2>2. QED BY <1>2, <2>1
<1>5. ASSUME NEW k \in 1 .. Len(a) + Len(b), k \notin 1 .. Len(a)
      PROVE  \E j \in 1 .. Len(b) : k = Len(a) + j
  <2>1. k - Len(a) \in 1 .. Len(b) /\ k = Len(a) + (k - Len(a))
    BY <1>1, <1>5
  <2>2. QED BY <2>1
<1>6. QED BY <1>2, <1>3, <1>4, <1>5

Verdicts == {"ok", "error", "invalid_custom_data"}

LEMMA ItemVerdictIs ==
  ASSUME NEW schema \in Schema, NEW item \in Item
  PROVE  LET v == ItemVerdict(schema, item) IN
         /\ v \in Verdicts
         /\ v = "error" => \E j \in DOMAIN schema : Malformed(schema[j])
         /\ v = "invalid_custom_data" =>
              \/ KeyTooLong(item) \/ ValueTooLong(item)
              \/ schema # <<>> /\ \A j \in DOMAIN schema : ~Is(schema[j], item)
              \/ \E j \in DOMAIN schema :
                   /\ Is(schema[j], item) /\ item.value \notin JsonType(schema[j].type)
                   /\ ~NotNumber(schema[j], item)
         /\ v = "ok" =>
              /\ ~ValueTooLong(item)
              /\ schema # <<>> => \E j \in DOMAIN schema : Is(schema[j], item)
              /\ \A j \in DOMAIN schema : Is(schema[j], item) =>
                   item.value \in JsonType(schema[j].type) \/ NotNumber(schema[j], item)
<1> DEFINE declared == {j \in DOMAIN schema : schema[j].key = item.key}
           v == ItemVerdict(schema, item)
<1>1. item.value \in {"str", "int", "float", "bool", "list"}
  BY DEF Item
<1>2. ASSUME NEW j \in DOMAIN schema
      PROVE  TypeMatches(schema[j].type, item.value) <=>
               item.value \in JsonType(schema[j].type) \/ NotNumber(schema[j], item)
  BY <1>1 DEF TypeMatches, JsonType, NotNumber
<1>3. \A j \in DOMAIN schema : j \in declared <=> Is(schema[j], item)
  BY DEF Is
<1>4. KeyTooLong(item) \in BOOLEAN /\ ValueTooLong(item) \in BOOLEAN
  BY DEF KeyTooLong, ValueTooLong
<1>5. \/ v = "invalid_custom_data" /\ (KeyTooLong(item) \/ ValueTooLong(item))
      \/ v = "invalid_custom_data" /\ schema # <<>> /\ declared = {}
      \/ v = "error" /\ \E j \in declared : Malformed(schema[j])
      \/ v = "invalid_custom_data" /\ \E j \in declared : ~TypeMatches(schema[j].type, item.value)
      \/ /\ v = "ok" /\ ~ValueTooLong(item) /\ (schema # <<>> => declared # {})
         /\ \A j \in declared : TypeMatches(schema[j].type, item.value)
  BY <1>4 DEF ItemVerdict
<1> HIDE DEF v
<1>6. /\ v \in Verdicts
      /\ v = "error" => \E j \in DOMAIN schema : Malformed(schema[j])
  BY <1>5 DEF Verdicts
<1>7. ASSUME v = "invalid_custom_data"
      PROVE  \/ KeyTooLong(item) \/ ValueTooLong(item)
             \/ schema # <<>> /\ \A j \in DOMAIN schema : ~Is(schema[j], item)
             \/ \E j \in DOMAIN schema :
                  /\ Is(schema[j], item) /\ item.value \notin JsonType(schema[j].type)
                  /\ ~NotNumber(schema[j], item)
  BY <1>2, <1>3, <1>5, <1>7
<1>8. ASSUME v = "ok"
      PROVE  /\ ~ValueTooLong(item)
             /\ schema # <<>> => \E j \in DOMAIN schema : Is(schema[j], item)
             /\ \A j \in DOMAIN schema : Is(schema[j], item) =>
                  item.value \in JsonType(schema[j].type) \/ NotNumber(schema[j], item)
  BY <1>2, <1>3, <1>5, <1>8
<1>9. QED BY <1>6, <1>7, <1>8 DEF v

(* An object given as custom_data breaks a rule that is enforced. *)
Faulty(schema, d) ==
  TooBig(d) \/ Undeclared(schema, d) \/ Mistyped(schema, d) \/ Incomplete(schema, d)

(* The verdict about custom_data that was given. *)
LEMMA CustomVerdictIs ==
  ASSUME NEW schema \in Schema, NEW d \in Payload
  PROVE  LET v == CustomVerdict(schema, d) IN
         /\ v \in Verdicts
         /\ v = "error" => \E j \in DOMAIN schema : Malformed(schema[j])
         /\ v = "invalid_custom_data" => Faulty(schema, d) \/ \E i \in DOMAIN d : KeyTooLong(d[i])
         /\ v = "ok" => ~Faulty(schema, d)
<1> DEFINE v == CustomVerdict(schema, d)
           a == [i \in DOMAIN d |-> ItemVerdict(schema, d[i])]
           b == [j \in DOMAIN schema |-> FieldVerdict(d, schema[j])]
<1>1. /\ Len(d) \in Nat /\ DOMAIN d = 1 .. Len(d) /\ \A i \in DOMAIN d : d[i] \in Item
      /\ Len(schema) \in Nat /\ DOMAIN schema = 1 .. Len(schema)
      /\ \A j \in DOMAIN schema : schema[j] \in Field
  BY DEF Payload, Schema, Objects
<1>2. \A j \in DOMAIN schema : b[j] \in Verdicts
  BY DEF FieldVerdict, Verdicts
<1>3. \A i \in DOMAIN d : a[i] \in Verdicts
  BY <1>1, ItemVerdictIs
<1>4. a \in Seq(Verdicts) /\ Len(a) = Len(d) /\ b \in Seq(Verdicts) /\ Len(b) = Len(schema)
  BY <1>1, <1>2, <1>3
<1>5. CASE Len(d) > MaxKeys
  BY <1>5 DEF CustomVerdict, Faulty, TooBig, Verdicts
<1>6. CASE ~(Len(d) > MaxKeys)
  <2>1. v = FirstRefusal(a \o b)
    BY <1>6 DEF CustomVerdict
  <2>2. /\ DOMAIN (a \o b) = 1 .. Len(d) + Len(schema)
        /\ \A i \in DOMAIN d : (a \o b)[i] = a[i]
        /\ \A j \in DOMAIN schema : (a \o b)[Len(d) + j] = b[j]
        /\ \A k \in 1 .. Len(d) + Len(schema) :
             k \in DOMAIN d \/ \E j \in DOMAIN schema : k = Len(d) + j
    <3>0. a \in Seq(Verdicts) /\ b \in Seq(Verdicts)
      BY <1>4
    <3> HIDE DEF a, b
    <3>1. /\ DOMAIN (a \o b) = 1 .. Len(a) + Len(b)
          /\ \A i \in 1 .. Len(a) : (a \o b)[i] = a[i]
          /\ \A j \in 1 .. Len(b) : (a \o b)[Len(a) + j] = b[j]
          /\ \A k \in 1 .. Len(a) + Len(b) :
               k \in 1 .. Len(a) \/ \E j \in 1 .. Len(b) : k = Len(a) + j
      BY ONLY <3>0, JoinOf
    <3>2. QED BY <1>1, <1>4, <3>1
  <2>3. \/ v = "ok" /\ \A k \in 1 .. Len(d) + Len(schema) : (a \o b)[k] = "ok"
        \/ \E k \in 1 .. Len(d) + Len(schema) : (a \o b)[k] # "ok" /\ v = (a \o b)[k]
    <3>1. Len(d) + Len(schema) \in Nat
      BY <1>1
    <3> HIDE DEF a, b, v
    <3>2. QED BY <2>1, <2>2, <3>1, FirstRefusalIs
  <2>4. \/ /\ v = "ok"
           /\ \A i \in DOMAIN d : a[i] = "ok"
           /\ \A j \in DOMAIN schema : b[j] = "ok"
        \/ \E i \in DOMAIN d : a[i] # "ok" /\ v = a[i]
        \/ \E j \in DOMAIN schema : b[j] # "ok" /\ v = b[j]
    <3> HIDE DEF a, b, v
    <3>1. (\A i \in DOMAIN d : i \in 1 .. Len(d) + Len(schema))
          /\ \A j \in DOMAIN schema : Len(d) + j \in 1 .. Len(d) + Len(schema)
      BY <1>1
    <3>2. ASSUME NEW k \in 1 .. Len(d) + Len(schema), (a \o b)[k] # "ok", v = (a \o b)[k]
          PROVE  \/ \E i \in DOMAIN d : a[i] # "ok" /\ v = a[i]
                 \/ \E j \in DOMAIN schema : b[j] # "ok" /\ v = b[j]
      <4>1. CASE k \in DOMAIN d
        BY <2>2, <3>2, <4>1
      <4>2. CASE \E j \in DOMAIN schema : k = Len(d) + j
        BY <2>2, <3>2, <4>2
      <4>3. QED BY <2>2, <4>1, <4>2
    <3>3. ASSUME v = "ok", \A k \in 1 .. Len(d) + Len(schema) : (a \o b)[k] = "ok"
          PROVE  /\ \A i \in DOMAIN d : a[i] = "ok"
                 /\ \A j \in DOMAIN schema : b[j] = "ok"
      BY <2>2, <3>1, <3>3
    <3>4. QED BY <2>3, <3>2, <3>3
  <2>5. CASE \E i \in DOMAIN d : a[i] # "ok" /\ v = a[i]
    <3>1. PICK i \in DOMAIN d : a[i] # "ok" /\ v = a[i]
      BY <2>5
    <3>2. d[i] \in Item /\ v = ItemVerdict(schema, d[i]) /\ v # "ok"
      BY <1>1, <3>1
    <3> HIDE DEF v
    <3>3. /\ v \in Verdicts
          /\ v = "error" => \E j \in DOMAIN schema : Malformed(schema[j])
          /\ v = "invalid_custom_data" =>
               \/ KeyTooLong(d[i]) \/ ValueTooLong(d[i])
               \/ schema # <<>> /\ \A j \in DOMAIN schema : ~Is(schema[j], d[i])
               \/ \E j \in DOMAIN schema :
                    /\ Is(schema[j], d[i]) /\ d[i].value \notin JsonType(schema[j].type)
                    /\ ~NotNumber(schema[j], d[i])
      BY <3>2, ItemVerdictIs
    <3>4. v = "invalid_custom_data" => Faulty(schema, d) \/ KeyTooLong(d[i])
      BY <3>3 DEF Faulty, TooBig, Undeclared, Mistyped
    <3>5. QED BY <3>2, <3>3, <3>4 DEF v
  <2>6. CASE \E j \in DOMAIN schema : b[j] # "ok" /\ v = b[j]
    <3>1. PICK j \in DOMAIN schema : b[j] # "ok" /\ v = FieldVerdict(d, schema[j])
      BY <2>6
    <3>2. \/ v = "error" /\ Malformed(schema[j])
          \/ v = "invalid_custom_data" /\ Incomplete(schema, d)
      BY <3>1 DEF FieldVerdict, Incomplete, Is
    <3>3. QED BY <3>2 DEF Verdicts, Faulty
  <2>7. CASE /\ v = "ok"
             /\ \A i \in DOMAIN d : a[i] = "ok"
             /\ \A j \in DOMAIN schema : b[j] = "ok"
    <3>1. \A j \in DOMAIN schema : FieldVerdict(d, schema[j]) = "ok"
      BY <2>7
    <3>2. ~Incomplete(schema, d)
      BY <1>1, <3>1 DEF Incomplete, Is, FieldVerdict, Field
    <3>3. \A i \in DOMAIN d : ItemVerdict(schema, d[i]) = "ok"
      BY <2>7
    <3>4. ASSUME NEW i \in DOMAIN d
          PROVE  /\ ~ValueTooLong(d[i])
                 /\ schema # <<>> => \E j \in DOMAIN schema : Is(schema[j], d[i])
                 /\ \A j \in DOMAIN schema : Is(schema[j], d[i]) =>
                      d[i].value \in JsonType(schema[j].type) \/ NotNumber(schema[j], d[i])
      BY <1>1, <3>3, ItemVerdictIs
    <3>5. ~TooBig(d) /\ ~Undeclared(schema, d) /\ ~Mistyped(schema, d)
      BY <1>6, <3>4 DEF TooBig, Undeclared, Mistyped
    <3>6. QED BY <2>7, <3>2, <3>5 DEF Verdicts, Faulty
  <2>8. QED BY <2>4, <2>5, <2>6, <2>7
<1>7. QED BY <1>5, <1>6

LEMMA SingleVerdict ==
  ASSUME NEW schema, NEW given, AtMostOne(given)
  PROVE  LET v == FirstRefusal(SetToSeq({CustomVerdict(schema, d) : d \in given})) IN
         /\ given = {} => v = "ok"
         /\ \A d \in given : v = CustomVerdict(schema, d)
<1> DEFINE S == {CustomVerdict(schema, d) : d \in given}
           q == SetToSeq(S)
<1>1. CASE given = {}
  <2>1. S = {} /\ Cardinality(S) = 0
    BY <1>1, FS_EmptySet
  <2>2. \E f \in [1 .. Cardinality(S) -> S] : IsInjective(f)
    <3>1. [i \in {} |-> i] \in [1 .. 0 -> {}] /\ IsInjective([i \in {} |-> i])
      BY DEF IsInjective
    <3>2. QED BY <2>1, <3>1
  <2> HIDE DEF S
  <2>3. q \in [1 .. Cardinality(S) -> S]
    BY <2>2 DEF SetToSeq
  <2> HIDE DEF q
  <2>4. DOMAIN q = 1 .. 0 /\ 0 \in Nat
    BY <2>1, <2>3
  <2>5. FirstRefusal(q) = "ok"
    BY <2>4, FirstRefusalIs
  <2>6. QED BY <1>1, <2>5 DEF q, S
<1>2. ASSUME NEW d \in given PROVE FirstRefusal(q) = CustomVerdict(schema, d)
  <2>1. S = {CustomVerdict(schema, d)}
    BY DEF AtMostOne
  <2> DEFINE c == CustomVerdict(schema, d)
  <2> HIDE DEF c, S
  <2>2. S = {c} /\ Cardinality(S) = 1
    BY <2>1, FS_Singleton DEF c
  <2>3. \E f \in [1 .. Cardinality(S) -> S] : IsInjective(f)
    <3>1. [i \in 1 .. 1 |-> c] \in [1 .. 1 -> {c}] /\ IsInjective([i \in 1 .. 1 |-> c])
      BY DEF IsInjective
    <3>2. QED BY <2>2, <3>1
  <2>4. q \in [1 .. Cardinality(S) -> S]
    BY <2>3 DEF SetToSeq
  <2> HIDE DEF q
  <2>5. DOMAIN q = 1 .. 1 /\ q[1] = c /\ 1 \in Nat
    BY <2>2, <2>4
  <2>6. \/ FirstRefusal(q) = "ok" /\ \A i \in 1 .. 1 : q[i] = "ok"
        \/ \E i \in 1 .. 1 : q[i] # "ok" /\ FirstRefusal(q) = q[i]
    BY <2>5, FirstRefusalIs
  <2>7. QED BY <2>5, <2>6 DEF c
<1>3. QED BY <1>1, <1>2

(* A submission, whatever it holds, gets the documented verdict, whatever    *)
(* the bounds and the schema of the game.                                    *)
THEOREM VerdictsDocumented ==
  ASSUME NEW lo \in SUBSET Nat, NEW hi \in SUBSET Nat, NEW fields \in Schema,
         NEW sub \in Submission
  PROVE  VerdictIsDocumented([min |-> lo, max |-> hi, fields |-> fields], sub)
<1> DEFINE game == [min |-> lo, max |-> hi, fields |-> fields]
           verdict == sanitize_submission(game, sub)
           broken == {rule \in Rules \ NotEnforced : Breaks(rule, game, sub)}
           custom == FirstRefusal(SetToSeq({CustomVerdict(fields, d) : d \in sub.custom_data}))
           clean == CleanName(normalize_player_name(sub.player_name))
           inside == ScoreInBounds(game, sub.score)
           timely == \A p \in sub.played_at : PlayedAtOk(sub, p)
<1>1. /\ sub.player_name \in Names /\ sub.score \in Int /\ sub.issued \in Nat /\ sub.now \in Nat
      /\ sub.played_at \in SUBSET [naive : BOOLEAN, at : Nat]
      /\ sub.seed \in SUBSET {"clean", "newline", "bad"} /\ AtMostOne(sub.seed)
      /\ sub.custom_data \in SUBSET Payload /\ AtMostOne(sub.custom_data)
  BY DEF Submission
<1>2. ~InvalidPlayerName(sub.player_name) <=> clean
  BY <1>1, StoredNames DEF InvalidPlayerName, CleanName
<1>3. inside <=> ~(\/ \E x \in lo : sub.score < x
                  \/ \E x \in hi : sub.score > x)
  BY <1>1 DEF ScoreInBounds
<1>4. timely <=> ~\E p \in sub.played_at :
        p.naive \/ p.at > sub.now + Skew \/ p.at < sub.issued - Skew
  <2>1. ASSUME NEW p \in sub.played_at
        PROVE  PlayedAtOk(sub, p) <=>
                 ~(p.naive \/ p.at > sub.now + Skew \/ p.at < sub.issued - Skew)
    <3>1. p.at \in Nat /\ p.naive \in BOOLEAN
      BY <1>1
    <3>2. QED BY <1>1, <3>1, SanityAssumption DEF PlayedAtOk
  <2>2. QED BY <2>1
<1>5. /\ custom \in Verdicts
      /\ custom = "error" =>
           sub.custom_data # {} /\ \E j \in DOMAIN fields : Malformed(fields[j])
      /\ custom = "invalid_custom_data" =>
           OwnRule(sub) \/ \E d \in sub.custom_data : Faulty(fields, d)
      /\ custom = "ok" => \A d \in sub.custom_data : ~Faulty(fields, d)
  <2>1. CASE sub.custom_data = {}
    <3>1. custom = "ok"
      BY <1>1, <2>1, SingleVerdict
    <3>2. QED BY <2>1, <3>1 DEF Verdicts
  <2>2. CASE sub.custom_data # {}
    <3>1. PICK d \in sub.custom_data : d \in Payload
      BY <1>1, <2>2
    <3>2. custom = CustomVerdict(fields, d) /\ \A e \in sub.custom_data : e = d
      BY <1>1, <3>1, SingleVerdict DEF AtMostOne
    <3> HIDE DEF custom
    <3>3. /\ custom \in Verdicts
          /\ custom = "error" => \E j \in DOMAIN fields : Malformed(fields[j])
          /\ custom = "invalid_custom_data" =>
               Faulty(fields, d) \/ \E i \in DOMAIN d : KeyTooLong(d[i])
          /\ custom = "ok" => ~Faulty(fields, d)
      BY <3>1, <3>2, CustomVerdictIs
    <3>4. QED BY <2>2, <3>1, <3>2, <3>3 DEF OwnRule
  <2>3. QED BY <2>1, <2>2
<1>6. ASSUME NEW rule
      PROVE  rule \in broken <=>
               \/ rule = "name" /\ ~clean
               \/ rule = "score" /\ ~inside
               \/ rule = "played_at" /\ ~timely
               \/ rule = "seed" /\ "bad" \in sub.seed
               \/ rule = "size" /\ \E d \in sub.custom_data : TooBig(d)
               \/ rule = "unknown" /\ \E d \in sub.custom_data : Undeclared(fields, d)
               \/ rule = "type" /\ \E d \in sub.custom_data : Mistyped(fields, d)
               \/ rule = "required" /\ \E d \in sub.custom_data : Incomplete(fields, d)
  <2>1. game.fields = fields /\ game.min = lo /\ game.max = hi
    OBVIOUS
  <2> HIDE DEF game
  <2>2. /\ Breaks("name", game, sub) <=> ~clean
        /\ Breaks("score", game, sub) <=> ~inside
        /\ Breaks("played_at", game, sub) <=> ~timely
        /\ Breaks("seed", game, sub) <=> "bad" \in sub.seed
    BY <1>3, <1>4, <2>1 DEF Breaks
  <2>3. /\ Breaks("size", game, sub) <=> \E d \in sub.custom_data : TooBig(d)
        /\ Breaks("unknown", game, sub) <=> \E d \in sub.custom_data : Undeclared(fields, d)
        /\ Breaks("type", game, sub) <=> \E d \in sub.custom_data : Mistyped(fields, d)
        /\ Breaks("required", game, sub) <=> \E d \in sub.custom_data : Incomplete(fields, d)
    BY <2>1 DEF Breaks
  <2>4. Rules \ NotEnforced =
          {"name", "score", "played_at", "seed", "size", "unknown", "type", "required"}
    BY DEF Rules, NotEnforced
  <2> HIDE DEF clean, inside, timely
  <2>5. QED BY <2>2, <2>3, <2>4
<1>7. \/ /\ verdict = "ok" /\ custom = "ok" /\ clean /\ inside /\ timely
         /\ \A x \in sub.seed : SeedOk(x)
      \/ verdict = "invalid_player_name" /\ ~clean
      \/ verdict = "score_out_of_bounds" /\ ~inside
      \/ verdict = "invalid_played_at" /\ ~timely
      \/ verdict = "invalid_seed" /\ ~\A x \in sub.seed : SeedOk(x)
      \/ verdict = custom /\ custom # "ok"
  <2> DEFINE seeded == \A x \in sub.seed : SeedOk(x)
             checks == <<Check(clean, "invalid_player_name"), Check(inside, "score_out_of_bounds"),
                         Check(timely, "invalid_played_at"), Check(seeded, "invalid_seed"), custom>>
  <2> HIDE DEF clean, inside, timely, custom, seeded
  <2>1. verdict = FirstRefusal(checks)
    BY <1>2 DEF sanitize_submission, inside, timely, seeded, custom, Check
  <2>2. /\ DOMAIN checks = 1 .. 5 /\ 5 \in Nat
        /\ checks[1] = Check(clean, "invalid_player_name")
        /\ checks[2] = Check(inside, "score_out_of_bounds")
        /\ checks[3] = Check(timely, "invalid_played_at")
        /\ checks[4] = Check(seeded, "invalid_seed") /\ checks[5] = custom
    OBVIOUS
  <2> HIDE DEF verdict, checks
  <2>3. \/ verdict = "ok" /\ \A i \in 1 .. 5 : checks[i] = "ok"
        \/ \E i \in 1 .. 5 : checks[i] # "ok" /\ verdict = checks[i]
    BY <2>1, <2>2, FirstRefusalIs
  <2>4. \/ /\ verdict = "ok" /\ checks[1] = "ok" /\ checks[2] = "ok" /\ checks[3] = "ok"
           /\ checks[4] = "ok" /\ checks[5] = "ok"
        \/ checks[1] # "ok" /\ verdict = checks[1]
        \/ checks[2] # "ok" /\ verdict = checks[2]
        \/ checks[3] # "ok" /\ verdict = checks[3]
        \/ checks[4] # "ok" /\ verdict = checks[4]
        \/ checks[5] # "ok" /\ verdict = checks[5]
    <3>1. \A i \in 1 .. 5 : i = 1 \/ i = 2 \/ i = 3 \/ i = 4 \/ i = 5
      OBVIOUS
    <3>2. 1 \in 1 .. 5 /\ 2 \in 1 .. 5 /\ 3 \in 1 .. 5 /\ 4 \in 1 .. 5 /\ 5 \in 1 .. 5
      OBVIOUS
    <3>3. QED BY <2>3, <3>1, <3>2
  <2>5. QED BY <2>2, <2>4 DEF Check, seeded
<1>8. CASE verdict = "ok"
  <2>1. /\ custom = "ok" /\ clean /\ inside /\ timely
        /\ \A x \in sub.seed : SeedOk(x)
    BY <1>5, <1>7, <1>8 DEF Verdicts
  <2>2. "bad" \notin sub.seed /\ \A d \in sub.custom_data : ~Faulty(fields, d)
    BY <1>5, <2>1 DEF SeedOk
  <2> HIDE DEF broken, clean, inside, timely
  <2>3. \A rule : rule \notin broken
    BY <1>6, <2>1, <2>2 DEF Faulty
  <2>4. broken = {}
    BY <2>3
  <2>5. QED BY <1>8, <2>4 DEF VerdictIsDocumented, broken
<1>9. CASE verdict = "error"
  <2>1. custom = "error"
    BY <1>7, <1>9
  <2>2. QED BY <1>5, <1>9, <2>1 DEF VerdictIsDocumented
<1>10. CASE verdict \notin {"ok", "error"}
  <2>1. (\E x \in sub.seed : ~SeedOk(x)) => "bad" \in sub.seed
    BY <1>1 DEF SeedOk
  <2>2. custom \in {"ok", "error", "invalid_custom_data"}
    BY <1>5 DEF Verdicts
  <2>3. /\ CodeOf("name") = "invalid_player_name" /\ CodeOf("score") = "score_out_of_bounds"
        /\ CodeOf("played_at") = "invalid_played_at" /\ CodeOf("seed") = "invalid_seed"
        /\ \A rule \in {"size", "unknown", "type", "required"} :
             CodeOf(rule) = "invalid_custom_data"
    BY DEF CodeOf
  <2> HIDE DEF broken, clean, inside, timely, custom, verdict
  <2>4. \/ verdict = "invalid_player_name" /\ "name" \in broken
        \/ verdict = "score_out_of_bounds" /\ "score" \in broken
        \/ verdict = "invalid_played_at" /\ "played_at" \in broken
        \/ verdict = "invalid_seed" /\ "seed" \in broken
        \/ verdict = "invalid_custom_data" /\ custom = "invalid_custom_data"
    BY <1>6, <1>7, <1>10, <2>1, <2>2
  <2>5. ASSUME custom = "invalid_custom_data", ~OwnRule(sub)
        PROVE  \E rule \in {"size", "unknown", "type", "required"} : rule \in broken
    BY <1>5, <1>6, <2>5 DEF Faulty
  <2>6. \/ \E rule \in broken : verdict = CodeOf(rule)
        \/ verdict = "invalid_custom_data" /\ OwnRule(sub)
    BY <2>3, <2>4, <2>5
  <2>7. QED BY <1>10, <2>6 DEF VerdictIsDocumented, broken, verdict
<1>11. QED BY <1>8, <1>9, <1>10

(* Only a name that passes gets through. *)
LEMMA AcceptedName ==
  ASSUME NEW game, NEW sub, sanitize_submission(game, sub) = "ok"
  PROVE  ~InvalidPlayerName(sub.player_name)
<1> DEFINE k1 == Check(~InvalidPlayerName(sub.player_name), "invalid_player_name")
           k2 == Check(ScoreInBounds(game, sub.score), "score_out_of_bounds")
           k3 == Check(\A p \in sub.played_at : PlayedAtOk(sub, p), "invalid_played_at")
           k4 == Check(\A s \in sub.seed : SeedOk(s), "invalid_seed")
           k5 == FirstRefusal(SetToSeq({CustomVerdict(game.fields, d) : d \in sub.custom_data}))
           checks == <<k1, k2, k3, k4, k5>>
<1>1. FirstRefusal(checks) = "ok"
  BY DEF sanitize_submission
<1> HIDE DEF k1, k2, k3, k4, k5
<1>2. DOMAIN checks = 1 .. 5 /\ 5 \in Nat /\ 1 \in 1 .. 5 /\ checks[1] = k1
  OBVIOUS
<1> HIDE DEF checks
<1>3. k1 = "ok"
  BY <1>1, <1>2, FirstRefusalIs
<1>4. QED BY <1>3 DEF k1, Check
===============================================================================
