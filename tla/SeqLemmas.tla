----------------------------- MODULE SeqLemmas -----------------------------
(***************************************************************************)
(* Facts about the recursive functions that the reference definitions of   *)
(* the project are written with, for sequences of every length.  They are  *)
(* proved by induction.                                                    *)
(***************************************************************************)
EXTENDS Integers, Sequences, SequencesExt, FiniteSets, FiniteSetTheorems,
        SequenceTheorems, WellFoundedInduction, TLAPS

-----------------------------------------------------------------------------
(* Induction over the natural numbers, as a fact about sets: the library's *)
(* theorems about it have an operator as a parameter.                      *)

Smaller == {ss \in Nat \X Nat : ss[1] < ss[2]}

\* Every set of natural numbers has a least element.
LEMMA LeastNat ==
    ASSUME NEW T, T \subseteq Nat, T # {}
    PROVE  \E x \in T : \A y \in T : x <= y
  <1>1. IsWellFoundedOn(Smaller, Nat)
    BY NatLessThanWellFounded DEF OpToRel, Smaller
  <1>2. \E x \in T : \A y \in T : <<y, x>> \notin Smaller
    BY <1>1, WFMin, Zenon
  <1>3. \A x, y \in T : x <= y \/ <<y, x>> \in Smaller
    BY DEF Smaller
  <1> QED  BY <1>2, <1>3, Zenon

\* A set with 0 and every successor has all natural numbers.
LEMMA NatInduct ==
    ASSUME NEW T, 0 \in T, \A n \in Nat : n \in T => n + 1 \in T
    PROVE  Nat \subseteq T
  <1> SUFFICES ASSUME Nat \ T # {} PROVE FALSE
    OBVIOUS
  <1>1. PICK x \in Nat \ T : \A y \in Nat \ T : x <= y
    BY LeastNat, Zenon
  <1>2. x # 0 /\ x - 1 \in Nat /\ (x - 1) + 1 = x
    BY <1>1
  <1>3. x - 1 \in T
    BY <1>1, <1>2
  <1> QED  BY <1>1, <1>2, <1>3

-----------------------------------------------------------------------------
(* FlattenSeq *)

\* What the function that FlattenSeq builds must satisfy.
Flattens(f, s) ==
    f = [i \in 1 .. Len(s) |-> IF i = 1 THEN s[i] ELSE f[i - 1] \o s[i]]

\* There is such a function.
LEMMA FlattensExists ==
    ASSUME NEW S, NEW s \in Seq(S)
    PROVE  \E f : Flattens(f, s)
  <1> DEFINE Upto(f, m) ==
                 f = [i \in 1 .. m |-> IF i = 1 THEN s[i] ELSE f[i - 1] \o s[i]]
             T == {m \in Nat : \E f : Upto(f, m)}
  <1>1. 0 \in T
    <2> DEFINE g == [i \in 1 .. 0 |-> 0]
    <2>1. Upto(g, 0)
      OBVIOUS
    <2> HIDE DEF Upto, g
    <2> QED  BY <2>1
  <1>2. ASSUME NEW m \in Nat, m \in T PROVE m + 1 \in T
    <2>1. PICK f : Upto(f, m)
      BY <1>2
    <2>a. \A i \in 1 .. m : f[i] = IF i = 1 THEN s[i] ELSE f[i - 1] \o s[i]
      BY <2>1
    <2> DEFINE g == [i \in 1 .. m + 1 |->
                       IF i <= m THEN f[i]
                       ELSE IF i = 1 THEN s[i] ELSE f[i - 1] \o s[i]]
    <2>2. ASSUME NEW i \in 1 .. m + 1
          PROVE  g[i] = IF i = 1 THEN s[i] ELSE g[i - 1] \o s[i]
      <3>1. i # 1 => g[i - 1] = f[i - 1]
        OBVIOUS
      <3>2. i <= m => g[i] = f[i]
        OBVIOUS
      <3>3. ~(i <= m) => g[i] = IF i = 1 THEN s[i] ELSE f[i - 1] \o s[i]
        OBVIOUS
      <3> HIDE DEF g
      <3>4. i <= m => f[i] = IF i = 1 THEN s[i] ELSE f[i - 1] \o s[i]
        BY <2>a
      <3> QED  BY <3>1, <3>2, <3>3, <3>4
    <2>3. Upto(g, m + 1)
      BY <2>2
    <2> HIDE DEF Upto, g
    <2> QED  BY <2>3
  <1>3. Nat \subseteq T
    <2> HIDE DEF T
    <2> QED  BY <1>1, <1>2, NatInduct
  <1>4. Len(s) \in T
    <2> HIDE DEF T
    <2> QED  BY <1>3
  <1> QED  BY <1>4 DEF Flattens

\* FlattenSeq is what one of these functions ends with.
LEMMA FlattenSeqDef ==
    ASSUME NEW S, NEW s \in Seq(S), s # <<>>
    PROVE  \E f : Flattens(f, s) /\ FlattenSeq(s) = f[Len(s)]
  <1> DEFINE F == CHOOSE f : Flattens(f, s)
  <1>1. Flattens(F, s)
    BY FlattensExists
  <1>2. FlattenSeq(s) = F[Len(s)]
    BY DEF FlattenSeq, Flattens
  <1> HIDE DEF F
  <1> QED  BY <1>1, <1>2

\* Its equations.
LEMMA FlattensSteps ==
    ASSUME NEW f, NEW s, Flattens(f, s), Len(s) \in Nat
    PROVE  /\ 1 <= Len(s) => f[1] = s[1]
           /\ \A i \in 2 .. Len(s) : f[i] = f[i - 1] \o s[i]
  <1>1. \A i \in 1 .. Len(s) : f[i] = IF i = 1 THEN s[i] ELSE f[i - 1] \o s[i]
    BY DEF Flattens
  <1>2. 1 <= Len(s) => 1 \in 1 .. Len(s)
    OBVIOUS
  <1>3. \A i \in 2 .. Len(s) : i \in 1 .. Len(s) /\ i # 1
    OBVIOUS
  <1> QED  BY <1>1, <1>2, <1>3, Zenon

\* Two of these functions agree as far as their sequences do.
LEMMA FlattensAgree ==
    ASSUME NEW s, NEW t, NEW f, NEW g, NEW n \in Nat,
           Len(s) \in Nat, Len(t) \in Nat, n <= Len(s), n <= Len(t),
           Flattens(f, s), Flattens(g, t), \A i \in 1 .. n : s[i] = t[i]
    PROVE  \A i \in 1 .. n : f[i] = g[i]
  <1> DEFINE T == {m \in Nat : m + 1 <= n => f[m + 1] = g[m + 1]}
  <1>1. /\ 1 <= Len(s) => f[1] = s[1]
        /\ \A i \in 2 .. Len(s) : f[i] = f[i - 1] \o s[i]
    BY FlattensSteps
  <1>2. /\ 1 <= Len(t) => g[1] = t[1]
        /\ \A i \in 2 .. Len(t) : g[i] = g[i - 1] \o t[i]
    BY FlattensSteps
  <1>3. 0 \in T
    <2>1. 1 <= n => f[1] = g[1]
      BY <1>1, <1>2
    <2> QED  BY <2>1
  <1>4. ASSUME NEW m \in Nat, m \in T PROVE m + 1 \in T
    <2>1. SUFFICES ASSUME (m + 1) + 1 <= n
                   PROVE  f[(m + 1) + 1] = g[(m + 1) + 1]
      OBVIOUS
    <2> DEFINE k == (m + 1) + 1
    <2>2. k \in 2 .. Len(s) /\ k \in 2 .. Len(t) /\ k \in 1 .. n /\ k - 1 = m + 1
      BY <2>1
    <2>3. f[m + 1] = g[m + 1]
      BY <1>4, <2>1
    <2> HIDE DEF k
    <2>4. f[k] = g[k]
      BY <1>1, <1>2, <2>2, <2>3
    <2> QED  BY <2>4 DEF k
  <1>5. Nat \subseteq T
    <2> HIDE DEF T
    <2> QED  BY <1>3, <1>4, NatInduct
  <1>6. \A i \in 1 .. n : i - 1 \in T /\ (i - 1) + 1 = i
    <2> HIDE DEF T
    <2> QED  BY <1>5
  <1>7. \A m \in T : m + 1 <= n => f[m + 1] = g[m + 1]
    OBVIOUS
  <1> HIDE DEF T
  <1>8. ASSUME NEW i \in 1 .. n PROVE f[i] = g[i]
    <2>1. PICK m \in T : m + 1 = i
      BY <1>6
    <2>2. f[m + 1] = g[m + 1]
      BY <1>7, <2>1
    <2> QED  BY <2>1, <2>2
  <1> QED  BY <1>8

\* Nothing comes of no sequences.
LEMMA FlattenEmpty == FlattenSeq(<<>>) = <<>>
  BY DEF FlattenSeq

\* A last sequence is appended to what comes of those before it.
LEMMA FlattenAppend ==
    ASSUME NEW S, NEW s \in Seq(Seq(S)), NEW x \in Seq(S)
    PROVE  FlattenSeq(Append(s, x)) = FlattenSeq(s) \o x
  <1> DEFINE t == Append(s, x)
             n == Len(s)
  <1>1. /\ t \in Seq(Seq(S)) /\ t # <<>> /\ Len(t) = n + 1
        /\ \A i \in 1 .. n : t[i] = s[i]
        /\ t[n + 1] = x
    BY AppendProperties
  <1>2. n \in Nat /\ (s = <<>> <=> n = 0)
    OBVIOUS
  <1> HIDE DEF t
  <1>3. PICK g : Flattens(g, t) /\ FlattenSeq(t) = g[Len(t)]
    BY <1>1, FlattenSeqDef
  <1>4. Len(t) \in Nat
    BY <1>1, <1>2
  <1>5. /\ 1 <= Len(t) => g[1] = t[1]
        /\ \A i \in 2 .. Len(t) : g[i] = g[i - 1] \o t[i]
    BY <1>3, <1>4, FlattensSteps
  <1>6. CASE n = 0
    <2>1. FlattenSeq(t) = x
      BY <1>1, <1>3, <1>5, <1>6
    <2>2. FlattenSeq(s) \o x = x
      BY <1>2, <1>6, FlattenEmpty
    <2> QED  BY <2>1, <2>2 DEF t
  <1>7. CASE n # 0
    <2>1. PICK f : Flattens(f, s) /\ FlattenSeq(s) = f[n]
      BY <1>2, <1>7, FlattenSeqDef
    <2> HIDE DEF n
    <2>2. \A i \in 1 .. n : f[i] = g[i]
      <3>1. Len(s) \in Nat /\ n <= Len(s) /\ n <= Len(t)
        BY <1>1, <1>2 DEF n
      <3>2. \A i \in 1 .. n : s[i] = t[i]
        BY <1>1
      <3> QED  BY <1>2, <1>3, <1>4, <2>1, <3>1, <3>2, FlattensAgree
    <2>3. g[n + 1] = g[n] \o t[n + 1]
      <3>1. n + 1 \in 2 .. Len(t) /\ (n + 1) - 1 = n
        BY <1>1, <1>2, <1>7
      <3> QED  BY <1>5, <3>1
    <2>4. f[n] = g[n]
      BY <1>2, <1>7, <2>2
    <2> QED  BY <1>1, <1>3, <2>1, <2>3, <2>4 DEF t
  <1> QED  BY <1>6, <1>7

\* What comes of the first n sequences.
FlattenFirst(s, n) == FlattenSeq(SubSeq(s, 1, n))

\* It grows by one sequence at a time, from nothing to the whole.
LEMMA FlattenUpTo ==
    ASSUME NEW S, NEW s \in Seq(Seq(S))
    PROVE  /\ FlattenFirst(s, 0) = <<>>
           /\ \A n \in 1 .. Len(s) :
                 FlattenFirst(s, n) = FlattenFirst(s, n - 1) \o s[n]
           /\ FlattenFirst(s, Len(s)) = FlattenSeq(s)
  <1>1. SubSeq(s, 1, 0) = <<>> /\ SubSeq(s, 1, Len(s)) = s
    OBVIOUS
  <1>2. ASSUME NEW n \in 1 .. Len(s)
        PROVE  FlattenFirst(s, n) = FlattenFirst(s, n - 1) \o s[n]
    <2>1. /\ SubSeq(s, 1, n - 1) \in Seq(Seq(S)) /\ s[n] \in Seq(S)
          /\ SubSeq(s, 1, n) = Append(SubSeq(s, 1, n - 1), s[n])
      OBVIOUS
    <2> QED  BY <2>1, FlattenAppend DEF FlattenFirst
  <1> QED  BY <1>1, <1>2, FlattenEmpty DEF FlattenFirst

\* Sequences over a set give a sequence over it.
LEMMA FlattenType ==
    ASSUME NEW S, NEW s \in Seq(Seq(S))
    PROVE  /\ FlattenSeq(s) \in Seq(S)
           /\ \A n \in 0 .. Len(s) : FlattenFirst(s, n) \in Seq(S)
  <1> DEFINE T == {m \in Nat : m <= Len(s) => FlattenFirst(s, m) \in Seq(S)}
  <1>1. 0 \in T
    <2>1. FlattenFirst(s, 0) = <<>>
      BY FlattenUpTo, Zenon
    <2>2. <<>> \in Seq(S)
      OBVIOUS
    <2> QED  BY <2>1, <2>2
  <1>2. ASSUME NEW m \in Nat, m \in T PROVE m + 1 \in T
    <2>1. SUFFICES ASSUME m + 1 <= Len(s)
                   PROVE  FlattenFirst(s, m + 1) \in Seq(S)
      OBVIOUS
    <2>2. m + 1 \in 1 .. Len(s) /\ (m + 1) - 1 = m /\ s[m + 1] \in Seq(S)
      BY <2>1
    <2>3. FlattenFirst(s, m) \in Seq(S)
      BY <1>2, <2>1
    <2>4. FlattenFirst(s, m + 1) = FlattenFirst(s, m) \o s[m + 1]
      BY <2>2, FlattenUpTo
    <2> QED  BY <2>2, <2>3, <2>4, ConcatProperties
  <1>3. Nat \subseteq T
    <2> HIDE DEF T
    <2> QED  BY <1>1, <1>2, NatInduct
  <1>4. \A n \in 0 .. Len(s) : n \in T
    <2> HIDE DEF T
    <2> QED  BY <1>3
  <1>5. \A n \in 0 .. Len(s) : FlattenFirst(s, n) \in Seq(S)
    BY <1>4
  <1>6. Len(s) \in 0 .. Len(s)
    OBVIOUS
  <1> QED  BY <1>5, <1>6, FlattenUpTo

\* It is a prefix of what comes of more of them.
LEMMA FlattenPrefix ==
    ASSUME NEW S, NEW s \in Seq(Seq(S)), NEW n \in 0 .. Len(s)
    PROVE  \A m \in n .. Len(s) :
               \E r \in Seq(S) : FlattenFirst(s, m) = FlattenFirst(s, n) \o r
  <1> DEFINE Extends(m) ==
                 \E r \in Seq(S) : FlattenFirst(s, m) = FlattenFirst(s, n) \o r
             T == {m \in Nat : n + m <= Len(s) => Extends(n + m)}
  <1>1. FlattenFirst(s, n) \in Seq(S)
    BY FlattenType
  <1>2. Extends(n)
    <2>1. FlattenFirst(s, n) = FlattenFirst(s, n) \o <<>> /\ <<>> \in Seq(S)
      BY <1>1
    <2> QED  BY <2>1
  <1>3. ASSUME NEW m \in Nat, m + 1 \in 1 .. Len(s), Extends(m)
        PROVE  Extends(m + 1)
    <2>1. PICK r \in Seq(S) : FlattenFirst(s, m) = FlattenFirst(s, n) \o r
      BY <1>3
    <2> DEFINE x == s[m + 1]
    <2>2. x \in Seq(S)
      BY <1>3
    <2>3. FlattenFirst(s, m + 1) = FlattenFirst(s, m) \o x
      <3>1. (m + 1) - 1 = m
        OBVIOUS
      <3> QED  BY <1>3, <3>1, FlattenUpTo
    <2> HIDE DEF x
    <2>4. /\ (FlattenFirst(s, n) \o r) \o x = FlattenFirst(s, n) \o (r \o x)
          /\ r \o x \in Seq(S)
      BY <1>1, <2>2, ConcatAssociative
    <2> QED  BY <2>1, <2>3, <2>4
  <1> HIDE DEF Extends
  <1>4. 0 \in T
    <2>1. n + 0 = n
      OBVIOUS
    <2> QED  BY <1>2, <2>1
  <1>5. ASSUME NEW m \in Nat, m \in T PROVE m + 1 \in T
    <2>1. SUFFICES ASSUME n + (m + 1) <= Len(s) PROVE Extends(n + (m + 1))
      OBVIOUS
    <2>2. /\ n + m \in Nat /\ n + (m + 1) = (n + m) + 1
          /\ (n + m) + 1 \in 1 .. Len(s) /\ n + m <= Len(s)
      BY <2>1
    <2>3. Extends(n + m)
      BY <1>5, <2>2
    <2> QED  BY <1>3, <2>2, <2>3
  <1>6. Nat \subseteq T
    <2> HIDE DEF T
    <2> QED  BY <1>4, <1>5, NatInduct
  <1>7. \A m \in n .. Len(s) : m - n \in T /\ n + (m - n) = m
    <2> HIDE DEF T
    <2> QED  BY <1>6
  <1>8. \A m \in n .. Len(s) : Extends(m)
    BY <1>7
  <1> QED  BY <1>8 DEF Extends

-----------------------------------------------------------------------------
(* Sums.  A fold adds up its elements in an order that CHOOSE picks; the   *)
(* lemmas say that the order does not matter.                              *)

\* What the function that MapThenFoldSet builds to add up w over the subsets
\* of S must satisfy.
Sums(g, w, S) ==
    g = [s \in SUBSET S |->
            IF s = {} THEN 0
            ELSE w[CHOOSE x \in s : TRUE] + g[s \ {CHOOSE x \in s : TRUE}]]

\* The sum of w over S.
Total(w, S) == (CHOOSE g : Sums(g, w, S))[S]

\* The subsets of at most n elements.
UpTo(S, n) == {s \in SUBSET S : Cardinality(s) <= n}

\* One element less.
LEMMA OneLess ==
    ASSUME NEW S, IsFiniteSet(S)
    PROVE  \A s \in SUBSET S :
               /\ IsFiniteSet(s) /\ Cardinality(s) \in Nat
               /\ Cardinality(s) = 0 <=> s = {}
               /\ \A x \in s : /\ s \ {x} \in SUBSET S
                               /\ Cardinality(s \ {x}) = Cardinality(s) - 1
  BY FS_Subset, FS_CardinalityType, FS_EmptySet, FS_RemoveElement, Zenon

\* There is such a function.
LEMMA SumsExist ==
    ASSUME NEW S, IsFiniteSet(S), NEW w
    PROVE  \E g : Sums(g, w, S)
  <1> DEFINE c(s) == CHOOSE x \in s : TRUE
             Part(g, n) == g = [s \in UpTo(S, n) |->
                                   IF s = {} THEN 0 ELSE w[c(s)] + g[s \ {c(s)}]]
             T == {n \in Nat : \E g : Part(g, n)}
  <1>0. \A s : s # {} => c(s) \in s
    OBVIOUS
  <1>1. 0 \in T
    <2> DEFINE g == [s \in UpTo(S, 0) |-> 0]
    <2>1. \A s \in UpTo(S, 0) : s = {}
      BY OneLess DEF UpTo
    <2>2. Part(g, 0)
      BY <2>1
    <2> QED  BY <2>2
  <1>2. ASSUME NEW n \in Nat, n \in T PROVE n + 1 \in T
    <2>1. PICK g : Part(g, n)
      BY <1>2
    <2> HIDE DEF c
    <2> DEFINE e(s) == IF s = {} THEN 0 ELSE w[c(s)] + g[s \ {c(s)}]
               h == [s \in UpTo(S, n + 1) |-> e(s)]
    <2>2. \A s \in UpTo(S, n) : s \in UpTo(S, n + 1) /\ h[s] = g[s]
      <3> SUFFICES ASSUME NEW s \in UpTo(S, n)
                   PROVE  s \in UpTo(S, n + 1) /\ h[s] = g[s]
        OBVIOUS
      <3>1. s \in UpTo(S, n + 1)
        BY OneLess DEF UpTo
      <3>2. h[s] = e(s)
        BY <3>1
      <3>3. g[s] = e(s)
        BY <2>1
      <3> QED  BY <3>1, <3>2, <3>3
    <2>3. \A s \in UpTo(S, n + 1) : s # {} => s \ {c(s)} \in UpTo(S, n)
      BY <1>0, OneLess DEF UpTo
    <2>4. \A s \in UpTo(S, n + 1) :
              e(s) = IF s = {} THEN 0 ELSE w[c(s)] + h[s \ {c(s)}]
      BY <2>2, <2>3
    <2>5. Part(h, n + 1)
      BY <2>4
    <2> HIDE DEF h, Part
    <2> QED  BY <2>5
  <1>3. Nat \subseteq T
    <2> HIDE DEF T
    <2> QED  BY <1>1, <1>2, NatInduct
  <1>4. Cardinality(S) \in T
    BY <1>3, FS_CardinalityType
  <1>5. PICK g : Part(g, Cardinality(S))
    BY <1>4
  <1>6. UpTo(S, Cardinality(S)) = SUBSET S
    BY FS_Subset, FS_CardinalityType DEF UpTo
  <1>7. Sums(g, w, S)
    BY <1>5, <1>6 DEF Sums
  <1> QED  BY <1>7

\* Its equation, and that it may start with any element.
LEMMA SumsSteps ==
    ASSUME NEW S, IsFiniteSet(S), NEW w, \A x \in S : w[x] \in Int, NEW g, Sums(g, w, S)
    PROVE  /\ g[{}] = 0
           /\ \A s \in SUBSET S : g[s] \in Int
           /\ \A s \in SUBSET S : \A x \in s : g[s] = w[x] + g[s \ {x}]
  <1> DEFINE c(s) == CHOOSE x \in s : TRUE
             T == {n \in Nat : \A s \in UpTo(S, n) :
                        g[s] \in Int /\ \A x \in s : g[s] = w[x] + g[s \ {x}]}
  <1>0. \A s : s # {} => c(s) \in s
    OBVIOUS
  <1>1. \A s \in SUBSET S : g[s] = IF s = {} THEN 0 ELSE w[c(s)] + g[s \ {c(s)}]
    BY DEF Sums
  <1> HIDE DEF c
  <1>2. g[{}] = 0
    BY <1>1
  <1>3. 0 \in T
    <2>1. \A s \in UpTo(S, 0) : s = {}
      BY OneLess DEF UpTo
    <2>2. \A s \in UpTo(S, 0) : g[s] \in Int /\ \A x \in s : g[s] = w[x] + g[s \ {x}]
      <3> SUFFICES ASSUME NEW s \in UpTo(S, 0) PROVE g[s] \in Int /\ s = {}
        BY <2>1
      <3>1. s = {}
        BY <2>1, Zenon
      <3>2. g[s] = 0
        BY <3>1, <1>2, Zenon
      <3> QED  BY <3>1, <3>2
    <2> QED  BY <2>2
  <1>4. ASSUME NEW n \in Nat, n \in T PROVE n + 1 \in T
    <2> SUFFICES ASSUME NEW s \in UpTo(S, n + 1)
                 PROVE  g[s] \in Int /\ \A x \in s : g[s] = w[x] + g[s \ {x}]
      OBVIOUS
    <2>1. CASE s = {}
      BY <2>1, <1>2
    <2>2. CASE s # {}
      <3> DEFINE y == c(s)
      <3>1. y \in s /\ s \in SUBSET S /\ g[s] = w[y] + g[s \ {y}]
        BY <1>0, <1>1, <2>2 DEF UpTo
      <3>2. \A x \in s : s \ {x} \in UpTo(S, n)
        BY <3>1, OneLess DEF UpTo
      <3> HIDE DEF y, T
      <3>3. \A t \in UpTo(S, n) : g[t] \in Int /\ \A x \in t : g[t] = w[x] + g[t \ {x}]
        BY <1>4 DEF T
      <3>4. g[s] \in Int
        BY <3>1, <3>2, <3>3
      <3>5. ASSUME NEW x \in s, x # y PROVE g[s] = w[x] + g[s \ {x}]
        <4>1. g[s \ {y}] = w[x] + g[(s \ {y}) \ {x}]
          BY <3>1, <3>2, <3>3, <3>5
        <4>2. g[s \ {x}] = w[y] + g[(s \ {x}) \ {y}]
          BY <3>1, <3>2, <3>3, <3>5
        <4>3. (s \ {y}) \ {x} = (s \ {x}) \ {y}
          OBVIOUS
        <4>4. (s \ {y}) \ {x} \in UpTo(S, n)
          <5> DEFINE u == s \ {y}
          <5>1. u \in SUBSET S /\ Cardinality(u) <= n /\ x \in u
            BY <3>1, <3>2, <3>5 DEF UpTo
          <5> HIDE DEF u
          <5>2. /\ u \ {x} \in SUBSET S /\ Cardinality(u \ {x}) = Cardinality(u) - 1
                /\ Cardinality(u) \in Nat
            BY <5>1, OneLess
          <5>3. u \ {x} \in UpTo(S, n)
            BY <5>1, <5>2 DEF UpTo
          <5> QED  BY <5>3 DEF u
        <4>5. g[(s \ {y}) \ {x}] \in Int /\ w[x] \in Int /\ w[y] \in Int
          BY <4>4, <3>3, <3>1
        <4>6. g[(s \ {y}) \ {x}] = g[(s \ {x}) \ {y}]
          BY <4>3
        <4> DEFINE a == g[(s \ {y}) \ {x}]
        <4>7. /\ g[s] = w[y] + g[s \ {y}] /\ g[s \ {y}] = w[x] + a
              /\ g[s \ {x}] = w[y] + a /\ a \in Int /\ w[x] \in Int /\ w[y] \in Int
          BY <3>1, <4>1, <4>2, <4>6, <4>5
        <4> HIDE DEF a
        <4> QED  BY <4>7
      <3> QED  BY <3>1, <3>4, <3>5
    <2> QED  BY <2>1, <2>2
  <1>5. Nat \subseteq T
    <2> HIDE DEF T
    <2> QED  BY <1>3, <1>4, NatInduct
  <1>6. \A s \in SUBSET S : s \in UpTo(S, Cardinality(s)) /\ Cardinality(s) \in T
    BY <1>5, OneLess DEF UpTo
  <1> QED  BY <1>2, <1>6

\* Only one function satisfies it.
LEMMA SumsUnique ==
    ASSUME NEW S, IsFiniteSet(S), NEW w, NEW g, NEW h, Sums(g, w, S), Sums(h, w, S)
    PROVE  g = h
  <1> DEFINE c(s) == CHOOSE x \in s : TRUE
             T == {n \in Nat : \A s \in UpTo(S, n) : g[s] = h[s]}
  <1>0. \A s : s # {} => c(s) \in s
    OBVIOUS
  <1>1. \A s \in SUBSET S : /\ g[s] = IF s = {} THEN 0 ELSE w[c(s)] + g[s \ {c(s)}]
                            /\ h[s] = IF s = {} THEN 0 ELSE w[c(s)] + h[s \ {c(s)}]
    BY DEF Sums
  <1> HIDE DEF c
  <1>2. 0 \in T
    <2>1. \A s \in UpTo(S, 0) : s = {}
      BY OneLess DEF UpTo
    <2> QED  BY <2>1, <1>1
  <1>3. ASSUME NEW n \in Nat, n \in T PROVE n + 1 \in T
    <2> SUFFICES ASSUME NEW s \in UpTo(S, n + 1), s # {}
                 PROVE  g[s] = h[s]
      BY <1>1
    <2>1. s \in SUBSET S /\ c(s) \in s
      BY <1>0 DEF UpTo
    <2>2. s \ {c(s)} \in UpTo(S, n)
      BY <2>1, OneLess DEF UpTo
    <2> QED  BY <2>1, <2>2, <1>1, <1>3
  <1>4. Nat \subseteq T
    <2> HIDE DEF T
    <2> QED  BY <1>2, <1>3, NatInduct
  <1>5. \A s \in SUBSET S : s \in UpTo(S, Cardinality(s)) /\ Cardinality(s) \in T
    BY <1>4, OneLess DEF UpTo
  <1>6. \A s \in SUBSET S : g[s] = h[s]
    BY <1>5
  <1> QED  BY <1>6 DEF Sums

\* The sum over a subset is what the sum over the whole set computed for it.
LEMMA TotalPart ==
    ASSUME NEW S, IsFiniteSet(S), NEW w, NEW g, Sums(g, w, S), NEW U \in SUBSET S
    PROVE  Total(w, U) = g[U]
  <1> DEFINE c(s) == CHOOSE x \in s : TRUE
             f == [s \in SUBSET U |-> g[s]]
             k == CHOOSE h : Sums(h, w, U)
  <1>1. Sums(f, w, U)
    <2>1. \A s \in SUBSET U : f[s] = IF s = {} THEN 0 ELSE w[c(s)] + f[s \ {c(s)}]
      <3> HIDE DEF c
      <3> QED  BY DEF Sums, c
    <2> HIDE DEF c
    <2> QED  BY <2>1 DEF Sums, c
  <1>2. Sums(k, w, U)
    BY <1>1
  <1>3. IsFiniteSet(U)
    BY FS_Subset
  <1> HIDE DEF f, k
  <1>4. k = f
    BY <1>1, <1>2, <1>3, SumsUnique
  <1> QED  BY <1>4 DEF Total, f, k

\* The sum over no elements is 0, a sum is an integer, and any element may be
\* added last.
LEMMA TotalSteps ==
    ASSUME NEW S, IsFiniteSet(S), NEW w, \A x \in S : w[x] \in Int
    PROVE  /\ Total(w, {}) = 0
           /\ Total(w, S) \in Int
           /\ \A x \in S : Total(w, S) = w[x] + Total(w, S \ {x})
  <1>1. PICK g : Sums(g, w, S)
    BY SumsExist
  <1>2. \A s \in SUBSET S : Total(w, s) = g[s]
    BY <1>1, TotalPart
  <1>3. g[{}] = 0 /\ g[S] \in Int /\ \A x \in S : g[S] = w[x] + g[S \ {x}]
    BY <1>1, SumsSteps
  <1>4. /\ Total(w, {}) = g[{}] /\ Total(w, S) = g[S]
        /\ \A x \in S : Total(w, S \ {x}) = g[S \ {x}]
    BY <1>2
  <1> QED  BY <1>3, <1>4

\* The sum depends on the values that are added up only.
LEMMA TotalSame ==
    ASSUME NEW S, IsFiniteSet(S), NEW w, NEW v, \A x \in S : w[x] = v[x]
    PROVE  Total(w, S) = Total(v, S)
  <1> DEFINE c(s) == CHOOSE x \in s : TRUE
  <1>0. \A s : s # {} => c(s) \in s
    OBVIOUS
  <1>1. PICK g : Sums(g, w, S)
    BY SumsExist
  <1>2. Sums(g, v, S)
    <2> HIDE DEF c
    <2>1. g = [s \in SUBSET S |-> IF s = {} THEN 0 ELSE w[c(s)] + g[s \ {c(s)}]]
      BY <1>1 DEF Sums, c
    <2>2. \A s \in SUBSET S : s # {} => w[c(s)] = v[c(s)]
      BY <1>0
    <2>3. g = [s \in SUBSET S |-> IF s = {} THEN 0 ELSE v[c(s)] + g[s \ {c(s)}]]
      BY <2>1, <2>2
    <2> QED  BY <2>3 DEF Sums, c
  <1>3. Total(w, S) = g[S] /\ Total(v, S) = g[S]
    BY <1>1, <1>2, TotalPart
  <1> QED  BY <1>3

\* The sum of a sequence of integers.
SumOf(s) == Total(s, 1 .. Len(s))

\* The sum of a sequence that is one longer.
LEMMA SumAppend ==
    ASSUME NEW s \in Seq(Int), NEW x \in Int
    PROVE  SumOf(<<>>) = 0 /\ SumOf(s) \in Int /\ SumOf(Append(s, x)) = SumOf(s) + x
  <1> DEFINE n == Len(s)
             t == Append(s, x)
  <1>1. /\ n \in Nat /\ t \in Seq(Int) /\ Len(t) = n + 1 /\ t[n + 1] = x
        /\ \A i \in 1 .. n : t[i] = s[i]
    OBVIOUS
  <1>2. IsFiniteSet(1 .. n) /\ IsFiniteSet(1 .. n + 1)
    BY <1>1, FS_Interval
  <1>3. \A i \in 1 .. n : s[i] \in Int
    OBVIOUS
  <1>4. \A i \in 1 .. n + 1 : t[i] \in Int
    BY <1>1, <1>3
  <1>5. (1 .. n + 1) \ {n + 1} = 1 .. n /\ n + 1 \in 1 .. n + 1
    BY <1>1
  <1> HIDE DEF t, n
  <1>6. Total(s, 1 .. n) = Total(t, 1 .. n)
    BY <1>1, <1>2, TotalSame
  <1>7. Total(s, 1 .. n) \in Int
    BY <1>2, <1>3, TotalSteps
  <1>8. Total(t, 1 .. n + 1) = t[n + 1] + Total(t, (1 .. n + 1) \ {n + 1})
    BY <1>2, <1>4, <1>5, TotalSteps
  <1>9. Total(t, 1 .. n + 1) = x + Total(s, 1 .. n)
    BY <1>8, <1>5, <1>6, <1>1
  <1>10. SumOf(<<>>) = 0
    <2>1. 1 .. Len(<<>>) = {}
      OBVIOUS
    <2>2. Total(<<>>, {}) = 0
      BY FS_EmptySet, TotalSteps
    <2> QED  BY <2>1, <2>2 DEF SumOf
  <1>11. SumOf(t) = Total(t, 1 .. n + 1) /\ SumOf(s) = Total(s, 1 .. n)
    BY <1>1 DEF SumOf, n
  <1> QED  BY <1>7, <1>9, <1>10, <1>11 DEF t

\* The sum of two sequences one after the other.
LEMMA SumConcat ==
    ASSUME NEW s \in Seq(Int), NEW t \in Seq(Int)
    PROVE  SumOf(s \o t) = SumOf(s) + SumOf(t)
  <1> DEFINE T == {n \in Nat : \A u \in Seq(Int) : Len(u) = n =>
                                   SumOf(s \o u) = SumOf(s) + SumOf(u)}
  <1>0. SumOf(<<>>) = 0 /\ SumOf(s) \in Int
    BY SumAppend
  <1>1. 0 \in T
    <2> SUFFICES ASSUME NEW u \in Seq(Int), Len(u) = 0
                 PROVE  SumOf(s \o u) = SumOf(s) + SumOf(u)
      OBVIOUS
    <2>1. u = <<>> /\ s \o u = s
      OBVIOUS
    <2> QED  BY <2>1, <1>0
  <1>2. ASSUME NEW n \in Nat, n \in T PROVE n + 1 \in T
    <2> SUFFICES ASSUME NEW u \in Seq(Int), Len(u) = n + 1
                 PROVE  SumOf(s \o u) = SumOf(s) + SumOf(u)
      OBVIOUS
    <2> DEFINE v == SubSeq(u, 1, n)
               x == u[n + 1]
    <2>0. v \in Seq(Int) /\ Len(v) = n /\ x \in Int /\ u = Append(v, x)
      OBVIOUS
    <2> HIDE DEF v, x
    <2>1. /\ v \in Seq(Int) /\ Len(v) = n /\ x \in Int /\ u = Append(v, x)
          /\ s \o u = Append(s \o v, x) /\ s \o v \in Seq(Int)
      BY <2>0
    <2>2. SumOf(s \o v) = SumOf(s) + SumOf(v)
      BY <2>1, <1>2
    <2>3. SumOf(u) = SumOf(v) + x /\ SumOf(s \o u) = SumOf(s \o v) + x /\ SumOf(v) \in Int
      BY <2>1, SumAppend
    <2> QED  BY <2>1, <2>2, <2>3, <1>0
  <1>3. Nat \subseteq T
    <2> HIDE DEF T
    <2> QED  BY <1>1, <1>2, NatInduct
  <1> QED  BY <1>3

\* A sequence of natural numbers has a sum that is one, at least its first element.
LEMMA SumNat ==
    ASSUME NEW s \in Seq(Nat)
    PROVE  SumOf(s) \in Nat
  <1> DEFINE T == {n \in Nat : \A u \in Seq(Nat) : Len(u) = n => SumOf(u) \in Nat}
  <1>1. 0 \in T
    <2>1. \A u \in Seq(Nat) : Len(u) = 0 => u = <<>>
      OBVIOUS
    <2>2. SumOf(<<>>) = 0
      BY <<>> \in Seq(Int), 0 \in Int, SumAppend
    <2> QED  BY <2>1, <2>2
  <1>2. ASSUME NEW n \in Nat, n \in T PROVE n + 1 \in T
    <2> SUFFICES ASSUME NEW u \in Seq(Nat), Len(u) = n + 1 PROVE SumOf(u) \in Nat
      OBVIOUS
    <2> DEFINE v == SubSeq(u, 1, n)
               x == u[n + 1]
    <2>1. v \in Seq(Nat) /\ v \in Seq(Int) /\ Len(v) = n /\ x \in Nat /\ u = Append(v, x)
      OBVIOUS
    <2> HIDE DEF v, x
    <2>2. SumOf(u) = SumOf(v) + x
      BY <2>1, SumAppend
    <2>3. SumOf(v) \in Nat
      BY <2>1, <1>2
    <2> QED  BY <2>1, <2>2, <2>3
  <1>3. Nat \subseteq T
    <2> HIDE DEF T
    <2> QED  BY <1>1, <1>2, NatInduct
  <1> QED  BY <1>3

\* The sum of a sequence is its first element and the sum of the rest.
LEMMA SumTail ==
    ASSUME NEW s \in Seq(Int), s # <<>>
    PROVE  SumOf(s) = Head(s) + SumOf(Tail(s))
  <1>1. /\ s = <<Head(s)>> \o Tail(s) /\ Tail(s) \in Seq(Int) /\ Head(s) \in Int
        /\ <<Head(s)>> \in Seq(Int) /\ <<Head(s)>> = Append(<<>>, Head(s)) /\ <<>> \in Seq(Int)
    OBVIOUS
  <1>2. SumOf(<<Head(s)>>) = Head(s)
    <2>1. SumOf(Append(<<>>, Head(s))) = SumOf(<<>>) + Head(s) /\ SumOf(<<>>) = 0
      BY <1>1, SumAppend
    <2> QED  BY <2>1, <1>1
  <1>3. SumOf(<<Head(s)>> \o Tail(s)) = SumOf(<<Head(s)>>) + SumOf(Tail(s))
    BY <1>1, SumConcat
  <1> QED  BY <1>1, <1>2, <1>3

\* The elements of a sequence, and what w says of each.
Elements(s) == {s[k] : k \in 1 .. Len(s)}
Values(w, s) == [k \in 1 .. Len(s) |-> w[s[k]]]

\* The elements of a sequence that has none twice add up to the same in any order.
LEMMA SumOverSet ==
    ASSUME NEW S, NEW w, \A x \in S : w[x] \in Int,
           NEW s \in Seq(S), \A j, k \in 1 .. Len(s) : s[j] = s[k] => j = k
    PROVE  /\ IsFiniteSet(Elements(s)) /\ Values(w, s) \in Seq(Int)
           /\ SumOf(Values(w, s)) = Total(w, Elements(s))
  <1> DEFINE el(u) == {u[k] : k \in 1 .. Len(u)}
             val(u) == [k \in 1 .. Len(u) |-> w[u[k]]]
             Holds(u) == (\A j, k \in 1 .. Len(u) : u[j] = u[k] => j = k) =>
                             IsFiniteSet(el(u)) /\ SumOf(val(u)) = Total(w, el(u))
             T == {n \in Nat : \A u \in Seq(S) : Len(u) = n => Holds(u)}
  <1>0. \A u \in Seq(S) : /\ val(u) \in Seq(Int) /\ el(u) \subseteq S
                          /\ \A k \in 1 .. Len(u) : val(u)[k] = w[u[k]]
    OBVIOUS
  <1>1. 0 \in T
    <2> SUFFICES ASSUME NEW u \in Seq(S), Len(u) = 0 PROVE Holds(u)
      OBVIOUS
    <2>1. el(u) = {} /\ val(u) = <<>> /\ IsFiniteSet({})
      BY FS_EmptySet
    <2>2. Total(w, {}) = 0
      BY <2>1, TotalSteps
    <2>3. SumOf(<<>>) = 0
      BY <<>> \in Seq(Int), 0 \in Int, SumAppend
    <2> QED  BY <2>1, <2>2, <2>3
  <1>2. ASSUME NEW n \in Nat, n \in T PROVE n + 1 \in T
    <2> SUFFICES ASSUME NEW u \in Seq(S), Len(u) = n + 1 PROVE Holds(u)
      <3> HIDE DEF Holds
      <3> QED  OBVIOUS
    <2> SUFFICES ASSUME \A j, k \in 1 .. Len(u) : u[j] = u[k] => j = k
                 PROVE  IsFiniteSet(el(u)) /\ SumOf(val(u)) = Total(w, el(u))
      <3> HIDE DEF el, val
      <3> QED  OBVIOUS
    <2> DEFINE v == SubSeq(u, 1, n)
               x == u[n + 1]
    <2>1. /\ v \in Seq(S) /\ Len(v) = n /\ x \in S
          /\ \A k \in 1 .. n : v[k] = u[k]
      OBVIOUS
    <2>2. el(u) = el(v) \cup {x} /\ x \notin el(v)
      <3>1. \A k \in 1 .. n : k \in 1 .. n + 1 /\ k # n + 1
        OBVIOUS
      <3>2. 1 .. n + 1 = (1 .. n) \cup {n + 1} /\ Len(u) = n + 1
        OBVIOUS
      <3> HIDE DEF v
      <3>3. \A k \in 1 .. n : v[k] \in el(u)
        BY <2>1, <3>1, <3>2
      <3>4. x \in el(u)
        BY <3>2
      <3>5. \A k \in 1 .. n + 1 : u[k] \in el(v) \cup {x}
        BY <2>1, <3>2
      <3>6. el(u) = el(v) \cup {x}
        BY <2>1, <3>2, <3>3, <3>4, <3>5
      <3>7. x \notin el(v)
        <4> SUFFICES ASSUME NEW k \in 1 .. n, v[k] = x PROVE FALSE
          BY <2>1
        <4>1. k \in 1 .. Len(u) /\ n + 1 \in 1 .. Len(u) /\ u[k] = u[n + 1]
          BY <2>1, <3>1, <3>2
        <4> QED  BY <3>1, <4>1
      <3> QED  BY <3>6, <3>7
    <2>3. val(u) = Append(val(v), w[x])
      OBVIOUS
    <2> HIDE DEF v, x
    <2>4. \A j, k \in 1 .. Len(v) : v[j] = v[k] => j = k
      BY <2>1
    <2>5. IsFiniteSet(el(v)) /\ SumOf(val(v)) = Total(w, el(v))
      BY <1>2, <2>1, <2>4
    <2>6. val(v) \in Seq(Int) /\ el(u) \subseteq S /\ w[x] \in Int
      BY <1>0, <2>1
    <2> HIDE DEF el, val
    <2>7. IsFiniteSet(el(u))
      BY <2>2, <2>5, FS_AddElement
    <2>8. SumOf(val(u)) = SumOf(val(v)) + w[x] /\ SumOf(val(v)) \in Int
      BY <2>3, <2>6, SumAppend
    <2>9. \A y \in el(u) : w[y] \in Int
      BY <2>6
    <2>10. Total(w, el(u)) = w[x] + Total(w, el(u) \ {x})
      BY <2>2, <2>7, <2>9, TotalSteps
    <2>11. el(u) \ {x} = el(v)
      BY <2>2
    <2>12. Total(w, el(u) \ {x}) = SumOf(val(v))
      BY <2>5, <2>11
    <2>13. SumOf(val(u)) = Total(w, el(u))
      BY <2>6, <2>8, <2>10, <2>12
    <2> QED  BY <2>7, <2>13
  <1>3. Nat \subseteq T
    <2> HIDE DEF T
    <2> QED  BY <1>1, <1>2, NatInduct
  <1>4. Holds(s)
    <2>1. Len(s) \in T
      <3> HIDE DEF T
      <3> QED  BY <1>3
    <2> HIDE DEF Holds
    <2> QED  BY <2>1
  <1> QED  BY <1>0, <1>4 DEF Elements, Values

\* A finite set has a last element in every strict total order.
LEMMA LastExists ==
    ASSUME NEW R, NEW U, IsFiniteSet(U), U # {},
           \A a, b \in U : a # b => <<a, b>> \in R \/ <<b, a>> \in R,
           \A a, b, c \in U : <<a, b>> \in R /\ <<b, c>> \in R => <<a, c>> \in R
    PROVE  \E m \in U : \A a \in U : a # m => <<a, m>> \in R
  <1> DEFINE Ends(V) == V # {} => \E m \in V : \A a \in V : a # m => <<a, m>> \in R
             T == {n \in Nat : \A V \in SUBSET U : Cardinality(V) = n => Ends(V)}
  <1>1. 0 \in T
    BY OneLess
  <1>2. ASSUME NEW n \in Nat, n \in T PROVE n + 1 \in T
    <2> SUFFICES ASSUME NEW V \in SUBSET U, Cardinality(V) = n + 1, NEW x \in V
                 PROVE  \E m \in V : \A a \in V : a # m => <<a, m>> \in R
      OBVIOUS
    <2>0. V \ {x} \in SUBSET U /\ Cardinality(V \ {x}) = Cardinality(V) - 1
      BY OneLess, Zenon
    <2>1. V \ {x} \in SUBSET U /\ Cardinality(V \ {x}) = n
      BY <2>0
    <2>2. Ends(V \ {x})
      BY <1>2, <2>1
    <2>3. CASE V \ {x} = {}
      BY <2>2, <2>3
    <2>4. CASE V \ {x} # {}
      <3>1. PICK m \in V \ {x} : \A a \in V \ {x} : a # m => <<a, m>> \in R
        BY <2>2, <2>4
      <3>2. CASE <<x, m>> \in R
        BY <3>1, <3>2
      <3>3. CASE <<m, x>> \in R
        <4>1. \A a \in V : a # x => <<a, x>> \in R
          BY <3>1, <3>3
        <4> QED  BY <4>1
      <3> QED  BY <3>1, <3>2, <3>3
    <2> QED  BY <2>3, <2>4
  <1>3. Nat \subseteq T
    <2> HIDE DEF T
    <2> QED  BY <1>1, <1>2, NatInduct
  <1>4. Cardinality(U) \in T
    BY <1>3, FS_CardinalityType
  <1> QED  BY <1>4

\* It can be listed in that order.
LEMMA OrderExists ==
    ASSUME NEW R, NEW U, IsFiniteSet(U),
           \A a, b \in U : a # b => <<a, b>> \in R \/ <<b, a>> \in R,
           \A a, b, c \in U : <<a, b>> \in R /\ <<b, c>> \in R => <<a, c>> \in R
    PROVE  \E l \in SetToSeqs(U) : \A j, k \in 1 .. Len(l) : j < k => <<l[j], l[k]>> \in R
  <1> DEFINE Listed(l, V) ==
                 /\ l \in Seq(V) /\ Len(l) = Cardinality(V)
                 /\ \A j, k \in 1 .. Len(l) : j # k => l[j] # l[k]
                 /\ \A x \in V : \E k \in 1 .. Len(l) : l[k] = x
                 /\ \A j, k \in 1 .. Len(l) : j < k => <<l[j], l[k]>> \in R
             T == {n \in Nat : \A V \in SUBSET U : Cardinality(V) = n => \E l : Listed(l, V)}
  <1>1. 0 \in T
    <2> SUFFICES ASSUME NEW V \in SUBSET U, Cardinality(V) = 0 PROVE \E l : Listed(l, V)
      OBVIOUS
    <2>1. V = {}
      BY OneLess
    <2>2. Listed(<<>>, V)
      BY <2>1
    <2> HIDE DEF Listed
    <2> QED  BY <2>2
  <1>2. ASSUME NEW n \in Nat, n \in T PROVE n + 1 \in T
    <2> SUFFICES ASSUME NEW V \in SUBSET U, Cardinality(V) = n + 1
                 PROVE  \E l : Listed(l, V)
      OBVIOUS
    <2>1. IsFiniteSet(V) /\ V # {}
      BY OneLess
    <2>2. PICK m \in V : \A a \in V : a # m => <<a, m>> \in R
      BY <2>1, LastExists
    <2>0. V \ {m} \in SUBSET U /\ Cardinality(V \ {m}) = Cardinality(V) - 1
      BY OneLess, Zenon
    <2>3. V \ {m} \in SUBSET U /\ Cardinality(V \ {m}) = n
      BY <2>0
    <2>4. PICK l : Listed(l, V \ {m})
      <3>1. \E l : Listed(l, V \ {m})
        <4> HIDE DEF Listed
        <4> QED  BY <1>2, <2>3
      <3> QED  BY <3>1
    <2>5. Len(l) = n /\ \A k \in 1 .. n : l[k] \in V /\ l[k] # m
      <3>1. Len(l) = n /\ l \in Seq(V \ {m})
        BY <2>3, <2>4
      <3>2. \A k \in 1 .. n : l[k] \in V \ {m}
        BY <3>1
      <3> QED  BY <3>1, <3>2
    <2> DEFINE s == Append(l, m)
    <2>6. /\ s \in Seq(V) /\ Len(s) = n + 1 /\ s[n + 1] = m
          /\ \A k \in 1 .. n : s[k] = l[k]
          /\ \A k \in 1 .. n + 1 : k \in 1 .. n \/ k = n + 1
          /\ \A k \in 1 .. n : k \in 1 .. n + 1
      BY <2>4, <2>5
    <2> HIDE DEF s
    <2>7. \A j, k \in 1 .. n + 1 : j # k => s[j] # s[k]
      <3> SUFFICES ASSUME NEW j \in 1 .. n + 1, NEW k \in 1 .. n + 1, j # k
                   PROVE  s[j] # s[k]
        OBVIOUS
      <3>1. CASE j \in 1 .. n /\ k \in 1 .. n
        <4>1. l[j] # l[k]
          BY <3>1, <2>4, <2>5
        <4> QED  BY <3>1, <4>1, <2>6
      <3>2. CASE j = n + 1
        <4>1. k \in 1 .. n
          BY <3>2
        <4> QED  BY <3>2, <4>1, <2>5, <2>6
      <3>3. CASE k = n + 1
        <4>1. j \in 1 .. n
          BY <3>3
        <4> QED  BY <3>3, <4>1, <2>5, <2>6
      <3> QED  BY <3>1, <3>2, <3>3, <2>6
    <2>8. \A x \in V : \E k \in 1 .. n + 1 : s[k] = x
      <3> SUFFICES ASSUME NEW x \in V PROVE \E k \in 1 .. n + 1 : s[k] = x
        OBVIOUS
      <3>1. CASE x = m
        BY <3>1, <2>6
      <3>2. CASE x # m
        BY <3>2, <2>4, <2>5, <2>6
      <3> QED  BY <3>1, <3>2
    <2>9. \A j, k \in 1 .. n + 1 : j < k => <<s[j], s[k]>> \in R
      <3> SUFFICES ASSUME NEW j \in 1 .. n + 1, NEW k \in 1 .. n + 1, j < k
                   PROVE  <<s[j], s[k]>> \in R
        OBVIOUS
      <3>1. j \in 1 .. n
        OBVIOUS
      <3>2. CASE k = n + 1
        BY <3>1, <3>2, <2>2, <2>5, <2>6
      <3>3. CASE k \in 1 .. n
        BY <3>1, <3>3, <2>4, <2>5, <2>6
      <3> QED  BY <3>2, <3>3
    <2>10. Listed(s, V)
      BY <2>6, <2>7, <2>8, <2>9
    <2> HIDE DEF Listed
    <2> QED  BY <2>10
  <1>3. Nat \subseteq T
    <2> HIDE DEF T
    <2> QED  BY <1>1, <1>2, NatInduct
  <1>4. \E l : Listed(l, U)
    <2>1. Cardinality(U) \in T
      BY <1>3, FS_CardinalityType
    <2> HIDE DEF Listed
    <2> QED  BY <2>1
  <1>5. PICK l : Listed(l, U)
    BY <1>4
  <1>6. l \in SetToSeqs(U)
    <2>1. l \in [1 .. Cardinality(U) -> U]
      BY <1>5
    <2> QED  BY <2>1, <1>5 DEF SetToSeqs
  <1> QED  BY <1>5, <1>6

\* A sequence without repetition is as long as its set, and so are its orders.
LEMMA SeqOfSet ==
    ASSUME NEW S, NEW s \in Seq(S), \A j, k \in 1 .. Len(s) : s[j] = s[k] => j = k
    PROVE  /\ IsFiniteSet(ToSet(s)) /\ Cardinality(ToSet(s)) = Len(s)
           /\ \A l \in SetToSeqs(ToSet(s)) :
                 /\ l \in Seq(S) /\ Len(l) = Len(s)
                 /\ \A j, k \in 1 .. Len(l) : l[j] = l[k] => j = k
                 /\ {l[k] : k \in 1 .. Len(l)} = ToSet(s)
  <1> DEFINE n == Len(s)
  <1>0. DOMAIN s = 1 .. n
    OBVIOUS
  <1>1. n \in Nat /\ s \in [1 .. n -> S] /\ ToSet(s) = {s[k] : k \in 1 .. n} /\ ToSet(s) \subseteq S
    <2>1. n \in Nat /\ s \in [1 .. n -> S]
      OBVIOUS
    <2>2. ToSet(s) = {s[k] : k \in 1 .. n}
      BY <1>0 DEF ToSet
    <2> HIDE DEF n
    <2>3. \A k \in 1 .. n : s[k] \in S
      BY <2>1
    <2>4. ToSet(s) \subseteq S
      BY <2>2, <2>3
    <2> QED  BY <2>1, <2>2, <2>4, Zenon
  <1>2. IsFiniteSet(1 .. n) /\ Cardinality(1 .. n) = n
    <2> HIDE DEF n
    <2>1. n \in Int /\ 1 \in Int
      BY <1>1
    <2>2. IsFiniteSet(1 .. n) /\ Cardinality(1 .. n) = IF 1 > n THEN 0 ELSE n - 1 + 1
      BY <2>1, FS_Interval, Zenon
    <2> QED  BY <1>1, <2>2
  <1>3. s \in Surjection(1 .. n, ToSet(s)) /\ s \in Injection(1 .. n, ToSet(s))
    BY <1>1 DEF Injection, Surjection, IsInjective
  <1>4. IsFiniteSet(ToSet(s)) /\ Cardinality(ToSet(s)) = n
    BY <1>2, <1>3, FS_Surjection
  <1>5. ASSUME NEW l \in SetToSeqs(ToSet(s))
        PROVE  /\ l \in Seq(S) /\ Len(l) = n
               /\ \A j, k \in 1 .. Len(l) : l[j] = l[k] => j = k
               /\ {l[k] : k \in 1 .. Len(l)} = ToSet(s)
    <2>1. l \in [1 .. n -> ToSet(s)] /\ \A j, k \in 1 .. n : j # k => l[j] # l[k]
      BY <1>4 DEF SetToSeqs
    <2>2. l \in Seq(S) /\ Len(l) = n
      BY <2>1, <1>1
    <2> DEFINE V == {l[k] : k \in 1 .. n}
    <2>3. V \subseteq ToSet(s)
      BY <2>1
    <2>4. l \in Surjection(1 .. n, V) /\ l \in Injection(1 .. n, V)
      BY <2>1 DEF Injection, Surjection, IsInjective
    <2>5. Cardinality(V) = n
      BY <1>2, <2>4, FS_Surjection
    <2> HIDE DEF V
    <2>6. V = ToSet(s)
      BY <1>4, <2>3, <2>5, FS_Subset
    <2> QED  BY <2>1, <2>2, <2>6 DEF V
  <1> QED  BY <1>4, <1>5

\* Where each of the sequences lies in what comes of them.
LEMMA FlattenIndex ==
    ASSUME NEW S, NEW s \in Seq(Seq(S))
    PROVE  /\ FlattenSeq(s) \in Seq(S)
           /\ \A n \in 1 .. Len(s) + 1 : Len(FlattenFirst(s, n - 1)) \in Nat
           /\ \A n \in 1 .. Len(s) : \A j \in 1 .. Len(s[n]) :
                 /\ Len(FlattenFirst(s, n - 1)) + j \in 1 .. Len(FlattenSeq(s))
                 /\ FlattenSeq(s)[Len(FlattenFirst(s, n - 1)) + j] = s[n][j]
           /\ \A k \in 1 .. Len(FlattenSeq(s)) : \E n \in 1 .. Len(s) : \E j \in 1 .. Len(s[n]) :
                 k = Len(FlattenFirst(s, n - 1)) + j
           /\ \A n \in 1 .. Len(s) : Len(FlattenFirst(s, n)) = Len(FlattenFirst(s, n - 1)) + Len(s[n])
           /\ \A m, n \in 0 .. Len(s) : m <= n => Len(FlattenFirst(s, m)) <= Len(FlattenFirst(s, n))
  <1> DEFINE F(n) == FlattenFirst(s, n)
             N == Len(s)
             all == FlattenSeq(s)
  <1>0. N \in Nat /\ \A n \in 1 .. N : s[n] \in Seq(S)
    OBVIOUS
  <1>1. all \in Seq(S) /\ \A n \in 0 .. N : F(n) \in Seq(S)
    BY FlattenType
  <1>2. F(0) = <<>> /\ F(N) = all /\ \A n \in 1 .. N : F(n) = F(n - 1) \o s[n]
    BY FlattenUpTo
  <1>3. \A n \in 0 .. N : \A m \in n .. N : \E r \in Seq(S) : F(m) = F(n) \o r
    BY FlattenPrefix
  <1> HIDE DEF F, N, all
  <1>4. \A n \in 1 .. N : n - 1 \in 0 .. N /\ n \in 0 .. N /\ n \in n .. N /\ N \in n .. N
    BY <1>0
  <1>5. \A n \in 1 .. N + 1 : Len(F(n - 1)) \in Nat
    <2>1. \A n \in 1 .. N + 1 : n - 1 \in 0 .. N
      BY <1>0
    <2> QED  BY <2>1, <1>1
  <1>6. \A n \in 1 .. N : Len(F(n)) = Len(F(n - 1)) + Len(s[n])
    <2> SUFFICES ASSUME NEW n \in 1 .. N PROVE Len(F(n)) = Len(F(n - 1)) + Len(s[n])
      OBVIOUS
    <2>1. F(n) = F(n - 1) \o s[n] /\ F(n - 1) \in Seq(S) /\ s[n] \in Seq(S)
      BY <1>0, <1>1, <1>2, <1>4
    <2>2. \A a, b \in Seq(S) : Len(a \o b) = Len(a) + Len(b)
      OBVIOUS
    <2> QED  BY <2>1, <2>2, Zenon
  <1>7. \A m, n \in 0 .. N : m <= n => Len(F(m)) <= Len(F(n))
    <2> SUFFICES ASSUME NEW m \in 0 .. N, NEW n \in 0 .. N, m <= n
                 PROVE  Len(F(m)) <= Len(F(n))
      OBVIOUS
    <2>1. PICK r \in Seq(S) : F(n) = F(m) \o r
      <3>1. n \in m .. N
        BY <1>0
      <3> QED  BY <3>1, <1>3
    <2> QED  BY <2>1, <1>1
  <1>8. \A n \in 1 .. N : \A j \in 1 .. Len(s[n]) :
            Len(F(n - 1)) + j \in 1 .. Len(all) /\ all[Len(F(n - 1)) + j] = s[n][j]
    <2> SUFFICES ASSUME NEW n \in 1 .. N, NEW j \in 1 .. Len(s[n])
                 PROVE  Len(F(n - 1)) + j \in 1 .. Len(all) /\ all[Len(F(n - 1)) + j] = s[n][j]
      OBVIOUS
    <2>1. PICK r \in Seq(S) : all = F(n) \o r
      BY <1>2, <1>3, <1>4
    <2>2. F(n) = F(n - 1) \o s[n] /\ F(n - 1) \in Seq(S) /\ s[n] \in Seq(S)
      BY <1>0, <1>1, <1>2, <1>4
    <2>3. \A a, b, c \in Seq(S) : j \in 1 .. Len(b) =>
              /\ Len(a) + j \in 1 .. Len((a \o b) \o c)
              /\ ((a \o b) \o c)[Len(a) + j] = b[j]
      OBVIOUS
    <2>4. /\ Len(F(n - 1)) + j \in 1 .. Len((F(n - 1) \o s[n]) \o r)
          /\ ((F(n - 1) \o s[n]) \o r)[Len(F(n - 1)) + j] = s[n][j]
      BY <2>2, <2>3
    <2> QED  BY <2>1, <2>2, <2>4, Zenon
  <1>9. \A k \in 1 .. Len(all) : \E n \in 1 .. N : \E j \in 1 .. Len(s[n]) : k = Len(F(n - 1)) + j
    <2> DEFINE Found(k) == \E n \in 1 .. N : \E j \in 1 .. Len(s[n]) : k = Len(F(n - 1)) + j
               T == {m \in Nat : m <= N => \A k \in 1 .. Len(F(m)) : Found(k)}
    <2>1. 0 \in T
      BY <1>2
    <2>2. ASSUME NEW m \in Nat, m \in T PROVE m + 1 \in T
      <3> SUFFICES ASSUME m + 1 <= N, NEW k \in 1 .. Len(F(m + 1)) PROVE Found(k)
        <4> HIDE DEF Found
        <4> QED  OBVIOUS
      <3>1. m + 1 \in 1 .. N /\ (m + 1) - 1 = m /\ m \in 0 .. N
        BY <1>0
      <3>2. Len(F(m + 1)) = Len(F(m)) + Len(s[m + 1]) /\ Len(F(m)) \in Nat /\ Len(s[m + 1]) \in Nat
        <4>1. Len(F(m + 1)) = Len(F((m + 1) - 1)) + Len(s[m + 1])
          BY <1>6, <3>1
        <4>2. F((m + 1) - 1) = F(m) /\ F(m) \in Seq(S) /\ s[m + 1] \in Seq(S)
          BY <1>0, <1>1, <3>1
        <4> QED  BY <4>1, <4>2
      <3>3. CASE k <= Len(F(m))
        <4>1. k \in 1 .. Len(F(m))
          BY <3>2, <3>3
        <4> HIDE DEF Found
        <4> QED  BY <4>1, <2>2, <3>1, <1>0
      <3>4. CASE ~(k <= Len(F(m)))
        <4> DEFINE j == k - Len(F(m))
        <4>1. j \in 1 .. Len(s[m + 1]) /\ k = Len(F(m)) + j
          BY <3>2, <3>4
        <4> HIDE DEF j
        <4> QED  BY <4>1, <3>1
      <3> QED  BY <3>3, <3>4
    <2>3. Nat \subseteq T
      <3> HIDE DEF T
      <3> QED  BY <2>1, <2>2, NatInduct
    <2>4. N \in T
      <3> HIDE DEF T
      <3> QED  BY <1>0, <2>3
    <2>5. \A k \in 1 .. Len(all) : Found(k)
      <3> HIDE DEF Found
      <3> QED  BY <2>4, <1>0, <1>2
    <2> QED  BY <2>5
  <1> QED  BY <1>1, <1>5, <1>6, <1>7, <1>8, <1>9 DEF F, N, all
=============================================================================
