---------------------------- MODULE LayoutProofs ----------------------------
(***************************************************************************)
(* Proofs about Layout, for every directory, every size, weight and kind   *)
(* of its files, every list of links and every place of the volume.        *)
(*                                                                         *)
(* The passes of mkisofs add up the same sizes in different ways: over the *)
(* entries of a directory, over the sections of a file, over a list in the *)
(* order of the directory and in the order of the weights.  The first part *)
(* says what these sums are, the second that they agree.  The third        *)
(* follows each file through the passes, to what its entries point at, the *)
(* fourth the weights of the files, to the order of their data, the fifth  *)
(* the numbers that stand for their inodes.                                *)
(***************************************************************************)
EXTENDS Layout, SeqLemmas, TLAPS

-----------------------------------------------------------------------------
(* The directory                                                           *)

\* The number of sections: all but the last have Large blocks, and the last one
\* has some left.
LEMMA SectionsFacts ==
    ASSUME NEW size \in Nat
    PROVE  LET n == Sections(size)
           IN /\ n \in 1 .. size + 1 /\ n \in Nat /\ n >= 1
              /\ \A m \in 1 .. n : (m - 1) * Large \in Nat /\ m * Large = (m - 1) * Large + Large
              /\ n > 1 => size - (n - 1) * Large > 1
              /\ \A m \in 1 .. n : (m - 1) * Large <= size
              /\ \A m \in 1 .. n - 1 : (m - 1) * Large + Large <= size
              /\ size <= Large => n = 1
  <1> DEFINE Fits(n) == size - (n - 1) * Large <= Large + 1
             T == {n \in 1 .. size + 1 : Fits(n)}
             Is(n) == Fits(n) /\ \A m \in 1 .. n - 1 : size - (m - 1) * Large > Large + 1
  <1>0. Large \in Nat /\ Large > 0
    BY LayoutAssumption
  <1>1. \A k \in Nat : k * Large \in Nat /\ (k + 1) * Large = k * Large + Large /\ k <= k * Large
    BY <1>0
  <1>2. size + 1 \in T
    <2>1. size <= size * Large /\ size * Large \in Nat
      BY <1>1
    <2>2. (size + 1) - 1 = size
      OBVIOUS
    <2>3. ((size + 1) - 1) * Large = size * Large
      BY <2>2, Zenon
    <2>4. Fits(size + 1)
      BY <1>0, <2>1, <2>3
    <2> HIDE DEF Fits
    <2> QED  BY <2>4
  <1>3. PICK x \in T : \A y \in T : x <= y
    <2> HIDE DEF Fits
    <2>1. \A y \in T : y \in Nat
      OBVIOUS
    <2>2. T # {}
      BY <1>2, Zenon
    <2> HIDE DEF T
    <2> QED  BY <2>1, <2>2, LeastNat
  <1>4. x \in 1 .. size + 1 /\ Is(x)
    <2> SUFFICES ASSUME NEW m \in 1 .. x - 1 PROVE size - (m - 1) * Large > Large + 1
      BY <1>3
    <2>1. m \in 1 .. size + 1 /\ m \notin T
      BY <1>3
    <2>2. ~Fits(m)
      BY <2>1
    <2>3. (m - 1) * Large \in Nat
      BY <1>1
    <2> QED  BY <2>2, <2>3, <1>0
  <1> DEFINE n == Sections(size)
  <1>5. n \in 1 .. size + 1 /\ Is(n)
    BY <1>4 DEF Sections
  <1> HIDE DEF n
  <1>6. n \in Nat /\ n >= 1
    BY <1>5
  <1>7. \A m \in 1 .. n : (m - 1) * Large \in Nat /\ m * Large = (m - 1) * Large + Large
    <2> SUFFICES ASSUME NEW m \in 1 .. n
                 PROVE  (m - 1) * Large \in Nat /\ m * Large = (m - 1) * Large + Large
      OBVIOUS
    <2>1. m - 1 \in Nat /\ (m - 1) + 1 = m
      BY <1>6
    <2> QED  BY <2>1, <1>1
  <1>8. \A m \in 1 .. n - 1 : m \in 1 .. n /\ (m - 1) * Large + Large < size
    <2> SUFFICES ASSUME NEW m \in 1 .. n - 1 PROVE m \in 1 .. n /\ (m - 1) * Large + Large < size
      OBVIOUS
    <2>1. m \in 1 .. n /\ size - (m - 1) * Large > Large + 1
      BY <1>5, <1>6
    <2> QED  BY <2>1, <1>7, <1>0
  <1>9. n > 1 => size - (n - 1) * Large > 1
    <2> SUFFICES ASSUME n > 1 PROVE size - (n - 1) * Large > 1
      OBVIOUS
    <2>1. n - 1 \in 1 .. n - 1 /\ n - 1 \in 1 .. n
      BY <1>6
    <2>2. size - ((n - 1) - 1) * Large > Large + 1
      BY <1>5, <2>1
    <2>3. ((n - 1) - 1) * Large \in Nat /\ (n - 1) * Large = ((n - 1) - 1) * Large + Large
      BY <1>7, <2>1
    <2> QED  BY <2>2, <2>3, <1>0
  <1>10. \A m \in 1 .. n : (m - 1) * Large <= size
    <2> SUFFICES ASSUME NEW m \in 1 .. n PROVE (m - 1) * Large <= size
      OBVIOUS
    <2>1. CASE m = n
      <3>1. (n - 1) * Large \in Nat
        BY <1>6, <1>7
      <3>2. n = 1 => (n - 1) * Large = 0
        BY <1>0
      <3> QED  BY <2>1, <3>1, <3>2, <1>9, <1>6
    <2>2. CASE m # n
      <3>1. m \in 1 .. n - 1
        BY <2>2, <1>6
      <3> QED  BY <3>1, <1>7, <1>8, <1>0
    <2> QED  BY <2>1, <2>2
  <1>11. size <= Large => n = 1
    <2> SUFFICES ASSUME size <= Large, n # 1 PROVE FALSE
      OBVIOUS
    <2>1. 1 \in 1 .. n - 1
      BY <1>6
    <2>2. size - (1 - 1) * Large > Large + 1
      BY <1>5, <2>1
    <2>3. (1 - 1) * Large = 0
      BY <1>0
    <2> QED  BY <2>2, <2>3, <1>0
  <1>12. \A m \in 1 .. n - 1 : (m - 1) * Large + Large <= size
    BY <1>7, <1>8, <1>0
  <1> QED  BY <1>5, <1>6, <1>7, <1>9, <1>10, <1>11, <1>12 DEF n

\* The entry for section p of a file, the root of a file in sections, and where
\* they are.
Section(files, f, p) ==
    LET n == Sections(files[f].size)
    IN IF n = 1
       THEN [f |-> f, part |-> 0, off |-> 0, size |-> files[f].size]
       ELSE [f |-> f, part |-> p, off |-> (p - 1) * Large,
             size |-> IF p < n THEN Large ELSE files[f].size - (n - 1) * Large]
TheRoot(files, f) == [f |-> f, part |-> 0, off |-> 0, size |-> files[f].size]

AllShown(files) == [f \in 1 .. Len(files) |-> Shown(f, files[f])]
AllRoots(files) == [f \in 1 .. Len(files) |-> Roots(f, files[f])]
StartOf(files, f) == Len(FlattenFirst(AllShown(files), f - 1))
RootOf(files, f) == Len(FlattenSeq(AllShown(files))) + Len(FlattenFirst(AllRoots(files), f))

EntrySet == [f : Nat, part : Nat, off : Nat, size : Nat]
FileCount(files, f) == Sections(files[f].size)
Multi(files) == {f \in 1 .. Len(files) : FileCount(files, f) > 1}

\* What a file contributes to its directory.
LEMMA FileEntries ==
    ASSUME NEW files \in Seq(Files), NEW f \in 1 .. Len(files)
    PROVE  /\ files[f].size \in Nat /\ FileCount(files, f) \in Nat /\ FileCount(files, f) >= 1
           /\ Shown(f, files[f]) \in Seq(EntrySet) /\ Roots(f, files[f]) \in Seq(EntrySet)
           /\ Len(Shown(f, files[f])) = FileCount(files, f)
           /\ \A p \in 1 .. FileCount(files, f) : Shown(f, files[f])[p] = Section(files, f, p)
           /\ f \in Multi(files) => /\ Len(Roots(f, files[f])) = 1
                                    /\ Roots(f, files[f])[1] = TheRoot(files, f)
           /\ f \notin Multi(files) => Len(Roots(f, files[f])) = 0
  <1> DEFINE size == files[f].size
             n == Sections(size)
  <1>1. size \in Nat /\ f \in Nat
    <2>1. files[f] \in Files /\ f \in Nat
      OBVIOUS
    <2> QED  BY <2>1 DEF Files
  <1>2. /\ n \in Nat /\ n >= 1
        /\ \A m \in 1 .. n : (m - 1) * Large \in Nat
        /\ n > 1 => size - (n - 1) * Large > 1
    BY <1>1, SectionsFacts
  <1>3. Large \in Nat /\ 0 \in Nat
    BY LayoutAssumption
  <1>4. n > 1 <=> f \in Multi(files)
    BY DEF Multi, FileCount
  <1>5. TheRoot(files, f) \in EntrySet
    BY <1>1 DEF TheRoot, EntrySet
  <1>6. \A p \in 1 .. n : Section(files, f, p) \in EntrySet
    <2> SUFFICES ASSUME NEW p \in 1 .. n PROVE Section(files, f, p) \in EntrySet
      OBVIOUS
    <2> DEFINE o == (p - 1) * Large
               z == size - (n - 1) * Large
    <2>1. o \in Nat /\ p \in Nat
      BY <1>2
    <2>2. n # 1 => z \in Nat
      <3>1. n - 1 \in Nat /\ (n # 1 => n \in 1 .. n /\ n > 1)
        BY <1>2
      <3>2. n # 1 => (n - 1) * Large \in Nat
        BY <1>2, <3>1
      <3> QED  BY <1>1, <1>2, <3>1, <3>2
    <2>3. Section(files, f, p) =
              IF n = 1 THEN [f |-> f, part |-> 0, off |-> 0, size |-> size]
              ELSE [f |-> f, part |-> p, off |-> o, size |-> IF p < n THEN Large ELSE z]
      BY DEF Section
    <2> HIDE DEF o, z, n, size
    <2> QED  BY <1>1, <1>3, <2>1, <2>2, <2>3 DEF EntrySet
  <1>7. /\ Shown(f, files[f]) = [p \in 1 .. n |-> Section(files, f, p)]
    <2>1. CASE n = 1
      <3>1. Shown(f, files[f]) = <<Section(files, f, 1)>>
        BY <2>1 DEF Shown, Section
      <3>2. 1 .. n = {1}
        BY <2>1
      <3> HIDE DEF n
      <3>3. \A x : <<x>> = [p \in {1} |-> x]
        OBVIOUS
      <3>4. [p \in 1 .. n |-> Section(files, f, p)] = [p \in {1} |-> Section(files, f, 1)]
        BY <3>2
      <3> QED  BY <3>1, <3>3, <3>4
    <2>2. CASE n # 1
      BY <2>2 DEF Shown, Section
    <2> QED  BY <2>1, <2>2
  <1>8. Roots(f, files[f]) = IF n > 1 THEN <<TheRoot(files, f)>> ELSE <<>>
    BY DEF Roots, MultiExtent, TheRoot
  <1> HIDE DEF n, size
  <1>9. /\ Shown(f, files[f]) \in Seq(EntrySet) /\ Len(Shown(f, files[f])) = n
        /\ \A p \in 1 .. n : Shown(f, files[f])[p] = Section(files, f, p)
    BY <1>2, <1>6, <1>7
  <1>10. /\ Roots(f, files[f]) \in Seq(EntrySet)
         /\ n > 1 => Len(Roots(f, files[f])) = 1 /\ Roots(f, files[f])[1] = TheRoot(files, f)
         /\ ~(n > 1) => Len(Roots(f, files[f])) = 0
    BY <1>5, <1>8
  <1> QED  BY <1>1, <1>2, <1>4, <1>9, <1>10 DEF FileCount, n, size

\* The directory: first the entries that are shown, file by file, then the roots.
LEMMA Directory ==
    ASSUME NEW files \in Seq(Files)
    PROVE  LET d == Entries(files)
               N == Len(files)
           IN /\ d \in Seq(EntrySet)
              /\ \A f \in 1 .. N : /\ StartOf(files, f) \in Nat
                                   /\ \A p \in 1 .. FileCount(files, f) :
                                         /\ StartOf(files, f) + p \in 1 .. Len(d)
                                         /\ d[StartOf(files, f) + p] = Section(files, f, p)
              /\ \A f \in Multi(files) : /\ RootOf(files, f) \in 1 .. Len(d)
                                         /\ d[RootOf(files, f)] = TheRoot(files, f)
              /\ \A k \in 1 .. Len(d) :
                    \/ \E f \in 1 .. N : \E p \in 1 .. FileCount(files, f) : k = StartOf(files, f) + p
                    \/ \E f \in Multi(files) : k = RootOf(files, f)
              /\ \A f, g \in 1 .. N : f < g => StartOf(files, f) + FileCount(files, f) <= StartOf(files, g)
              /\ \A f \in 1 .. N : \A g \in Multi(files) :
                    StartOf(files, f) + FileCount(files, f) < RootOf(files, g)
              /\ \A f, g \in Multi(files) : f < g => RootOf(files, f) < RootOf(files, g)
  <1> DEFINE N == Len(files)
             A == AllShown(files)
             B == AllRoots(files)
             a == FlattenSeq(A)
             b == FlattenSeq(B)
             d == Entries(files)
  <1>1. A \in Seq(Seq(EntrySet)) /\ Len(A) = N /\ N \in Nat
    BY FileEntries DEF AllShown
  <1>2. B \in Seq(Seq(EntrySet)) /\ Len(B) = N
    BY FileEntries DEF AllRoots
  <1>3. /\ \A f \in 1 .. N : /\ A[f] = Shown(f, files[f]) /\ B[f] = Roots(f, files[f])
    BY DEF AllShown, AllRoots
  <1>4. d = a \o b
    BY DEF Entries, AllShown, AllRoots
  <1> HIDE DEF N, A, B, d
  <1>5. /\ a \in Seq(EntrySet) /\ b \in Seq(EntrySet)
    BY <1>1, <1>2, FlattenIndex
  <1>6. \A f \in 1 .. N : StartOf(files, f) \in Nat /\ Len(FlattenFirst(B, f)) \in Nat
                          /\ Len(FlattenFirst(B, f - 1)) \in Nat
    <2>1. \A f \in 1 .. N : f \in 1 .. N + 1 /\ f + 1 \in 1 .. N + 1 /\ (f + 1) - 1 = f
      BY <1>1
    <2>2. \A f \in 1 .. N + 1 : Len(FlattenFirst(A, f - 1)) \in Nat /\ Len(FlattenFirst(B, f - 1)) \in Nat
      BY <1>1, <1>2, FlattenIndex
    <2>3. \A f \in 1 .. N : Len(FlattenFirst(B, (f + 1) - 1)) \in Nat
      BY <2>1, <2>2
    <2> QED  BY <2>1, <2>2, <2>3 DEF StartOf, A
  <1>7. \A f \in 1 .. N : /\ Len(A[f]) = FileCount(files, f) /\ FileCount(files, f) \in Nat
                          /\ FileCount(files, f) >= 1
                          /\ \A p \in 1 .. FileCount(files, f) : A[f][p] = Section(files, f, p)
                          /\ f \in Multi(files) => Len(B[f]) = 1 /\ B[f][1] = TheRoot(files, f)
                          /\ f \notin Multi(files) => Len(B[f]) = 0
    BY <1>3, FileEntries DEF N
  <1>8. \A f \in Multi(files) : f \in 1 .. N /\ RootOf(files, f) = Len(a) + Len(FlattenFirst(B, f))
    BY DEF Multi, RootOf, A, B, N
  <1>9. \A f \in 1 .. N : \A p \in 1 .. FileCount(files, f) :
            StartOf(files, f) + p \in 1 .. Len(a) /\ a[StartOf(files, f) + p] = Section(files, f, p)
    <2>1. \A f \in 1 .. N : \A p \in 1 .. Len(A[f]) :
              Len(FlattenFirst(A, f - 1)) + p \in 1 .. Len(a)
              /\ a[Len(FlattenFirst(A, f - 1)) + p] = A[f][p]
      BY <1>1, FlattenIndex
    <2> HIDE DEF a
    <2> QED  BY <2>1, <1>7 DEF StartOf, A
  <1>10. \A f \in Multi(files) :
            Len(FlattenFirst(B, f)) \in 1 .. Len(b) /\ b[Len(FlattenFirst(B, f))] = TheRoot(files, f)
            /\ Len(FlattenFirst(B, f)) = Len(FlattenFirst(B, f - 1)) + 1
    <2> SUFFICES ASSUME NEW f \in Multi(files)
                 PROVE  Len(FlattenFirst(B, f)) \in 1 .. Len(b)
                        /\ b[Len(FlattenFirst(B, f))] = TheRoot(files, f)
                        /\ Len(FlattenFirst(B, f)) = Len(FlattenFirst(B, f - 1)) + 1
      OBVIOUS
    <2>1. f \in 1 .. N /\ Len(B[f]) = 1 /\ B[f][1] = TheRoot(files, f)
      BY <1>7, <1>8
    <2>2. Len(FlattenFirst(B, f)) = Len(FlattenFirst(B, f - 1)) + Len(B[f])
      BY <1>2, <2>1, FlattenIndex
    <2>3. 1 \in 1 .. Len(B[f])
      BY <2>1
    <2>4. Len(FlattenFirst(B, f - 1)) + 1 \in 1 .. Len(b) /\ b[Len(FlattenFirst(B, f - 1)) + 1] = B[f][1]
      BY <1>2, <2>1, <2>3, FlattenIndex
    <2> QED  BY <2>1, <2>2, <2>4
  <1>11. \A k \in 1 .. Len(a) : \E f \in 1 .. N : \E p \in 1 .. FileCount(files, f) :
             k = StartOf(files, f) + p
    <2>1. \A k \in 1 .. Len(a) : \E f \in 1 .. N : \E p \in 1 .. Len(A[f]) :
              k = Len(FlattenFirst(A, f - 1)) + p
      BY <1>1, FlattenIndex
    <2> HIDE DEF a
    <2> QED  BY <2>1, <1>7 DEF StartOf, A
  <1>12. \A k \in 1 .. Len(b) : \E f \in Multi(files) : k = Len(FlattenFirst(B, f))
    <2>1. \A k \in 1 .. Len(b) : \E f \in 1 .. N : \E p \in 1 .. Len(B[f]) :
              k = Len(FlattenFirst(B, f - 1)) + p
      BY <1>2, FlattenIndex
    <2> HIDE DEF b
    <2> SUFFICES ASSUME NEW k \in 1 .. Len(b) PROVE \E f \in Multi(files) : k = Len(FlattenFirst(B, f))
      OBVIOUS
    <2>2. PICK f \in 1 .. N : \E p \in 1 .. Len(B[f]) : k = Len(FlattenFirst(B, f - 1)) + p
      BY <2>1
    <2>3. PICK p \in 1 .. Len(B[f]) : k = Len(FlattenFirst(B, f - 1)) + p
      BY <2>2
    <2>4. f \in Multi(files) /\ p = 1
      <3>1. f \in Multi(files) => Len(B[f]) = 1
        BY <1>7
      <3>2. f \notin Multi(files) => Len(B[f]) = 0
        BY <1>7
      <3>3. Len(B[f]) = 1
        BY <3>1, <3>2
      <3> QED  BY <3>2, <3>3
    <2> QED  BY <2>3, <2>4, <1>10
  <1>13. \A f \in 1 .. N : StartOf(files, f) + FileCount(files, f) <= Len(a)
    <2> SUFFICES ASSUME NEW f \in 1 .. N PROVE StartOf(files, f) + FileCount(files, f) <= Len(a)
      OBVIOUS
    <2>1. FileCount(files, f) \in 1 .. FileCount(files, f)
      BY <1>7
    <2> QED  BY <2>1, <1>9
  <1>14. \A f, g \in 1 .. N : f < g => StartOf(files, f) + FileCount(files, f) <= StartOf(files, g)
    <2> SUFFICES ASSUME NEW f \in 1 .. N, NEW g \in 1 .. N, f < g
                 PROVE  StartOf(files, f) + FileCount(files, f) <= StartOf(files, g)
      OBVIOUS
    <2>1. Len(FlattenFirst(A, f)) = Len(FlattenFirst(A, f - 1)) + Len(A[f])
      BY <1>1, FlattenIndex
    <2>2. f \in 0 .. N /\ g - 1 \in 0 .. N /\ f <= g - 1
      BY <1>1
    <2>3. Len(FlattenFirst(A, f)) <= Len(FlattenFirst(A, g - 1))
      BY <1>1, <2>2, FlattenIndex
    <2>4. Len(A[f]) = FileCount(files, f)
      BY <1>7
    <2>5. /\ StartOf(files, f) = Len(FlattenFirst(A, f - 1))
          /\ StartOf(files, g) = Len(FlattenFirst(A, g - 1))
      BY DEF StartOf, A
    <2> QED  BY <2>1, <2>3, <2>4, <2>5
  <1>15. \A f, g \in Multi(files) : f < g => Len(FlattenFirst(B, f)) < Len(FlattenFirst(B, g))
    <2> SUFFICES ASSUME NEW f \in Multi(files), NEW g \in Multi(files), f < g
                 PROVE  Len(FlattenFirst(B, f)) < Len(FlattenFirst(B, g))
      OBVIOUS
    <2>0. f \in 1 .. N /\ g \in 1 .. N
      BY <1>8
    <2>1. f \in 0 .. N /\ g - 1 \in 0 .. N /\ f <= g - 1
      BY <2>0, <1>1
    <2>2. Len(FlattenFirst(B, f)) <= Len(FlattenFirst(B, g - 1))
      BY <1>2, <2>1, FlattenIndex
    <2>3. Len(FlattenFirst(B, g)) = Len(FlattenFirst(B, g - 1)) + 1
      BY <1>10
    <2> QED  BY <2>0, <2>2, <2>3, <1>6
  <1> HIDE DEF a, b
  <1>16. /\ d \in Seq(EntrySet) /\ Len(a) \in Nat /\ Len(b) \in Nat /\ Len(d) = Len(a) + Len(b)
         /\ \A k \in 1 .. Len(a) : k \in 1 .. Len(d) /\ d[k] = a[k]
         /\ \A k \in 1 .. Len(b) : Len(a) + k \in 1 .. Len(d) /\ d[Len(a) + k] = b[k]
         /\ \A k \in 1 .. Len(d) : k \in 1 .. Len(a) \/ k - Len(a) \in 1 .. Len(b)
    BY <1>4, <1>5
  <1>17. \A f \in 1 .. N : /\ StartOf(files, f) \in Nat
                           /\ \A p \in 1 .. FileCount(files, f) :
                                 /\ StartOf(files, f) + p \in 1 .. Len(d)
                                 /\ d[StartOf(files, f) + p] = Section(files, f, p)
    BY <1>6, <1>9, <1>16
  <1>18. \A f \in Multi(files) : /\ RootOf(files, f) \in 1 .. Len(d)
                                 /\ d[RootOf(files, f)] = TheRoot(files, f)
    BY <1>8, <1>10, <1>16
  <1>19. \A k \in 1 .. Len(d) :
            \/ \E f \in 1 .. N : \E p \in 1 .. FileCount(files, f) : k = StartOf(files, f) + p
            \/ \E f \in Multi(files) : k = RootOf(files, f)
    <2> SUFFICES ASSUME NEW k \in 1 .. Len(d), k \notin 1 .. Len(a)
                 PROVE  \E f \in Multi(files) : k = RootOf(files, f)
      BY <1>11
    <2>1. k - Len(a) \in 1 .. Len(b)
      BY <1>16
    <2>2. PICK f \in Multi(files) : k - Len(a) = Len(FlattenFirst(B, f))
      BY <2>1, <1>12
    <2> QED  BY <2>1, <2>2, <1>8, <1>16
  <1>20. \A f \in 1 .. N : \A g \in Multi(files) :
             StartOf(files, f) + FileCount(files, f) < RootOf(files, g)
    <2> SUFFICES ASSUME NEW f \in 1 .. N, NEW g \in Multi(files)
                 PROVE  StartOf(files, f) + FileCount(files, f) < RootOf(files, g)
      OBVIOUS
    <2>1. StartOf(files, f) + FileCount(files, f) <= Len(a) /\ StartOf(files, f) \in Nat
          /\ FileCount(files, f) \in Nat
      BY <1>6, <1>7, <1>13
    <2>2. RootOf(files, g) = Len(a) + Len(FlattenFirst(B, g)) /\ Len(FlattenFirst(B, g)) \in 1 .. Len(b)
      BY <1>8, <1>10
    <2> QED  BY <2>1, <2>2, <1>16
  <1>21. \A f, g \in Multi(files) : f < g => RootOf(files, f) < RootOf(files, g)
    <2> SUFFICES ASSUME NEW f \in Multi(files), NEW g \in Multi(files), f < g
                 PROVE  RootOf(files, f) < RootOf(files, g)
      OBVIOUS
    <2>1. Len(FlattenFirst(B, f)) < Len(FlattenFirst(B, g))
      BY <1>15
    <2>2. /\ RootOf(files, f) = Len(a) + Len(FlattenFirst(B, f))
          /\ RootOf(files, g) = Len(a) + Len(FlattenFirst(B, g))
          /\ Len(FlattenFirst(B, f)) \in 1 .. Len(b) /\ Len(FlattenFirst(B, g)) \in 1 .. Len(b)
      BY <1>8, <1>10
    <2> QED  BY <2>1, <2>2, <1>16
  <1> QED  BY <1>14, <1>16, <1>17, <1>18, <1>19, <1>20, <1>21 DEF d, N

-----------------------------------------------------------------------------
(* Sums over the list of deferred writes                                   *)

DWrite == [e : Nat, size : Nat, ext : Int, pad : Nat]

\* The blocks each element takes, those of all of them, and of the first n.
Room(l) == [k \in 1 .. Len(l) |-> l[k].size + l[k].pad]
Bulk(l) == SumOf(Room(l))
UpToNth(l, n) == Total(Room(l), 1 .. n)

\* The fold of the model is a sum.
LEMMA SumOverIsTotal ==
    ASSUME NEW f, NEW S
    PROVE  SumOver(f, S) = Total(f, S)
  BY DEF SumOver, FoldFunctionOnSet, MapThenFoldSet, Total, Sums

\* The sum of the first elements grows by one element at a time.
LEMMA FirstSums ==
    ASSUME NEW w \in Seq(Int)
    PROVE  /\ Total(w, 1 .. 0) = 0
           /\ \A n \in 0 .. Len(w) : Total(w, 1 .. n) \in Int
           /\ \A n \in 1 .. Len(w) : Total(w, 1 .. n) = Total(w, 1 .. n - 1) + w[n]
           /\ Total(w, 1 .. Len(w)) = SumOf(w)
  <1>1. \A n \in Nat : IsFiniteSet(1 .. n)
    <2>1. \A a, b \in Int : IsFiniteSet(a .. b)
      BY FS_Interval, Zenon
    <2>2. 1 \in Int /\ \A n \in Nat : n \in Int
      OBVIOUS
    <2> QED  BY <2>1, <2>2, Zenon
  <1>2. \A n \in 0 .. Len(w) : n \in Nat /\ \A x \in 1 .. n : w[x] \in Int
    OBVIOUS
  <1>3. \A n \in 0 .. Len(w) : Total(w, {}) = 0 /\ Total(w, 1 .. n) \in Int
                 /\ \A x \in 1 .. n : Total(w, 1 .. n) = w[x] + Total(w, (1 .. n) \ {x})
    <2> SUFFICES ASSUME NEW n \in 0 .. Len(w)
                 PROVE  Total(w, {}) = 0 /\ Total(w, 1 .. n) \in Int
                 /\ \A x \in 1 .. n : Total(w, 1 .. n) = w[x] + Total(w, (1 .. n) \ {x})
      OBVIOUS
    <2> DEFINE S == 1 .. n
    <2>1. IsFiniteSet(S) /\ \A x \in S : w[x] \in Int
      BY <1>1, <1>2
    <2> HIDE DEF S
    <2>2. /\ Total(w, {}) = 0 /\ Total(w, S) \in Int
          /\ \A x \in S : Total(w, S) = w[x] + Total(w, S \ {x})
      BY <2>1, TotalSteps, Zenon
    <2> QED  BY <2>2 DEF S
  <1>4. 1 .. 0 = {} /\ 0 \in 0 .. Len(w)
    OBVIOUS
  <1>5. \A n \in 1 .. Len(w) : /\ n \in 0 .. Len(w) /\ n \in 1 .. n /\ n - 1 \in 0 .. Len(w)
                               /\ (1 .. n) \ {n} = 1 .. n - 1 /\ w[n] \in Int
    OBVIOUS
  <1>6. ASSUME NEW n \in 1 .. Len(w) PROVE Total(w, 1 .. n) = w[n] + Total(w, 1 .. n - 1)
    <2>1. n \in 0 .. Len(w) /\ n \in 1 .. n /\ (1 .. n) \ {n} = 1 .. n - 1
      BY <1>5
    <2>2. Total(w, 1 .. n) = w[n] + Total(w, (1 .. n) \ {n})
      BY <2>1, <1>3, Zenon
    <2> QED  BY <2>1, <2>2, Zenon
  <1>7. \A n \in 1 .. Len(w) : Total(w, 1 .. n) = Total(w, 1 .. n - 1) + w[n]
    <2>1. \A a, b \in Int : a + b = b + a
      OBVIOUS
    <2>2. \A n \in 1 .. Len(w) : Total(w, 1 .. n - 1) \in Int
      BY <1>3, <1>5, Zenon
    <2> QED  BY <1>5, <1>6, <2>1, <2>2, Zenon
  <1>8. Total(w, 1 .. 0) = 0
    BY <1>3, <1>4, Zenon
  <1> QED  BY <1>3, <1>7, <1>8 DEF SumOf

\* What the list takes, element by element.
LEMMA RoomFacts ==
    ASSUME NEW l \in Seq(DWrite)
    PROVE  /\ Room(l) \in Seq(Int) /\ Len(Room(l)) = Len(l)
           /\ Bulk(l) \in Int /\ UpToNth(l, 0) = 0 /\ UpToNth(l, Len(l)) = Bulk(l)
           /\ \A n \in 0 .. Len(l) : UpToNth(l, n) \in Int
           /\ \A n \in 1 .. Len(l) : /\ l[n] \in DWrite
                                     /\ UpToNth(l, n) = UpToNth(l, n - 1) + l[n].size + l[n].pad
           /\ \A d \in DWrite : Bulk(Append(l, d)) = Bulk(l) + d.size + d.pad
  <1>1. \A d \in DWrite : d.size \in Nat /\ d.pad \in Nat /\ d.size + d.pad \in Int
    BY DEF DWrite
  <1>2. \A n \in 1 .. Len(l) : l[n] \in DWrite
    OBVIOUS
  <1>3. /\ Room(l) \in Seq(Int) /\ Len(Room(l)) = Len(l)
        /\ \A n \in 1 .. Len(l) : Room(l)[n] = l[n].size + l[n].pad
    BY <1>1, <1>2 DEF Room
  <1>4. /\ Total(Room(l), 1 .. 0) = 0
        /\ \A n \in 0 .. Len(l) : Total(Room(l), 1 .. n) \in Int
        /\ \A n \in 1 .. Len(l) : Total(Room(l), 1 .. n) = Total(Room(l), 1 .. n - 1) + Room(l)[n]
        /\ Total(Room(l), 1 .. Len(l)) = SumOf(Room(l))
    <2> HIDE DEF Room
    <2> DEFINE w == Room(l)
    <2>1. w \in Seq(Int) /\ Len(w) = Len(l)
      BY <1>3
    <2> HIDE DEF w
    <2>2. /\ Total(w, 1 .. 0) = 0
          /\ \A n \in 0 .. Len(w) : Total(w, 1 .. n) \in Int
          /\ \A n \in 1 .. Len(w) : Total(w, 1 .. n) = Total(w, 1 .. n - 1) + w[n]
          /\ Total(w, 1 .. Len(w)) = SumOf(w)
      BY <2>1, FirstSums
    <2> QED  BY <2>1, <2>2 DEF w
  <1>5. SumOf(Room(l)) \in Int
    BY <1>3, 0 \in Int, SumAppend
  <1>6. \A n \in 1 .. Len(l) : UpToNth(l, n) = UpToNth(l, n - 1) + l[n].size + l[n].pad
    <2> SUFFICES ASSUME NEW n \in 1 .. Len(l)
                 PROVE  UpToNth(l, n) = UpToNth(l, n - 1) + l[n].size + l[n].pad
      OBVIOUS
    <2>1. UpToNth(l, n) = UpToNth(l, n - 1) + (l[n].size + l[n].pad)
      BY <1>3, <1>4 DEF UpToNth
    <2>2. UpToNth(l, n - 1) \in Int
      <3>1. n - 1 \in 0 .. Len(l)
        OBVIOUS
      <3> QED  BY <3>1, <1>4 DEF UpToNth
    <2>3. \A a, b, c \in Int : a + (b + c) = a + b + c
      OBVIOUS
    <2>4. l[n].size \in Int /\ l[n].pad \in Int
      BY <1>1, <1>2
    <2> QED  BY <2>1, <2>2, <2>3, <2>4
  <1>7. \A d \in DWrite : Bulk(Append(l, d)) = Bulk(l) + d.size + d.pad
    <2> SUFFICES ASSUME NEW d \in DWrite PROVE Bulk(Append(l, d)) = Bulk(l) + d.size + d.pad
      OBVIOUS
    <2> DEFINE x == d.size + d.pad
    <2>1. x \in Int
      BY <1>1
    <2>2. Room(Append(l, d)) = Append(Room(l), x)
      <3>1. /\ Len(Append(l, d)) = Len(l) + 1
            /\ \A n \in 1 .. Len(l) : Append(l, d)[n] = l[n]
            /\ Append(l, d)[Len(l) + 1] = d
        OBVIOUS
      <3>2. /\ Len(Append(Room(l), x)) = Len(l) + 1
            /\ \A n \in 1 .. Len(l) : Append(Room(l), x)[n] = Room(l)[n]
            /\ Append(Room(l), x)[Len(l) + 1] = x
            /\ Append(Room(l), x) = [n \in 1 .. Len(l) + 1 |-> Append(Room(l), x)[n]]
        BY <1>3, <2>1
      <3>3. \A n \in 1 .. Len(l) + 1 : n \in 1 .. Len(l) \/ n = Len(l) + 1
        OBVIOUS
      <3>4. \A n \in 1 .. Len(l) + 1 : Append(Room(l), x)[n]
                                       = Append(l, d)[n].size + Append(l, d)[n].pad
        BY <3>1, <3>2, <3>3, <1>3
      <3>5. Room(Append(l, d)) = [n \in 1 .. Len(l) + 1 |->
                                     Append(l, d)[n].size + Append(l, d)[n].pad]
        BY <3>1 DEF Room
      <3> QED  BY <3>2, <3>4, <3>5
    <2>3. SumOf(Append(Room(l), x)) = SumOf(Room(l)) + x
      <3> HIDE DEF x
      <3> QED  BY <1>3, <2>1, SumAppend
    <2>4. Bulk(Append(l, d)) = Bulk(l) + (d.size + d.pad)
      BY <2>2, <2>3 DEF Bulk
    <2> QED  BY <2>4, <1>1, <1>5 DEF Bulk
  <1> QED  BY <1>2, <1>3, <1>4, <1>5, <1>6, <1>7 DEF UpToNth, Bulk

\* Moving the elements changes neither their number nor their size.
LEMMA MovedFacts ==
    ASSUME NEW l \in Seq(DWrite), NEW at, \A k \in 1 .. Len(l) : at[k] \in Int
    PROVE  /\ Moved(l, at) \in Seq(DWrite) /\ Len(Moved(l, at)) = Len(l)
           /\ \A k \in 1 .. Len(l) : /\ Moved(l, at)[k].e = l[k].e
                                     /\ Moved(l, at)[k].size = l[k].size
                                     /\ Moved(l, at)[k].pad = l[k].pad
                                     /\ Moved(l, at)[k].ext = at[k]
           /\ Bulk(Moved(l, at)) = Bulk(l)
  <1>1. \A d \in DWrite, x \in Int :
            /\ [d EXCEPT !.ext = x] \in DWrite /\ [d EXCEPT !.ext = x].e = d.e
            /\ [d EXCEPT !.ext = x].size = d.size /\ [d EXCEPT !.ext = x].pad = d.pad
            /\ [d EXCEPT !.ext = x].ext = x
    BY DEF DWrite
  <1>2. \A k \in 1 .. Len(l) : l[k] \in DWrite
    OBVIOUS
  <1>3. /\ Moved(l, at) \in Seq(DWrite) /\ Len(Moved(l, at)) = Len(l)
        /\ \A k \in 1 .. Len(l) : Moved(l, at)[k] = [l[k] EXCEPT !.ext = at[k]]
    BY <1>1, <1>2 DEF Moved
  <1>4. \A k \in 1 .. Len(l) : /\ Moved(l, at)[k].e = l[k].e
                               /\ Moved(l, at)[k].size = l[k].size
                               /\ Moved(l, at)[k].pad = l[k].pad
                               /\ Moved(l, at)[k].ext = at[k]
    <2> SUFFICES ASSUME NEW k \in 1 .. Len(l)
                 PROVE  /\ Moved(l, at)[k].e = l[k].e
                        /\ Moved(l, at)[k].size = l[k].size
                        /\ Moved(l, at)[k].pad = l[k].pad
                        /\ Moved(l, at)[k].ext = at[k]
      OBVIOUS
    <2>1. l[k] \in DWrite /\ at[k] \in Int /\ Moved(l, at)[k] = [l[k] EXCEPT !.ext = at[k]]
      BY <1>2, <1>3
    <2> QED  BY <2>1 DEF DWrite
  <1>5. Room(Moved(l, at)) = Room(l)
    BY <1>3, <1>4 DEF Room
  <1> QED  BY <1>3, <1>4, <1>5 DEF Bulk

\* Where the elements start when they follow each other.
LEMMA ChainFacts ==
    ASSUME NEW w \in Seq(Int), NEW base \in Int
    PROVE  LET at == [k \in 1 .. Len(w) |-> base + SumOver(w, 1 .. k - 1)]
           IN /\ \A k \in 1 .. Len(w) : at[k] \in Int
              /\ w # <<>> => at[1] = base /\ at[Len(w)] + w[Len(w)] = base + SumOf(w)
              /\ \A k \in 1 .. Len(w) - 1 : at[k + 1] = at[k] + w[k]
  <1> DEFINE at == [k \in 1 .. Len(w) |-> base + SumOver(w, 1 .. k - 1)]
  <1>1. /\ Total(w, 1 .. 0) = 0
        /\ \A n \in 0 .. Len(w) : Total(w, 1 .. n) \in Int
        /\ \A n \in 1 .. Len(w) : Total(w, 1 .. n) = Total(w, 1 .. n - 1) + w[n]
        /\ Total(w, 1 .. Len(w)) = SumOf(w)
    BY FirstSums
  <1>2. \A k \in 1 .. Len(w) : at[k] = base + Total(w, 1 .. k - 1)
    BY SumOverIsTotal, Zenon
  <1>3. \A k \in 1 .. Len(w) : k - 1 \in 0 .. Len(w) /\ w[k] \in Int
    OBVIOUS
  <1> HIDE DEF at
  <1>4. \A k \in 1 .. Len(w) : at[k] \in Int
    BY <1>1, <1>2, <1>3
  <1>5. w # <<>> => at[1] = base /\ at[Len(w)] + w[Len(w)] = base + SumOf(w)
    <2> SUFFICES ASSUME w # <<>>
                 PROVE  at[1] = base /\ at[Len(w)] + w[Len(w)] = base + SumOf(w)
      OBVIOUS
    <2>1. 1 \in 1 .. Len(w) /\ Len(w) \in 1 .. Len(w)
      OBVIOUS
    <2>2. at[1] = base
      BY <1>1, <1>2, <2>1
    <2>3. /\ at[Len(w)] = base + Total(w, 1 .. Len(w) - 1)
          /\ SumOf(w) = Total(w, 1 .. Len(w) - 1) + w[Len(w)]
          /\ Total(w, 1 .. Len(w) - 1) \in Int /\ w[Len(w)] \in Int
      BY <1>1, <1>2, <1>3, <2>1
    <2> QED  BY <2>2, <2>3
  <1>6. \A k \in 1 .. Len(w) - 1 : at[k + 1] = at[k] + w[k]
    <2> SUFFICES ASSUME NEW k \in 1 .. Len(w) - 1 PROVE at[k + 1] = at[k] + w[k]
      OBVIOUS
    <2>1. k \in 1 .. Len(w) /\ k + 1 \in 1 .. Len(w) /\ (k + 1) - 1 = k
      OBVIOUS
    <2>2. at[k] = base + Total(w, 1 .. k - 1) /\ at[k + 1] = base + Total(w, 1 .. (k + 1) - 1)
      BY <1>2, <2>1
    <2>3. at[k + 1] = base + Total(w, 1 .. k)
      BY <2>1, <2>2, Zenon
    <2>4. Total(w, 1 .. k) = Total(w, 1 .. k - 1) + w[k] /\ Total(w, 1 .. k - 1) \in Int
          /\ w[k] \in Int
      BY <1>1, <1>3, <2>1
    <2> QED  BY <2>2, <2>3, <2>4
  <1> QED  BY <1>4, <1>5, <1>6 DEF at

\* Rounding up to one or two blocks.
LEMMA RoundUpFacts ==
    \A n \in Nat : RoundUp(n, 1) = n /\ RoundUp(n, 2) \in Nat /\ RoundUp(n, 2) >= n
                   /\ RoundUp(n, 2) <= n + 1
  BY DEF RoundUp

-----------------------------------------------------------------------------
(* The two passes agree on the end                                         *)

\* The phases, and the types of what the end of the image depends on.
Kinds ==
    /\ job \in Jobs /\ dir = Entries(job.files)
    /\ pc \in {"assign", "sort", "reassign", "hfs", "inodes", "write", "done", "botch", "aborted"}
    /\ i \in Nat /\ i >= 1
    /\ weight \in [1 .. Len(dir) -> Int]
    /\ list \in Seq(DWrite)
    /\ last \in Int /\ hpad \in Int /\ tries \in Nat /\ pos \in Int

\* While extents are handed out the elements of the list follow each other.
Queued ==
    pc \in {"assign", "sort"} =>
        /\ \A k \in 1 .. Len(list) : list[k].e \in 1 .. Len(dir) /\ list[k].ext < last
        /\ \A j, k \in 1 .. Len(list) : j < k => list[j].ext < list[k].ext

Origin == job.session + Ahead

Catalogs == IF job.hfs THEN Extra * tries ELSE 0

\* What the first pass has counted is what the list takes, phase by phase.  An
\* attempt at a large volume that failed has left its padding in the list, and
\* only a large volume can follow it.
Planned ==
    /\ pc \in {"assign", "sort", "reassign"} =>
          last = Origin + Bulk(list) /\ hpad = 0 /\ tries = 0
    /\ pc = "hfs" =>
          /\ job.hfs /\ hpad = 0 /\ last > job.session
          /\ \/ last = Origin + Bulk(list)
             \/ last - job.session >= MinVol /\ last - job.session + Extra * tries > BigVol
    /\ pc = "inodes" => last = Origin + hpad + Bulk(list) + Catalogs
    /\ pc = "write" => /\ last = Origin + hpad + Bulk(list) + Catalogs
                                 + IF job.endpad THEN EndPad ELSE 0
                       /\ i \in 1 .. Len(list) + 1
                       /\ pos = Origin + hpad + UpToNth(list, i - 1)
    /\ pc \notin {"write", "done", "botch", "aborted"} => pos = Origin
    /\ pc \in {"sort", "reassign"} => job.sort
    /\ pc # "botch"

\* Blocks behind the data are counted and written for a Macintosh volume or a
\* DVD-Video only, and without sorting dw_tail is the end of the list.
Tidy ==
    /\ ~job.hfs /\ ~job.dvd => \A k \in 1 .. Len(list) : list[k].pad = 0
    /\ ~job.sort => tail = Len(list)

EndInv == Kinds /\ Queued /\ Planned /\ Tidy

\* A volume is filled up at most once, when nothing has been sorted, and is
\* then a small one.
FillsUpOnce ==
    pc = "hfs" /\ last - job.session < MinVol =>
        ~job.sort /\ job.retry = 0 /\ MinVol + Catalog <= BigVol

\* What the job and the directory are made of.
LEMMA JobFacts ==
    ASSUME Kinds
    PROVE  /\ job.files \in Seq(Files) /\ job.session \in Nat /\ job.retry \in Nat
           /\ {job.sort, job.hfs, job.dvd, job.cache, job.endpad} \subseteq BOOLEAN
           /\ dir \in Seq(EntrySet) /\ Len(dir) \in Nat
           /\ \A e \in 1 .. Len(dir) :
                 /\ dir[e].size \in Nat
                 /\ dir[e].f \in 1 .. Len(job.files) /\ File(e) \in Files
                 /\ File(e).size \in Nat /\ File(e).pad \in Nat /\ File(e).prev \in Nat
                 /\ File(e).weight \in Int
                 /\ dir[e].size <= File(e).size
  <1>1. job \in Asked /\ dir = Entries(job.files)
    BY LayoutAssumption DEF Kinds
  <1>2. /\ job.files \in Seq(Files) /\ job.session \in Nat /\ job.retry \in Nat
        /\ {job.sort, job.hfs, job.dvd, job.cache, job.endpad} \subseteq BOOLEAN
    BY <1>1 DEF Asked
  <1>3. /\ dir \in Seq(EntrySet)
        /\ \A f \in 1 .. Len(job.files) : \A p \in 1 .. FileCount(job.files, f) :
              dir[StartOf(job.files, f) + p] = Section(job.files, f, p)
        /\ \A f \in Multi(job.files) : dir[RootOf(job.files, f)] = TheRoot(job.files, f)
        /\ \A k \in 1 .. Len(dir) :
              \/ \E f \in 1 .. Len(job.files) : \E p \in 1 .. FileCount(job.files, f) :
                    k = StartOf(job.files, f) + p
              \/ \E f \in Multi(job.files) : k = RootOf(job.files, f)
    BY <1>1, <1>2, Directory
  <1>4. \A e \in 1 .. Len(dir) :
            dir[e].f \in 1 .. Len(job.files) /\ dir[e].size <= job.files[dir[e].f].size
    <2> SUFFICES ASSUME NEW e \in 1 .. Len(dir)
                 PROVE  dir[e].f \in 1 .. Len(job.files)
                        /\ dir[e].size <= job.files[dir[e].f].size
      OBVIOUS
    <2>1. \A f \in 1 .. Len(job.files) : job.files[f].size \in Nat
      <3>1. \A f \in 1 .. Len(job.files) : job.files[f] \in Files
        BY <1>2
      <3> QED  BY <3>1 DEF Files
    <2>2. CASE \E f \in 1 .. Len(job.files) : \E p \in 1 .. FileCount(job.files, f) :
                   e = StartOf(job.files, f) + p
      <3>1. PICK f \in 1 .. Len(job.files) : \E p \in 1 .. FileCount(job.files, f) :
                   e = StartOf(job.files, f) + p
        BY <2>2
      <3>2. PICK p \in 1 .. FileCount(job.files, f) : e = StartOf(job.files, f) + p
        BY <3>1
      <3>3. dir[e] = Section(job.files, f, p)
        BY <3>2, <1>3
      <3>4. dir[e].f = f
        BY <3>3 DEF Section
      <3> DEFINE size == job.files[f].size
                 n == Sections(size)
                 rest == (n - 1) * Large
      <3>5. /\ n \in Nat /\ n >= 1 /\ p \in 1 .. n
            /\ rest \in Nat /\ rest <= size /\ \A m \in 1 .. n - 1 : Large <= size
        <4>1. size \in Nat
          BY <2>1
        <4>2. /\ n \in Nat /\ n >= 1
              /\ \A m \in 1 .. n : (m - 1) * Large \in Nat
              /\ \A m \in 1 .. n : (m - 1) * Large <= size
              /\ \A m \in 1 .. n - 1 : (m - 1) * Large + Large <= size
          BY <4>1, SectionsFacts
        <4>3. n \in 1 .. n /\ \A m \in 1 .. n - 1 : m \in 1 .. n
          BY <4>2
        <4>4. Large \in Nat
          BY LayoutAssumption
        <4>5. \A m \in 1 .. n - 1 : Large <= size
          <5> SUFFICES ASSUME NEW m \in 1 .. n - 1 PROVE Large <= size
            OBVIOUS
          <5> DEFINE x == (m - 1) * Large
          <5>1. x \in Nat /\ x + Large <= size
            BY <4>2, <4>3
          <5> HIDE DEF x
          <5> QED  BY <4>1, <4>4, <5>1
        <4> QED  BY <4>2, <4>3, <4>5 DEF FileCount
      <3>6. dir[e].size = IF n = 1 THEN size ELSE IF p < n THEN Large ELSE size - rest
        BY <3>3 DEF Section
      <3>7. size \in Nat /\ Large \in Nat
        BY <2>1, LayoutAssumption
      <3>8. p < n => p \in 1 .. n - 1
        BY <3>5
      <3>9. dir[e].size <= size
        <4> HIDE DEF size, n, rest
        <4> QED  BY <3>5, <3>6, <3>7, <3>8
      <3> QED  BY <3>4, <3>9
    <2>3. CASE \E f \in Multi(job.files) : e = RootOf(job.files, f)
      <3>1. PICK f \in Multi(job.files) : e = RootOf(job.files, f)
        BY <2>3
      <3>2. dir[e] = TheRoot(job.files, f) /\ f \in 1 .. Len(job.files)
        BY <3>1, <1>3 DEF Multi
      <3>3. dir[e].f = f /\ dir[e].size = job.files[f].size
        BY <3>2 DEF TheRoot
      <3> QED  BY <3>2, <3>3, <2>1
    <2> QED  BY <1>3, <2>2, <2>3
  <1>5. \A e \in 1 .. Len(dir) : dir[e] \in EntrySet /\ File(e) \in Files
    BY <1>2, <1>3, <1>4 DEF File
  <1>6. \A e \in 1 .. Len(dir) :
            /\ dir[e].size \in Nat
            /\ File(e).size \in Nat /\ File(e).pad \in Nat /\ File(e).prev \in Nat
            /\ File(e).weight \in Int
    BY <1>5 DEF EntrySet, Files
  <1> QED  BY <1>2, <1>3, <1>4, <1>5, <1>6 DEF File

\* The sum of the sizes of some entries.
LEMMA BlocksFacts ==
    ASSUME Kinds, NEW S, S \subseteq 1 .. Len(dir)
    PROVE  /\ IsFiniteSet(S) /\ Blocks(S) \in Int /\ Blocks({}) = 0
           /\ \A x \in S : Blocks(S) = dir[x].size + Blocks(S \ {x})
  <1> DEFINE w == [t \in 1 .. Len(dir) |-> dir[t].size]
  <1>1. IsFiniteSet(S)
    <2>1. \A a, b \in Int : IsFiniteSet(a .. b)
      BY FS_Interval, Zenon
    <2>2. 1 \in Int /\ Len(dir) \in Int
      BY JobFacts
    <2>3. IsFiniteSet(1 .. Len(dir))
      BY <2>1, <2>2, Zenon
    <2> QED  BY <2>3, FS_Subset, Zenon
  <1>2. \A x \in S : w[x] \in Int /\ w[x] = dir[x].size
    BY JobFacts
  <1> HIDE DEF w
  <1>3. /\ Total(w, {}) = 0 /\ Total(w, S) \in Int
        /\ \A x \in S : Total(w, S) = w[x] + Total(w, S \ {x})
    BY <1>1, <1>2, TotalSteps
  <1>4. \A U : Blocks(U) = Total(w, U)
    BY SumOverIsTotal DEF Blocks, w
  <1> QED  BY <1>1, <1>2, <1>3, <1>4

\* What sorting adds up are numbers.
LEMMA LengthType ==
    ASSUME Kinds, NEW d \in DWrite, d.e \in 1 .. Len(dir)
    PROVE  Length(d) \in Int /\ (IF job.dvd THEN d.pad ELSE 0) \in Int
  <1>1. Run(d.e) \subseteq 1 .. Len(dir)
    BY JobFacts DEF Run
  <1>2. Blocks(Run(d.e)) \in Int
    BY <1>1, BlocksFacts
  <1>3. dir[d.e].size \in Int
    BY JobFacts
  <1> QED  BY <1>2, <1>3 DEF Length, DWrite

\* sort_file_addresses() takes every element once, in the order of weights.
LEMMA SortedFacts ==
    ASSUME Kinds, Queued, pc = "sort"
    PROVE  /\ Sorted \in Seq(DWrite) /\ Len(Sorted) = Len(list)
           /\ {Sorted[k] : k \in 1 .. Len(Sorted)} = {list[k] : k \in 1 .. Len(list)}
           /\ \A j, k \in 1 .. Len(Sorted) : Sorted[j] = Sorted[k] => j = k
           /\ \A j, k \in 1 .. Len(Sorted) : j < k => Precedes(Sorted[j], Sorted[k])
           /\ Bulk(Sorted) = Bulk(list)
  <1> DEFINE U == ToSet(list)
             R == {p \in U \X U : Precedes(p[1], p[2])}
             l == Sorted
  <1>0. list \in Seq(DWrite) /\ Len(list) \in Nat /\ \A k \in 1 .. Len(list) : list[k] \in DWrite
    BY DEF Kinds
  <1>1. \A j, k \in 1 .. Len(list) : list[j] = list[k] => j = k
    <2> SUFFICES ASSUME NEW j \in 1 .. Len(list), NEW k \in 1 .. Len(list), list[j] = list[k], j < k
                 PROVE  FALSE
      BY <1>0
    <2>1. list[j].ext < list[k].ext /\ list[j].ext \in Int
      BY <1>0 DEF Queued, DWrite
    <2> QED  BY <2>1
  <1>2. /\ IsFiniteSet(U)
        /\ \A s \in SetToSeqs(U) : /\ s \in Seq(DWrite) /\ Len(s) = Len(list)
                                   /\ \A j, k \in 1 .. Len(s) : s[j] = s[k] => j = k
                                   /\ {s[k] : k \in 1 .. Len(s)} = U
    BY <1>0, <1>1, SeqOfSet
  <1>3. U = {list[k] : k \in 1 .. Len(list)}
    BY DEF ToSet
  <1>4. \A a \in U : /\ a \in DWrite /\ a.ext \in Int /\ a.e \in 1 .. Len(dir)
                     /\ weight[a.e] \in Int
    BY <1>0, <1>3 DEF Queued, DWrite, Kinds
  <1>5. \A a, b \in U : a # b => a.ext < b.ext \/ b.ext < a.ext
    <2> SUFFICES ASSUME NEW j \in 1 .. Len(list), NEW k \in 1 .. Len(list), list[j] # list[k]
                 PROVE  list[j].ext < list[k].ext \/ list[k].ext < list[j].ext
      BY <1>3
    <2>1. j < k \/ k < j
      BY <1>0
    <2> QED  BY <2>1 DEF Queued
  <1>6. \A a, b \in U : <<a, b>> \in R <=> Precedes(a, b)
    OBVIOUS
  <1> HIDE DEF R, U
  <1>7. \A a, b \in U : a # b => <<a, b>> \in R \/ <<b, a>> \in R
    <2>1. \A a, b \in U : a # b => Precedes(a, b) \/ Precedes(b, a)
      BY <1>4, <1>5 DEF Precedes
    <2> QED  BY <1>6, <2>1
  <1>8. \A a, b, c \in U : <<a, b>> \in R /\ <<b, c>> \in R => <<a, c>> \in R
    <2>1. \A a, b, c \in U : Precedes(a, b) /\ Precedes(b, c) => Precedes(a, c)
      BY <1>4 DEF Precedes
    <2> QED  BY <1>6, <2>1
  <1>9. \E s \in SetToSeqs(U) : \A j, k \in 1 .. Len(s) : j < k => <<s[j], s[k]>> \in R
    BY <1>2, <1>7, <1>8, OrderExists
  <1>10. \E s \in SetToSeqs(U) : \A j, k \in 1 .. Len(s) : j < k => Precedes(s[j], s[k])
    <2>1. PICK s \in SetToSeqs(U) : \A j, k \in 1 .. Len(s) : j < k => <<s[j], s[k]>> \in R
      BY <1>9
    <2>2. {s[k] : k \in 1 .. Len(s)} = U
      BY <1>2
    <2>3. \A k \in 1 .. Len(s) : s[k] \in U
      BY <2>2
    <2>4. \A j, k \in 1 .. Len(s) : j < k => Precedes(s[j], s[k])
      BY <2>1, <2>3, <1>6
    <2> QED  BY <2>4
  <1>11. l \in SetToSeqs(U) /\ \A j, k \in 1 .. Len(l) : j < k => Precedes(l[j], l[k])
    BY <1>10 DEF Sorted, U
  <1> HIDE DEF l
  <1>12. /\ l \in Seq(DWrite) /\ Len(l) = Len(list)
         /\ \A j, k \in 1 .. Len(l) : l[j] = l[k] => j = k
         /\ {l[k] : k \in 1 .. Len(l)} = U
    BY <1>2, <1>11
  <1>13. Bulk(l) = Bulk(list)
    <2> DEFINE w == [d \in DWrite |-> d.size + d.pad]
    <2>1. \A d \in DWrite : w[d] \in Int /\ w[d] = d.size + d.pad
      BY DEF DWrite
    <2> HIDE DEF w
    <2>2. \A s \in Seq(DWrite) : Room(s) = Values(w, s)
      <3> SUFFICES ASSUME NEW s \in Seq(DWrite) PROVE Room(s) = Values(w, s)
        OBVIOUS
      <3>1. \A k \in 1 .. Len(s) : w[s[k]] = s[k].size + s[k].pad
        BY <2>1
      <3> QED  BY <3>1 DEF Room, Values
    <2>3. \A x \in DWrite : w[x] \in Int
      BY <2>1
    <2>4. \A s \in Seq(DWrite) : (\A j, k \in 1 .. Len(s) : s[j] = s[k] => j = k) =>
              SumOf(Values(w, s)) = Total(w, Elements(s))
      BY <2>3, SumOverSet
    <2>5. Bulk(l) = Total(w, U)
      BY <2>2, <2>4, <1>12 DEF Bulk, Elements
    <2>6. Bulk(list) = Total(w, U)
      BY <2>2, <2>4, <1>0, <1>1, <1>3 DEF Bulk, Elements
    <2> QED  BY <2>5, <2>6
  <1> QED  BY <1>3, <1>11, <1>12, <1>13 DEF l

\* The passes begin together.
LEMMA EndInit == Init => EndInv
  <1> SUFFICES ASSUME Init PROVE EndInv
    OBVIOUS
  <1>0. <<>> \in Seq(DWrite) /\ Len(<<>>) = 0
    OBVIOUS
  <1>1. job \in Jobs /\ dir = Entries(job.files) /\ job \in Asked
    BY LayoutAssumption DEF Init
  <1>2. job.session \in Nat /\ job.files \in Seq(Files) /\ dir \in Seq(EntrySet)
    BY <1>1, Directory DEF Asked
  <1>3. \A e \in 1 .. Len(dir) : File(e).weight \in Int
    <2>1. /\ \A f \in 1 .. Len(job.files) : \A p \in 1 .. FileCount(job.files, f) :
              dir[StartOf(job.files, f) + p] = Section(job.files, f, p)
          /\ \A f \in Multi(job.files) : dir[RootOf(job.files, f)] = TheRoot(job.files, f)
          /\ \A k \in 1 .. Len(dir) :
                \/ \E f \in 1 .. Len(job.files) : \E p \in 1 .. FileCount(job.files, f) :
                      k = StartOf(job.files, f) + p
                \/ \E f \in Multi(job.files) : k = RootOf(job.files, f)
      BY <1>1, <1>2, Directory
    <2>2. \A f \in 1 .. Len(job.files) : job.files[f].weight \in Int
      <3>1. \A f \in 1 .. Len(job.files) : job.files[f] \in Files
        BY <1>2
      <3> QED  BY <3>1 DEF Files
    <2>3. \A f : TheRoot(job.files, f).f = f /\ \A p : Section(job.files, f, p).f = f
      BY DEF TheRoot, Section
    <2>4. \A f \in Multi(job.files) : f \in 1 .. Len(job.files)
      BY DEF Multi
    <2>5. \A e \in 1 .. Len(dir) : dir[e].f \in 1 .. Len(job.files)
      BY <2>1, <2>3, <2>4
    <2> QED  BY <2>2, <2>5 DEF File
  <1>4. weight \in [1 .. Len(dir) -> Int]
    BY <1>3 DEF Init
  <1>5. Bulk(<<>>) = 0
    <2>1. Room(<<>>) = <<>> /\ <<>> \in Seq(Int) /\ 0 \in Int
      BY DEF Room
    <2> QED  BY <2>1, SumAppend DEF Bulk
  <1>6. Ahead \in Nat /\ Origin \in Int
    BY <1>2, LayoutAssumption DEF Origin
  <1>7. Kinds
    BY <1>0, <1>1, <1>4, <1>6 DEF Kinds, Init, Origin
  <1>8. Queued /\ Tidy
    BY <1>0 DEF Init, Queued, Tidy
  <1>9. Planned
    BY <1>5, <1>6 DEF Init, Planned, Origin
  <1> QED  BY <1>7, <1>8, <1>9 DEF EndInv

\* An element for a file to be written.
LEMMA EndAssignNew == EndInv /\ AssignNew => EndInv'
  <1> SUFFICES ASSUME EndInv, AssignNew PROVE EndInv'
    OBVIOUS
  <1> DEFINE d == [e |-> i, size |-> File(i).size, ext |-> last, pad |-> Padding(i)]
  <1>0. /\ Kinds /\ pc = "assign" /\ i \in 1 .. Len(dir) /\ dir[i].size > 0
        /\ dir[i].size \in Nat /\ dir[i].size <= File(i).size
        /\ File(i).size \in Nat /\ Padding(i) \in Nat /\ last \in Int
        /\ ~job.dvd => Padding(i) = 0
    <2>1. Kinds /\ pc = "assign" /\ i <= Len(dir) /\ dir[i].size > 0
      BY DEF EndInv, AssignNew, Assigning
    <2>2. i \in 1 .. Len(dir) /\ last \in Int
      BY <2>1, JobFacts DEF Kinds
    <2> QED  BY <2>1, <2>2, JobFacts DEF Padding
  <1>1. d \in DWrite /\ d.size = File(i).size /\ d.pad = Padding(i) /\ d.e = i /\ d.ext = last
    BY <1>0 DEF DWrite
  <1>2. /\ list' = Append(list, d) /\ last' = last + d.size + d.pad /\ tail' = Len(list')
        /\ pc' = "assign" /\ i' = i + 1
        /\ UNCHANGED <<job, dir, weight, hpad, tries, pos>>
    BY <1>1 DEF AssignNew, NextEntry, given, volume, written
  <1>3. list \in Seq(DWrite) /\ Bulk(list') = Bulk(list) + d.size + d.pad /\ Bulk(list) \in Int
    BY <1>0, <1>1, <1>2, RoomFacts DEF Kinds
  <1> HIDE DEF d
  <1>4. /\ list' \in Seq(DWrite) /\ Len(list') = Len(list) + 1 /\ Len(list) \in Nat
        /\ \A k \in 1 .. Len(list) : list'[k] = list[k]
        /\ list'[Len(list) + 1] = d
        /\ \A k \in 1 .. Len(list') : k \in 1 .. Len(list) \/ k = Len(list) + 1
    BY <1>1, <1>2, <1>3
  <1>5. d.size > 0 /\ d.size \in Nat /\ d.pad \in Nat
    BY <1>0, <1>1
  <1>6. Kinds'
    BY <1>0, <1>2, <1>4, <1>5 DEF Kinds
  <1>7. Queued'
    <2>1. /\ \A k \in 1 .. Len(list) : list[k].e \in 1 .. Len(dir) /\ list[k].ext < last
                                        /\ list[k].ext \in Int
          /\ \A j, k \in 1 .. Len(list) : j < k => list[j].ext < list[k].ext
      <3>1. \A k \in 1 .. Len(list) : list[k].ext \in Int
        <4>1. \A k \in 1 .. Len(list) : list[k] \in DWrite
          BY <1>3
        <4> QED  BY <4>1 DEF DWrite
      <3> QED  BY <1>0, <3>1 DEF EndInv, Queued
    <2>2. last' > last
      BY <1>0, <1>2, <1>5
    <2>3. \A k \in 1 .. Len(list') : list'[k].e \in 1 .. Len(dir) /\ list'[k].ext < last'
      BY <1>0, <1>1, <1>2, <1>4, <2>1, <2>2
    <2>4. \A j, k \in 1 .. Len(list') : j < k => list'[j].ext < list'[k].ext
      BY <1>1, <1>4, <2>1
    <2> QED  BY <1>2, <2>3, <2>4 DEF Queued
  <1>8. Planned'
    <2>1. last = Origin + Bulk(list) /\ hpad = 0 /\ tries = 0 /\ pos = Origin
      BY <1>0 DEF EndInv, Planned
    <2>2. Origin \in Int /\ Origin' = Origin
      BY <1>0, <1>2, JobFacts, LayoutAssumption DEF Origin
    <2>3. last' = Origin + Bulk(list')
      BY <1>2, <1>3, <1>5, <2>1, <2>2
    <2> QED  BY <1>2, <2>1, <2>2, <2>3 DEF Planned
  <1>9. Tidy'
    <2>1. ~job.hfs /\ ~job.dvd => \A k \in 1 .. Len(list') : list'[k].pad = 0
      BY <1>0, <1>1, <1>4 DEF EndInv, Tidy
    <2> QED  BY <1>2, <2>1 DEF Tidy
  <1> QED  BY <1>6, <1>7, <1>8, <1>9 DEF EndInv

\* Sorting moves the elements.
LEMMA EndSort == EndInv /\ Sort => EndInv'
  <1> SUFFICES ASSUME EndInv, Sort PROVE EndInv'
    OBVIOUS
  <1> DEFINE l == Sorted
             w == [k \in 1 .. Len(l) |-> Length(l[k]) + IF job.dvd THEN l[k].pad ELSE 0]
             at == [k \in 1 .. Len(l) |-> list[1].ext + SumOver(w, 1 .. k - 1)]
  <1>1. /\ Kinds /\ pc = "sort" /\ pc' = "reassign"
        /\ list' = Moved(l, at)
        /\ UNCHANGED <<job, dir, weight, last, hpad, tries, pos, i>>
        /\ job.sort
    BY DEF EndInv, Sort, Chain, given, volume, written, Planned
  <1>2. /\ l \in Seq(DWrite) /\ Len(l) = Len(list) /\ Bulk(l) = Bulk(list)
        /\ \A k \in 1 .. Len(l) : l[k] \in {list[j] : j \in 1 .. Len(list)}
    BY <1>1, SortedFacts DEF EndInv
  <1> HIDE DEF l
  <1>3. w \in Seq(Int) /\ Len(w) = Len(l)
    <2>1. \A k \in 1 .. Len(l) : l[k] \in DWrite /\ l[k].e \in 1 .. Len(dir)
      BY <1>1, <1>2 DEF EndInv, Queued
    <2>2. \A k \in 1 .. Len(l) : Length(l[k]) + (IF job.dvd THEN l[k].pad ELSE 0) \in Int
      BY <1>1, <2>1, LengthType
    <2> QED  BY <1>2, <2>2
  <1> HIDE DEF w
  <1>4. \A k \in 1 .. Len(l) : at[k] \in Int
    <2> SUFFICES ASSUME NEW k \in 1 .. Len(l) PROVE at[k] \in Int
      OBVIOUS
    <2>1. list[1] \in DWrite
      BY <1>1, <1>2 DEF Kinds
    <2>2. list[1].ext \in Int
      BY <2>1 DEF DWrite
    <2>3. \A b \in Int : \A n \in 1 .. Len(w) : [m \in 1 .. Len(w) |-> b + SumOver(w, 1 .. m - 1)][n] \in Int
      BY <1>3, ChainFacts
    <2>4. at[k] = list[1].ext + SumOver(w, 1 .. k - 1)
      OBVIOUS
    <2>5. [m \in 1 .. Len(w) |-> list[1].ext + SumOver(w, 1 .. m - 1)][k] \in Int
      BY <1>3, <2>2, <2>3
    <2> QED  BY <1>3, <2>4, <2>5
  <1> HIDE DEF at
  <1>5. /\ list' \in Seq(DWrite) /\ Len(list') = Len(l) /\ Bulk(list') = Bulk(list)
        /\ \A k \in 1 .. Len(l) : list'[k].pad = l[k].pad
    <2>1. /\ Moved(l, at) \in Seq(DWrite) /\ Len(Moved(l, at)) = Len(l)
          /\ \A k \in 1 .. Len(l) : Moved(l, at)[k].pad = l[k].pad
          /\ Bulk(Moved(l, at)) = Bulk(l)
      BY <1>2, <1>4, MovedFacts
    <2>2. list' = Moved(l, at) /\ Bulk(l) = Bulk(list)
      BY <1>1, <1>2
    <2> HIDE DEF at
    <2> DEFINE m == Moved(l, at)
    <2>3. m \in Seq(DWrite) /\ Len(m) = Len(l) /\ Bulk(m) = Bulk(list)
          /\ \A k \in 1 .. Len(l) : m[k].pad = l[k].pad
      BY <2>1, <2>2
    <2>4. list' = m
      BY <2>2
    <2> HIDE DEF m
    <2> QED  BY <2>3, <2>4
  <1>6. Kinds'
    BY <1>1, <1>5 DEF Kinds
  <1>7. Queued'
    BY <1>1 DEF Queued
  <1>8. Planned'
    BY <1>1, <1>5 DEF EndInv, Planned, Origin
  <1>9. Tidy'
    <2>1. ~job.hfs /\ ~job.dvd => \A k \in 1 .. Len(l) : l[k].pad = 0
      BY <1>2 DEF EndInv, Tidy
    <2> QED  BY <1>1, <1>5, <2>1 DEF Tidy
  <1> QED  BY <1>6, <1>7, <1>8, <1>9 DEF EndInv

\* What an attempt at the Macintosh volume works with: the blocks a small volume
\* lacks, the list with them, the blocks in its unit of allocation, where the data
\* begin, and for a large volume the list as it is padded.
Missing == IF last - job.session < MinVol THEN MinVol - (last - job.session) ELSE 0

Filled == IF Missing > 0 THEN Enlarged(list, Missing) ELSE list

Unit == IF last - job.session + Missing + Catalog > BigVol THEN 2 ELSE 1

Base == RoundUp(Ahead + Hdr, Unit) - Hdr

Rounded == [k \in 1 .. Len(Filled) |-> RoundUp(Filled[k].size, Unit)]

VolumeAt == [k \in 1 .. Len(Filled) |-> job.session + Base + SumOver(Rounded, 1 .. k - 1)]

Padded == [k \in 1 .. Len(Filled) |->
              [Filled[k] EXCEPT !.ext = VolumeAt[k],
                                !.pad = RoundUp(Filled[k].size, Unit) - Filled[k].size]]

Filler == [e |-> 0, size |-> Missing, ext |-> last, pad |-> 0]

\* Only a small volume that is not sorted is filled up, and a volume in single
\* blocks has the extents of the first pass.
LEMMA HfsFacts ==
    ASSUME EndInv, FillsUpOnce, pc = "hfs"
    PROVE  /\ Kinds /\ job.hfs /\ hpad = 0 /\ pos = Origin /\ last > job.session
           /\ list \in Seq(DWrite) /\ Len(list) \in Nat /\ tries \in Nat /\ last \in Int
           /\ {Ahead, MinVol, BigVol, Hdr, Extra} \subseteq Int /\ Ahead \in Nat /\ Hdr \in Nat
           /\ job.session \in Int /\ Origin = job.session + Ahead /\ job.retry \in Nat
           /\ Extra * tries \in Nat /\ Catalog = Extra * tries + Extra
           /\ Extra \in Nat /\ Catalog \in Nat
           /\ Missing \in Nat /\ Unit \in {1, 2}
           /\ Missing > 0 => /\ Unit = 1 /\ ~job.sort /\ ~(tries < job.retry)
                             /\ Filled = Append(list, Filler)
           /\ Missing = 0 => Filled = list /\ last - job.session >= MinVol
           /\ Unit = 1 => last = Origin + Bulk(list)
           /\ Unit = 1 <=> last - job.session + Missing + Catalog <= BigVol
           /\ Filler \in DWrite /\ Filled \in Seq(DWrite)
           /\ Bulk(Filled) = Bulk(list) + Missing /\ Bulk(list) \in Int
           /\ ~job.sort => (IF Missing > 0 THEN Len(Filled) ELSE tail) = Len(Filled)
           /\ Base \in Int /\ Base >= Ahead /\ (Unit = 1 => Base = Ahead)
  <1> DEFINE vol == last - job.session
  \* What is known before the attempt.
  <1>2. /\ Kinds /\ job.hfs /\ hpad = 0 /\ pos = Origin /\ last > job.session
        /\ list \in Seq(DWrite) /\ Len(list) \in Nat /\ tries \in Nat /\ last \in Int
        /\ {Ahead, MinVol, BigVol, Hdr, Extra} \subseteq Int /\ Ahead \in Nat /\ Hdr \in Nat
        /\ job.session \in Int /\ Origin = job.session + Ahead /\ job.retry \in Nat
    <2>1. Kinds /\ Planned
      BY DEF EndInv
    <2>2. /\ job.session \in Nat /\ job.retry \in Nat
      BY <2>1, JobFacts
    <2>3. /\ list \in Seq(DWrite) /\ Len(list) \in Nat /\ tries \in Nat /\ last \in Int
      BY <2>1 DEF Kinds
    <2>4. /\ {Ahead, MinVol, BigVol, Hdr, Extra} \subseteq Nat
      BY LayoutAssumption
    <2>5. job.hfs /\ hpad = 0 /\ pos = Origin /\ last > job.session
      BY <2>1 DEF Planned
    <2> QED  BY <2>1, <2>2, <2>3, <2>4, <2>5 DEF Origin
  <1>3. /\ Extra * tries \in Nat /\ Catalog = Extra * tries + Extra
        /\ Extra \in Nat /\ Catalog \in Nat
    <2>1. Extra \in Nat /\ tries \in Nat
      BY <1>2, LayoutAssumption
    <2>2. \A x, t \in Nat : x * t \in Nat /\ x * (t + 1) = x * t + x
      OBVIOUS
    <2>3. Extra * tries \in Nat /\ Extra * (tries + 1) = Extra * tries + Extra
      BY <2>1, <2>2
    <2> DEFINE p == Extra * tries
    <2>4. Catalog = p + Extra /\ p \in Nat
      BY <2>3 DEF Catalog
    <2> HIDE DEF p
    <2>5. Catalog \in Nat
      BY <2>1, <2>4
    <2> QED  BY <2>1, <2>4, <2>5 DEF p
  <1>4. /\ vol \in Int /\ vol > 0 /\ Missing \in Nat /\ Unit \in {1, 2}
        /\ Missing > 0 => vol < MinVol /\ vol + Missing = MinVol
        /\ Missing = 0 => vol >= MinVol
    BY <1>2 DEF Missing, Unit
  <1>5. /\ Missing > 0 => Unit = 1 /\ ~job.sort /\ ~(tries < job.retry)
        /\ Missing > 0 => last = Origin + Bulk(list)
    <2>1. Missing > 0 => ~job.sort /\ job.retry = 0 /\ MinVol + Catalog <= BigVol
      BY <1>4 DEF FillsUpOnce
    <2>2. Missing > 0 => Unit = 1
      BY <2>1, <1>2, <1>3, <1>4 DEF Unit
    <2>3. Missing > 0 => last = Origin + Bulk(list)
      BY <1>4 DEF EndInv, Planned
    <2> QED  BY <2>1, <2>2, <2>3, <1>2
  \* The list with the element that fills the volume up.
  <1>6. /\ Filled \in Seq(DWrite) /\ Bulk(Filled) = Bulk(list) + Missing /\ Bulk(list) \in Int
        /\ Missing = 0 => Filled = list
        /\ Missing > 0 => Filled = Append(list, Filler)
        /\ ~job.sort => (IF Missing > 0 THEN Len(Filled) ELSE tail) = Len(Filled)
    <2>1. CASE Missing = 0
      <3>1. Filled = list
        BY <2>1 DEF Filled
      <3> QED  BY <2>1, <3>1, <1>2, RoomFacts DEF EndInv, Tidy
    <2>2. CASE Missing > 0
      <3> DEFINE d == Filler
      <3>1. d \in DWrite /\ d.size = Missing /\ d.pad = 0
        BY <1>2, <1>4 DEF DWrite, Filler
      <3>2. tail = Len(list)
        BY <1>5, <2>2 DEF EndInv, Tidy
      <3>3. SubSeq(list, 1, tail) = list
        BY <1>2, <3>2
      <3>4. Filled = Append(list, d)
        BY <2>2, <3>3 DEF Filled, Enlarged, Filler
      <3> HIDE DEF d
      <3>5. Bulk(Append(list, d)) = Bulk(list) + d.size + d.pad /\ Bulk(list) \in Int
        BY <1>2, <3>1, RoomFacts
      <3>6. Filled \in Seq(DWrite)
        BY <1>2, <3>1, <3>4
      <3>7. Filled = Append(list, Filler)
        BY <3>4 DEF d
      <3> QED  BY <1>4, <2>2, <3>1, <3>4, <3>5, <3>6, <3>7
    <2> QED  BY <1>4, <2>1, <2>2
  <1>8. Base \in Int /\ Base >= Ahead /\ (Unit = 1 => Base = Ahead)
    <2>1. Ahead + Hdr \in Nat
      BY <1>2
    <2>2. RoundUp(Ahead + Hdr, 1) = Ahead + Hdr /\ RoundUp(Ahead + Hdr, 2) \in Nat
          /\ RoundUp(Ahead + Hdr, 2) >= Ahead + Hdr
      BY <2>1, RoundUpFacts
    <2>3. Unit = 1 => Base = RoundUp(Ahead + Hdr, 1) - Hdr
      BY DEF Base
    <2>4. Unit = 2 => Base = RoundUp(Ahead + Hdr, 2) - Hdr
      BY DEF Base
    <2>5. Unit = 1 \/ Unit = 2
      BY <1>4
    <2>6. Ahead \in Nat /\ Hdr \in Nat
      BY <1>2
    <2> DEFINE r == RoundUp(Ahead + Hdr, 1)
               s == RoundUp(Ahead + Hdr, 2)
    <2>7. r = Ahead + Hdr /\ s \in Nat /\ s >= Ahead + Hdr
      BY <2>2
    <2>8. (Unit = 1 => Base = r - Hdr) /\ (Unit = 2 => Base = s - Hdr)
      BY <2>3, <2>4
    <2> HIDE DEF r, s
    <2>9. CASE Unit = 1
      BY <2>6, <2>7, <2>8, <2>9
    <2>10. CASE Unit = 2
      BY <2>6, <2>7, <2>8, <2>10
    <2> QED  BY <2>5, <2>9, <2>10
  <1>10. Unit = 1 <=> vol + Missing + Catalog <= BigVol
    <2>1. BigVol \in Int /\ Catalog \in Int /\ vol \in Int /\ Missing \in Int
      BY <1>2, <1>3, <1>4
    <2> DEFINE t == vol + Missing + Catalog
    <2>2. t \in Int
      BY <2>1
    <2>3. Unit = IF t > BigVol THEN 2 ELSE 1
      BY DEF Unit
    <2> HIDE DEF t
    <2>4. Unit = 1 <=> t <= BigVol
      BY <2>1, <2>2, <2>3
    <2> QED  BY <2>4 DEF t
  <1>11. Unit = 1 => last = Origin + Bulk(list)
    <2> SUFFICES ASSUME Unit = 1, last # Origin + Bulk(list) PROVE FALSE
      OBVIOUS
    <2>1. \/ last = Origin + Bulk(list)
          \/ last - job.session >= MinVol /\ last - job.session + Extra * tries > BigVol
      BY DEF EndInv, Planned
    <2>2. Missing = 0
      BY <1>4, <1>5
    <2> DEFINE p == Extra * tries
    <2>3. p \in Nat /\ Catalog = p + Extra /\ last - job.session + p > BigVol
      BY <1>3, <2>1
    <2> HIDE DEF p
    <2> QED  BY <1>2, <1>3, <1>10, <2>2, <2>3
  <1>12. Filler \in DWrite
    BY <1>2, <1>4 DEF DWrite, Filler
  <1> QED  BY <1>2, <1>3, <1>4, <1>5, <1>6, <1>8, <1>10, <1>11, <1>12

\* A large volume: the padding brings every element to what it was rounded to, and
\* the elements follow each other.
LEMMA PaddedFacts ==
    ASSUME EndInv, FillsUpOnce, pc = "hfs"
    PROVE  /\ Rounded \in Seq(Int) /\ Len(Rounded) = Len(Filled)
           /\ \A k \in 1 .. Len(Filled) : Rounded[k] = RoundUp(Filled[k].size, Unit)
           /\ Filled # <<>> =>
                 VolumeAt[Len(Filled)] + Rounded[Len(Filled)] = job.session + Base + SumOf(Rounded)
           /\ Filled = <<>> => SumOf(Rounded) = 0
           /\ SumOf(Rounded) \in Int
           /\ Padded \in Seq(DWrite) /\ Len(Padded) = Len(Filled)
           /\ Bulk(Padded) = SumOf(Rounded)
           /\ \A k \in 1 .. Len(Filled) :
                 /\ Padded[k].e = Filled[k].e /\ Padded[k].size = Filled[k].size
                 /\ Padded[k].ext = VolumeAt[k]
                 /\ VolumeAt[k] = job.session + Base + UpToNth(Padded, k - 1)
  <1>2. /\ Filled \in Seq(DWrite) /\ Unit \in {1, 2} /\ Base \in Int /\ job.session \in Int
    BY HfsFacts
  <1>7. Len(Filled) \in Nat
        /\ \A k \in 1 .. Len(Filled) : Filled[k] \in DWrite /\ Filled[k].size \in Nat
    <2>1. Len(Filled) \in Nat /\ \A k \in 1 .. Len(Filled) : Filled[k] \in DWrite
      BY <1>2
    <2> QED  BY <2>1 DEF DWrite
  <1>9. /\ Rounded \in Seq(Int) /\ Len(Rounded) = Len(Filled)
        /\ \A k \in 1 .. Len(Filled) :
              /\ Rounded[k] = RoundUp(Filled[k].size, Unit)
              /\ Rounded[k] >= Filled[k].size /\ Rounded[k] \in Int
    <2>1. \A k \in 1 .. Len(Filled) : /\ RoundUp(Filled[k].size, Unit) >= Filled[k].size
                                      /\ RoundUp(Filled[k].size, Unit) \in Int
      <3> SUFFICES ASSUME NEW k \in 1 .. Len(Filled)
                   PROVE  /\ RoundUp(Filled[k].size, Unit) >= Filled[k].size
                          /\ RoundUp(Filled[k].size, Unit) \in Int
        OBVIOUS
      <3> DEFINE n == Filled[k].size
      <3>1. n \in Nat
        BY <1>7
      <3> HIDE DEF n
      <3>2. RoundUp(n, 1) = n /\ RoundUp(n, 2) \in Nat /\ RoundUp(n, 2) >= n
        BY <3>1, RoundUpFacts
      <3>3. Unit = 1 \/ Unit = 2
        BY <1>2
      <3>4. RoundUp(n, Unit) >= n /\ RoundUp(n, Unit) \in Int
        BY <3>1, <3>2, <3>3
      <3> QED  BY <3>4 DEF n
    <2> QED  BY <1>7, <2>1 DEF Rounded
  <1>10. /\ \A k \in 1 .. Len(Filled) : VolumeAt[k] \in Int
         /\ Filled # <<>> => VolumeAt[Len(Filled)] + Rounded[Len(Filled)]
                                 = job.session + Base + SumOf(Rounded)
         /\ Filled = <<>> => SumOf(Rounded) = 0
         /\ SumOf(Rounded) \in Int
    <2>1. job.session + Base \in Int
      BY <1>2
    <2>2. /\ \A k \in 1 .. Len(Rounded) : [m \in 1 .. Len(Rounded) |->
                  job.session + Base + SumOver(Rounded, 1 .. m - 1)][k] \in Int
          /\ Rounded # <<>> => [m \in 1 .. Len(Rounded) |->
                  job.session + Base + SumOver(Rounded, 1 .. m - 1)][Len(Rounded)]
                                + Rounded[Len(Rounded)] = job.session + Base + SumOf(Rounded)
      BY <1>9, <2>1, ChainFacts
    <2>3. Filled # <<>> => Rounded # <<>>
      BY <1>2, <1>7, <1>9
    <2>4. VolumeAt = [m \in 1 .. Len(Rounded) |->
                         job.session + Base + SumOver(Rounded, 1 .. m - 1)]
      BY <1>9 DEF VolumeAt
    <2>5. SumOf(<<>>) = 0 /\ SumOf(Rounded) \in Int
      BY <1>9, 0 \in Int, SumAppend
    <2>6. Filled = <<>> => Rounded = <<>>
      BY <1>9
    <2> QED  BY <1>9, <2>2, <2>3, <2>4, <2>5, <2>6
  \* With blocks of two the padding brings every element to what it was rounded to.
  <1>11. Padded \in Seq(DWrite) /\ Len(Padded) = Len(Filled) /\ Bulk(Padded) = SumOf(Rounded)
         /\ Room(Padded) = Rounded
         /\ \A k \in 1 .. Len(Filled) :
               /\ Padded[k].e = Filled[k].e /\ Padded[k].size = Filled[k].size
               /\ Padded[k].ext = VolumeAt[k]
    <2>1. \A k \in 1 .. Len(Filled) : /\ Padded[k] \in DWrite
                                      /\ Padded[k].size + Padded[k].pad = Rounded[k]
                                      /\ Padded[k].e = Filled[k].e
                                      /\ Padded[k].size = Filled[k].size
                                      /\ Padded[k].ext = VolumeAt[k]
      <3> SUFFICES ASSUME NEW k \in 1 .. Len(Filled)
                   PROVE  /\ Padded[k] \in DWrite /\ Padded[k].size + Padded[k].pad = Rounded[k]
                          /\ Padded[k].e = Filled[k].e /\ Padded[k].size = Filled[k].size
                          /\ Padded[k].ext = VolumeAt[k]
        OBVIOUS
      <3> DEFINE x == Rounded[k] - Filled[k].size
      <3>1. x \in Nat /\ Filled[k].size + x = Rounded[k]
        BY <1>7, <1>9
      <3>2. Padded[k] = [Filled[k] EXCEPT !.ext = VolumeAt[k], !.pad = x]
        BY <1>9 DEF Padded
      <3> HIDE DEF x
      <3>3. Filled[k] \in DWrite /\ VolumeAt[k] \in Int
        BY <1>7, <1>10
      <3>4. Padded[k] \in DWrite /\ Padded[k].size = Filled[k].size /\ Padded[k].pad = x
            /\ Padded[k].e = Filled[k].e /\ Padded[k].ext = VolumeAt[k]
        BY <3>1, <3>2, <3>3 DEF DWrite
      <3> QED  BY <3>1, <3>4
    <2>2. Padded \in Seq(DWrite) /\ Len(Padded) = Len(Filled)
      <3>1. Padded = [k \in 1 .. Len(Filled) |-> Padded[k]]
        BY DEF Padded
      <3> QED  BY <1>7, <2>1, <3>1
    <2>3. Room(Padded) = Rounded
      <3>1. Room(Padded) = [k \in 1 .. Len(Filled) |-> Padded[k].size + Padded[k].pad]
        BY <2>2 DEF Room
      <3>2. Rounded = [k \in 1 .. Len(Filled) |-> Rounded[k]]
        BY <1>9
      <3> QED  BY <2>1, <3>1, <3>2
    <2> QED  BY <2>1, <2>2, <2>3 DEF Bulk
  <1>12. \A k \in 1 .. Len(Filled) : VolumeAt[k] = job.session + Base + UpToNth(Padded, k - 1)
    <2> SUFFICES ASSUME NEW k \in 1 .. Len(Filled)
                 PROVE  VolumeAt[k] = job.session + Base + UpToNth(Padded, k - 1)
      OBVIOUS
    <2>1. VolumeAt[k] = job.session + Base + SumOver(Rounded, 1 .. k - 1)
      BY DEF VolumeAt
    <2>2. SumOver(Rounded, 1 .. k - 1) = UpToNth(Padded, k - 1)
      BY <1>11, SumOverIsTotal DEF UpToNth
    <2> QED  BY <2>1, <2>2
  <1> QED  BY <1>9, <1>10, <1>11, <1>12

\* The Macintosh volume: what it adds and pads is what it counts.
LEMMA EndHfs == EndInv /\ FillsUpOnce /\ Hfs => EndInv'
  <1> SUFFICES ASSUME EndInv, FillsUpOnce, Hfs PROVE EndInv'
    OBVIOUS
  <1> DEFINE end == IF Unit = 1 THEN last + Missing
                    ELSE IF Filled = <<>> THEN job.session + Base
                    ELSE VolumeAt[Len(Filled)] + RoundUp(Filled[Len(Filled)].size, Unit)
  <1>1. /\ pc = "hfs" /\ tries' = tries + 1
        /\ list' = IF Unit = 1 THEN Filled ELSE Padded
        /\ tail' = IF Missing > 0 THEN Len(Filled) ELSE tail
        /\ tries < job.retry => pc' = pc /\ last' = last /\ hpad' = hpad
        /\ ~(tries < job.retry) =>
              pc' = "inodes" /\ hpad' = Base - Ahead /\ last' = end + Catalog
        /\ UNCHANGED <<job, dir, weight, i, pos>>
    BY DEF Hfs, Chain, given, written, Missing, Filled, Unit, Base, Rounded, VolumeAt, Padded
  <1>2. /\ Kinds /\ job.hfs /\ hpad = 0 /\ pos = Origin /\ last > job.session
        /\ tries \in Nat /\ last \in Int
        /\ {Ahead, MinVol, BigVol, Hdr, Extra} \subseteq Int
        /\ job.session \in Int /\ Origin = job.session + Ahead /\ job.retry \in Nat
        /\ Base \in Int /\ (Unit = 1 => Base = Ahead)
    BY <1>1, HfsFacts
  <1>3. /\ Extra * tries \in Nat /\ Catalog = Extra * tries + Extra
        /\ Extra \in Nat /\ Catalog \in Nat
    BY <1>1, HfsFacts
  <1>4. /\ Missing \in Nat /\ Unit \in {1, 2}
        /\ Missing > 0 => Unit = 1 /\ ~job.sort /\ ~(tries < job.retry)
        /\ Missing = 0 => Filled = list /\ last - job.session >= MinVol
        /\ Unit = 1 => last = Origin + Bulk(list)
        /\ Unit = 1 <=> last - job.session + Missing + Catalog <= BigVol
    BY <1>1, HfsFacts
  <1>5. /\ Filled \in Seq(DWrite) /\ Bulk(Filled) = Bulk(list) + Missing /\ Bulk(list) \in Int
        /\ ~job.sort => (IF Missing > 0 THEN Len(Filled) ELSE tail) = Len(Filled)
    BY <1>1, HfsFacts
  <1>6. /\ Padded \in Seq(DWrite) /\ Len(Padded) = Len(Filled)
        /\ Bulk(Padded) = SumOf(Rounded) /\ SumOf(Rounded) \in Int
    BY <1>1, PaddedFacts
  <1>7. Unit = 2 => end = job.session + Base + SumOf(Rounded)
    <2>1. CASE Filled = <<>>
      <3>1. SumOf(Rounded) = 0
        BY <1>1, <2>1, PaddedFacts
      <3> QED  BY <1>2, <2>1, <3>1
    <2>2. CASE Filled # <<>>
      <3>1. Len(Filled) \in 1 .. Len(Filled)
        BY <1>5, <2>2
      <3>2. /\ Rounded[Len(Filled)] = RoundUp(Filled[Len(Filled)].size, Unit)
            /\ VolumeAt[Len(Filled)] + Rounded[Len(Filled)] = job.session + Base + SumOf(Rounded)
        BY <1>1, <2>2, <3>1, PaddedFacts
      <3> QED  BY <2>2, <3>2
    <2> QED  BY <2>1, <2>2
  <1>8. Unit = 1 => end = last + Missing
    OBVIOUS
  <1> HIDE DEF end
  <1>9. Kinds'
    <2>1. list' \in Seq(DWrite)
      BY <1>1, <1>5, <1>6
    <2>2. tries' \in Nat
      BY <1>1, <1>2
    <2>3. end \in Int
      <3>1. CASE Unit = 1
        BY <1>2, <1>4, <1>8, <3>1
      <3>2. CASE Unit = 2
        BY <1>2, <1>6, <1>7, <3>2
      <3> QED  BY <1>4, <3>1, <3>2
    <2>4. last' \in Int /\ hpad' \in Int
      BY <1>1, <1>2, <1>3, <2>3 DEF Kinds
    <2>5. pc' \in {"hfs", "inodes"}
      BY <1>1
    <2> QED  BY <1>1, <1>2, <2>1, <2>2, <2>4, <2>5 DEF Kinds
  <1>10. Queued'
    BY <1>1 DEF Queued
  <1>11. Tidy'
    <2>1. Len(list') = Len(Filled)
      BY <1>1, <1>6
    <2> QED  BY <1>1, <1>2, <1>5, <2>1 DEF Tidy
  <1>12. Planned'
    <2>1. Catalogs' = Catalog /\ Extra * tries' = Catalog /\ Origin' = Origin
      <3>1. tries' = tries + 1 /\ job' = job /\ job'.hfs
        BY <1>1, <1>2
      <3>2. Extra * tries' = Extra * (tries + 1)
        BY <3>1
      <3>3. Catalogs' = Extra * tries'
        BY <3>1 DEF Catalogs
      <3> QED  BY <3>1, <3>2, <3>3 DEF Catalog, Origin
    <2>2. CASE tries < job.retry
      <3>1. Missing = 0 /\ Filled = list /\ last - job.session >= MinVol
        BY <1>4, <2>2
      <3>2. pc' = "hfs" /\ last' = last /\ hpad' = 0 /\ job'.hfs /\ job' = job
        BY <1>1, <1>2, <2>2
      <3>3. \/ last' = Origin' + Bulk(list')
            \/ last' - job'.session >= MinVol /\ last' - job'.session + Extra * tries' > BigVol
        <4>1. CASE Unit = 1
          BY <1>1, <1>4, <2>1, <3>1, <3>2, <4>1
        <4>2. CASE Unit = 2
          <5>1. last - job.session + Catalog > BigVol
            BY <1>2, <1>3, <1>4, <3>1, <4>2
          <5> QED  BY <2>1, <3>1, <3>2, <5>1
        <4> QED  BY <1>4, <4>1, <4>2
      <3> QED  BY <1>1, <1>2, <2>1, <3>2, <3>3 DEF Planned
    <2>3. CASE ~(tries < job.retry)
      <3>1. pc' = "inodes" /\ hpad' = Base - Ahead /\ last' = end + Catalog
        BY <1>1, <2>3
      <3>2. last' = Origin' + hpad' + Bulk(list') + Catalogs'
        <4>1. CASE Unit = 1
          <5>1. hpad' = 0 /\ list' = Filled /\ last' = last + Missing + Catalog
            BY <1>1, <1>2, <1>8, <3>1, <4>1
          <5>2. last = Origin + Bulk(list) /\ Bulk(Filled) = Bulk(list) + Missing
            BY <1>4, <1>5, <4>1
          <5>3. {Origin, Bulk(list), Missing, Catalog} \subseteq Int
            BY <1>2, <1>3, <1>4, <1>5
          <5>4. \A o, b, m, x \in Int : o + b + m + x = o + 0 + (b + m) + x
            OBVIOUS
          <5>5. last + Missing + Catalog = Origin + 0 + Bulk(Filled) + Catalog
            BY <5>2, <5>3, <5>4
          <5>6. Origin' + hpad' + Bulk(list') + Catalogs' = Origin + 0 + Bulk(Filled) + Catalog
            BY <2>1, <5>1
          <5> QED  BY <5>1, <5>5, <5>6
        <4>2. CASE Unit = 2
          <5>1. Bulk(list') = SumOf(Rounded) /\ end = job.session + Base + SumOf(Rounded)
            BY <1>1, <1>6, <1>7, <4>2
          <5>2. {job.session, Ahead, Base, SumOf(Rounded), Catalog} \subseteq Int
            BY <1>2, <1>3, <1>6
          <5>3. \A s, a, b, m, x \in Int : s + b + m + x = s + a + (b - a) + m + x
            OBVIOUS
          <5>4. last' = job.session + Base + SumOf(Rounded) + Catalog
            BY <3>1, <5>1
          <5>5. Origin' + hpad' + Bulk(list') + Catalogs'
                    = job.session + Ahead + (Base - Ahead) + SumOf(Rounded) + Catalog
            BY <1>2, <2>1, <3>1, <5>1
          <5> QED  BY <5>2, <5>3, <5>4, <5>5
        <4> QED  BY <1>4, <4>1, <4>2
      <3> QED  BY <1>1, <1>2, <2>1, <3>1, <3>2 DEF Planned
    <2> QED  BY <2>2, <2>3
  <1> QED  BY <1>9, <1>10, <1>11, <1>12 DEF EndInv

\* The other steps of the first pass leave the list and what is counted alone.
LEMMA EndQuiet ==
    EndInv /\ (\/ AssignKnown \/ AssignLinked \/ AssignEmpty \/ AssignedAll
               \/ Reassign \/ NumberFile \/ NumberEmpty \/ Abort \/ UNCHANGED vars)
        => EndInv'
  <1> SUFFICES ASSUME EndInv,
                      \/ AssignKnown \/ AssignLinked \/ AssignEmpty \/ AssignedAll
                      \/ Reassign \/ NumberFile \/ NumberEmpty \/ Abort \/ UNCHANGED vars
               PROVE  EndInv'
    OBVIOUS
  <1>0. Kinds
    BY DEF EndInv
  <1>1. UNCHANGED <<job, dir, list, tail, last, hpad, tries, pos>>
    BY DEF AssignKnown, AssignLinked, AssignEmpty, AssignedAll, Reassign, NumberFile,
           NumberEmpty, Abort, vars, given, deferred, volume, written
  <1>2. weight' \in [1 .. Len(dir) -> Int]
    <2>1. CASE AssignLinked
      <3>1. weight' = Weigh(i) /\ weight \in [1 .. Len(dir) -> Int]
        BY <1>0, <2>1 DEF AssignLinked, Kinds
      <3>2. NotSorted \in Int /\ i \in 1 .. Len(dir)
        BY <1>0, <2>1, JobFacts DEF NotSorted, AssignLinked, Assigning, Kinds
      <3> DEFINE of == hash[File(i).ino].of
                 w1 == [weight EXCEPT ![of] = IF @ > weight[i] THEN @ ELSE weight[i]]
      <3>3. w1 \in [1 .. Len(dir) -> Int]
        <4> HIDE DEF of
        <4> QED  BY <3>1, <3>2
      <3> HIDE DEF w1
      <3>4. [w1 EXCEPT ![i] = NotSorted] \in [1 .. Len(dir) -> Int]
        BY <3>2, <3>3
      <3>5. Weigh(i) = weight \/ Weigh(i) = [w1 EXCEPT ![i] = NotSorted]
        BY DEF Weigh, w1
      <3> QED  BY <3>1, <3>4, <3>5
    <2>2. CASE ~AssignLinked
      <3>1. weight' = weight
        BY <2>2 DEF AssignKnown, AssignEmpty, AssignedAll, Reassign, NumberFile,
                    NumberEmpty, Abort, vars, entries
      <3> QED  BY <1>0, <3>1 DEF Kinds
    <2> QED  BY <2>1, <2>2
  <1>3. /\ i' \in Nat /\ i' >= 1
        /\ \/ pc' = pc /\ (pc = "write" => i' = i)
           \/ pc = "assign" /\ pc' = "sort" /\ job.sort
           \/ pc = "assign" /\ pc' = "hfs" /\ job.hfs
           \/ pc = "assign" /\ pc' = "inodes" /\ ~job.hfs
           \/ pc = "reassign" /\ pc' = "hfs" /\ job.hfs
           \/ pc = "reassign" /\ pc' = "inodes" /\ ~job.hfs
           \/ pc' = "aborted"
    <2>1. i \in Nat /\ i >= 1
      BY <1>0 DEF Kinds
    <2> QED  BY <2>1 DEF AssignKnown, AssignLinked, AssignEmpty, AssignedAll, Reassign, NumberFile,
               NumberEmpty, Abort, vars, NextEntry, Assigning, Numbering
  <1>4. /\ Origin' = Origin /\ Catalogs' = Catalogs /\ Bulk(list') = Bulk(list)
        /\ UpToNth(list', i - 1) = UpToNth(list, i - 1)
    BY <1>1 DEF Origin, Catalogs
  <1>5. Kinds'
    BY <1>0, <1>1, <1>2, <1>3 DEF Kinds
  <1>6. Queued'
    BY <1>1, <1>3 DEF EndInv, Queued
  <1>7. Tidy'
    BY <1>1 DEF EndInv, Tidy
  <1>8. Planned'
    <2>1. /\ Origin \in Int /\ Ahead > 0 /\ Bulk(list) \in Nat /\ job.session \in Nat
      <3>1. Room(list) \in Seq(Nat)
        <4>1. \A k \in 1 .. Len(list) : list[k] \in DWrite
          BY <1>0 DEF Kinds
        <4>2. \A d \in DWrite : d.size + d.pad \in Nat
          BY DEF DWrite
        <4>3. Len(list) \in Nat
          BY <1>0 DEF Kinds
        <4> QED  BY <4>1, <4>2, <4>3 DEF Room
      <3>2. Bulk(list) \in Nat
        BY <3>1, SumNat DEF Bulk
      <3> QED  BY <1>0, <3>2, JobFacts, LayoutAssumption DEF Origin
    <2>2. CASE pc' = pc /\ (pc = "write" => i' = i)
      BY <1>1, <1>4, <2>2 DEF EndInv, Planned
    <2>3. CASE pc \in {"assign", "reassign"} /\ pc' = "hfs" /\ job.hfs
      <3>1. last = Origin + Bulk(list) /\ hpad = 0 /\ tries = 0 /\ pos = Origin
        BY <2>3 DEF EndInv, Planned
      <3>2. last > job.session
        BY <2>1, <3>1, LayoutAssumption DEF Origin
      <3> QED  BY <1>1, <1>4, <2>3, <3>1, <3>2 DEF Planned
    <2>4. CASE pc \in {"assign", "reassign"} /\ pc' = "inodes" /\ ~job.hfs
      <3>1. last = Origin + Bulk(list) /\ hpad = 0 /\ tries = 0 /\ pos = Origin
        BY <2>4 DEF EndInv, Planned
      <3>2. last = Origin + 0 + Bulk(list) + 0 /\ Catalogs = 0
        BY <2>1, <2>4, <3>1 DEF Catalogs
      <3> QED  BY <1>1, <1>4, <2>4, <3>1, <3>2 DEF Planned
    <2>5. CASE pc = "assign" /\ pc' = "sort" /\ job.sort
      BY <1>1, <1>4, <2>5 DEF EndInv, Planned
    <2>6. CASE pc' = "aborted"
      BY <2>6 DEF Planned
    <2> QED  BY <1>3, <2>2, <2>3, <2>4, <2>5, <2>6
  <1> QED  BY <1>5, <1>6, <1>7, <1>8 DEF EndInv

\* The pass that writes advances by what the list says.
LEMMA EndWrite ==
    EndInv /\ (StartWriting \/ WriteFile \/ WritePadding \/ Finish) => EndInv'
  <1> SUFFICES ASSUME EndInv, StartWriting \/ WriteFile \/ WritePadding \/ Finish
               PROVE  EndInv'
    OBVIOUS
  <1>0. Kinds /\ Tidy /\ Planned
    BY DEF EndInv
  <1>1. UNCHANGED <<job, dir, weight, list, tail, hpad, tries>>
    BY DEF StartWriting, WriteFile, WritePadding, Finish, given, entries, deferred, volume
  <1>2. /\ list \in Seq(DWrite) /\ Len(list) \in Nat /\ i \in Nat /\ i >= 1 /\ pos \in Int
        /\ last \in Int /\ hpad \in Int
    BY <1>0 DEF Kinds
  <1>3. /\ Bulk(list) \in Int /\ UpToNth(list, 0) = 0 /\ UpToNth(list, Len(list)) = Bulk(list)
        /\ \A n \in 0 .. Len(list) : UpToNth(list, n) \in Int
        /\ \A n \in 1 .. Len(list) : UpToNth(list, n) = UpToNth(list, n - 1) + list[n].size + list[n].pad
    BY <1>2, RoomFacts
  <1>4. /\ Origin \in Int /\ Origin' = Origin /\ Catalogs' = Catalogs /\ Catalogs \in Int
        /\ EndPad \in Int
    <2>1. \A x, t \in Nat : x * t \in Int
      OBVIOUS
    <2>2. Extra \in Nat /\ tries \in Nat /\ EndPad \in Nat /\ Ahead \in Nat
      BY <1>0, LayoutAssumption DEF Kinds
    <2>3. Extra * tries \in Int
      BY <2>1, <2>2
    <2> HIDE DEF Kinds
    <2>4. job.session \in Nat
      BY <1>0, JobFacts
    <2> QED  BY <1>1, <2>2, <2>3, <2>4 DEF Origin, Catalogs
  <1>5. \A k \in 1 .. Len(list) : list[k].size \in Nat /\ list[k].pad \in Nat
    <2>1. \A k \in 1 .. Len(list) : list[k] \in DWrite
      BY <1>2
    <2> QED  BY <2>1 DEF DWrite
  <1>6. Queued' /\ Tidy'
    <2>1. pc' \in {"write", "done", "botch"}
      BY DEF StartWriting, WriteFile, WritePadding, Finish
    <2> QED  BY <1>0, <1>1, <2>1 DEF Queued, Tidy
  <1>7. CASE StartWriting
    <2>1. /\ pc = "inodes" /\ pc' = "write" /\ i' = 1 /\ pos' = pos + hpad
          /\ last' = last + (IF job.endpad THEN EndPad ELSE 0)
      BY <1>7 DEF StartWriting
    <2>2. last = Origin + hpad + Bulk(list) + Catalogs /\ pos = Origin
      BY <1>0, <2>1 DEF Planned
    <2>3. Kinds'
      BY <1>0, <1>1, <1>2, <1>4, <2>1 DEF Kinds
    <2>4. /\ last' = Origin' + hpad' + Bulk(list') + Catalogs' + IF job'.endpad THEN EndPad ELSE 0
      BY <1>1, <1>4, <2>1, <2>2
    <2>5. pos' = Origin' + hpad' + UpToNth(list', i' - 1)
      <3>1. i' - 1 = 0
        BY <2>1
      <3>2. UpToNth(list', i' - 1) = 0
        BY <1>1, <1>3, <3>1
      <3> QED  BY <1>1, <1>2, <1>4, <2>1, <2>2, <3>2
    <2>6. i' \in 1 .. Len(list') + 1
      BY <1>1, <1>2, <2>1
    <2>7. Planned'
      BY <2>1, <2>4, <2>5, <2>6 DEF Planned
    <2> QED  BY <1>6, <2>3, <2>7 DEF EndInv
  <1>8. CASE WriteFile \/ WritePadding
    <2>1. /\ pc = "write" /\ pc' = "write" /\ i <= Len(list) /\ i' = i + 1 /\ last' = last
          /\ \/ pos' = pos + list[i].size + IF job.hfs \/ job.dvd THEN list[i].pad ELSE 0
             \/ pos' = pos + list[i].size + list[i].pad
      BY <1>8 DEF WriteFile, WritePadding, Copied, deferred
    <2>2. i \in 1 .. Len(list) /\ i' \in 1 .. Len(list) + 1 /\ i' - 1 = i
      BY <1>2, <2>1
    <2>3. pos' = pos + list[i].size + list[i].pad
      BY <1>0, <2>1, <2>2 DEF Tidy
    <2>4. pos = Origin + hpad + UpToNth(list, i - 1)
      BY <1>0, <2>1 DEF Planned
    <2>5. pos' = Origin' + hpad' + UpToNth(list', i' - 1)
      <3>1. i - 1 \in 0 .. Len(list)
        BY <2>2
      <3>2. UpToNth(list, i - 1) \in Int
        BY <1>3, <3>1
      <3>3. UpToNth(list, i) = UpToNth(list, i - 1) + list[i].size + list[i].pad
        BY <1>3, <2>2
      <3>4. UpToNth(list', i' - 1) = UpToNth(list, i)
        BY <1>1, <2>2
      <3>5. \A o, h, u, s, p \in Int : o + h + u + s + p = o + h + (u + s + p)
        OBVIOUS
      <3>6. list[i].size \in Int /\ list[i].pad \in Int
        BY <1>5, <2>2
      <3>7. pos' = Origin + hpad + UpToNth(list, i)
        BY <1>2, <1>4, <2>3, <2>4, <3>2, <3>3, <3>5, <3>6
      <3> QED  BY <1>1, <1>4, <3>4, <3>7
    <2>6. pos' \in Int
      BY <1>2, <1>5, <2>2, <2>3
    <2>7. Kinds'
      BY <1>0, <1>1, <1>2, <2>1, <2>6 DEF Kinds
    <2>8. Planned'
      <3>1. last' = Origin' + hpad' + Bulk(list') + Catalogs' + IF job'.endpad THEN EndPad ELSE 0
        BY <1>0, <1>1, <1>4, <2>1 DEF Planned
      <3> QED  BY <1>1, <2>1, <2>2, <2>5, <3>1 DEF Planned
    <2> QED  BY <1>6, <2>7, <2>8 DEF EndInv
  <1>9. CASE Finish
    <2> DEFINE end == pos + (IF job.hfs THEN Extra * tries ELSE 0)
                          + (IF job.endpad THEN EndPad ELSE 0)
    <2>1. /\ pc = "write" /\ i > Len(list) /\ pos' = end /\ last' = last /\ i' = i
          /\ pc' = IF end = last THEN "done" ELSE "botch"
      BY <1>9 DEF Finish, deferred
    <2>2. /\ i - 1 = Len(list) /\ pos = Origin + hpad + UpToNth(list, i - 1)
          /\ last = Origin + hpad + Bulk(list) + Catalogs + IF job.endpad THEN EndPad ELSE 0
      BY <1>0, <1>2, <2>1 DEF Planned
    <2>3. pos = Origin + hpad + Bulk(list)
      BY <1>3, <2>2
    <2>4. end = last
      BY <2>2, <2>3 DEF Catalogs
    <2>5. pc' = "done" /\ pos' = last
      BY <2>1, <2>4
    <2> HIDE DEF end
    <2>6. Kinds'
      BY <1>0, <1>1, <1>2, <2>1, <2>5 DEF Kinds
    <2>7. Planned'
      BY <2>5 DEF Planned
    <2> QED  BY <1>6, <2>6, <2>7 DEF EndInv
  <1> QED  BY <1>7, <1>8, <1>9

\* No step takes them apart.
LEMMA EndNext == EndInv /\ FillsUpOnce /\ [Next]_vars => EndInv'
  <1> SUFFICES ASSUME EndInv, FillsUpOnce, [Next]_vars PROVE EndInv'
    OBVIOUS
  <1>1. CASE AssignNew
    BY <1>1, EndAssignNew
  <1>2. CASE Sort
    BY <1>2, EndSort
  <1>3. CASE Hfs
    BY <1>3, EndHfs
  <1>4. CASE \/ AssignKnown \/ AssignLinked \/ AssignEmpty \/ AssignedAll
             \/ Reassign \/ NumberFile \/ NumberEmpty \/ Abort \/ UNCHANGED vars
    BY <1>4, EndQuiet
  <1>5. CASE StartWriting \/ WriteFile \/ WritePadding \/ Finish
    BY <1>5, EndWrite
  <1> QED  BY <1>1, <1>2, <1>3, <1>4, <1>5 DEF Next, Done

\* The pass that writes ends where the pass that planned said ("FS should end
\* at ... but ends at ..."), whatever becomes of the files in between: for all
\* directories, weights and sizes, as long as a volume is filled up once only.
THEOREM EndsWherePlanned == Spec /\ []FillsUpOnce => []EndsAsPlanned
  <1>1. EndInv => EndsAsPlanned
    BY DEF EndInv, Planned, EndsAsPlanned
  <1> QED  BY <1>1, EndInit, EndNext, PTL DEF Spec

-----------------------------------------------------------------------------
(* The shape of the directory                                              *)

\* The first entry of the file an entry belongs to, and how many it has.
Begin(e) == StartOf(job.files, dir[e].f) + 1
Parts(e) == FileCount(job.files, dir[e].f)

Visible == {e \in 1 .. Len(dir) : ~Hidden(e)}

\* The entries a file shows.
Mine(e) == Begin(e) .. Begin(e) + Parts(e) - 1

\* An entry is a section of its file, or its root.
LEMMA EntryFacts ==
    ASSUME Kinds, NEW e \in 1 .. Len(dir)
    PROVE  /\ dir[e].f \in 1 .. Len(job.files) /\ File(e) = job.files[dir[e].f]
           /\ InSections(e) <=> Parts(e) > 1
           /\ Parts(e) \in Nat /\ Parts(e) >= 1 /\ Begin(e) \in Nat
           /\ e \in Visible =>
                 \E p \in 1 .. Parts(e) : /\ e = Begin(e) + p - 1
                                          /\ dir[e] = Section(job.files, dir[e].f, p)
           /\ e \notin Visible =>
                 /\ Hidden(e) /\ dir[e].f \in Multi(job.files) /\ Parts(e) > 1
                 /\ e = RootOf(job.files, dir[e].f) /\ dir[e] = TheRoot(job.files, dir[e].f)
  <1> DEFINE files == job.files
             f == dir[e].f
  <1>1. files \in Seq(Files) /\ dir = Entries(files) /\ f \in 1 .. Len(files)
    BY JobFacts DEF Kinds
  <1>2. File(e) = files[f] /\ (InSections(e) <=> Parts(e) > 1)
    BY DEF File, InSections, MultiExtent, Parts, FileCount
  <1>3. Parts(e) \in Nat /\ Parts(e) >= 1
    BY <1>1, FileEntries DEF Parts
  <1>4. \A g \in 1 .. Len(files) : \A p : Section(files, g, p).f = g
    BY DEF Section
  <1>5. \A g : TheRoot(files, g).f = g /\ TheRoot(files, g).part = 0
    BY DEF TheRoot
  <1>6. /\ \A g \in 1 .. Len(files) : /\ StartOf(files, g) \in Nat
                                      /\ \A p \in 1 .. FileCount(files, g) :
                                            dir[StartOf(files, g) + p] = Section(files, g, p)
        /\ \A g \in Multi(files) : dir[RootOf(files, g)] = TheRoot(files, g)
        /\ \/ \E g \in 1 .. Len(files) : \E p \in 1 .. FileCount(files, g) : e = StartOf(files, g) + p
           \/ \E g \in Multi(files) : e = RootOf(files, g)
    BY <1>1, Directory
  <1>7. Begin(e) \in Nat
    BY <1>1, <1>6 DEF Begin
  <1>8. CASE \E g \in 1 .. Len(files) : \E p \in 1 .. FileCount(files, g) : e = StartOf(files, g) + p
    <2>1. PICK g \in 1 .. Len(files) : \E p \in 1 .. FileCount(files, g) : e = StartOf(files, g) + p
      BY <1>8
    <2>2. PICK p \in 1 .. FileCount(files, g) : e = StartOf(files, g) + p
      BY <2>1
    <2>3. dir[e] = Section(files, g, p) /\ f = g
      BY <1>4, <1>6, <2>2
    <2>4. p \in 1 .. Parts(e) /\ e = Begin(e) + p - 1 /\ dir[e] = Section(files, f, p)
      BY <1>3, <1>6, <2>2, <2>3 DEF Parts, Begin
    <2>5. e \in Visible
      <3>1. Parts(e) > 1 => dir[e].part = p
        BY <2>3 DEF Section, Parts, FileCount
      <3>2. ~Hidden(e)
        BY <1>2, <1>3, <2>4, <3>1 DEF Hidden
      <3> QED  BY <3>2 DEF Visible
    <2> QED  BY <1>1, <1>2, <1>3, <1>7, <2>4, <2>5
  <1>9. CASE \E g \in Multi(files) : e = RootOf(files, g)
    <2>1. PICK g \in Multi(files) : e = RootOf(files, g)
      BY <1>9
    <2>2. dir[e] = TheRoot(files, g) /\ f = g /\ f \in Multi(files) /\ dir[e].part = 0
      BY <1>5, <1>6, <2>1
    <2>3. Parts(e) > 1
      BY <2>2 DEF Multi, Parts
    <2>4. Hidden(e) /\ e \notin Visible
      BY <1>2, <2>2, <2>3 DEF Hidden, Visible
    <2> QED  BY <1>1, <1>2, <1>3, <1>7, <2>1, <2>2, <2>3, <2>4
  <1> QED  BY <1>6, <1>8, <1>9

\* The entries a file shows follow each other.
LEMMA MineFacts ==
    ASSUME Kinds, NEW e \in Visible
    PROVE  /\ e \in Mine(e) /\ Begin(e) \in Mine(e) /\ Mine(e) \subseteq Visible
           /\ Begin(e) + Parts(e) - 1 \in Mine(e)
           /\ \A t \in Mine(e) : /\ dir[t].f = dir[e].f /\ Begin(t) = Begin(e)
                                 /\ Parts(t) = Parts(e) /\ File(t) = File(e) /\ Mine(t) = Mine(e)
                                 /\ dir[t] = Section(job.files, dir[e].f, t - Begin(e) + 1)
           /\ \A t \in Visible : dir[t].f = dir[e].f => t \in Mine(e)
  <1> DEFINE files == job.files
             f == dir[e].f
  <1>0. e \in 1 .. Len(dir)
    BY DEF Visible
  <1>1. /\ files \in Seq(Files) /\ dir = Entries(files) /\ f \in 1 .. Len(files)
        /\ Parts(e) \in Nat /\ Parts(e) >= 1 /\ Begin(e) \in Nat
    BY <1>0, EntryFacts, JobFacts DEF Kinds
  <1>2. PICK p \in 1 .. Parts(e) : e = Begin(e) + p - 1
    BY <1>0, EntryFacts
  <1>3. e \in Mine(e) /\ Begin(e) \in Mine(e) /\ Begin(e) + Parts(e) - 1 \in Mine(e)
    BY <1>1, <1>2 DEF Mine
  <1>4. ASSUME NEW t \in Mine(e)
        PROVE  t \in Visible /\ dir[t].f = f /\ dir[t] = Section(files, f, t - Begin(e) + 1)
    <2> DEFINE q == t - Begin(e) + 1
    <2>1. q \in 1 .. Parts(e) /\ StartOf(files, f) + q = t
      <3>1. StartOf(files, f) \in Nat
        BY <1>1, Directory
      <3> QED  BY <1>1, <3>1 DEF Mine, Begin
    <2> HIDE DEF q
    <2>2. t \in 1 .. Len(dir) /\ dir[t] = Section(files, f, q)
      BY <1>1, <2>1, Directory DEF Parts
    <2>3. dir[t].f = f
      BY <2>2 DEF Section
    <2>4. t \in Visible
      <3>1. Parts(e) > 1 => dir[t].part = q
        BY <2>2 DEF Section, Parts, FileCount
      <3>2. Parts(t) = Parts(e)
        BY <2>3 DEF Parts
      <3>3. InSections(t) <=> Parts(t) > 1
        BY <2>2, EntryFacts
      <3>4. ~Hidden(t)
        BY <2>1, <3>1, <3>2, <3>3 DEF Hidden
      <3> QED  BY <2>2, <3>4 DEF Visible
    <2> QED  BY <2>2, <2>3, <2>4 DEF q
  <1>5. \A t : dir[t].f = f => /\ Begin(t) = Begin(e) /\ Parts(t) = Parts(e) /\ File(t) = File(e)
                               /\ Mine(t) = Mine(e)
    BY DEF Begin, Parts, File, Mine
  <1>6. ASSUME NEW t \in Visible, dir[t].f = f PROVE t \in Mine(e)
    <2>1. \E q \in 1 .. Parts(t) : t = Begin(t) + q - 1
      BY EntryFacts DEF Visible
    <2>2. \E q \in 1 .. Parts(e) : t = Begin(e) + q - 1
      BY <1>5, <1>6, <2>1
    <2> QED  BY <1>1, <2>2 DEF Mine
  <1> QED  BY <1>3, <1>4, <1>5, <1>6

\* The offsets add up to the file.
LEMMA OffsetFacts ==
    ASSUME Kinds, NEW e \in Visible
    PROVE  /\ dir[e].off \in Nat /\ dir[e].size \in Nat /\ File(e).size \in Nat
           /\ dir[Begin(e)].off = 0
           /\ dir[e].off + dir[e].size <= File(e).size
           /\ e + 1 \in Mine(e) => dir[e + 1].off = dir[e].off + dir[e].size
           /\ e = Begin(e) + Parts(e) - 1 => dir[e].off + dir[e].size = File(e).size
           /\ File(e).size > 0 => dir[e].size > 0
           /\ Parts(e) = 1 => dir[e].off = 0 /\ dir[e].size = File(e).size
  <1> DEFINE files == job.files
             f == dir[e].f
             size == File(e).size
             n == Sections(size)
             q == e - Begin(e) + 1
             o == (q - 1) * Large
             r == (n - 1) * Large
  <1>1. /\ f \in 1 .. Len(files) /\ File(e) = files[f] /\ size \in Nat /\ Large \in Nat /\ Large > 0
        /\ Begin(e) \in Nat /\ Parts(e) = n /\ n \in Nat /\ n >= 1 /\ e \in Nat
    <2>1. e \in 1 .. Len(dir)
      BY DEF Visible
    <2>2. f \in 1 .. Len(files) /\ File(e) = files[f] /\ size \in Nat /\ e \in Nat
      BY <2>1, EntryFacts, JobFacts
    <2>3. Begin(e) \in Nat /\ Parts(e) \in Nat /\ Parts(e) >= 1
      BY <2>1, EntryFacts
    <2>4. Parts(e) = n
      BY <2>2 DEF Parts, FileCount
    <2>5. Large \in Nat /\ Large > 0
      BY LayoutAssumption
    <2> QED  BY <2>2, <2>3, <2>4, <2>5
  <1>2. /\ e \in Mine(e) /\ q \in 1 .. n
        /\ \A t \in Mine(e) : dir[t] = Section(files, f, t - Begin(e) + 1)
        /\ Begin(e) \in Mine(e)
    <2>1. e \in Mine(e) /\ Begin(e) \in Mine(e)
          /\ \A t \in Mine(e) : dir[t] = Section(files, f, t - Begin(e) + 1)
      BY MineFacts
    <2> HIDE DEF n, f
    <2> QED  BY <1>1, <2>1 DEF Mine
  <1>3. dir[e] = Section(files, f, q) /\ dir[Begin(e)] = Section(files, f, 1)
    <2>1. Begin(e) - Begin(e) + 1 = 1
      BY <1>1
    <2> QED  BY <1>2, <2>1
  <1>4. \A p : /\ Section(files, f, p).off = IF n = 1 THEN 0 ELSE (p - 1) * Large
               /\ Section(files, f, p).size = IF n = 1 THEN size
                                              ELSE IF p < n THEN Large ELSE size - r
    BY <1>1 DEF Section
  <1>5. /\ \A m \in 1 .. n : (m - 1) * Large \in Nat /\ m * Large = (m - 1) * Large + Large
        /\ \A m \in 1 .. n - 1 : (m - 1) * Large + Large <= size
        /\ n > 1 => size - r > 1
    BY <1>1, SectionsFacts
  <1>6. o \in Nat /\ r \in Nat /\ (q < n => o + Large <= size)
    <2>1. n \in 1 .. n /\ (q < n => q \in 1 .. n - 1)
      BY <1>1, <1>2
    <2> QED  BY <1>2, <1>5, <2>1
  <1>7. q = n => o = r
    BY <1>2
  <1>8. (1 - 1) * Large = 0
    BY <1>1
  <1>9. dir[Begin(e)].off = 0
    BY <1>3, <1>4, <1>8
  <1>10. /\ dir[e].off = IF n = 1 THEN 0 ELSE o
         /\ dir[e].size = IF n = 1 THEN size ELSE IF q < n THEN Large ELSE size - r
    BY <1>3, <1>4
  <1>11. e + 1 \in Mine(e) => n > 1 /\ q < n /\ dir[e + 1].off = o + Large
    <2> SUFFICES ASSUME e + 1 \in Mine(e) PROVE n > 1 /\ q < n /\ dir[e + 1].off = o + Large
      OBVIOUS
    <2>1. (e + 1) - Begin(e) + 1 = q + 1 /\ q + 1 <= n /\ n > 1 /\ (q + 1) - 1 = q
      <3> HIDE DEF n
      <3> QED  BY <1>1, <1>2 DEF Mine
    <2>2. dir[e + 1] = Section(files, f, q + 1)
      BY <1>2, <2>1, Zenon
    <2>3. dir[e + 1].off = ((q + 1) - 1) * Large
      BY <1>4, <2>1, <2>2
    <2>4. ((q + 1) - 1) * Large = q * Large /\ q * Large = o + Large
      BY <1>2, <1>5, <2>1
    <2>5. q < n
      <3> HIDE DEF n, q
      <3> QED  BY <1>1, <1>2, <2>1
    <2> QED  BY <2>1, <2>3, <2>4, <2>5
  <1>12. e = Begin(e) + Parts(e) - 1 => q = n
    <2> HIDE DEF n
    <2> QED  BY <1>1
  <1>13. n = 1 => q = n
    <2> HIDE DEF n
    <2> QED  BY <1>1, <1>2
  <1> HIDE DEF o, r, n, q, size
  <1>14. \/ n = 1 /\ dir[e].off = 0 /\ dir[e].size = size
         \/ n > 1 /\ q < n /\ dir[e].off = o /\ dir[e].size = Large /\ o + Large <= size
         \/ n > 1 /\ q = n /\ dir[e].off = r /\ dir[e].size = size - r /\ size - r > 1
    <2>1. n > 1 => size - r > 1
      BY <1>5
    <2>2. q <= n /\ q \in Nat /\ n \in Nat /\ n >= 1
      BY <1>1, <1>2
    <2>3. CASE n = 1
      BY <1>10, <2>3
    <2>4. CASE n > 1 /\ q < n
      BY <1>6, <1>10, <2>4
    <2>5. CASE n > 1 /\ q = n
      BY <1>7, <1>10, <2>1, <2>2, <2>5
    <2> QED  BY <2>2, <2>3, <2>4, <2>5
  <1>15. /\ dir[e].off \in Nat /\ dir[e].size \in Nat /\ size \in Nat
         /\ dir[e].off + dir[e].size <= size
         /\ size > 0 => dir[e].size > 0
    <2>1. size \in Nat /\ Large \in Nat /\ Large > 0 /\ o \in Nat /\ r \in Nat
      BY <1>1, <1>6
    <2>2. CASE dir[e].off = 0 /\ dir[e].size = size
      BY <2>1, <2>2
    <2>3. CASE dir[e].off = o /\ dir[e].size = Large /\ o + Large <= size
      BY <2>1, <2>3
    <2>4. CASE dir[e].off = r /\ dir[e].size = size - r /\ size - r > 1
      BY <2>1, <2>4
    <2> QED  BY <1>14, <2>2, <2>3, <2>4
  <1>16. e + 1 \in Mine(e) => dir[e + 1].off = dir[e].off + dir[e].size
    <2>1. q \in Nat /\ n \in Nat
      BY <1>1, <1>2
    <2>2. q < n => ~(q = n)
      BY <2>1
    <2> QED  BY <1>11, <1>14, <2>2
  <1>17. q = n => dir[e].off + dir[e].size = size
    BY <1>1, <1>6, <1>14
  <1>18. n = 1 => dir[e].off = 0 /\ dir[e].size = size
    BY <1>14
  <1>19. size = File(e).size /\ Parts(e) = n
    BY <1>1 DEF size
  <1> QED  BY <1>9, <1>12, <1>15, <1>16, <1>17, <1>18, <1>19

\* Roots.
LEMMA RootFacts ==
    ASSUME Kinds, NEW e \in 1 .. Len(dir)
    PROVE  /\ InSections(e) => /\ Root(e) \in 1 .. Len(dir) /\ Root(e) \notin Visible
                               /\ dir[Root(e)].f = dir[e].f
           /\ e \notin Visible => InSections(e) /\ Root(e) = e
                                  /\ \A v \in Visible : v < e
  <1> DEFINE files == job.files
             f == dir[e].f
  <1>1. files \in Seq(Files) /\ dir = Entries(files) /\ f \in 1 .. Len(files)
    BY JobFacts DEF Kinds
  <1>2. InSections(e) => RootOf(files, f) \in 1 .. Len(dir) /\ Hidden(RootOf(files, f))
                         /\ dir[RootOf(files, f)].f = f
    <2> SUFFICES ASSUME InSections(e)
                 PROVE  RootOf(files, f) \in 1 .. Len(dir) /\ Hidden(RootOf(files, f))
                        /\ dir[RootOf(files, f)].f = f
      OBVIOUS
    <2>1. f \in Multi(files)
      BY <1>1, EntryFacts DEF Multi, Parts
    <2> DEFINE r == RootOf(files, f)
    <2>2. r \in 1 .. Len(dir) /\ dir[r] = TheRoot(files, f)
      BY <1>1, <2>1, Directory
    <2>3. dir[r].f = f /\ dir[r].part = 0
      BY <2>2 DEF TheRoot
    <2>4. InSections(r)
      BY <2>3 DEF InSections, File
    <2> QED  BY <2>2, <2>3, <2>4 DEF Hidden
  <1>3. InSections(e) => Root(e) \in 1 .. Len(dir) /\ Hidden(Root(e)) /\ dir[Root(e)].f = f
    BY <1>2 DEF Root
  <1>4. \A r \in 1 .. Len(dir) : Hidden(r) => r = RootOf(files, dir[r].f)
    BY EntryFacts DEF Visible
  <1>5. e \notin Visible => InSections(e) /\ Root(e) = e
    BY <1>3, <1>4 DEF Visible, Hidden
  <1>6. e \notin Visible => \A v \in Visible : v < e
    <2> SUFFICES ASSUME e \notin Visible, NEW v \in Visible PROVE v < e
      OBVIOUS
    <2>1. e = RootOf(files, f) /\ f \in Multi(files)
      BY EntryFacts
    <2>2. /\ v \in 1 .. Len(dir) /\ dir[v].f \in 1 .. Len(files) /\ Parts(v) \in Nat
          /\ Begin(v) \in Nat
          /\ \E p \in 1 .. Parts(v) : v = Begin(v) + p - 1
      BY EntryFacts DEF Visible
    <2>3. StartOf(files, dir[v].f) + FileCount(files, dir[v].f) < RootOf(files, f)
          /\ StartOf(files, dir[v].f) \in Nat
      BY <1>1, <2>1, <2>2, Directory
    <2>4. Begin(v) = StartOf(files, dir[v].f) + 1 /\ Parts(v) = FileCount(files, dir[v].f)
      BY DEF Begin, Parts
    <2> QED  BY <2>1, <2>2, <2>3, <2>4
  <1> QED  BY <1>3, <1>5, <1>6 DEF Visible

\* The sections from an entry on.
LEMMA RunFacts ==
    ASSUME Kinds, NEW e \in Visible
    PROVE  /\ Run(e) \subseteq 1 .. Len(dir) /\ e \in Run(e)
           /\ \A t \in Run(e) : t >= e /\ dir[t].f = dir[e].f
           /\ \A t \in Mine(e) : t >= e => t \in Run(e)
           /\ dir[e].f < Len(job.files) => Run(e) = e .. Begin(e) + Parts(e) - 1
  <1> DEFINE files == job.files
             f == dir[e].f
             z == Begin(e) + Parts(e)
  <1>1. /\ e \in 1 .. Len(dir) /\ Begin(e) \in Nat /\ Parts(e) \in Nat /\ Parts(e) >= 1
        /\ f \in 1 .. Len(files) /\ e \in Mine(e) /\ Len(dir) \in Nat
    <2>1. e \in 1 .. Len(dir)
      BY DEF Visible
    <2> QED  BY <2>1, EntryFacts, MineFacts, JobFacts
  <1>2. Run(e) \subseteq 1 .. Len(dir) /\ \A t \in Run(e) : t >= e /\ dir[t].f = f /\ t \in Int
    BY <1>1 DEF Run
  <1>3. \A t \in Mine(e) : t >= e => t \in Run(e)
    <2> SUFFICES ASSUME NEW t \in Mine(e), t >= e PROVE t \in Run(e)
      OBVIOUS
    <2>1. t \in 1 .. Len(dir)
      BY MineFacts DEF Visible
    <2>2. \A s \in e .. t : s \in Mine(e)
      BY <1>1 DEF Mine
    <2>3. \A s \in e .. t : dir[s].f = f
      BY <2>2, MineFacts
    <2> QED  BY <1>1, <2>1, <2>3 DEF Run
  <1>4. e \in Run(e)
    BY <1>1, <1>3
  <1>5. ASSUME f < Len(files), z \in 1 .. Len(dir) PROVE dir[z].f # f
    <2>1. f + 1 \in 1 .. Len(files)
      BY <1>1, <1>5
    <2> DEFINE y == StartOf(files, f + 1) + 1
    <2>2. /\ files \in Seq(Files) /\ dir = Entries(files)
      BY JobFacts DEF Kinds
    <2>3. 1 \in 1 .. FileCount(files, f + 1)
      BY <2>1, <2>2, FileEntries
    <2>4. /\ y \in 1 .. Len(dir) /\ dir[y] = Section(files, f + 1, 1)
          /\ StartOf(files, f) + FileCount(files, f) <= StartOf(files, f + 1)
          /\ StartOf(files, f) \in Nat /\ StartOf(files, f + 1) \in Nat
      <3>1. /\ \A g \in 1 .. Len(files) :
                  /\ StartOf(files, g) \in Nat
                  /\ \A p \in 1 .. FileCount(files, g) :
                        /\ StartOf(files, g) + p \in 1 .. Len(dir)
                        /\ dir[StartOf(files, g) + p] = Section(files, g, p)
            /\ \A g, h \in 1 .. Len(files) :
                  g < h => StartOf(files, g) + FileCount(files, g) <= StartOf(files, h)
        BY <2>2, Directory
      <3>2. f \in 1 .. Len(files) /\ f < f + 1
        BY <1>1
      <3> QED  BY <2>1, <2>3, <3>1, <3>2
    <2>5. z <= y
      BY <1>1, <2>4 DEF Begin, Parts
    <2>6. y \in Visible
      <3>1. dir[y].f = f + 1 /\ (FileCount(files, f + 1) > 1 => dir[y].part = 1)
        BY <2>4 DEF Section, FileCount
      <3>2. InSections(y) <=> FileCount(files, f + 1) > 1
        BY <2>4, <3>1, EntryFacts DEF Parts
      <3> QED  BY <2>4, <3>1, <3>2 DEF Visible, Hidden
    <2>7. z \in Visible
      <3> SUFFICES ASSUME z \notin Visible PROVE FALSE
        OBVIOUS
      <3>1. y < z
        BY <1>5, <2>6, RootFacts
      <3> QED  BY <1>1, <2>4, <2>5, <3>1
    <2>8. z \notin Mine(e)
      BY <1>1 DEF Mine
    <2> QED  BY <2>7, <2>8, MineFacts
  <1>6. ASSUME f < Len(files) PROVE Run(e) = e .. z - 1
    <2>1. ASSUME NEW t \in Run(e) PROVE t \in e .. z - 1
      <3> SUFFICES ASSUME t >= z PROVE FALSE
        BY <1>1, <1>2
      <3>1. z \in e .. t /\ z \in 1 .. Len(dir)
        BY <1>1, <1>2 DEF Mine
      <3>2. dir[z].f = f
        <4>1. dir[z].f = dir[e].f
          BY <3>1 DEF Run
        <4> QED  BY <4>1
      <3> QED  BY <1>5, <1>6, <3>1, <3>2
    <2>2. ASSUME NEW t \in e .. z - 1 PROVE t \in Run(e)
      <3>1. t \in Mine(e) /\ t >= e
        BY <1>1 DEF Mine
      <3> QED  BY <1>3, <3>1
    <2> QED  BY <2>1, <2>2
  <1>7. dir[e].f < Len(job.files) => Run(e) = e .. Begin(e) + Parts(e) - 1
    <2>1. z - 1 = Begin(e) + Parts(e) - 1
      BY <1>1
    <2> HIDE DEF z
    <2> QED  BY <1>6, <2>1
  <1> QED  BY <1>2, <1>3, <1>4, <1>7, Zenon

\* What the sections before one take is its offset.
LEMMA BeforeFacts ==
    ASSUME Kinds, NEW e \in Visible
    PROVE  /\ \A t \in Mine(e) : t >= e => Before(e, t) = dir[t].off - dir[e].off
           /\ dir[e].f < Len(job.files) => Blocks(Run(Begin(e))) = File(e).size
  <1> DEFINE T(x) == {n \in Nat : x + n \in Mine(x) =>
                          Blocks(x .. x + n - 1) = dir[x + n].off - dir[x].off}
  <1>1. \A x \in Visible : /\ x \in Nat /\ Mine(x) \subseteq Visible /\ x \in Mine(x)
                           /\ \A t \in Mine(x) : t \in Nat /\ t \in 1 .. Len(dir)
                           /\ \A t \in Mine(x) : Mine(t) = Mine(x)
                           /\ Begin(x) \in Nat /\ Parts(x) \in Nat /\ Parts(x) >= 1
                           /\ Begin(x) \in Mine(x) /\ Begin(x) + Parts(x) - 1 \in Mine(x)
    <2> SUFFICES ASSUME NEW x \in Visible
                 PROVE  /\ x \in Nat /\ Mine(x) \subseteq Visible /\ x \in Mine(x)
                        /\ \A t \in Mine(x) : t \in Nat /\ t \in 1 .. Len(dir)
                        /\ \A t \in Mine(x) : Mine(t) = Mine(x)
                        /\ Begin(x) \in Nat /\ Parts(x) \in Nat /\ Parts(x) >= 1
                        /\ Begin(x) \in Mine(x) /\ Begin(x) + Parts(x) - 1 \in Mine(x)
      OBVIOUS
    <2>1. x \in 1 .. Len(dir) /\ \A y \in Visible : y \in 1 .. Len(dir) /\ y \in Nat
      BY DEF Visible
    <2>2. /\ Mine(x) \subseteq Visible /\ x \in Mine(x) /\ \A t \in Mine(x) : Mine(t) = Mine(x)
          /\ Begin(x) \in Mine(x) /\ Begin(x) + Parts(x) - 1 \in Mine(x)
      BY MineFacts
    <2>3. Begin(x) \in Nat /\ Parts(x) \in Nat /\ Parts(x) >= 1
      BY <2>1, EntryFacts
    <2> QED  BY <2>1, <2>2, <2>3
  <1>2. ASSUME NEW x \in Visible PROVE Nat \subseteq T(x)
    <2> DEFINE M == Mine(x)
    <2>a. /\ x \in Nat /\ M \subseteq Visible /\ x \in M /\ \A t \in M : Mine(t) = M
          /\ \A t \in M : t \in Nat /\ t \in 1 .. Len(dir)
      BY <1>1
    <2>b. \A t \in M : \A s \in x .. t : s \in M
      <3>1. Begin(x) \in Nat /\ Parts(x) \in Nat
        BY <1>1
      <3> QED  BY <2>a, <3>1 DEF Mine
    <2> HIDE DEF M
    <2>1. 0 \in T(x)
      <3>1. x .. x + 0 - 1 = {} /\ x + 0 = x
        BY <2>a
      <3>2. Blocks({}) = 0
        BY BlocksFacts
      <3>3. dir[x].off \in Nat
        BY OffsetFacts
      <3>4. dir[x + 0].off - dir[x].off = 0
        BY <3>1, <3>3
      <3>5. Blocks(x .. x + 0 - 1) = 0
        BY <3>1, <3>2
      <3> QED  BY <3>4, <3>5
    <2>2. ASSUME NEW n \in Nat, n \in T(x) PROVE n + 1 \in T(x)
      <3> SUFFICES ASSUME x + (n + 1) \in Mine(x)
                   PROVE  Blocks(x .. x + (n + 1) - 1) = dir[x + (n + 1)].off - dir[x].off
        OBVIOUS
      <3>1. x + n \in Mine(x) /\ x + n \in Nat /\ x \in Nat /\ x + (n + 1) = (x + n) + 1
            /\ x + (n + 1) - 1 = x + n /\ x .. x + n \subseteq M
        <4>1. x + (n + 1) \in M
          BY DEF M
        <4>2. x + n \in x .. x + (n + 1) /\ x .. x + n \subseteq x .. x + (n + 1)
          BY <2>a
        <4>3. x + n \in M /\ x .. x + n \subseteq M
          BY <2>b, <4>1, <4>2
        <4>4. x + (n + 1) = (x + n) + 1 /\ x + (n + 1) - 1 = x + n
          BY <2>a
        <4> QED  BY <2>a, <4>3, <4>4 DEF M
      <3>2. Blocks(x .. x + n - 1) = dir[x + n].off - dir[x].off
        BY <2>2, <3>1
      <3> DEFINE S == x .. x + n
      <3>3. S \subseteq 1 .. Len(dir) /\ x + n \in S /\ S \ {x + n} = x .. x + n - 1
        <4>1. S \subseteq 1 .. Len(dir)
          BY <2>a, <3>1
        <4>2. \A a \in Nat : a + n \in a .. a + n /\ (a .. a + n) \ {a + n} = a .. a + n - 1
          OBVIOUS
        <4> QED  BY <2>a, <4>1, <4>2
      <3>4. Blocks(S) = dir[x + n].size + Blocks(S \ {x + n})
        <4> HIDE DEF S
        <4> QED  BY <3>3, BlocksFacts
      <3>5. x + n \in Visible /\ (x + n) + 1 \in Mine(x + n) /\ x \in Visible
        BY <2>a, <3>1 DEF M
      <3>6. /\ dir[(x + n) + 1].off = dir[x + n].off + dir[x + n].size
            /\ dir[x + n].off \in Nat /\ dir[x + n].size \in Nat /\ dir[x].off \in Nat
        BY <3>5, OffsetFacts
      <3>7. dir[x + (n + 1)].off = dir[x + n].off + dir[x + n].size
        BY <3>1, <3>6
      <3>8. Blocks(S) = dir[x + n].size + (dir[x + n].off - dir[x].off)
        BY <3>2, <3>3, <3>4
      <3>9. Blocks(x .. x + (n + 1) - 1) = Blocks(S)
        BY <3>1
      <3> HIDE DEF S
      <3> QED  BY <3>6, <3>7, <3>8, <3>9
    <2> HIDE DEF T
    <2> QED  BY <2>1, <2>2, NatInduct
  <1>3. ASSUME NEW x \in Visible, NEW t \in Mine(x), t >= x
        PROVE  Before(x, t) = dir[t].off - dir[x].off
    <2> DEFINE n == t - x
    <2>1. n \in Nat /\ x + n = t
      <3>1. x \in Nat /\ t \in Nat
        BY <1>1
      <3> QED  BY <1>3, <3>1
    <2> HIDE DEF n
    <2>2. n \in T(x)
      <3> HIDE DEF T
      <3> QED  BY <1>2, <2>1
    <2>3. Blocks(x .. x + n - 1) = dir[x + n].off - dir[x].off
      <3>1. x + n \in Mine(x)
        BY <2>1
      <3> QED  BY <2>2, <3>1
    <2>4. (x + n) - 1 = x + n - 1
      <3>1. x \in Nat
        BY <1>1
      <3> QED  BY <2>1, <3>1
    <2>5. Before(x, x + n) = Blocks(x .. (x + n) - 1)
      BY DEF Before
    <2> QED  BY <2>1, <2>3, <2>4, <2>5, Zenon
  <1>4. ASSUME dir[e].f < Len(job.files) PROVE Blocks(Run(Begin(e))) = File(e).size
    <2> DEFINE x == Begin(e)
               z == Begin(e) + Parts(e) - 1
    <2>1. /\ x \in Mine(e) /\ z \in Mine(e) /\ x \in Nat /\ z \in Nat /\ x <= z
          /\ x \in Visible /\ z \in Visible /\ z \in Mine(x)
      BY <1>1, MineFacts
    <2>2. /\ dir[x].f = dir[e].f /\ Begin(x) = x /\ Parts(x) = Parts(e) /\ File(z) = File(e)
          /\ Begin(z) = x /\ Parts(z) = Parts(e)
      BY <2>1, MineFacts
    <2>3. Run(x) = x .. z
      BY <1>4, <2>1, <2>2, RunFacts
    <2> HIDE DEF x
    <2>4. Before(x, z) = dir[z].off - dir[x].off
      BY <1>3, <2>1
    <2>5. dir[x].off = 0 /\ dir[z].off \in Nat /\ dir[z].size \in Nat
          /\ dir[z].off + dir[z].size = File(e).size
      <3>1. z = Begin(z) + Parts(z) - 1
        BY <2>2 DEF x
      <3> HIDE DEF z
      <3>2. dir[Begin(x)].off = 0
        BY <2>1, OffsetFacts
      <3> QED  BY <2>1, <2>2, <3>1, <3>2, OffsetFacts
    <2> HIDE DEF z
    <2>6. x .. z \subseteq 1 .. Len(dir) /\ z \in x .. z /\ (x .. z) \ {z} = x .. z - 1
      <3>1. x \in 1 .. Len(dir) /\ z \in 1 .. Len(dir)
        BY <2>1 DEF Visible
      <3>2. \A a, b, n \in Nat : a <= b /\ a \in 1 .. n /\ b \in 1 .. n =>
                a .. b \subseteq 1 .. n /\ b \in a .. b /\ (a .. b) \ {b} = a .. b - 1
        OBVIOUS
      <3>3. Len(dir) \in Nat
        BY JobFacts
      <3> QED  BY <2>1, <3>1, <3>2, <3>3
    <2>7. Blocks(x .. z) = dir[z].size + Blocks(x .. z - 1)
      BY <2>6, BlocksFacts
    <2>8. Blocks(x .. z - 1) = dir[z].off - dir[x].off
      BY <2>4 DEF Before
    <2>9. Blocks(Run(x)) = dir[z].size + (dir[z].off - dir[x].off)
      BY <2>3, <2>7, <2>8
    <2> QED  BY <2>5, <2>9 DEF x
  <1> QED  BY <1>3, <1>4

-----------------------------------------------------------------------------
(* Every file is where its directory record says                           *)

\* What the layout is meant for.  A sorted directory has no file in sections at
\* its end and none with a second name, and on a Macintosh volume no file is in
\* sections and a file the Macintosh sees has one name.
Supported ==
    /\ job.sort =>
          \A f \in 1 .. Len(job.files) : MultiExtent(job.files[f]) =>
              /\ f < Len(job.files)
              /\ \A g \in 1 .. Len(job.files) : g # f => job.files[g].ino # job.files[f].ino
    /\ job.hfs =>
          \A f \in 1 .. Len(job.files) :
              /\ ~MultiExtent(job.files[f])
              /\ job.files[f].kind = "mac" =>
                    \A g \in 1 .. Len(job.files) : g # f => job.files[g].ino # job.files[f].ino

\* The elements of the list that are files, and two names of one file.
Elems == {k \in 1 .. Len(list) : list[k].e # 0}
Twin(d, e) == Cached(d) /\ Cached(e) /\ File(d).ino = File(e).ino
Earlier(e) == File(e).prev > 0

\* A file is in the list once, with its first entry and in its full size.
Listed ==
    /\ pc \in {"assign", "sort", "reassign", "hfs"} => Elems = 1 .. Len(list)
    /\ pc \in {"assign", "sort"} /\ ~job.dvd => \A k \in 1 .. Len(list) : list[k].pad = 0
    /\ \A k \in Elems : /\ list[k].e \in Visible /\ dir[list[k].e].off = 0
                        /\ list[k].size = File(list[k].e).size /\ list[k].size > 0
                        /\ File(list[k].e).prev = 0
    /\ \A j, k \in Elems :
          dir[list[j].e].f = dir[list[k].e].f \/ Twin(list[j].e, list[k].e) => j = k

\* The elements follow each other, each behind what the one before takes.
From(base) == \A k \in 1 .. Len(list) : list[k].ext = base + UpToNth(list, k - 1)

Followed ==
    /\ pc \in {"assign", "sort", "reassign"} => From(Origin)
    /\ pc = "hfs" =>
          \/ From(Origin)
          \/ last - job.session >= MinVol /\ last - job.session + Extra * tries > BigVol
    /\ pc \in {"inodes", "write", "done"} => From(Origin + hpad)
    /\ hpad >= 0

\* The sections of a file get their extents together, with the first of them.
Entered ==
    pc = "assign" =>
        /\ \A e \in 1 .. Len(dir) : e < i => ext[e] # 0
        /\ \A e, d \in Visible : dir[e].f = dir[d].f /\ ext[e] = 0 => ext[d] = 0
        /\ \A r \in (1 .. Len(dir)) \ Visible : ext[r] = 0 =>
              Hit(r) \/ \A v \in Visible : dir[v].f = dir[r].f => ext[v] = 0
        /\ \A k \in Elems : ext[list[k].e] # 0

\* The cache of hard links knows where the elements are; after sorting only
\* where those are that have no sections.
Hashed ==
    /\ pc \in {"assign", "sort"} =>
          /\ \A n \in DOMAIN hash : \E k \in Elems :
                /\ Cached(list[k].e) /\ File(list[k].e).ino = n
                /\ hash[n] = [start |-> list[k].ext, of |-> list[k].e]
          /\ \A k \in Elems : Cached(list[k].e) => File(list[k].e).ino \in DOMAIN hash
    /\ pc = "reassign" =>
          /\ \A n \in DOMAIN hash : \E k \in Elems : Cached(list[k].e) /\ File(list[k].e).ino = n
          /\ \A k \in Elems : Cached(list[k].e) =>
                /\ File(list[k].e).ino \in DOMAIN hash
                /\ ~InSections(list[k].e) => hash[File(list[k].e).ino].start = list[k].ext

\* An entry points into the element of its own file, or into that of another
\* name; while the list is sorted such a link waits.
Own(e) == \E k \in Elems : dir[list[k].e].f = dir[e].f /\ ext[e] = list[k].ext + dir[e].off
LinkAt(e) == \E k \in Elems : Twin(list[k].e, e) /\ ext[e] = list[k].ext + dir[e].off
Waits(e) == ~InSections(e) /\ weight[e] = NotSorted /\ \E k \in Elems : Twin(list[k].e, e)

Shows ==
    \A e \in Visible : dir[e].size > 0 /\ pc \notin {"aborted", "botch"} =>
        \/ Earlier(e)
        \/ pc = "assign" /\ ext[e] = 0
        \/ Own(e)
        \/ LinkAt(e) /\ (pc \in {"assign", "sort"} /\ job.sort => Waits(e)) /\ pc # "reassign"
        \/ pc = "reassign" /\ Waits(e)

\* A file of an earlier session keeps its extent, and a file in sections its weight.
Kept ==
    /\ ext = [e \in 1 .. Len(dir) |-> ext[e]] /\ DOMAIN start = 1 .. Len(dir)
    /\ \A e \in 1 .. Len(dir) :
          Earlier(e) /\ (dir[e].size > 0 \/ pc = "assign") => ext[e] = File(e).prev
    /\ job.sort => \A e \in Visible : InSections(e) => weight[e] > NotSorted

\* The medium has the blocks of that file from that block on.
Copy(at, size, e) ==
    \A b \in 0 .. size - 1 :
        /\ at + b \in DOMAIN image
        /\ image[at + b].ino = File(e).ino /\ image[at + b].at = b

Held(k) == Copy(list[k].ext, list[k].size, list[k].e)

Copies ==
    /\ \A e \in 1 .. Len(dir) : Earlier(e) => Copy(File(e).prev, File(e).size, e)
    /\ pc = "write" => \A k \in Elems : k < i => Held(k)
    /\ pc = "done" => \A k \in Elems : Held(k)

LayoutInv == Listed /\ Followed /\ Entered /\ Hashed /\ Shows /\ Kept

\* Every file shows an entry.
LEMMA BeginFacts ==
    ASSUME Kinds, NEW e \in 1 .. Len(dir)
    PROVE  Begin(e) \in Visible /\ dir[Begin(e)].f = dir[e].f
  <1> DEFINE files == job.files
             f == dir[e].f
             y == StartOf(files, f) + 1
  <1>1. files \in Seq(Files) /\ dir = Entries(files) /\ f \in 1 .. Len(files)
    BY JobFacts DEF Kinds
  <1>2. 1 \in 1 .. FileCount(files, f)
    BY <1>1, FileEntries
  <1>3. y \in 1 .. Len(dir) /\ dir[y] = Section(files, f, 1)
    BY <1>1, <1>2, Directory
  <1>4. dir[y].f = f /\ (FileCount(files, f) > 1 => dir[y].part = 1)
    BY <1>3 DEF Section, FileCount
  <1>5. InSections(y) <=> FileCount(files, f) > 1
    BY <1>3, <1>4, EntryFacts DEF Parts
  <1> QED  BY <1>3, <1>4, <1>5 DEF Visible, Hidden, Begin

\* Entries of one file agree on what the file is.
LEMMA SameFile ==
    ASSUME NEW d, NEW e, dir[d].f = dir[e].f
    PROVE  /\ File(d) = File(e) /\ (Cached(d) <=> Cached(e)) /\ (InSections(d) <=> InSections(e))
           /\ (Earlier(d) <=> Earlier(e)) /\ (Hit(d) <=> Hit(e)) /\ Root(d) = Root(e)
           /\ Begin(d) = Begin(e) /\ Parts(d) = Parts(e)
  BY DEF File, Cached, InSections, Earlier, Hit, Root, Begin, Parts

\* Two names of one file have the same size, and were written together.
LEMMA TwinFacts ==
    ASSUME Kinds, NEW d \in 1 .. Len(dir), NEW e \in 1 .. Len(dir), Twin(d, e)
    PROVE  File(d).size = File(e).size /\ File(d).prev = File(e).prev
           /\ (InSections(d) <=> InSections(e))
  <1>1. /\ dir[d].f \in 1 .. Len(job.files) /\ dir[e].f \in 1 .. Len(job.files)
        /\ File(d) = job.files[dir[d].f] /\ File(e) = job.files[dir[e].f]
        /\ job.files \in Seq(Files)
    BY EntryFacts, JobFacts
  <1>2. File(d) \in ToSet(job.files) /\ File(e) \in ToSet(job.files)
    BY <1>1 DEF ToSet
  <1>3. OnDisk(job)
    BY LayoutAssumption DEF Kinds
  <1>4. File(d).kind # "fork" /\ File(e).kind # "fork" /\ File(d).ino = File(e).ino
    BY DEF Twin, Cached
  <1>5. File(d).size = File(e).size /\ File(d).prev = File(e).prev
    BY <1>2, <1>3, <1>4 DEF OnDisk
  <1> QED  BY <1>5 DEF InSections, MultiExtent

\* Elements precede those behind them.
LEMMA UpToNthGrows ==
    ASSUME NEW l \in Seq(DWrite)
    PROVE  /\ \A n \in 0 .. Len(l) : UpToNth(l, n) \in Nat
           /\ \A m, n \in 0 .. Len(l) : m <= n => UpToNth(l, m) <= UpToNth(l, n)
           /\ \A j, k \in 1 .. Len(l) : j < k =>
                 UpToNth(l, j - 1) + l[j].size <= UpToNth(l, k - 1)
  <1>1. /\ UpToNth(l, 0) = 0
        /\ \A n \in 0 .. Len(l) : UpToNth(l, n) \in Int
        /\ \A n \in 1 .. Len(l) : UpToNth(l, n) = UpToNth(l, n - 1) + l[n].size + l[n].pad
    BY RoomFacts
  <1>2. \A n \in 1 .. Len(l) : l[n].size \in Nat /\ l[n].pad \in Nat
    <2>1. \A n \in 1 .. Len(l) : l[n] \in DWrite
      OBVIOUS
    <2> QED  BY <2>1 DEF DWrite
  <1> DEFINE T(m) == {n \in Nat : m + n <= Len(l) => UpToNth(l, m) <= UpToNth(l, m + n)}
  <1>3. ASSUME NEW m \in 0 .. Len(l) PROVE Nat \subseteq T(m)
    <2>1. 0 \in T(m)
      <3>1. m + 0 = m /\ UpToNth(l, m) \in Int
        BY <1>1
      <3> QED  BY <3>1
    <2>2. ASSUME NEW n \in Nat, n \in T(m) PROVE n + 1 \in T(m)
      <3> SUFFICES ASSUME m + (n + 1) <= Len(l) PROVE UpToNth(l, m) <= UpToNth(l, m + (n + 1))
        OBVIOUS
      <3> DEFINE k == m + (n + 1)
      <3>1. /\ m + n <= Len(l) /\ k \in 1 .. Len(l) /\ k - 1 = m + n /\ m + n \in 0 .. Len(l)
        OBVIOUS
      <3>2. UpToNth(l, m) <= UpToNth(l, m + n)
        BY <2>2, <3>1
      <3> HIDE DEF k
      <3>3. UpToNth(l, k) = UpToNth(l, m + n) + l[k].size + l[k].pad
        BY <1>1, <3>1
      <3>4. UpToNth(l, m) \in Int /\ UpToNth(l, m + n) \in Int /\ l[k].size \in Nat /\ l[k].pad \in Nat
        BY <1>1, <1>2, <3>1
      <3>5. \A a, b \in Int : \A s, p \in Nat : a <= b => a <= b + s + p
        OBVIOUS
      <3>6. UpToNth(l, m) <= UpToNth(l, m + n) + l[k].size + l[k].pad
        BY <3>2, <3>4, <3>5
      <3>7. UpToNth(l, m) <= UpToNth(l, k)
        BY <3>3, <3>6
      <3> QED  BY <3>7 DEF k
    <2> HIDE DEF T
    <2> QED  BY <2>1, <2>2, NatInduct
  <1>4. \A m, n \in 0 .. Len(l) : m <= n => UpToNth(l, m) <= UpToNth(l, n)
    <2> SUFFICES ASSUME NEW m \in 0 .. Len(l), NEW n \in 0 .. Len(l), m <= n
                 PROVE  UpToNth(l, m) <= UpToNth(l, n)
      OBVIOUS
    <2>1. n - m \in Nat /\ m + (n - m) = n
      OBVIOUS
    <2>2. n - m \in T(m)
      <3> HIDE DEF T
      <3> QED  BY <1>3, <2>1
    <2> QED  BY <2>1, <2>2
  <1>5. \A n \in 0 .. Len(l) : UpToNth(l, n) \in Nat
    <2>1. \A n \in 0 .. Len(l) : 0 \in 0 .. Len(l) /\ 0 <= n
      OBVIOUS
    <2>2. \A n \in 0 .. Len(l) : UpToNth(l, 0) <= UpToNth(l, n)
      BY <1>4, <2>1
    <2> QED  BY <1>1, <2>2
  <1>6. \A j, k \in 1 .. Len(l) : j < k => UpToNth(l, j - 1) + l[j].size <= UpToNth(l, k - 1)
    <2> SUFFICES ASSUME NEW j \in 1 .. Len(l), NEW k \in 1 .. Len(l), j < k
                 PROVE  UpToNth(l, j - 1) + l[j].size <= UpToNth(l, k - 1)
      OBVIOUS
    <2>1. j \in 0 .. Len(l) /\ k - 1 \in 0 .. Len(l) /\ j <= k - 1 /\ j - 1 \in 0 .. Len(l)
      OBVIOUS
    <2>2. UpToNth(l, j) <= UpToNth(l, k - 1)
      BY <1>4, <2>1
    <2>3. UpToNth(l, j) = UpToNth(l, j - 1) + l[j].size + l[j].pad
      BY <1>1
    <2>4. /\ UpToNth(l, j - 1) \in Int /\ UpToNth(l, k - 1) \in Int
          /\ l[j].size \in Nat /\ l[j].pad \in Nat
      BY <1>1, <1>2, <2>1
    <2> QED  BY <2>2, <2>3, <2>4
  <1> QED  BY <1>4, <1>5, <1>6

\* A new element leaves those before it where they are.
LEMMA UpToNthAppend ==
    ASSUME NEW l \in Seq(DWrite), NEW d \in DWrite
    PROVE  /\ \A n \in 0 .. Len(l) : UpToNth(Append(l, d), n) = UpToNth(l, n)
  <1> SUFFICES ASSUME NEW n \in 0 .. Len(l) PROVE UpToNth(Append(l, d), n) = UpToNth(l, n)
    OBVIOUS
  <1>1. IsFiniteSet(1 .. n)
    <2>1. \A a, b \in Int : IsFiniteSet(a .. b)
      BY FS_Interval, Zenon
    <2>2. 1 \in Int /\ n \in Int
      OBVIOUS
    <2> QED  BY <2>1, <2>2, Zenon
  <1>2. \A x \in 1 .. n : Room(Append(l, d))[x] = Room(l)[x]
    <2> SUFFICES ASSUME NEW x \in 1 .. n PROVE Room(Append(l, d))[x] = Room(l)[x]
      OBVIOUS
    <2>1. x \in 1 .. Len(l) /\ x \in 1 .. Len(Append(l, d)) /\ Append(l, d)[x] = l[x]
      OBVIOUS
    <2> QED  BY <2>1 DEF Room
  <1> HIDE DEF Room
  <1> QED  BY <1>1, <1>2, TotalSame DEF UpToNth

\* What the job and the directory decide does not change with the rest.
LEMMA Steady ==
    ASSUME job' = job, dir' = dir
    PROVE  /\ Origin' = Origin /\ Visible' = Visible
           /\ \A e : /\ File(e)' = File(e) /\ (Cached(e)' <=> Cached(e))
                     /\ (InSections(e)' <=> InSections(e)) /\ (Earlier(e)' <=> Earlier(e))
           /\ \A d, e : Twin(d, e)' <=> Twin(d, e)
  <1>1. \A e : File(e)' = File(e)
    BY DEF File
  <1>2. \A e : Cached(e)' <=> Cached(e)
    BY <1>1 DEF Cached
  <1>3. \A e : InSections(e)' <=> InSections(e)
    BY <1>1 DEF InSections, MultiExtent
  <1>4. \A e : Earlier(e)' <=> Earlier(e)
    BY <1>1 DEF Earlier
  <1>5. \A d, e : Twin(d, e)' <=> Twin(d, e)
    BY <1>1, <1>2 DEF Twin
  <1>6. Visible' = Visible
    <2>1. \A e : Hidden(e)' <=> Hidden(e)
      BY <1>3 DEF Hidden
    <2> QED  BY <2>1 DEF Visible
  <1> QED  BY <1>1, <1>2, <1>3, <1>4, <1>5, <1>6 DEF Origin

\* Nor what an entry points at, as long as neither it nor the list is touched.
LEMMA SteadyList ==
    ASSUME UNCHANGED <<job, dir, list, ext, weight>>
    PROVE  /\ Elems' = Elems
           /\ \A e : (Own(e)' <=> Own(e)) /\ (LinkAt(e)' <=> LinkAt(e)) /\ (Waits(e)' <=> Waits(e))
  <1>1. Elems' = Elems
    BY DEF Elems
  <1>2. \A d, e : Twin(d, e)' <=> Twin(d, e)
    BY Steady
  <1>3. \A e : InSections(e)' <=> InSections(e)
    BY Steady
  <1>4. ASSUME NEW e PROVE Own(e)' <=> Own(e)
    BY <1>1 DEF Own
  <1>5. ASSUME NEW e PROVE LinkAt(e)' <=> LinkAt(e)
    BY <1>1, <1>2 DEF LinkAt
  <1>6. ASSUME NEW e PROVE Waits(e)' <=> Waits(e)
    BY <1>1, <1>2, <1>3 DEF Waits
  <1> QED  BY <1>1, <1>4, <1>5, <1>6

-----------------------------------------------------------------------------
(* No step loses a file                                                    *)

\* Steps that leave entries, list and cache alone: an entry that is passed, the
\* end of the planning, and what comes behind the volume.
LEMMA LayoutQuiet ==
    ASSUME EndInv, LayoutInv, UNCHANGED <<job, dir, list, ext, weight, hash, hpad, tries>>,
           DOMAIN start' = DOMAIN start,
           \/ pc' = pc /\ last' = last /\ (pc = "assign" => i' = i \/ (i' = i + 1 /\ ext[i] # 0))
           \/ pc = "assign" /\ i > Len(dir) /\ pc' \in {"sort", "hfs", "inodes"}
           \/ pc \in {"inodes", "write"} /\ pc' \in {"inodes", "write", "done", "botch", "aborted"}
    PROVE  LayoutInv'
  <1>0. /\ Elems' = Elems /\ Visible' = Visible /\ Origin' = Origin
        /\ \A e : File(e)' = File(e) /\ (Cached(e)' <=> Cached(e))
                  /\ (InSections(e)' <=> InSections(e)) /\ (Earlier(e)' <=> Earlier(e))
        /\ \A d, e : Twin(d, e)' <=> Twin(d, e)
        /\ \A e : (Own(e)' <=> Own(e)) /\ (LinkAt(e)' <=> LinkAt(e)) /\ (Waits(e)' <=> Waits(e))
    BY Steady, SteadyList
  <1>1. Kinds /\ Listed /\ Followed /\ Entered /\ Hashed /\ Shows /\ Kept
    BY DEF EndInv, LayoutInv
  <1>2. Listed'
    BY <1>0, <1>1 DEF Listed
  <1>3. Followed'
    <2>1. pc = "assign" => hpad = 0 /\ Origin \in Int
      <3>1. Origin \in Int
        BY <1>1, JobFacts, LayoutAssumption DEF Origin
      <3> QED  BY <3>1 DEF EndInv, Planned
    <2>2. \A b \in {Origin, Origin + hpad} : From(b)' <=> From(b)
      BY <1>0 DEF From
    <2>3. From(Origin)' <=> From(Origin)
      BY <1>0 DEF From
    <2>4. From(Origin + hpad)' <=> From(Origin + hpad)
      BY <1>0 DEF From
    <2>5. pc = "assign" => (From(Origin + hpad) <=> From(Origin))
      <3>1. pc = "assign" => Origin + hpad = Origin
        BY <2>1
      <3> QED  BY <3>1
    <2> QED  BY <1>1, <2>3, <2>4, <2>5 DEF Followed
  <1>4. Entered'
    <2>1. SUFFICES ASSUME pc' = "assign" PROVE Entered'
      BY DEF Entered
    <2>2. pc = "assign" /\ (i' = i \/ (i' = i + 1 /\ ext[i] # 0))
      BY <2>1
    <2>3. \A e \in 1 .. Len(dir') : e < i' => ext'[e] # 0
      <3>1. i \in Nat
        BY <1>1 DEF Kinds
      <3> QED  BY <1>1, <2>2, <3>1 DEF Entered
    <2>4. \A r : Hit(r)' <=> Hit(r)
      BY <1>0 DEF Hit
    <2> QED  BY <1>0, <1>1, <2>2, <2>3, <2>4 DEF Entered
  <1>5. Hashed'
    BY <1>0, <1>1 DEF Hashed
  <1>6. Shows'
    <2>1. SUFFICES ASSUME NEW e \in Visible, dir[e].size > 0, pc' \notin {"aborted", "botch"}
                   PROVE  \/ Earlier(e)
                          \/ pc' = "assign" /\ ext[e] = 0
                          \/ Own(e)
                          \/ /\ LinkAt(e) /\ pc' # "reassign"
                             /\ pc' \in {"assign", "sort"} /\ job.sort => Waits(e)
                          \/ pc' = "reassign" /\ Waits(e)
      BY <1>0 DEF Shows
    <2>2. \/ Earlier(e)
          \/ pc = "assign" /\ ext[e] = 0
          \/ Own(e)
          \/ LinkAt(e) /\ (pc \in {"assign", "sort"} /\ job.sort => Waits(e)) /\ pc # "reassign"
          \/ pc = "reassign" /\ Waits(e)
      BY <1>1, <2>1 DEF Shows
    <2>3. pc = "assign" /\ i > Len(dir) => ext[e] # 0
      <3>1. e \in 1 .. Len(dir) /\ Len(dir) \in Nat /\ i \in Nat
        BY <1>1, JobFacts DEF Visible, Kinds
      <3>2. i > Len(dir) => e < i
        BY <3>1
      <3> QED  BY <1>1, <3>1, <3>2 DEF Entered
    <2> QED  BY <2>2, <2>3
  <1>7. Kept'
    BY <1>0, <1>1 DEF Kept
  <1> QED  BY <1>2, <1>3, <1>4, <1>5, <1>6, <1>7 DEF LayoutInv

\* At the start only the files of earlier sessions have an extent.
LEMMA LayoutInit == Init => LayoutInv
  <1> SUFFICES ASSUME Init PROVE LayoutInv
    OBVIOUS
  <1>0. Kinds /\ pc = "assign" /\ i = 1 /\ list = <<>> /\ hash = NoHash /\ hpad = 0
    BY EndInit DEF EndInv, Init
  <1>1. /\ DOMAIN ext = 1 .. Len(dir) /\ DOMAIN start = 1 .. Len(dir)
        /\ \A e \in 1 .. Len(dir) : ext[e] = File(e).prev
        /\ ext = [e \in 1 .. Len(dir) |-> ext[e]]
        /\ \A e \in 1 .. Len(dir) : weight[e] = File(e).weight
    BY DEF Init
  <1>2. Elems = {} /\ 1 .. Len(list) = {}
    BY <1>0 DEF Elems
  <1>3. Listed
    BY <1>0, <1>2 DEF Listed
  <1>4. Followed
    BY <1>0, <1>2 DEF Followed, From
  <1>5. Entered
    <2>1. \A e \in 1 .. Len(dir) : ~(e < i)
      BY <1>0
    <2>2. \A e, d \in 1 .. Len(dir) : dir[e].f = dir[d].f => ext[e] = ext[d]
      BY <1>1 DEF File
    <2>3. Visible \subseteq 1 .. Len(dir)
      BY DEF Visible
    <2> QED  BY <1>2, <2>1, <2>2, <2>3 DEF Entered
  <1>6. Hashed
    <2>1. DOMAIN hash = {}
      BY <1>0 DEF NoHash
    <2> QED  BY <1>0, <1>2, <2>1 DEF Hashed
  <1>7. Shows
    <2> SUFFICES ASSUME NEW e \in Visible PROVE Earlier(e) \/ (pc = "assign" /\ ext[e] = 0)
      BY DEF Shows
    <2>1. e \in 1 .. Len(dir) /\ ext[e] = File(e).prev /\ File(e).prev \in Nat
      BY <1>0, <1>1, JobFacts DEF Visible
    <2>2. File(e).prev = 0 \/ File(e).prev > 0
      BY <2>1
    <2> QED  BY <1>0, <2>1, <2>2 DEF Earlier
  <1>8. Kept
    <2>1. \A e \in Visible : weight[e] > NotSorted
      <3> SUFFICES ASSUME NEW e \in Visible PROVE weight[e] > NotSorted
        OBVIOUS
      <3>1. e \in 1 .. Len(dir) /\ dir[e].f \in 1 .. Len(job.files) /\ File(e) = job.files[dir[e].f]
        BY <1>0, EntryFacts DEF Visible
      <3>2. File(e) \in ToSet(job.files) /\ OnDisk(job)
        <4>1. OnDisk(job)
          BY <1>0, LayoutAssumption DEF Kinds
        <4> QED  BY <3>1, <4>1 DEF ToSet
      <3>3. File(e).weight > NotSorted
        BY <3>2 DEF OnDisk
      <3> QED  BY <1>1, <3>1, <3>3
    <2> QED  BY <1>1, <2>1 DEF Kept
  <1> QED  BY <1>3, <1>4, <1>5, <1>6, <1>7, <1>8 DEF LayoutInv

\* The steps that touch no extent, or that of an empty file only.
LEMMA LayoutPassed ==
    ASSUME EndInv, LayoutInv,
           \/ AssignKnown \/ AssignedAll \/ NumberFile \/ NumberEmpty \/ StartWriting
           \/ WriteFile \/ WritePadding \/ Abort \/ Finish \/ UNCHANGED vars
    PROVE  LayoutInv'
  <1>1. CASE AssignKnown
    <2>1. /\ UNCHANGED <<job, dir, list, ext, start, weight, hash, hpad, tries, last>>
          /\ pc' = pc /\ i' = i + 1 /\ ext[i] # 0
      BY <1>1 DEF AssignKnown, Assigning, NextEntry, given, entries, deferred, volume
    <2> QED  BY <2>1, LayoutQuiet
  <1>2. CASE AssignedAll
    <2>1. /\ UNCHANGED <<job, dir, list, ext, start, weight, hash, hpad, tries, last>>
          /\ pc = "assign" /\ i > Len(dir) /\ pc' \in {"sort", "hfs", "inodes"}
      BY <1>2 DEF AssignedAll, given, entries, deferred, volume
    <2> QED  BY <2>1, LayoutQuiet
  <1>3. CASE NumberFile
    <2>1. /\ UNCHANGED <<job, dir, list, ext, weight, hash, hpad, tries, last>>
          /\ DOMAIN start' = DOMAIN start /\ pc = "inodes" /\ pc' = pc
      BY <1>3 DEF NumberFile, Numbering, given, deferred, volume
    <2> QED  BY <2>1, LayoutQuiet
  <1>4. CASE StartWriting \/ WriteFile \/ WritePadding \/ Abort \/ Finish
    <2>1. /\ UNCHANGED <<job, dir, list, ext, start, weight, hash, hpad, tries>>
          /\ pc \in {"inodes", "write"} /\ pc' \in {"inodes", "write", "done", "botch", "aborted"}
      BY <1>4 DEF StartWriting, WriteFile, WritePadding, Abort, Finish, given, entries, deferred,
                  volume
    <2> QED  BY <2>1, LayoutQuiet
  <1>5. CASE UNCHANGED vars
    <2>1. /\ UNCHANGED <<job, dir, list, ext, start, weight, hash, hpad, tries, last>>
          /\ pc' = pc /\ i' = i
      BY <1>5 DEF vars
    <2>2. /\ DOMAIN start' = DOMAIN start
          /\ pc' = pc /\ last' = last /\ (pc = "assign" => i' = i \/ (i' = i + 1 /\ ext[i] # 0))
      BY <2>1
    <2> QED  BY <2>1, <2>2, LayoutQuiet
  <1>6. CASE NumberEmpty
    <2> DEFINE n == IF Hit(i) THEN hash[File(i).ino].start ELSE null
    <2>0. /\ UNCHANGED <<job, dir, list, weight, hpad, tries, last>>
          /\ pc = "inodes" /\ pc' = "inodes" /\ dir[i].size = 0
          /\ ext' = [ext EXCEPT ![i] = n] /\ start' = [start EXCEPT ![i] = n]
      BY <1>6 DEF NumberEmpty, Numbering, given, deferred, volume
    <2> HIDE DEF n
    <2>a. DOMAIN ext' = DOMAIN ext /\ DOMAIN start' = DOMAIN start
      BY <2>0
    <2>b. ext' = [e \in DOMAIN ext |-> ext'[e]]
      BY <2>0
    <2>c. \A e \in DOMAIN ext : dir[e].size > 0 => ext'[e] = ext[e]
      BY <2>0
    <2>1. /\ UNCHANGED <<job, dir, list, weight, hpad, tries, last>>
          /\ pc = "inodes" /\ pc' = "inodes" /\ dir[i].size = 0
          /\ DOMAIN ext' = DOMAIN ext /\ DOMAIN start' = DOMAIN start
          /\ ext' = [e \in DOMAIN ext |-> ext'[e]]
          /\ \A e \in DOMAIN ext : dir[e].size > 0 => ext'[e] = ext[e]
      BY <2>0, <2>a, <2>b, <2>c
    <2>2. /\ Visible' = Visible /\ Origin' = Origin /\ Elems' = Elems
          /\ \A e : File(e)' = File(e) /\ (InSections(e)' <=> InSections(e))
                    /\ (Earlier(e)' <=> Earlier(e))
          /\ \A d, e : Twin(d, e)' <=> Twin(d, e)
      BY <2>1, Steady DEF Elems
    <2>3. Kinds /\ Listed /\ Followed /\ Shows /\ Kept /\ DOMAIN ext = 1 .. Len(dir)
      BY DEF EndInv, LayoutInv, Kept
    <2>4. Listed'
      BY <2>1, <2>2, <2>3 DEF Listed
    <2>5. Followed'
      <3>1. From(Origin + hpad)' <=> From(Origin + hpad)
        BY <2>1, <2>2 DEF From
      <3> QED  BY <2>1, <2>3, <3>1 DEF Followed
    <2>6. Entered' /\ Hashed'
      BY <2>1 DEF Entered, Hashed
    <2>7. Shows'
      <3> SUFFICES ASSUME NEW e \in Visible, dir[e].size > 0
                   PROVE  Earlier(e) \/ Own(e)' \/ LinkAt(e)'
        BY <2>1, <2>2 DEF Shows
      <3>1. ext'[e] = ext[e]
        BY <2>1, <2>3 DEF Visible
      <3>2. Earlier(e) \/ Own(e) \/ LinkAt(e)
        BY <2>1, <2>3 DEF Shows
      <3>3. Own(e) => Own(e)'
        BY <2>1, <2>2, <3>1 DEF Own
      <3>4. LinkAt(e) => LinkAt(e)'
        BY <2>1, <2>2, <3>1 DEF LinkAt
      <3> QED  BY <3>2, <3>3, <3>4
    <2>8. Kept'
      <3>1. \A e \in 1 .. Len(dir) : Earlier(e) /\ dir[e].size > 0 => ext'[e] = File(e).prev
        BY <2>1, <2>3 DEF Kept
      <3> QED  BY <2>1, <2>2, <2>3, <3>1 DEF Kept
    <2> QED  BY <2>4, <2>5, <2>6, <2>7, <2>8 DEF LayoutInv
  <1> QED  BY <1>1, <1>2, <1>3, <1>4, <1>5, <1>6

\* An entry without extent is the first of a file that has none, or the root of
\* one that is linked.
LEMMA Unmet ==
    ASSUME EndInv, LayoutInv, Assigning, ext[i] = 0
    PROVE  /\ i \in 1 .. Len(dir) /\ ~Earlier(i) /\ File(i).prev = 0
           /\ i \notin Visible => Hit(i)
           /\ i \in Visible => /\ i = Begin(i) /\ dir[i].off = 0
                               /\ \A e \in Visible : dir[e].f = dir[i].f => ext[e] = 0
                               /\ \A k \in Elems : dir[list[k].e].f # dir[i].f
           /\ Origin \in Int /\ Origin > 0 /\ last \in Int /\ last >= Origin
  <1>0. /\ pc = "assign" /\ i \in 1 .. Len(dir) /\ Kinds
        /\ Listed /\ Entered /\ Kept
    BY JobFacts DEF Assigning, EndInv, LayoutInv, Kinds
  <1>1. ~Earlier(i) /\ File(i).prev = 0
    <2>1. Earlier(i) => ext[i] = File(i).prev
      BY <1>0 DEF Kept
    <2>2. File(i).prev \in Nat
      BY <1>0, JobFacts
    <2> QED  BY <2>1, <2>2 DEF Earlier
  <1>2. ASSUME i \notin Visible PROVE Hit(i)
    <2>1. Begin(i) \in Visible /\ dir[Begin(i)].f = dir[i].f
      BY <1>0, BeginFacts
    <2>2. Begin(i) < i
      BY <1>0, <1>2, <2>1, RootFacts
    <2>3. ext[Begin(i)] # 0
      BY <1>0, <2>1, <2>2 DEF Entered, Visible
    <2> QED  BY <1>0, <1>2, <2>1, <2>3 DEF Entered
  <1>3. ASSUME i \in Visible
        PROVE  /\ i = Begin(i) /\ dir[i].off = 0
               /\ \A e \in Visible : dir[e].f = dir[i].f => ext[e] = 0
               /\ \A k \in Elems : dir[list[k].e].f # dir[i].f
    <2>1. \A e \in Visible : dir[e].f = dir[i].f => ext[e] = 0
      BY <1>0, <1>3 DEF Entered
    <2>2. Begin(i) \in Visible /\ dir[Begin(i)].f = dir[i].f
      BY <1>0, BeginFacts
    <2>3. Begin(i) \in 1 .. Len(dir) /\ Begin(i) <= i
      <3>1. i \in Mine(i)
        BY <1>0, <1>3, MineFacts
      <3> QED  BY <2>2, <3>1 DEF Visible, Mine
    <2>4. i = Begin(i)
      <3>1. ~(Begin(i) < i)
        BY <1>0, <2>1, <2>2, <2>3 DEF Entered
      <3> QED  BY <1>0, <2>3, <3>1
    <2>5. dir[i].off = 0
      BY <1>0, <1>3, <2>4, OffsetFacts
    <2>6. \A k \in Elems : dir[list[k].e].f # dir[i].f
      <3> SUFFICES ASSUME NEW k \in Elems, dir[list[k].e].f = dir[i].f PROVE FALSE
        OBVIOUS
      <3>1. list[k].e \in Visible
        BY <1>0 DEF Listed
      <3>2. ext[list[k].e] # 0
        BY <1>0 DEF Entered
      <3> QED  BY <2>1, <3>1, <3>2
    <2> QED  BY <2>1, <2>4, <2>5, <2>6
  <1>4. /\ Origin \in Int /\ Origin > 0
    BY <1>0, JobFacts, LayoutAssumption DEF Origin
  <1>5. last \in Int /\ last >= Origin
    <2>1. list \in Seq(DWrite) /\ last \in Int
      BY <1>0 DEF Kinds
    <2>2. last = Origin + UpToNth(list, Len(list)) /\ Len(list) \in 0 .. Len(list)
      BY <1>0, <2>1, RoomFacts DEF EndInv, Planned
    <2>3. UpToNth(list, Len(list)) \in Nat
      BY <2>1, <2>2, UpToNthGrows
    <2> QED  BY <1>4, <2>1, <2>2, <2>3
  <1> QED  BY <1>0, <1>1, <1>2, <1>3, <1>4, <1>5

\* An empty file.
LEMMA LayoutAssignEmpty == EndInv /\ LayoutInv /\ AssignEmpty => LayoutInv'
  <1> SUFFICES ASSUME EndInv, LayoutInv, AssignEmpty PROVE LayoutInv'
    OBVIOUS
  <1>0. /\ Assigning /\ ext[i] = 0 /\ ~Hit(i) /\ dir[i].size = 0 /\ pc = "assign" /\ pc' = pc
        /\ ext' = [ext EXCEPT ![i] = last] /\ i' = i + 1
        /\ UNCHANGED <<job, dir, start, weight, hash, list, last, hpad, tries>>
    BY DEF AssignEmpty, Assigning, NextEntry, given, deferred, volume
  <1>1. /\ i \in 1 .. Len(dir) /\ ~Earlier(i) /\ i \in Visible
        /\ Origin \in Int /\ Origin > 0 /\ last \in Int /\ last >= Origin
    BY <1>0, Unmet
  <1>2. Kinds /\ Listed /\ Followed /\ Entered /\ Hashed /\ Shows /\ Kept
    BY DEF EndInv, LayoutInv
  <1>3. /\ Elems' = Elems /\ Visible' = Visible /\ Origin' = Origin
        /\ \A e : File(e)' = File(e) /\ (Cached(e)' <=> Cached(e))
                  /\ (InSections(e)' <=> InSections(e)) /\ (Earlier(e)' <=> Earlier(e))
        /\ \A d, e : Twin(d, e)' <=> Twin(d, e)
    BY <1>0, Steady DEF Elems
  \* It has no other entry.
  <1>4. \A e \in 1 .. Len(dir) : dir[e].f = dir[i].f => e = i
    <2>1. ~InSections(i)
      <3>1. File(i).size = 0
        <4>1. File(i).size \in Nat /\ (File(i).size > 0 => dir[i].size > 0)
          BY <1>1, <1>2, OffsetFacts
        <4> QED  BY <1>0, <4>1
      <3>2. Sections(0) = 1
        BY SectionsFacts, LayoutAssumption
      <3> QED  BY <3>1, <3>2 DEF InSections, MultiExtent
    <2>2. \A e \in 1 .. Len(dir) : dir[e].f = dir[i].f => e \in Visible
      BY <2>1, SameFile DEF Visible, Hidden
    <2>3. Mine(i) = {i}
      <3>1. Parts(i) = 1 /\ i \in Mine(i) /\ Begin(i) \in Nat
        BY <1>1, <1>2, <2>1, EntryFacts, MineFacts
      <3> QED  BY <3>1 DEF Mine
    <2> QED  BY <1>1, <1>2, <2>2, <2>3, MineFacts
  <1>5. /\ ext'[i] = last /\ last # 0 /\ DOMAIN ext = 1 .. Len(dir)
        /\ \A e \in 1 .. Len(dir) : e # i => ext'[e] = ext[e]
    BY <1>0, <1>1, <1>2 DEF Kept
  <1>6. Listed'
    BY <1>0, <1>2, <1>3 DEF Listed
  <1>7. Followed'
    <2>1. From(Origin)' <=> From(Origin)
      BY <1>0, <1>3 DEF From
    <2> QED  BY <1>0, <1>2, <2>1 DEF Followed
  <1>8. Entered'
    <2>1. \A e \in 1 .. Len(dir) : e < i + 1 => ext'[e] # 0
      <3>1. \A e \in 1 .. Len(dir) : e < i + 1 => e = i \/ e < i
        BY <1>1
      <3> QED  BY <1>0, <1>2, <1>5, <3>1 DEF Entered
    <2>2. \A e, d \in Visible : dir[e].f = dir[d].f /\ ext'[e] = 0 => ext'[d] = 0
      <3>1. \A e \in Visible : e \in 1 .. Len(dir)
        BY DEF Visible
      <3> QED  BY <1>0, <1>2, <1>4, <1>5, <3>1 DEF Entered
    <2>3. \A r : Hit(r)' <=> Hit(r)
      BY <1>0, <1>3 DEF Hit
    <2>4. ASSUME NEW r \in (1 .. Len(dir)) \ Visible, ext'[r] = 0
          PROVE  Hit(r) \/ \A v \in Visible : dir[v].f = dir[r].f => ext'[v] = 0
      <3>1. r # i /\ dir[r].f # dir[i].f /\ ext[r] = 0
        BY <1>1, <1>4, <1>5, <2>4
      <3>2. \A v \in Visible : v \in 1 .. Len(dir)
        BY DEF Visible
      <3> QED  BY <1>0, <1>2, <1>5, <3>1, <3>2 DEF Entered
    <2>5. \A k \in Elems : ext'[list[k].e] # 0
      BY <1>0, <1>2, <1>5 DEF Entered, Listed, Visible
    <2> QED  BY <1>0, <1>3, <2>1, <2>2, <2>3, <2>4, <2>5 DEF Entered
  <1>9. Hashed'
    BY <1>0, <1>2, <1>3 DEF Hashed
  <1>10. Shows'
    <2> SUFFICES ASSUME NEW e \in Visible, dir[e].size > 0
                 PROVE  \/ Earlier(e)
                        \/ ext'[e] = 0
                        \/ Own(e)'
                        \/ LinkAt(e)' /\ (job.sort => Waits(e)')
      BY <1>0, <1>3 DEF Shows
    <2>1. e # i /\ ext'[e] = ext[e]
      BY <1>0, <1>5 DEF Visible
    <2>2. \/ Earlier(e) \/ ext[e] = 0 \/ Own(e) \/ (LinkAt(e) /\ (job.sort => Waits(e)))
      BY <1>0, <1>2 DEF Shows
    <2>3. Own(e) => Own(e)'
      BY <1>0, <1>3, <2>1 DEF Own
    <2>4. LinkAt(e) => LinkAt(e)'
      BY <1>0, <1>3, <2>1 DEF LinkAt
    <2>5. Waits(e) => Waits(e)'
      BY <1>0, <1>3 DEF Waits
    <2> QED  BY <2>1, <2>2, <2>3, <2>4, <2>5
  <1>11. Kept'
    <2>1. ext' = [e \in 1 .. Len(dir) |-> ext'[e]]
      BY <1>0, <1>5
    <2>2. \A e \in 1 .. Len(dir) : Earlier(e) => ext'[e] = File(e).prev
      BY <1>0, <1>1, <1>2, <1>5 DEF Kept
    <2> QED  BY <1>0, <1>2, <1>3, <2>1, <2>2 DEF Kept
  <1> QED  BY <1>6, <1>7, <1>8, <1>9, <1>10, <1>11 DEF LayoutInv

\* A file to be written: all its entries point into the new element.
LEMMA LayoutAssignNew == EndInv /\ LayoutInv /\ AssignNew => LayoutInv'
  <1> SUFFICES ASSUME EndInv, LayoutInv, AssignNew PROVE LayoutInv'
    OBVIOUS
  <1> DEFINE d == [e |-> i, size |-> File(i).size, ext |-> last, pad |-> Padding(i)]
             n == Len(list) + 1
  <1>0. /\ Assigning /\ ext[i] = 0 /\ ~Hit(i) /\ dir[i].size > 0 /\ pc = "assign" /\ pc' = pc
        /\ i' = i + 1 /\ hash' = Remember(hash, i, last) /\ list' = Append(list, d)
        /\ ext' = [e \in DOMAIN ext |->
                     IF InSections(i) /\ e = Root(i) THEN last
                     ELSE IF e \in Run(i) THEN last + Before(i, e) ELSE ext[e]]
        /\ DOMAIN start' = DOMAIN start
        /\ UNCHANGED <<job, dir, weight, hpad, tries>>
    BY DEF AssignNew, Assigning, NextEntry, given, volume
  <1>1. /\ i \in 1 .. Len(dir) /\ ~Earlier(i) /\ i \in Visible /\ File(i).prev = 0
        /\ i = Begin(i) /\ dir[i].off = 0
        /\ \A k \in Elems : dir[list[k].e].f # dir[i].f
        /\ Origin \in Int /\ Origin > 0 /\ last \in Int /\ last >= Origin
    BY <1>0, Unmet
  <1>2. Kinds /\ Listed /\ Followed /\ Entered /\ Hashed /\ Shows /\ Kept /\ EndInv'
    BY EndAssignNew DEF EndInv, LayoutInv
  <1>3. /\ Visible' = Visible /\ Origin' = Origin
        /\ \A e : File(e)' = File(e) /\ (Cached(e)' <=> Cached(e))
                  /\ (InSections(e)' <=> InSections(e)) /\ (Earlier(e)' <=> Earlier(e))
        /\ \A x, e : Twin(x, e)' <=> Twin(x, e)
    BY <1>0, Steady
  \* The list.
  <1>4. /\ d \in DWrite /\ d.e = i /\ d.size = File(i).size /\ d.ext = last /\ d.pad = Padding(i)
        /\ d.size > 0
    <2>1. File(i).size \in Nat /\ Padding(i) \in Nat /\ i \in Nat /\ dir[i].size <= File(i).size
          /\ dir[i].size \in Nat
      BY <1>1, <1>2, JobFacts DEF Padding
    <2> QED  BY <1>0, <1>1, <2>1 DEF DWrite
  <1> HIDE DEF d
  <1>5. /\ list \in Seq(DWrite) /\ Len(list) \in Nat /\ Len(list') = n /\ list'[n] = d
        /\ \A k \in 1 .. Len(list) : list'[k] = list[k]
        /\ \A k \in 1 .. Len(list') : k \in 1 .. Len(list) \/ k = n
        /\ n \in 1 .. Len(list') /\ n \notin 1 .. Len(list)
    BY <1>0, <1>2, <1>4 DEF Kinds
  <1>6. Elems = 1 .. Len(list) /\ Elems' = 1 .. Len(list')
    <2>1. Elems = 1 .. Len(list)
      BY <1>0, <1>2 DEF Listed
    <2>2. \A k \in 1 .. Len(list') : list'[k].e # 0
      BY <1>1, <1>4, <1>5, <2>1 DEF Elems
    <2> QED  BY <2>1, <2>2 DEF Elems
  <1>7. \A k \in Elems : ~Twin(list[k].e, i)
    <2> SUFFICES ASSUME NEW k \in Elems, Twin(list[k].e, i) PROVE FALSE
      OBVIOUS
    <2>1. Cached(list[k].e) /\ Cached(i) /\ File(list[k].e).ino = File(i).ino
      BY DEF Twin
    <2>2. File(list[k].e).ino \in DOMAIN hash
      BY <1>0, <1>2, <2>1 DEF Hashed
    <2> QED  BY <1>0, <2>1, <2>2 DEF Hit
  \* The entries.
  <1>8. /\ DOMAIN ext = 1 .. Len(dir) /\ last # 0
        /\ \A e \in 1 .. Len(dir) : dir[e].f # dir[i].f => ext'[e] = ext[e]
        /\ \A e \in Visible : dir[e].f = dir[i].f => ext'[e] = last + dir[e].off
        /\ \A e \in (1 .. Len(dir)) \ Visible : dir[e].f = dir[i].f => ext'[e] = last
        /\ \A e \in 1 .. Len(dir) : dir[e].f = dir[i].f => ext'[e] # 0
    <2>1. DOMAIN ext = 1 .. Len(dir) /\ last # 0
      BY <1>1, <1>2 DEF Kept
    <2>2. /\ InSections(i) => Root(i) \notin Visible /\ dir[Root(i)].f = dir[i].f
          /\ \A t \in Run(i) : dir[t].f = dir[i].f
          /\ \A t \in Mine(i) : t >= i => t \in Run(i)
      BY <1>1, <1>2, RootFacts, RunFacts
    <2>3. \A e \in 1 .. Len(dir) : dir[e].f # dir[i].f => ext'[e] = ext[e]
      BY <1>0, <2>1, <2>2
    <2>4. ASSUME NEW e \in Visible, dir[e].f = dir[i].f
          PROVE  ext'[e] = last + dir[e].off /\ dir[e].off \in Nat
      <3>1. e \in Mine(i) /\ e \in 1 .. Len(dir)
        BY <1>1, <1>2, <2>4, MineFacts DEF Visible
      <3>2. e >= i
        BY <1>1, <3>1 DEF Mine
      <3>3. e \in Run(i) /\ (e # Root(i) \/ ~InSections(i))
        BY <2>2, <3>1, <3>2
      <3>4. Before(i, e) = dir[e].off - dir[i].off
        BY <1>1, <1>2, <3>1, <3>2, BeforeFacts
      <3>5. dir[e].off \in Nat
        BY <1>2, OffsetFacts
      <3>6. Before(i, e) = dir[e].off
        BY <1>1, <3>4, <3>5
      <3> QED  BY <1>0, <2>1, <3>1, <3>3, <3>5, <3>6
    <2>5. ASSUME NEW e \in (1 .. Len(dir)) \ Visible, dir[e].f = dir[i].f
          PROVE  ext'[e] = last
      <3>1. InSections(e) /\ Root(e) = e
        BY <1>2, RootFacts
      <3>2. InSections(i) /\ Root(i) = e
        BY <2>5, <3>1, SameFile
      <3> QED  BY <1>0, <2>1, <3>2
    <2>6. ASSUME NEW e \in 1 .. Len(dir), dir[e].f = dir[i].f
          PROVE  ext'[e] # 0
      <3>1. CASE e \in Visible
        BY <1>1, <2>4, <2>6, <3>1
      <3>2. CASE e \notin Visible
        BY <2>1, <2>5, <2>6, <3>2
      <3> QED  BY <3>1, <3>2
    <2> QED  BY <2>1, <2>3, <2>4, <2>5, <2>6
  <1>9. \A k \in Elems : /\ k \in Elems' /\ list'[k] = list[k]
    BY <1>5, <1>6
  <1>10. \A k \in Elems' : k \in Elems \/ k = n
    BY <1>5, <1>6
  <1> HIDE DEF n
  <1>11. Listed'
    <2>1. pc' = "assign" /\ (~job.dvd => \A k \in 1 .. Len(list') : list'[k].pad = 0)
      <3>1. ~job.dvd => d.pad = 0
        BY <1>4 DEF Padding
      <3> QED  BY <1>0, <1>2, <1>5, <3>1 DEF Listed
    <2>2. \A k \in Elems' : /\ list'[k].e \in Visible /\ dir[list'[k].e].off = 0
                            /\ list'[k].size = File(list'[k].e).size /\ list'[k].size > 0
                            /\ File(list'[k].e).prev = 0
      BY <1>1, <1>2, <1>4, <1>5, <1>9, <1>10 DEF Listed
    <2>3. \A x, y : Twin(x, y) <=> Twin(y, x)
      BY DEF Twin
    <2>4. ASSUME NEW j \in Elems', NEW k \in Elems',
                 dir[list'[j].e].f = dir[list'[k].e].f \/ Twin(list'[j].e, list'[k].e)
          PROVE  j = k
      <3>1. CASE j \in Elems /\ k \in Elems
        BY <1>2, <1>9, <2>4, <3>1 DEF Listed
      <3>2. CASE j = n /\ k \in Elems
        BY <1>1, <1>4, <1>5, <1>7, <1>9, <2>3, <2>4, <3>2
      <3>3. CASE k = n /\ j \in Elems
        BY <1>1, <1>4, <1>5, <1>7, <1>9, <2>3, <2>4, <3>3
      <3> QED  BY <1>10, <3>1, <3>2, <3>3
    <2> QED  BY <1>0, <1>3, <1>6, <2>1, <2>2, <2>4 DEF Listed
  <1>12. Followed'
    <2>1. \A k \in 0 .. Len(list) : UpToNth(list', k) = UpToNth(list, k)
      BY <1>0, <1>4, <1>5, UpToNthAppend
    <2>2. last = Origin + UpToNth(list, Len(list))
      <3>1. last = Origin + Bulk(list)
        BY <1>0 DEF EndInv, Planned
      <3> QED  BY <1>5, <3>1, RoomFacts
    <2>3. ASSUME NEW k \in 1 .. Len(list')
          PROVE  list'[k].ext = Origin + UpToNth(list', k - 1)
      <3>1. CASE k \in 1 .. Len(list)
        <4>1. list[k].ext = Origin + UpToNth(list, k - 1) /\ k - 1 \in 0 .. Len(list)
          BY <1>0, <1>2, <1>5, <3>1 DEF Followed, From
        <4> QED  BY <1>5, <2>1, <3>1, <4>1
      <3>2. CASE k = n
        <4>1. k - 1 = Len(list) /\ Len(list) \in 0 .. Len(list)
          BY <1>5, <3>2 DEF n
        <4>2. list'[k].ext = last
          BY <1>4, <1>5, <3>2
        <4> QED  BY <2>1, <2>2, <4>1, <4>2
      <3> QED  BY <1>5, <3>1, <3>2
    <2>4. From(Origin)'
      BY <1>3, <2>3 DEF From
    <2> QED  BY <1>0, <1>2, <2>4 DEF Followed
  <1>13. \A r : Hit(r) => Hit(r)'
    <2>1. DOMAIN hash \subseteq DOMAIN hash'
      BY <1>0 DEF Remember
    <2> QED  BY <1>3, <2>1 DEF Hit
  <1>14. Entered'
    <2>1. \A e \in 1 .. Len(dir) : e < i + 1 => ext'[e] # 0
      <3>1. \A e \in 1 .. Len(dir) : e < i + 1 => e = i \/ e < i
        BY <1>1
      <3> QED  BY <1>0, <1>1, <1>2, <1>8, <3>1 DEF Entered
    <2>0. \A e \in Visible : e \in 1 .. Len(dir)
      BY DEF Visible
    <2>2. \A e, x \in Visible : dir[e].f = dir[x].f /\ ext'[e] = 0 => ext'[x] = 0
      BY <1>0, <1>2, <1>8, <2>0 DEF Entered
    <2>4. ASSUME NEW r \in (1 .. Len(dir)) \ Visible, ext'[r] = 0
          PROVE  Hit(r)' \/ \A v \in Visible : dir[v].f = dir[r].f => ext'[v] = 0
      <3>1. dir[r].f # dir[i].f /\ ext[r] = 0
        BY <1>8, <2>4
      <3>2. Hit(r) \/ \A v \in Visible : dir[v].f = dir[r].f => ext[v] = 0
        BY <1>0, <1>2, <3>1 DEF Entered
      <3> QED  BY <1>8, <1>13, <2>0, <3>1, <3>2
    <2>5. \A k \in Elems' : ext'[list'[k].e] # 0
      <3> SUFFICES ASSUME NEW k \in Elems' PROVE ext'[list'[k].e] # 0
        OBVIOUS
      <3>1. CASE k \in Elems
        BY <1>0, <1>1, <1>2, <1>8, <1>9, <2>0, <3>1 DEF Entered, Listed
      <3>2. CASE k = n
        BY <1>1, <1>4, <1>5, <1>8, <3>2
      <3> QED  BY <1>10, <3>1, <3>2
    <2>6. /\ \A e \in 1 .. Len(dir') : e < i' => ext'[e] # 0
          /\ \A e, x \in Visible' : dir'[e].f = dir'[x].f /\ ext'[e] = 0 => ext'[x] = 0
      BY <1>0, <1>3, <2>1, <2>2
    <2>7. \A r \in (1 .. Len(dir')) \ Visible' : ext'[r] = 0 =>
              Hit(r)' \/ \A v \in Visible' : dir'[v].f = dir'[r].f => ext'[v] = 0
      BY <1>0, <1>3, <2>4
    <2> QED  BY <2>5, <2>6, <2>7 DEF Entered
  <1>15. Hashed'
    <2>1. /\ \A m \in DOMAIN hash : \E k \in Elems :
                /\ Cached(list[k].e) /\ File(list[k].e).ino = m
                /\ hash[m] = [start |-> list[k].ext, of |-> list[k].e]
          /\ \A k \in Elems : Cached(list[k].e) => File(list[k].e).ino \in DOMAIN hash
      BY <1>0, <1>2 DEF Hashed
    <2>2. ASSUME NEW m \in DOMAIN hash'
          PROVE  \E k \in Elems' : /\ Cached(list'[k].e) /\ File(list'[k].e).ino = m
                                   /\ hash'[m] = [start |-> list'[k].ext, of |-> list'[k].e]
      <3>1. CASE Cached(i) /\ m = File(i).ino
        <4>1. hash'[m] = [start |-> last, of |-> i]
          BY <1>0, <2>2, <3>1 DEF Remember
        <4>2. n \in Elems'
          BY <1>5, <1>6
        <4> QED  BY <1>4, <1>5, <3>1, <4>1, <4>2
      <3>2. CASE ~(Cached(i) /\ m = File(i).ino)
        <4>1. m \in DOMAIN hash /\ hash'[m] = hash[m]
          BY <1>0, <2>2, <3>2 DEF Remember
        <4> QED  BY <1>9, <2>1, <4>1
      <3> QED  BY <3>1, <3>2
    <2>3. ASSUME NEW k \in Elems', Cached(list'[k].e)
          PROVE  File(list'[k].e).ino \in DOMAIN hash'
      <3>1. CASE k \in Elems
        <4>1. File(list[k].e).ino \in DOMAIN hash
          BY <1>9, <2>1, <2>3, <3>1
        <4> QED  BY <1>0, <1>9, <3>1, <4>1 DEF Remember
      <3>2. CASE k = n
        BY <1>0, <1>4, <1>5, <2>3, <3>2 DEF Remember
      <3> QED  BY <1>10, <3>1, <3>2
    <2> QED  BY <1>0, <1>3, <2>2, <2>3 DEF Hashed
  <1>16. Shows'
    <2> SUFFICES ASSUME NEW e \in Visible, dir[e].size > 0
                 PROVE  \/ Earlier(e)
                        \/ ext'[e] = 0
                        \/ Own(e)'
                        \/ LinkAt(e)' /\ (job.sort => Waits(e)')
      BY <1>0, <1>3 DEF Shows
    <2>1. CASE dir[e].f = dir[i].f
      <3>1. n \in Elems' /\ dir[list'[n].e].f = dir[e].f /\ ext'[e] = list'[n].ext + dir[e].off
        BY <1>4, <1>5, <1>6, <1>8, <2>1
      <3>2. Own(e)'
        BY <1>0, <3>1 DEF Own
      <3> QED  BY <3>2
    <2>2. CASE dir[e].f # dir[i].f
      <3>1. ext'[e] = ext[e]
        BY <1>8, <2>2 DEF Visible
      <3>2. \/ Earlier(e) \/ ext[e] = 0 \/ Own(e) \/ (LinkAt(e) /\ (job.sort => Waits(e)))
        BY <1>0, <1>2 DEF Shows
      <3>3. Own(e) => Own(e)'
        BY <1>0, <1>9, <3>1 DEF Own
      <3>4. LinkAt(e) => LinkAt(e)'
        BY <1>3, <1>0, <1>9, <3>1 DEF LinkAt
      <3>5. Waits(e) => Waits(e)'
        BY <1>0, <1>3, <1>9 DEF Waits
      <3> QED  BY <3>1, <3>2, <3>3, <3>4, <3>5
    <2> QED  BY <2>1, <2>2
  <1>17. Kept'
    <2>1. ext' = [e \in 1 .. Len(dir) |-> ext'[e]]
      BY <1>0, <1>8
    <2>2. \A e \in 1 .. Len(dir) : Earlier(e) => dir[e].f # dir[i].f
      BY <1>1, SameFile
    <2>3. \A e \in 1 .. Len(dir) : Earlier(e) => ext'[e] = File(e).prev
      BY <1>0, <1>2, <1>8, <2>2 DEF Kept
    <2> QED  BY <1>0, <1>2, <1>3, <2>1, <2>3 DEF Kept
  <1> QED  BY <1>11, <1>12, <1>14, <1>15, <1>16, <1>17 DEF LayoutInv

\* A link: it points into the element of the other name, and waits if the list
\* will be sorted.
LEMMA LayoutAssignLinked == EndInv /\ LayoutInv /\ Supported /\ AssignLinked => LayoutInv'
  <1> SUFFICES ASSUME EndInv, LayoutInv, Supported, AssignLinked PROVE LayoutInv'
    OBVIOUS
  <1> DEFINE there == hash[File(i).ino].start
             of == hash[File(i).ino].of
             first == InSections(i) /\ ~Hidden(i)
  <1>0. /\ Assigning /\ ext[i] = 0 /\ Hit(i) /\ pc = "assign" /\ pc' = pc /\ i' = i + 1
        /\ ext' = [e \in DOMAIN ext |->
                     IF first /\ e \in Run(i) THEN there + Before(i, e)
                     ELSE IF e = i THEN there ELSE ext[e]]
        /\ DOMAIN start' = DOMAIN start /\ weight' = Weigh(i)
        /\ UNCHANGED <<job, dir, hash, list, last, hpad, tries>>
    BY DEF AssignLinked, Assigning, NextEntry, given, deferred, volume
  <1>1. /\ i \in 1 .. Len(dir) /\ ~Earlier(i)
        /\ i \in Visible => /\ i = Begin(i) /\ dir[i].off = 0
                            /\ \A k \in Elems : dir[list[k].e].f # dir[i].f
        /\ Origin \in Int /\ Origin > 0
    BY <1>0, Unmet
  <1>2. Kinds /\ Listed /\ Followed /\ Entered /\ Hashed /\ Shows /\ Kept
    BY DEF EndInv, LayoutInv
  <1>3. /\ Elems' = Elems /\ Visible' = Visible /\ Origin' = Origin
        /\ \A e : File(e)' = File(e) /\ (Cached(e)' <=> Cached(e))
                  /\ (InSections(e)' <=> InSections(e)) /\ (Earlier(e)' <=> Earlier(e))
        /\ \A d, e : Twin(d, e)' <=> Twin(d, e)
    BY <1>0, Steady DEF Elems
  <1>4. Cached(i) /\ File(i).ino \in DOMAIN hash
    BY <1>0 DEF Hit
  \* The element it points into.
  <1>5. PICK k \in Elems : /\ Cached(list[k].e) /\ File(list[k].e).ino = File(i).ino
                           /\ hash[File(i).ino] = [start |-> list[k].ext, of |-> list[k].e]
    BY <1>0, <1>2, <1>4 DEF Hashed
  <1>6. there = list[k].ext /\ of = list[k].e /\ Twin(of, i)
    BY <1>4, <1>5 DEF Twin
  <1> HIDE DEF there, of
  <1>7. there \in Int /\ there > 0
    <2>1. list \in Seq(DWrite) /\ k \in 1 .. Len(list) /\ k - 1 \in 0 .. Len(list)
      BY <1>2 DEF Kinds, Elems
    <2>2. list[k].ext = Origin + UpToNth(list, k - 1)
      BY <1>0, <1>2, <2>1 DEF Followed, From
    <2>3. UpToNth(list, k - 1) \in Nat
      BY <2>1, UpToNthGrows
    <2> QED  BY <1>1, <1>6, <2>2, <2>3
  <1>8. of \in Visible /\ of \in 1 .. Len(dir) /\ ext[of] # 0 /\ of # i
    BY <1>0, <1>2, <1>6 DEF Listed, Entered, Visible
  <1>9. \A e : dir[e].f = dir[i].f => Twin(of, e) /\ Hit(e)
    BY <1>0, <1>6, SameFile DEF Twin
  \* The entries.
  <1>10. i \in Visible /\ ~InSections(i) => \A e \in Visible : dir[e].f = dir[i].f => e = i
    <2> SUFFICES ASSUME i \in Visible, ~InSections(i), NEW e \in Visible, dir[e].f = dir[i].f
                 PROVE  e = i
      OBVIOUS
    <2>1. Parts(i) = 1 /\ Begin(i) \in Nat
      BY <1>1, <1>2, EntryFacts
    <2>2. e \in Mine(i) /\ i \in Mine(i)
      BY <1>2, MineFacts
    <2> QED  BY <2>1, <2>2 DEF Mine
  <1>11. DOMAIN ext = 1 .. Len(dir)
    BY <1>2 DEF Kept
  <1>12. \A e \in 1 .. Len(dir) : dir[e].f # dir[i].f => ext'[e] = ext[e]
    <2>1. first => \A t \in Run(i) : dir[t].f = dir[i].f
      BY <1>1, <1>2, RunFacts DEF Visible
    <2> QED  BY <1>0, <1>11, <2>1
  <1>13. i \in Visible =>
             \A e \in Visible : dir[e].f = dir[i].f => ext'[e] = there + dir[e].off /\ ext'[e] # 0
    <2> SUFFICES ASSUME i \in Visible, NEW e \in Visible, dir[e].f = dir[i].f
                 PROVE  ext'[e] = there + dir[e].off /\ ext'[e] # 0
      OBVIOUS
    <2>1. e \in 1 .. Len(dir) /\ dir[e].off \in Nat
      BY <1>2, OffsetFacts DEF Visible
    <2>2. CASE InSections(i)
      <3>1. e \in Mine(i)
        BY <1>2, MineFacts
      <3>2. e >= i
        BY <1>1, <2>1, <3>1 DEF Mine
      <3>3. e \in Run(i) /\ first
        BY <1>2, <2>2, <3>1, <3>2, RunFacts DEF Visible
      <3>4. Before(i, e) = dir[e].off - dir[i].off
        BY <1>1, <1>2, <3>1, <3>2, BeforeFacts
      <3>5. Before(i, e) = dir[e].off
        BY <1>1, <2>1, <3>4
      <3>6. ext'[e] = there + dir[e].off
        BY <1>0, <1>11, <2>1, <3>3, <3>5
      <3> QED  BY <1>7, <2>1, <3>6
    <2>3. CASE ~InSections(i)
      <3>1. e = i /\ ~first
        BY <1>10, <2>3
      <3>2. ext'[e] = there
        BY <1>0, <1>11, <2>1, <3>1
      <3> QED  BY <1>1, <1>7, <3>1, <3>2
    <2> QED  BY <2>2, <2>3
  <1>14. i \notin Visible => ext'[i] = there /\ \A e \in Visible : ext'[e] = ext[e]
    <2> SUFFICES ASSUME i \notin Visible
                 PROVE  ext'[i] = there /\ \A e \in Visible : ext'[e] = ext[e]
      OBVIOUS
    <2>1. ~first
      BY <1>1 DEF Visible
    <2>2. \A e \in Visible : e \in DOMAIN ext /\ e # i
      BY <1>11 DEF Visible
    <2> QED  BY <1>0, <1>1, <1>11, <2>1, <2>2
  <1> HIDE DEF first
  <1>15. ext'[i] # 0
    BY <1>7, <1>13, <1>14
  \* The weights.
  <1>16. job.sort /\ i \in Visible => ~InSections(i)
    <2> SUFFICES ASSUME job.sort, i \in Visible, InSections(i) PROVE FALSE
      OBVIOUS
    <2>1. /\ dir[i].f \in 1 .. Len(job.files) /\ File(i) = job.files[dir[i].f]
          /\ dir[of].f \in 1 .. Len(job.files) /\ File(of) = job.files[dir[of].f]
      BY <1>1, <1>2, <1>8, EntryFacts
    <2>2. dir[of].f # dir[i].f
      BY <1>1, <1>6
    <2>3. MultiExtent(job.files[dir[i].f])
      BY <2>1 DEF InSections
    <2>4. File(of).ino # File(i).ino
      BY <2>1, <2>2, <2>3 DEF Supported
    <2> QED  BY <1>6, <2>4 DEF Twin
  <1>17. /\ \A e \in 1 .. Len(dir) : weight[e] \in Int
         /\ \A e \in 1 .. Len(dir) : e # i /\ e # of => weight'[e] = weight[e]
         /\ weight'[of] >= weight[of]
         /\ job.sort /\ i \in Visible => weight'[i] = NotSorted
         /\ i \notin Visible => weight' = weight
    <2>1. /\ DOMAIN weight = 1 .. Len(dir) /\ \A e \in 1 .. Len(dir) : weight[e] \in Int
      BY <1>2 DEF Kinds
    <2>2. i \in Visible <=> ~Hidden(i)
      BY <1>1 DEF Visible
    <2> DEFINE m == IF weight[of] > weight[i] THEN weight[of] ELSE weight[i]
    <2>3. job.sort /\ i \in Visible =>
              weight' = [[weight EXCEPT ![of] = m] EXCEPT ![i] = NotSorted]
      BY <1>0, <1>8, <2>1, <2>2 DEF Weigh, of
    <2>4. ~(job.sort /\ i \in Visible) => weight' = weight
      BY <1>0, <2>2 DEF Weigh
    <2>5. m >= weight[of]
      BY <1>1, <1>8, <2>1
    <2> HIDE DEF m
    <2>6. CASE job.sort /\ i \in Visible
      <3>1. weight'[i] = NotSorted /\ weight'[of] = m
        BY <1>1, <1>8, <2>1, <2>3, <2>6
      <3>2. \A e \in 1 .. Len(dir) : e # i /\ e # of => weight'[e] = weight[e]
        BY <2>1, <2>3, <2>6
      <3> QED  BY <2>1, <2>5, <2>6, <3>1, <3>2
    <2>7. CASE ~(job.sort /\ i \in Visible)
      BY <1>8, <2>1, <2>4, <2>7
    <2> QED  BY <2>6, <2>7
  <1>18. Listed'
    BY <1>0, <1>2, <1>3 DEF Listed
  <1>19. Followed'
    <2>1. From(Origin)' <=> From(Origin)
      BY <1>0, <1>3 DEF From
    <2> QED  BY <1>0, <1>2, <2>1 DEF Followed
  <1>20. Entered'
    <2>0. \A e \in Visible : e \in 1 .. Len(dir)
      BY DEF Visible
    <2>1. \A e \in 1 .. Len(dir) : e < i + 1 => ext'[e] # 0
      <3> SUFFICES ASSUME NEW e \in 1 .. Len(dir), e < i + 1, e # i PROVE ext'[e] # 0
        BY <1>15
      <3>1. ext[e] # 0
        BY <1>0, <1>1, <1>2 DEF Entered
      <3>2. ext'[e] = ext[e] \/ (first /\ e \in Run(i))
        BY <1>0, <1>11
      <3>3. ~(first /\ e \in Run(i))
        BY <1>1, <1>2, RunFacts DEF first, Visible
      <3> QED  BY <3>1, <3>2, <3>3
    <2>2. \A e, x \in Visible : dir[e].f = dir[x].f /\ ext'[e] = 0 => ext'[x] = 0
      <3> SUFFICES ASSUME NEW e \in Visible, NEW x \in Visible, dir[e].f = dir[x].f, ext'[e] = 0
                   PROVE  ext'[x] = 0
        OBVIOUS
      <3>1. ext'[e] = ext[e] /\ ext'[x] = ext[x]
        BY <1>12, <1>13, <1>14, <2>0
      <3> QED  BY <1>0, <1>2, <3>1 DEF Entered
    <2>3. ASSUME NEW r \in (1 .. Len(dir)) \ Visible, ext'[r] = 0
          PROVE  Hit(r) \/ \A v \in Visible : dir[v].f = dir[r].f => ext'[v] = 0
      <3>1. CASE dir[r].f = dir[i].f
        BY <1>9, <3>1
      <3>2. CASE dir[r].f # dir[i].f
        <4>1. Hit(r) \/ \A v \in Visible : dir[v].f = dir[r].f => ext[v] = 0
          BY <1>0, <1>2, <1>12, <2>3, <3>2 DEF Entered
        <4> QED  BY <1>12, <2>0, <3>2, <4>1
      <3> QED  BY <3>1, <3>2
    <2>4. \A r : Hit(r)' <=> Hit(r)
      BY <1>0, <1>3 DEF Hit
    <2>5. \A x \in Elems : ext'[list[x].e] # 0
      <3> SUFFICES ASSUME NEW x \in Elems PROVE ext'[list[x].e] # 0
        OBVIOUS
      <3>1. list[x].e \in Visible /\ list[x].e \in 1 .. Len(dir) /\ ext[list[x].e] # 0
        BY <1>0, <1>2, <2>0 DEF Listed, Entered
      <3> QED  BY <1>12, <1>13, <1>14, <3>1
    <2>6. /\ \A e \in 1 .. Len(dir') : e < i' => ext'[e] # 0
          /\ \A e, x \in Visible' : dir'[e].f = dir'[x].f /\ ext'[e] = 0 => ext'[x] = 0
      BY <1>0, <1>3, <2>1, <2>2
    <2>7. \A r \in (1 .. Len(dir')) \ Visible' : ext'[r] = 0 =>
              Hit(r)' \/ \A v \in Visible' : dir'[v].f = dir'[r].f => ext'[v] = 0
      BY <1>0, <1>3, <2>3, <2>4
    <2>8. \A x \in Elems' : ext'[list'[x].e] # 0
      BY <1>0, <1>3, <2>5
    <2> QED  BY <2>6, <2>7, <2>8 DEF Entered
  <1>21. Hashed'
    BY <1>0, <1>2, <1>3 DEF Hashed
  <1>22. Shows'
    <2> SUFFICES ASSUME NEW e \in Visible, dir[e].size > 0
                 PROVE  \/ Earlier(e)
                        \/ ext'[e] = 0
                        \/ Own(e)'
                        \/ LinkAt(e)' /\ (job.sort => Waits(e)')
      BY <1>0, <1>3 DEF Shows
    <2>0. e \in 1 .. Len(dir)
      BY DEF Visible
    <2>1. CASE dir[e].f = dir[i].f /\ i \in Visible
      <3>1. Twin(list[k].e, e) /\ ext'[e] = list[k].ext + dir[e].off
        BY <1>6, <1>9, <1>13, <2>1
      <3>2. LinkAt(e)'
        BY <1>0, <1>3, <3>1 DEF LinkAt
      <3>3. job.sort => ~InSections(e) /\ weight'[e] = NotSorted
        BY <1>10, <1>16, <1>17, <2>1
      <3>4. job.sort => Waits(e)'
        BY <1>0, <1>3, <3>1, <3>3 DEF Waits
      <3> QED  BY <3>2, <3>4
    <2>2. CASE ~(dir[e].f = dir[i].f /\ i \in Visible)
      <3>1. ext'[e] = ext[e]
        BY <1>12, <1>14, <2>0, <2>2
      <3>2. \/ Earlier(e) \/ ext[e] = 0 \/ Own(e) \/ (LinkAt(e) /\ (job.sort => Waits(e)))
        BY <1>0, <1>2 DEF Shows
      <3>3. Own(e) => Own(e)'
        BY <1>0, <1>3, <3>1 DEF Own
      <3>4. LinkAt(e) => LinkAt(e)'
        BY <1>0, <1>3, <3>1 DEF LinkAt
      <3>5. CASE e # of
        <4>1. weight'[e] = weight[e]
          BY <1>1, <1>17, <2>0, <2>2, <3>5
        <4>2. Waits(e) => Waits(e)'
          BY <1>0, <1>3, <4>1 DEF Waits
        <4> QED  BY <3>1, <3>2, <3>3, <3>4, <4>2
      <3>6. CASE e = of
        <4>1. LinkAt(e) => Own(e)
          <5> SUFFICES ASSUME LinkAt(e) PROVE Own(e)
            OBVIOUS
          <5>1. PICK x \in Elems : Twin(list[x].e, e) /\ ext[e] = list[x].ext + dir[e].off
            BY DEF LinkAt
          <5>2. x = k
            BY <1>2, <1>6, <3>6, <5>1 DEF Listed
          <5> QED  BY <1>6, <3>6, <5>1, <5>2 DEF Own
        <4> QED  BY <3>1, <3>2, <3>3, <4>1
      <3> QED  BY <3>5, <3>6
    <2> QED  BY <2>1, <2>2
  <1>23. Kept'
    <2>1. ext' = [e \in 1 .. Len(dir) |-> ext'[e]]
      BY <1>0, <1>11
    <2>2. \A e \in 1 .. Len(dir) : Earlier(e) => dir[e].f # dir[i].f
      BY <1>1, SameFile
    <2>3. \A e \in 1 .. Len(dir) : Earlier(e) => ext'[e] = File(e).prev
      BY <1>0, <1>2, <1>12, <2>2 DEF Kept
    <2>4. ASSUME job.sort, NEW e \in Visible, InSections(e) PROVE weight'[e] > NotSorted
      <3>1. e \in 1 .. Len(dir) /\ weight[e] > NotSorted /\ weight[e] \in Int
        BY <1>2, <1>17, <2>4 DEF Kept, Visible
      <3>2. CASE i \notin Visible
        BY <1>17, <3>1, <3>2
      <3>3. CASE i \in Visible
        <4>1. e # i
          BY <1>16, <2>4, <3>3
        <4>2. CASE e # of
          BY <1>17, <3>1, <4>1, <4>2
        <4>3. CASE e = of
          <5>1. weight'[of] \in Int
            BY EndQuiet, <1>0, <1>8, AssignLinked DEF EndInv, Kinds
          <5> QED  BY <1>17, <3>1, <4>3, <5>1 DEF NotSorted
        <4> QED  BY <4>2, <4>3
      <3> QED  BY <3>2, <3>3
    <2> QED  BY <1>0, <1>2, <1>3, <2>1, <2>3, <2>4 DEF Kept
  <1> QED  BY <1>18, <1>19, <1>20, <1>21, <1>22, <1>23 DEF LayoutInv

\* Looking for an entry in the list.
LEMMA PlaceFacts ==
    ASSUME NEW l \in Seq(DWrite), NEW e
    PROVE  /\ Place(l, e) > 0 => Place(l, e) \in 1 .. Len(l) /\ l[Place(l, e)].e = e
           /\ \A k \in 1 .. Len(l) : l[k].e = e => Place(l, e) > 0
           /\ Place(l, e) \in Nat
  <1> DEFINE I == {k \in 1 .. Len(l) : l[k].e = e}
             m == Place(l, e)
  <1>1. m = IF I # {} THEN Min(I) ELSE 0
    BY DEF Place, SelectInSeq
  <1>2. I # {} => Min(I) \in I
    <2> SUFFICES ASSUME I # {} PROVE Min(I) \in I
      OBVIOUS
    <2>1. I \subseteq Nat
      OBVIOUS
    <2> HIDE DEF I
    <2>2. \E x \in I : \A y \in I : x <= y
      BY <2>1, LeastNat, Zenon
    <2> QED  BY <2>2 DEF Min
  <1> HIDE DEF m
  <1>3. I # {} => m \in I
    BY <1>1, <1>2
  <1>4. I = {} => m = 0
    BY <1>1
  <1> QED  BY <1>3, <1>4 DEF m

\* Looking for the element of a file in sections.
LEMMA OwnerFacts ==
    ASSUME NEW l \in Seq(DWrite), NEW e
    PROVE  LET Has(d) == InSections(d.e) /\ (e \in Run(d.e) \/ e = Root(d.e))
           IN /\ Owner(l, e) > 0 => Owner(l, e) \in 1 .. Len(l) /\ Has(l[Owner(l, e)])
              /\ \A k \in 1 .. Len(l) : Has(l[k]) => Owner(l, e) > 0
              /\ Owner(l, e) \in Nat
  <1> DEFINE Has(d) == InSections(d.e) /\ (e \in Run(d.e) \/ e = Root(d.e))
             I == {k \in 1 .. Len(l) : Has(l[k])}
             m == Owner(l, e)
  <1>1. m = IF I # {} THEN Min(I) ELSE 0
    BY DEF Owner, SelectInSeq
  <1> HIDE DEF Has
  <1>2. I # {} => Min(I) \in I
    <2> SUFFICES ASSUME I # {} PROVE Min(I) \in I
      OBVIOUS
    <2>1. I \subseteq Nat
      OBVIOUS
    <2> HIDE DEF I
    <2>2. \E x \in I : \A y \in I : x <= y
      BY <2>1, LeastNat, Zenon
    <2> QED  BY <2>2 DEF Min
  <1> HIDE DEF m
  <1>3. I # {} => m \in I
    BY <1>1, <1>2
  <1>4. I = {} => m = 0
    BY <1>1
  <1>5. /\ m > 0 => m \in 1 .. Len(l) /\ Has(l[m])
        /\ \A k \in 1 .. Len(l) : Has(l[k]) => m > 0
        /\ m \in Nat
    BY <1>3, <1>4
  <1> QED  BY <1>5 DEF m, Has

\* The first entry of a file is the one without offset.
LEMMA FirstEntry ==
    ASSUME Kinds, NEW e \in Visible, dir[e].off = 0
    PROVE  e = Begin(e)
  <1>1. e \in 1 .. Len(dir) /\ Begin(e) \in Nat
    BY EntryFacts DEF Visible
  <1>2. PICK p \in 1 .. Parts(e) : e = Begin(e) + p - 1 /\ dir[e] = Section(job.files, dir[e].f, p)
    BY <1>1, EntryFacts
  <1>3. p = 1
    <2>1. CASE Parts(e) = 1
      BY <1>2, <2>1
    <2>2. CASE Parts(e) # 1
      <3>1. dir[e].off = (p - 1) * Large
        BY <1>2, <2>2 DEF Section, Parts, FileCount
      <3>2. Large \in Nat /\ Large > 0
        BY LayoutAssumption
      <3>3. \A x, y \in Nat : x * y = 0 /\ y > 0 => x = 0
        OBVIOUS
      <3>4. p \in Nat /\ p >= 1
        BY <1>1, <1>2, EntryFacts
      <3>5. p - 1 \in Nat /\ (p - 1) * Large = 0
        BY <3>1, <3>4
      <3>6. p - 1 = 0
        BY <3>2, <3>3, <3>5
      <3> QED  BY <3>4, <3>6
    <2> QED  BY <2>1, <2>2
  <1> QED  BY <1>1, <1>2, <1>3

\* An element that is moved takes what its file takes.
LEMMA LengthFacts ==
    ASSUME EndInv, LayoutInv, Supported, pc = "sort", NEW k \in 1 .. Len(list)
    PROVE  Length(list[k]) + (IF job.dvd THEN list[k].pad ELSE 0) = list[k].size + list[k].pad
  <1> DEFINE d == list[k]
  <1>0. Kinds /\ Listed /\ job.sort
    BY DEF EndInv, LayoutInv, Planned
  <1>1. /\ d \in DWrite /\ d.e \in Visible /\ dir[d.e].off = 0 /\ d.size = File(d.e).size
        /\ ~job.dvd => d.pad = 0
    <2>1. list \in Seq(DWrite) /\ k \in Elems
      BY <1>0 DEF Kinds, Listed
    <2> QED  BY <1>0, <2>1 DEF Listed
  <1> HIDE DEF d
  <1>2. d.e \in 1 .. Len(dir) /\ d.e = Begin(d.e) /\ d.size \in Nat /\ d.pad \in Nat
    BY <1>0, <1>1, FirstEntry DEF Visible, DWrite
  <1>3. Length(d) = d.size
    <2>1. CASE InSections(d.e)
      <3>1. dir[d.e].f \in 1 .. Len(job.files) /\ MultiExtent(job.files[dir[d.e].f])
        BY <1>0, <1>2, <2>1, EntryFacts DEF InSections
      <3>2. dir[d.e].f < Len(job.files)
        BY <1>0, <3>1 DEF Supported
      <3>3. Blocks(Run(Begin(d.e))) = File(d.e).size
        BY <1>0, <1>1, <3>2, BeforeFacts
      <3> QED  BY <1>1, <1>2, <2>1, <3>3 DEF Length
    <2>2. CASE ~InSections(d.e)
      <3>1. Parts(d.e) = 1
        BY <1>0, <1>2, <2>2, EntryFacts
      <3>2. dir[d.e].size = File(d.e).size
        BY <1>0, <1>1, <3>1, OffsetFacts
      <3> QED  BY <1>1, <2>2, <3>2 DEF Length
    <2> QED  BY <2>1, <2>2
  <1>4. Length(d) + (IF job.dvd THEN d.pad ELSE 0) = d.size + d.pad
    BY <1>1, <1>2, <1>3
  <1> QED  BY <1>4 DEF d

\* Which element an entry finds in a list that has every file once.
LEMMA Keys ==
    ASSUME Kinds, NEW l \in Seq(DWrite),
           \A k \in 1 .. Len(l) : l[k].e \in Visible /\ dir[l[k].e].off = 0,
           \A j, k \in 1 .. Len(l) : dir[l[j].e].f = dir[l[k].e].f => j = k,
           NEW e \in 1 .. Len(dir)
    PROVE  /\ (\A k \in 1 .. Len(l) : dir[l[k].e].f # dir[e].f) => Owner(l, e) = 0 /\ Place(l, e) = 0
           /\ \A k \in 1 .. Len(l) : dir[l[k].e].f = dir[e].f /\ e \in Visible =>
                 IF InSections(e)
                 THEN /\ Owner(l, e) = k /\ e \in Run(l[k].e)
                      /\ Before(l[k].e, e) = dir[e].off
                 ELSE Owner(l, e) = 0 /\ Place(l, e) = k /\ dir[e].off = 0 /\ e = l[k].e
  <1> DEFINE o == Owner(l, e)
             p == Place(l, e)
  <1>1. /\ o \in Nat
        /\ o > 0 => /\ o \in 1 .. Len(l) /\ InSections(l[o].e)
                    /\ e \in Run(l[o].e) \/ e = Root(l[o].e)
        /\ \A k \in 1 .. Len(l) : InSections(l[k].e) /\ e \in Run(l[k].e) => o > 0
    BY OwnerFacts
  <1>2. /\ p \in Nat
        /\ p > 0 => p \in 1 .. Len(l) /\ l[p].e = e
        /\ \A k \in 1 .. Len(l) : l[k].e = e => p > 0
    BY PlaceFacts
  <1> HIDE DEF o, p
  <1>3. o > 0 => dir[l[o].e].f = dir[e].f /\ InSections(e)
    <2> SUFFICES ASSUME o > 0 PROVE dir[l[o].e].f = dir[e].f /\ InSections(e)
      OBVIOUS
    <2> DEFINE x == l[o].e
    <2>1. x \in Visible /\ x \in 1 .. Len(dir) /\ InSections(x) /\ (e \in Run(x) \/ e = Root(x))
      BY <1>1 DEF Visible
    <2> HIDE DEF x
    <2>2. dir[x].f = dir[e].f
      BY <2>1, RunFacts, RootFacts
    <2>3. InSections(e)
      BY <2>1, <2>2, SameFile
    <2> QED  BY <2>2, <2>3 DEF x
  <1>4. (\A k \in 1 .. Len(l) : dir[l[k].e].f # dir[e].f) => o = 0 /\ p = 0
    BY <1>1, <1>2, <1>3
  <1>5. ASSUME NEW k \in 1 .. Len(l), dir[l[k].e].f = dir[e].f, e \in Visible
        PROVE  IF InSections(e)
               THEN o = k /\ e \in Run(l[k].e) /\ Before(l[k].e, e) = dir[e].off
               ELSE o = 0 /\ p = k /\ dir[e].off = 0 /\ e = l[k].e
    <2> DEFINE x == l[k].e
    <2>1. x \in Visible /\ x \in 1 .. Len(dir) /\ dir[x].off = 0 /\ dir[x].f = dir[e].f
      BY <1>5 DEF Visible
    <2>2. o > 0 => o = k
      BY <1>1, <1>3, <1>5
    <2>3. p > 0 => p = k
      BY <1>2, <1>5
    <2>4. \A y \in 1 .. Len(l) : l[y].e = x <=> y = k
      BY <1>5
    <2>5. InSections(x) => (e \in Run(x) => o > 0)
      BY <1>1
    <2>6. x = e => p > 0
      BY <1>2
    <2> HIDE DEF x
    <2>7. /\ x = Begin(x) /\ Begin(x) = Begin(e) /\ (InSections(x) <=> InSections(e))
          /\ Parts(x) = Parts(e)
      <3>1. x = Begin(x)
        BY <2>1, FirstEntry
      <3>2. Begin(x) = Begin(e) /\ (InSections(x) <=> InSections(e)) /\ Parts(x) = Parts(e)
        BY <2>1, SameFile
      <3> QED  BY <3>1, <3>2
    <2>8. e \in Mine(x) /\ x \in Mine(x) /\ x \in Nat
      BY <1>5, <2>1, MineFacts
    <2>9. CASE InSections(e)
      <3>1. e >= x
        BY <2>7, <2>8 DEF Mine
      <3>2. e \in Run(x)
        BY <2>1, <2>8, <3>1, RunFacts
      <3>3. Before(x, e) = dir[e].off - dir[x].off
        BY <2>1, <2>8, <3>1, BeforeFacts
      <3>4. dir[e].off \in Nat
        BY <1>5, OffsetFacts
      <3> QED  BY <2>1, <2>2, <2>5, <2>7, <2>9, <3>2, <3>3, <3>4 DEF x
    <2>10. CASE ~InSections(e)
      <3>1. Parts(e) = 1
        BY <2>10, EntryFacts
      <3>2. e = x
        BY <2>7, <2>8, <3>1 DEF Mine
      <3>3. o = 0
        BY <1>1, <1>3, <2>10
      <3> QED  BY <2>1, <2>3, <2>6, <2>10, <3>2, <3>3 DEF x
    <2> QED  BY <2>9, <2>10
  <1> QED  BY <1>4, <1>5 DEF o, p

\* Where the sorted elements go.
SortedAt ==
    LET w == [k \in 1 .. Len(Sorted) |->
                 Length(Sorted[k]) + IF job.dvd THEN Sorted[k].pad ELSE 0]
    IN [k \in 1 .. Len(Sorted) |-> list[1].ext + SumOver(w, 1 .. k - 1)]

\* The sorted list has the same elements, and they follow each other again.
LEMMA SortMoves ==
    ASSUME EndInv, LayoutInv, Supported, Sort
    PROVE  /\ Sorted \in Seq(DWrite) /\ Len(list') = Len(Sorted) /\ Len(list) = Len(Sorted)
           /\ Len(list) \in Nat /\ list' \in Seq(DWrite)
           /\ \A k \in 1 .. Len(list) :
                 /\ list'[k].e = Sorted[k].e /\ list'[k].size = Sorted[k].size
                 /\ list'[k].pad = Sorted[k].pad
                 /\ list'[k].ext = Origin + UpToNth(list', k - 1)
                 /\ list'[k].ext = SortedAt[k]
           /\ \A j, k \in 1 .. Len(list) : Sorted[j] = Sorted[k] => j = k
           /\ \A k \in 1 .. Len(list) :
                 /\ \E j \in 1 .. Len(list) : Sorted[k] = list[j]
                 /\ \E j \in 1 .. Len(list) : list[k] = Sorted[j]
  <1> DEFINE l == Sorted
             w == [k \in 1 .. Len(l) |-> Length(l[k]) + IF job.dvd THEN l[k].pad ELSE 0]
             at == [k \in 1 .. Len(l) |-> list[1].ext + SumOver(w, 1 .. k - 1)]
  <1>1. /\ Kinds /\ Queued /\ Listed /\ Followed /\ pc = "sort" /\ list' = Moved(l, at)
    BY DEF EndInv, LayoutInv, Sort, Chain
  <1>2. at = SortedAt
    BY DEF SortedAt
  <1>3. /\ l \in Seq(DWrite) /\ Len(l) = Len(list) /\ Len(list) \in Nat
        /\ \A j, k \in 1 .. Len(l) : l[j] = l[k] => j = k
        /\ \A k \in 1 .. Len(l) : \E j \in 1 .. Len(list) : l[k] = list[j]
        /\ \A k \in 1 .. Len(list) : \E j \in 1 .. Len(l) : list[k] = l[j]
    <2>1. {l[k] : k \in 1 .. Len(l)} = {list[k] : k \in 1 .. Len(list)}
      BY <1>1, SortedFacts
    <2>2. /\ l \in Seq(DWrite) /\ Len(l) = Len(list)
          /\ \A j, k \in 1 .. Len(l) : l[j] = l[k] => j = k
      BY <1>1, SortedFacts
    <2> HIDE DEF l
    <2>3. Len(list) \in Nat
      <3>1. list \in Seq(DWrite)
        BY <1>1 DEF Kinds
      <3> QED  BY <3>1
    <2>4. \A k \in 1 .. Len(l) : l[k] \in {list[j] : j \in 1 .. Len(list)}
      BY <2>1
    <2>5. \A k \in 1 .. Len(list) : list[k] \in {l[j] : j \in 1 .. Len(l)}
      BY <2>1
    <2> QED  BY <2>2, <2>3, <2>4, <2>5
  <1>4. \A k \in 1 .. Len(list) :
            Length(list[k]) + (IF job.dvd THEN list[k].pad ELSE 0) = list[k].size + list[k].pad
    BY <1>1, LengthFacts
  <1> HIDE DEF l
  <1>5. w = Room(l)
    <2>1. \A k \in 1 .. Len(l) :
              Length(l[k]) + (IF job.dvd THEN l[k].pad ELSE 0) = l[k].size + l[k].pad
      <3> SUFFICES ASSUME NEW k \in 1 .. Len(l)
                   PROVE  Length(l[k]) + (IF job.dvd THEN l[k].pad ELSE 0) = l[k].size + l[k].pad
        OBVIOUS
      <3>1. PICK j \in 1 .. Len(list) : l[k] = list[j]
        BY <1>3
      <3>2. Length(list[j]) + (IF job.dvd THEN list[j].pad ELSE 0) = list[j].size + list[j].pad
        BY <1>4
      <3> QED  BY <3>1, <3>2, Zenon
    <2> QED  BY <2>1 DEF Room
  <1>6. \A k \in 1 .. Len(l) : at[k] = Origin + UpToNth(l, k - 1) /\ at[k] \in Int
    <2> SUFFICES ASSUME NEW k \in 1 .. Len(l)
                 PROVE  at[k] = Origin + UpToNth(l, k - 1) /\ at[k] \in Int
      OBVIOUS
    <2>1. at[k] = list[1].ext + SumOver(Room(l), 1 .. k - 1)
      BY <1>5
    <2>2. SumOver(Room(l), 1 .. k - 1) = UpToNth(l, k - 1)
      BY SumOverIsTotal DEF UpToNth
    <2>3. 1 \in 1 .. Len(list) /\ 1 - 1 = 0
      BY <1>3
    <2>4. list[1].ext = Origin + UpToNth(list, 0)
      BY <1>1, <2>3 DEF Followed, From
    <2>5. UpToNth(list, 0) = 0 /\ UpToNth(l, k - 1) \in Int
      <3>1. list \in Seq(DWrite) /\ k - 1 \in 0 .. Len(l)
        BY <1>1, <1>3 DEF Kinds
      <3> QED  BY <1>3, <3>1, RoomFacts
    <2>6. Origin \in Int
      BY <1>1, JobFacts, LayoutAssumption DEF Origin
    <2>7. list[1].ext = Origin
      BY <2>4, <2>5, <2>6
    <2> HIDE DEF at
    <2> QED  BY <2>1, <2>2, <2>5, <2>6, <2>7
  <1> HIDE DEF at, w
  <1>7. /\ Moved(l, at) \in Seq(DWrite) /\ Len(Moved(l, at)) = Len(l)
        /\ \A k \in 1 .. Len(l) : /\ Moved(l, at)[k].e = l[k].e
                                  /\ Moved(l, at)[k].size = l[k].size
                                  /\ Moved(l, at)[k].pad = l[k].pad
                                  /\ Moved(l, at)[k].ext = at[k]
    <2>1. l \in Seq(DWrite) /\ \A k \in 1 .. Len(l) : at[k] \in Int
      BY <1>3, <1>6
    <2> QED  BY <2>1, MovedFacts
  <1>8. /\ list' \in Seq(DWrite) /\ Len(list') = Len(l)
        /\ \A k \in 1 .. Len(l) : /\ list'[k].e = l[k].e /\ list'[k].size = l[k].size
                                  /\ list'[k].pad = l[k].pad /\ list'[k].ext = at[k]
    <2> DEFINE m == Moved(l, at)
    <2>1. list' = m
      BY <1>1
    <2> HIDE DEF m
    <2>2. /\ m \in Seq(DWrite) /\ Len(m) = Len(l)
          /\ \A k \in 1 .. Len(l) : /\ m[k].e = l[k].e /\ m[k].size = l[k].size
                                    /\ m[k].pad = l[k].pad /\ m[k].ext = at[k]
      BY <1>7 DEF m
    <2> QED  BY <2>1, <2>2
  <1>9. \A n : UpToNth(list', n) = UpToNth(l, n)
    <2>1. Room(list') = Room(l)
      BY <1>8 DEF Room
    <2> QED  BY <2>1 DEF UpToNth
  <1>10. \A k \in 1 .. Len(l) : /\ list'[k].ext = Origin + UpToNth(list', k - 1)
                                  /\ list'[k].ext = SortedAt[k]
    BY <1>2, <1>6, <1>8, <1>9
  <1>11. /\ l \in Seq(DWrite) /\ Len(list') = Len(l) /\ Len(list) = Len(l)
         /\ Len(list) \in Nat /\ list' \in Seq(DWrite)
    BY <1>3, <1>8
  <1>12. \A k \in 1 .. Len(list) :
            /\ list'[k].e = l[k].e /\ list'[k].size = l[k].size /\ list'[k].pad = l[k].pad
            /\ list'[k].ext = Origin + UpToNth(list', k - 1) /\ list'[k].ext = SortedAt[k]
    BY <1>8, <1>10, <1>11
  <1>13. /\ \A j, k \in 1 .. Len(list) : l[j] = l[k] => j = k
         /\ \A k \in 1 .. Len(list) : /\ \E j \in 1 .. Len(list) : l[k] = list[j]
                                      /\ \E j \in 1 .. Len(list) : list[k] = l[j]
    BY <1>3
  <1> QED  BY <1>11, <1>12, <1>13, Zenon DEF l

\* Sorting moves the elements, and with each all entries of its file.  The other
\* names wait for what follows.
LEMMA LayoutSort == EndInv /\ LayoutInv /\ Supported /\ Sort => LayoutInv'
  <1> SUFFICES ASSUME EndInv, LayoutInv, Supported, Sort PROVE LayoutInv'
    OBVIOUS
  <1> DEFINE l == Sorted
             at == SortedAt
             n == Len(list)
             begin == [e \in DOMAIN start |->
                         IF Owner(l, e) > 0 /\ e = l[Owner(l, e)].e
                         THEN at[Owner(l, e)] + Before(e, Max(Run(e)))
                         ELSE IF Owner(l, e) > 0 /\ Hidden(e) THEN at[Owner(l, e)]
                         ELSE IF Place(l, e) > 0 THEN at[Place(l, e)] ELSE start[e]]
  <1>0. /\ pc = "sort" /\ pc' = "reassign"
        /\ UNCHANGED <<job, dir, weight, last, hpad, tries>>
        /\ ext' = [e \in DOMAIN ext |->
                     IF Owner(l, e) > 0
                     THEN at[Owner(l, e)] + IF e \in Run(l[Owner(l, e)].e)
                                            THEN Before(l[Owner(l, e)].e, e) ELSE 0
                     ELSE IF Place(l, e) > 0 THEN at[Place(l, e)] ELSE ext[e]]
        /\ start' = begin
        /\ hash' = [x \in {File(l[k].e).ino : k \in {m \in 1 .. Len(l) : Cached(l[m].e) /\ TRUE}} |->
                      LET k == CHOOSE m \in 1 .. Len(l) :
                                  Cached(l[m].e) /\ TRUE /\ File(l[m].e).ino = x
                      IN [start |-> begin[l[k].e], of |-> l[k].e]]
    BY DEF Sort, Chain, SortedAt, HashOf, given, volume
  <1>1. Kinds /\ Listed /\ Followed /\ Entered /\ Hashed /\ Shows /\ Kept
    BY DEF EndInv, LayoutInv
  <1>2. /\ l \in Seq(DWrite) /\ Len(list') = n /\ Len(l) = n /\ n \in Nat
        /\ list' \in Seq(DWrite)
        /\ \A k \in 1 .. n : /\ list'[k].e = l[k].e /\ list'[k].size = l[k].size
                             /\ list'[k].ext = Origin + UpToNth(list', k - 1)
                             /\ list'[k].ext = at[k]
    BY SortMoves
  <1>16. \A j, k \in 1 .. n : l[j] = l[k] => j = k
    BY SortMoves
  <1>17. /\ \A k \in 1 .. n : \E j \in 1 .. n : l[k] = list[j]
         /\ \A k \in 1 .. n : \E j \in 1 .. n : list[k] = l[j]
    BY SortMoves
  <1> HIDE DEF begin, l, at
  <1>3. /\ Visible' = Visible /\ Origin' = Origin
        /\ \A e : File(e)' = File(e) /\ (Cached(e)' <=> Cached(e))
                  /\ (InSections(e)' <=> InSections(e)) /\ (Earlier(e)' <=> Earlier(e))
        /\ \A x, e : Twin(x, e)' <=> Twin(x, e)
    BY <1>0, Steady
  <1>4. Elems = 1 .. n
    BY <1>0, <1>1 DEF Listed
  <1> HIDE DEF n
  \* What is known of the elements.
  <1>5. \A k \in 1 .. n : /\ l[k].e \in Visible /\ dir[l[k].e].off = 0 /\ l[k].e \in 1 .. Len(dir)
                          /\ l[k].size = File(l[k].e).size /\ l[k].size > 0
                          /\ File(l[k].e).prev = 0 /\ l[k].e # 0
    <2>1. \A j \in 1 .. n : /\ list[j].e \in Visible /\ dir[list[j].e].off = 0
                            /\ list[j].size = File(list[j].e).size /\ list[j].size > 0
                            /\ File(list[j].e).prev = 0
      BY <1>1, <1>4 DEF Listed
    <2>2. \A e \in Visible : e \in 1 .. Len(dir) /\ e # 0
      BY DEF Visible
    <2> SUFFICES ASSUME NEW k \in 1 .. n
                 PROVE  /\ l[k].e \in Visible /\ dir[l[k].e].off = 0 /\ l[k].e \in 1 .. Len(dir)
                        /\ l[k].size = File(l[k].e).size /\ l[k].size > 0
                        /\ File(l[k].e).prev = 0 /\ l[k].e # 0
      OBVIOUS
    <2>3. PICK j \in 1 .. n : l[k] = list[j]
      BY <1>17
    <2> QED  BY <2>1, <2>2, <2>3
  <1>6. ASSUME NEW j \in 1 .. n, NEW k \in 1 .. n,
               dir[l[j].e].f = dir[l[k].e].f \/ Twin(l[j].e, l[k].e)
        PROVE  j = k
    <2>1. PICK a \in 1 .. n : l[j] = list[a]
      BY <1>17
    <2>2. PICK b \in 1 .. n : l[k] = list[b]
      BY <1>17
    <2>3. dir[list[a].e].f = dir[list[b].e].f \/ Twin(list[a].e, list[b].e)
      BY <1>6, <2>1, <2>2
    <2>4. a = b
      BY <1>1, <1>4, <2>3 DEF Listed
    <2> QED  BY <1>16, <2>1, <2>2, <2>4
  <1>7. Elems' = 1 .. n
    <2>1. \A k \in 1 .. n : list'[k].e # 0
      BY <1>2, <1>5
    <2> QED  BY <1>2, <2>1 DEF Elems
  \* The entries.
  <1>8. /\ DOMAIN ext = 1 .. Len(dir) /\ DOMAIN start = 1 .. Len(dir)
        /\ ext' = [e \in 1 .. Len(dir) |-> ext'[e]] /\ DOMAIN start' = 1 .. Len(dir)
    <2>1. DOMAIN ext = 1 .. Len(dir) /\ DOMAIN start = 1 .. Len(dir)
      BY <1>1 DEF Kept
    <2>2. DOMAIN start' = DOMAIN start
      BY <1>0 DEF begin
    <2>3. ext' = [e \in DOMAIN ext |-> ext'[e]]
      BY <1>0
    <2> QED  BY <2>1, <2>2, <2>3
  <1>9. ASSUME NEW e \in 1 .. Len(dir)
        PROVE  /\ (\A k \in 1 .. n : dir[l[k].e].f # dir[e].f) => ext'[e] = ext[e]
               /\ \A k \in 1 .. n : dir[l[k].e].f = dir[e].f /\ e \in Visible =>
                     /\ ext'[e] = at[k] + dir[e].off
                     /\ ~InSections(e) => start'[e] = at[k]
    <2>1. /\ \A k \in 1 .. Len(l) : l[k].e \in Visible /\ dir[l[k].e].off = 0
          /\ \A j, k \in 1 .. Len(l) : dir[l[j].e].f = dir[l[k].e].f => j = k
      BY <1>2, <1>5, <1>6
    <2>2. /\ (\A k \in 1 .. n : dir[l[k].e].f # dir[e].f) => Owner(l, e) = 0 /\ Place(l, e) = 0
          /\ \A k \in 1 .. n : dir[l[k].e].f = dir[e].f /\ e \in Visible =>
                IF InSections(e)
                THEN Owner(l, e) = k /\ e \in Run(l[k].e) /\ Before(l[k].e, e) = dir[e].off
                ELSE Owner(l, e) = 0 /\ Place(l, e) = k /\ dir[e].off = 0 /\ e = l[k].e
      <3>1. l \in Seq(DWrite) /\ Kinds
        BY <1>1, <1>2
      <3>2. Len(l) = n
        BY <1>2
      <3> QED  BY <2>1, <3>1, <3>2, Keys
    <2>3. (\A k \in 1 .. n : dir[l[k].e].f # dir[e].f) => ext'[e] = ext[e]
      BY <1>0, <1>8, <2>2
    <2>4. ASSUME NEW k \in 1 .. n, dir[l[k].e].f = dir[e].f, e \in Visible
          PROVE  ext'[e] = at[k] + dir[e].off /\ (~InSections(e) => start'[e] = at[k])
      <3>1. k > 0 /\ k \in Nat
        BY <1>2
      <3>2. at[k] \in Int
        <4>1. list'[k] \in DWrite /\ list'[k].ext = at[k]
          BY <1>2, <2>4
        <4> QED  BY <4>1 DEF DWrite
      <3>3. CASE InSections(e)
        BY <1>0, <1>8, <2>2, <2>4, <3>1, <3>3
      <3>4. CASE ~InSections(e)
        <4>1. Owner(l, e) = 0 /\ Place(l, e) = k /\ dir[e].off = 0
          BY <2>2, <2>4, <3>4
        <4>2. ext'[e] = at[k]
          BY <1>0, <1>8, <3>1, <4>1
        <4>3. begin[e] = at[k]
          BY <1>8, <3>1, <4>1 DEF begin
        <4>4. start'[e] = at[k]
          BY <1>0, <4>3
        <4> QED  BY <3>2, <4>1, <4>2, <4>4
      <3> QED  BY <3>3, <3>4
    <2> QED  BY <2>3, <2>4
  <1>10. Listed'
    <2>1. \A k \in 1 .. n : /\ list'[k].e \in Visible /\ dir[list'[k].e].off = 0
                            /\ list'[k].size = File(list'[k].e).size /\ list'[k].size > 0
                            /\ File(list'[k].e).prev = 0
      BY <1>2, <1>5
    <2>2. \A j, k \in 1 .. n : dir[list'[j].e].f = dir[list'[k].e].f \/ Twin(list'[j].e, list'[k].e)
                                  => j = k
      BY <1>2, <1>6
    <2>3. Elems' = 1 .. Len(list')
      BY <1>2, <1>7
    <2>4. /\ \A k \in Elems' : /\ list'[k].e \in Visible' /\ dir'[list'[k].e].off = 0
                               /\ list'[k].size = File(list[k].e)'.size /\ list'[k].size > 0
                               /\ File(list[k].e)'.prev = 0
          /\ \A j, k \in Elems' :
                dir'[list'[j].e].f = dir'[list'[k].e].f \/ Twin(list[j].e, list[k].e)' => j = k
      BY <1>0, <1>3, <1>7, <2>1, <2>2
    <2> QED  BY <1>0, <2>3, <2>4 DEF Listed
  <1>11. Followed'
    <2>1. \A k \in 1 .. Len(list') : list'[k].ext = Origin' + UpToNth(list', k - 1)
      BY <1>2, <1>3
    <2>2. From(Origin)'
      BY <2>1 DEF From
    <2>3. hpad' >= 0
      BY <1>0, <1>1 DEF Followed
    <2> QED  BY <1>0, <2>2, <2>3 DEF Followed
  <1>12. Entered'
    BY <1>0 DEF Entered
  <1>13. Hashed'
    <2>1. \A x \in DOMAIN hash' : \E k \in 1 .. n : Cached(l[k].e) /\ File(l[k].e).ino = x
      BY <1>0, <1>2
    <2>2. ASSUME NEW k \in 1 .. n, Cached(l[k].e)
          PROVE  /\ File(l[k].e).ino \in DOMAIN hash'
                 /\ ~InSections(l[k].e) => hash'[File(l[k].e).ino].start = at[k]
      <3> DEFINE x == File(l[k].e).ino
                 c == CHOOSE m \in 1 .. Len(l) : Cached(l[m].e) /\ TRUE /\ File(l[m].e).ino = x
      <3>1. x \in DOMAIN hash'
        BY <1>0, <1>2, <2>2
      <3>2. c \in 1 .. n /\ Cached(l[c].e) /\ File(l[c].e).ino = x
        BY <1>2, <2>2
      <3>3. hash'[x] = [start |-> begin[l[c].e], of |-> l[c].e]
        BY <1>0, <3>1
      <3> HIDE DEF x, c
      <3>4. c = k
        <4>1. Twin(l[c].e, l[k].e)
          BY <2>2, <3>2 DEF Twin, x
        <4> QED  BY <1>6, <3>2, <4>1
      <3>5. ~InSections(l[k].e) => start'[l[k].e] = at[k]
        <4> DEFINE y == l[k].e
        <4>1. y \in 1 .. Len(dir) /\ y \in Visible /\ dir[l[k].e].f = dir[y].f
          BY <1>5
        <4> HIDE DEF y
        <4>2. ~InSections(y) => start'[y] = at[k]
          BY <1>9, <4>1
        <4> QED  BY <4>2 DEF y
      <3>6. hash'[x].start = start'[l[k].e]
        <4>1. begin = start'
          BY <1>0
        <4>2. hash'[x].start = begin[l[c].e]
          BY <3>3
        <4> QED  BY <3>4, <4>1, <4>2
      <3> QED  BY <3>1, <3>5, <3>6 DEF x
    <2>3. \A x \in DOMAIN hash' : \E k \in Elems' : Cached(list[k].e)' /\ File(list[k].e)'.ino = x
      BY <1>2, <1>3, <1>7, <2>1
    <2>4. \A k \in Elems' : Cached(list[k].e)' =>
              /\ File(list[k].e)'.ino \in DOMAIN hash'
              /\ ~InSections(list[k].e)' => hash'[File(list[k].e)'.ino].start = list'[k].ext
      BY <1>2, <1>3, <1>7, <2>2
    <2> QED  BY <1>0, <2>3, <2>4 DEF Hashed
  <1>14. Shows'
    <2> SUFFICES ASSUME NEW e \in Visible, dir[e].size > 0
                 PROVE  Earlier(e) \/ Own(e)' \/ Waits(e)'
      BY <1>0, <1>3 DEF Shows
    <2>0. e \in 1 .. Len(dir)
      BY DEF Visible
    <2>1. Earlier(e) \/ Own(e) \/ Waits(e)
      BY <1>0, <1>1 DEF Shows, EndInv, Planned
    <2>2. Own(e) => Own(e)'
      <3> SUFFICES ASSUME Own(e) PROVE Own(e)'
        OBVIOUS
      <3>1. PICK j \in 1 .. n : dir[list[j].e].f = dir[e].f
        BY <1>4 DEF Own
      <3>2. PICK k \in 1 .. n : list[j] = l[k]
        BY <1>17
      <3>3. ext'[e] = at[k] + dir[e].off /\ dir[l[k].e].f = dir[e].f
        BY <1>9, <2>0, <3>1, <3>2
      <3>4. k \in Elems' /\ dir'[list'[k].e].f = dir'[e].f /\ ext'[e] = list'[k].ext + dir'[e].off
        BY <1>0, <1>2, <1>7, <3>3
      <3> QED  BY <3>4 DEF Own
    <2>3. Waits(e) => Waits(e)'
      <3> SUFFICES ASSUME Waits(e) PROVE Waits(e)'
        OBVIOUS
      <3>1. PICK j \in 1 .. n : Twin(list[j].e, e)
        BY <1>4 DEF Waits
      <3>2. PICK k \in 1 .. n : list[j] = l[k]
        BY <1>17
      <3>3. k \in Elems' /\ Twin(list[k].e, e)'
        BY <1>2, <1>3, <1>7, <3>1, <3>2
      <3>4. ~InSections(e)' /\ weight'[e] = NotSorted
        BY <1>0, <1>3 DEF Waits
      <3> QED  BY <3>3, <3>4 DEF Waits
    <2> QED  BY <2>1, <2>2, <2>3
  <1>15. Kept'
    <2>1. ASSUME NEW e \in 1 .. Len(dir), Earlier(e), dir[e].size > 0 PROVE ext'[e] = File(e).prev
      <3>1. \A k \in 1 .. n : dir[l[k].e].f # dir[e].f
        <4> SUFFICES ASSUME NEW k \in 1 .. n, dir[l[k].e].f = dir[e].f PROVE FALSE
          OBVIOUS
        <4>1. Earlier(l[k].e)
          BY <2>1, SameFile
        <4> QED  BY <1>5, <4>1 DEF Earlier
      <3>2. ext[e] = File(e).prev
        BY <1>1, <2>1 DEF Kept
      <3> QED  BY <1>9, <3>1, <3>2
    <2>2. job'.sort => \A e \in Visible' : InSections(e)' => weight'[e] > NotSorted
      BY <1>0, <1>1, <1>3 DEF Kept
    <2>3. \A e \in 1 .. Len(dir') : Earlier(e)' /\ (dir'[e].size > 0 \/ pc' = "assign") =>
              ext'[e] = File(e)'.prev
      BY <1>0, <1>3, <2>1
    <2> QED  BY <1>0, <1>8, <2>2, <2>3 DEF Kept
  <1> QED  BY <1>10, <1>11, <1>12, <1>13, <1>14, <1>15 DEF LayoutInv

\* A link that waited points at the element of the other name, and an entry that
\* has lost its weight although it is in the list stays where it is.
LEMMA LayoutReassign == EndInv /\ LayoutInv /\ Reassign => LayoutInv'
  <1> SUFFICES ASSUME EndInv, LayoutInv, Reassign PROVE LayoutInv'
    OBVIOUS
  <1>0. /\ pc = "reassign" /\ pc' \in {"hfs", "inodes"}
        /\ UNCHANGED <<job, dir, weight, hash, list, last, hpad, tries>>
        /\ ext' = [e \in DOMAIN ext |-> IF weight[e] = NotSorted /\ Hit(e)
                                        THEN hash[File(e).ino].start ELSE ext[e]]
        /\ DOMAIN start' = DOMAIN start
    BY DEF Reassign, given, deferred, volume
  <1>1. /\ Kinds /\ Listed /\ Followed /\ Entered /\ Hashed /\ Shows /\ Kept
        /\ job.sort /\ hpad = 0
    BY <1>0 DEF EndInv, LayoutInv, Planned
  <1>2. /\ Visible' = Visible /\ Origin' = Origin /\ Elems' = Elems
        /\ \A e : File(e)' = File(e) /\ (Cached(e)' <=> Cached(e))
                  /\ (InSections(e)' <=> InSections(e)) /\ (Earlier(e)' <=> Earlier(e))
        /\ \A x, e : Twin(x, e)' <=> Twin(x, e)
    BY <1>0, Steady DEF Elems
  <1>3. DOMAIN ext = 1 .. Len(dir) /\ \A e \in Visible : e \in 1 .. Len(dir)
    BY <1>1 DEF Kept, Visible
  <1>4. \A k \in Elems : list[k].e \in Visible /\ list[k].e \in 1 .. Len(dir)
                         /\ File(list[k].e).prev = 0
    BY <1>1, <1>3 DEF Listed
  <1>5. \A e : Hit(e) => \E k \in Elems : Twin(list[k].e, e)
    BY <1>0, <1>1 DEF Hit, Hashed, Twin
  <1>6. ASSUME NEW k \in Elems, NEW e \in Visible, Twin(list[k].e, e), ~InSections(e),
               weight[e] = NotSorted
        PROVE  ext'[e] = list[k].ext + dir[e].off
    <2>1. ~InSections(list[k].e)
      BY <1>1, <1>3, <1>4, <1>6, TwinFacts
    <2>2. Cached(list[k].e) /\ Cached(e) /\ File(list[k].e).ino = File(e).ino
      BY <1>6 DEF Twin
    <2>3. File(e).ino \in DOMAIN hash /\ hash[File(e).ino].start = list[k].ext
      BY <1>0, <1>1, <2>1, <2>2 DEF Hashed
    <2>4. Hit(e)
      BY <2>2, <2>3 DEF Hit
    <2>5. ext'[e] = list[k].ext
      BY <1>0, <1>3, <1>6, <2>3, <2>4
    <2>6. dir[e].off = 0
      <3>1. Parts(e) = 1
        BY <1>1, <1>3, <1>6, EntryFacts
      <3> QED  BY <1>1, <3>1, OffsetFacts
    <2>7. list[k].ext \in Int
      <3>1. list[k] \in DWrite
        BY <1>1 DEF Kinds, Elems
      <3> QED  BY <3>1 DEF DWrite
    <2> QED  BY <2>5, <2>6, <2>7
  <1>7. Listed'
    BY <1>0, <1>1, <1>2 DEF Listed
  <1>8. Followed'
    <2>1. From(Origin)' <=> From(Origin)
      BY <1>0, <1>2 DEF From
    <2>2. From(Origin + hpad)' <=> From(Origin + hpad)
      BY <1>0, <1>2 DEF From
    <2>3. Origin + hpad = Origin
      BY <1>1, JobFacts, LayoutAssumption DEF Origin
    <2> QED  BY <1>0, <1>1, <2>1, <2>2, <2>3 DEF Followed
  <1>9. Entered'
    BY <1>0 DEF Entered
  <1>10. Hashed'
    BY <1>0 DEF Hashed
  <1>11. Shows'
    <2> SUFFICES ASSUME NEW e \in Visible, dir[e].size > 0
                 PROVE  Earlier(e) \/ Own(e)' \/ LinkAt(e)'
      BY <1>0, <1>2 DEF Shows
    <2>1. Earlier(e) \/ Own(e) \/ Waits(e)
      BY <1>0, <1>1 DEF Shows
    <2>2. ASSUME Own(e) PROVE Own(e)'
      <3>1. PICK k \in Elems : dir[list[k].e].f = dir[e].f /\ ext[e] = list[k].ext + dir[e].off
        BY <2>2 DEF Own
      <3>2. ext'[e] = list[k].ext + dir[e].off
        <4>1. CASE weight[e] = NotSorted /\ Hit(e)
          <5>1. ~InSections(e)
            BY <1>1, <4>1 DEF Kept, NotSorted
          <5>2. PICK j \in Elems : Twin(list[j].e, e)
            BY <1>5, <4>1
          <5>3. Twin(list[j].e, list[k].e)
            BY <3>1, <5>2, SameFile DEF Twin
          <5>4. j = k
            BY <1>1, <5>3 DEF Listed
          <5> QED  BY <1>6, <4>1, <5>1, <5>2, <5>4
        <4>2. CASE ~(weight[e] = NotSorted /\ Hit(e))
          BY <1>0, <1>3, <3>1, <4>2
        <4> QED  BY <4>1, <4>2
      <3> QED  BY <1>0, <1>2, <3>1, <3>2 DEF Own
    <2>3. ASSUME Waits(e) PROVE LinkAt(e)'
      <3>1. PICK k \in Elems : Twin(list[k].e, e)
        BY <2>3 DEF Waits
      <3>2. ext'[e] = list[k].ext + dir[e].off
        BY <1>6, <2>3, <3>1 DEF Waits
      <3> QED  BY <1>0, <1>2, <3>1, <3>2 DEF LinkAt
    <2> QED  BY <2>1, <2>2, <2>3
  <1>12. Kept'
    <2>1. ASSUME NEW e \in 1 .. Len(dir), Earlier(e), dir[e].size > 0 PROVE ext'[e] = File(e).prev
      <3>1. ~Hit(e)
        <4> SUFFICES ASSUME Hit(e) PROVE FALSE
          OBVIOUS
        <4>1. PICK k \in Elems : Twin(list[k].e, e)
          BY <1>5
        <4>2. File(list[k].e).prev = File(e).prev
          BY <1>1, <1>4, <4>1, TwinFacts
        <4> QED  BY <1>4, <2>1, <4>2 DEF Earlier
      <3>2. ext[e] = File(e).prev
        BY <1>1, <2>1 DEF Kept
      <3> QED  BY <1>0, <1>3, <3>1, <3>2
    <2>2. job'.sort => \A e \in Visible' : InSections(e)' => weight'[e] > NotSorted
      BY <1>0, <1>1, <1>2 DEF Kept
    <2>3. \A e \in 1 .. Len(dir') : Earlier(e)' /\ (dir'[e].size > 0 \/ pc' = "assign") =>
              ext'[e] = File(e)'.prev
      BY <1>0, <1>2, <2>1
    <2>4. ext' = [e \in 1 .. Len(dir') |-> ext'[e]] /\ DOMAIN start' = 1 .. Len(dir')
      <3>1. ext' = [e \in DOMAIN ext |-> ext'[e]]
        BY <1>0
      <3> QED  BY <1>0, <1>1, <1>3, <3>1 DEF Kept
    <2> QED  BY <2>2, <2>3, <2>4 DEF Kept
  <1> QED  BY <1>7, <1>8, <1>9, <1>10, <1>11, <1>12 DEF LayoutInv

\* A volume in single blocks leaves the elements where they are, with what fills it
\* up behind them.
LEMMA SmallMoves ==
    ASSUME EndInv, FillsUpOnce, Hfs, Unit = 1
    PROVE  /\ pc = "hfs" /\ pc' \in {"hfs", "inodes"} /\ job.hfs
           /\ tries < job.retry => pc' = pc /\ hpad' = hpad
           /\ ~(tries < job.retry) => pc' = "inodes" /\ hpad' = Base - Ahead
           /\ UNCHANGED <<job, dir, weight, ext, start, hash, null, i>>
           /\ \A k \in 1 .. Len(list) : list'[k] = list[k] /\ k \in 1 .. Len(list')
           /\ list' = list \/ (/\ Missing > 0 /\ Len(list') = Len(list) + 1
                               /\ list'[Len(list) + 1] = Filler /\ list' = Append(list, Filler))
           /\ Elems' = Elems /\ \A k \in Elems : list'[k] = list[k]
  <1>1. /\ pc = "hfs" /\ pc' \in {"hfs", "inodes"} /\ list' = Filled
        /\ tries < job.retry => pc' = pc /\ hpad' = hpad
        /\ ~(tries < job.retry) => pc' = "inodes" /\ hpad' = Base - Ahead
        /\ UNCHANGED <<job, dir, weight, ext, start, hash, null, i>>
    BY DEF Hfs, given, Missing, Filled, Unit, Base
  <1>2. /\ list \in Seq(DWrite) /\ Len(list) \in Nat /\ job.hfs
        /\ Missing \in Nat /\ Filler \in DWrite
        /\ Missing > 0 => Filled = Append(list, Filler)
        /\ Missing = 0 => Filled = list
    BY <1>1, HfsFacts
  <1>3. /\ \A k \in 1 .. Len(list) : list'[k] = list[k] /\ k \in 1 .. Len(list')
        /\ list' = list \/ (/\ Missing > 0 /\ Len(list') = Len(list) + 1
                            /\ list'[Len(list) + 1] = Filler /\ list' = Append(list, Filler))
    <2>1. CASE Missing = 0
      BY <1>1, <1>2, <2>1
    <2>2. CASE Missing > 0
      <3>1. list' = Append(list, Filler)
        BY <1>1, <1>2, <2>2
      <3> HIDE DEF Filler
      <3> QED  BY <1>2, <2>2, <3>1
    <2> QED  BY <1>2, <2>1, <2>2
  <1>4. Elems' = Elems /\ \A k \in Elems : list'[k] = list[k]
    <2>1. CASE list' = list
      BY <2>1 DEF Elems
    <2>2. CASE list' # list
      <3>1. Filler.e = 0 /\ Len(list') = Len(list) + 1 /\ list'[Len(list) + 1] = Filler
        BY <1>3, <2>2 DEF Filler
      <3>2. \A k \in 1 .. Len(list') : k \in 1 .. Len(list) \/ k = Len(list) + 1
        BY <1>2, <3>1
      <3>3. \A k \in 1 .. Len(list) : list'[k] = list[k] /\ k \in 1 .. Len(list')
        BY <1>3
      <3>4. \A k : k \in Elems' <=> k \in Elems
        BY <3>1, <3>2, <3>3 DEF Elems
      <3>5. Elems' = Elems
        BY <3>4
      <3> QED  BY <3>3, <3>5 DEF Elems
    <2> QED  BY <2>1, <2>2
  <1> QED  BY <1>1, <1>2, <1>3, <1>4

\* So the entries still point at the data.
LEMMA LayoutHfsSmall ==
    ASSUME EndInv, LayoutInv, FillsUpOnce, Hfs, Unit = 1
    PROVE  LayoutInv'
  <1>1. /\ pc = "hfs" /\ pc' \in {"hfs", "inodes"}
        /\ tries < job.retry => pc' = pc /\ hpad' = hpad
        /\ ~(tries < job.retry) => pc' = "inodes" /\ hpad' = Base - Ahead
        /\ UNCHANGED <<job, dir, weight, ext, start, hash>>
    BY SmallMoves
  <1>2. Kinds /\ Listed /\ Followed /\ Shows /\ Kept /\ EndInv'
    BY EndHfs DEF EndInv, LayoutInv
  <1>3. /\ Visible' = Visible /\ Origin' = Origin
        /\ \A e : File(e)' = File(e) /\ (Cached(e)' <=> Cached(e))
                  /\ (InSections(e)' <=> InSections(e)) /\ (Earlier(e)' <=> Earlier(e))
        /\ \A x, e : Twin(x, e)' <=> Twin(x, e)
    BY <1>1, Steady
  <1>4. /\ hpad = 0 /\ Base = Ahead /\ Ahead \in Int /\ Origin \in Int
        /\ list \in Seq(DWrite) /\ Len(list) \in Nat
        /\ Missing \in Nat /\ Filler \in DWrite
        /\ Missing > 0 => ~(tries < job.retry)
        /\ last = Origin + Bulk(list) /\ Bulk(list) \in Int
    <2>1. Origin = job.session + Ahead /\ job.session \in Int /\ Ahead \in Nat
      BY <1>1, HfsFacts
    <2>2. Origin \in Int
      BY <2>1
    <2> QED  BY <1>1, <2>1, <2>2, HfsFacts
  <1>5. From(Origin)
    <2>1. /\ last - job.session + Missing + Catalog <= BigVol
          /\ Catalog = Extra * tries + Extra /\ Extra * tries \in Nat /\ Extra \in Nat
          /\ {last, job.session, BigVol} \subseteq Int
      BY <1>1, HfsFacts
    <2> DEFINE p == Extra * tries
    <2>2. /\ p \in Nat /\ last - job.session + Missing + (p + Extra) <= BigVol
          /\ {last, job.session, BigVol} \subseteq Int /\ Extra \in Nat /\ Missing \in Nat
      BY <1>4, <2>1
    <2>3. From(Origin) \/ last - job.session + p > BigVol
      BY <1>1, <1>2 DEF Followed
    <2> HIDE DEF p
    <2>4. ~(last - job.session + p > BigVol)
      BY <2>2
    <2> QED  BY <2>3, <2>4
  <1>6. /\ \A k \in 1 .. Len(list) : list'[k] = list[k] /\ k \in 1 .. Len(list')
        /\ list' = list \/ (/\ Missing > 0 /\ Len(list') = Len(list) + 1
                            /\ list'[Len(list) + 1] = Filler /\ list' = Append(list, Filler))
    BY SmallMoves
  <1>7. Elems' = Elems /\ \A k \in Elems : list'[k] = list[k]
    BY SmallMoves
  <1>8. Listed'
    <2>1. pc' = "hfs" => list' = list
      BY <1>1, <1>4, <1>6
    <2>2. pc' = "hfs" => Elems' = 1 .. Len(list')
      BY <1>1, <1>2, <1>7, <2>1 DEF Listed
    <2>3. /\ \A k \in Elems' : /\ list'[k].e \in Visible' /\ dir'[list'[k].e].off = 0
                               /\ list'[k].size = File(list[k].e)'.size /\ list'[k].size > 0
                               /\ File(list[k].e)'.prev = 0
          /\ \A j, k \in Elems' :
                dir'[list'[j].e].f = dir'[list'[k].e].f \/ Twin(list[j].e, list[k].e)' => j = k
      BY <1>1, <1>2, <1>3, <1>7 DEF Listed
    <2> QED  BY <1>1, <2>2, <2>3 DEF Listed
  <1>9. Followed'
    <2>1. hpad' = 0
      BY <1>1, <1>4
    <2>2. \A k \in 1 .. Len(list') : list'[k].ext = Origin + UpToNth(list', k - 1)
      <3>1. CASE list' = list
        BY <1>5, <3>1 DEF From
      <3>2. CASE list' # list
        <4>1. /\ list' = Append(list, Filler) /\ list'[Len(list) + 1] = Filler
              /\ Len(list') = Len(list) + 1
          BY <1>6, <3>2
        <4>2. \A n \in 0 .. Len(list) : UpToNth(list', n) = UpToNth(list, n)
          BY <1>4, <4>1, UpToNthAppend
        <4>3. ASSUME NEW k \in 1 .. Len(list) PROVE list'[k].ext = Origin + UpToNth(list', k - 1)
          <5>1. list[k].ext = Origin + UpToNth(list, k - 1) /\ k - 1 \in 0 .. Len(list)
            BY <1>4, <1>5 DEF From
          <5> QED  BY <1>6, <4>2, <5>1
        <4>4. Filler.ext = Origin + UpToNth(list', (Len(list) + 1) - 1)
          <5>1. UpToNth(list, Len(list)) = Bulk(list)
            BY <1>4, RoomFacts
          <5>2. (Len(list) + 1) - 1 = Len(list) /\ Len(list) \in 0 .. Len(list)
            BY <1>4
          <5>3. UpToNth(list', (Len(list) + 1) - 1) = Bulk(list)
            BY <4>2, <5>1, <5>2
          <5> QED  BY <1>4, <5>3 DEF Filler
        <4>5. \A k \in 1 .. Len(list') : k \in 1 .. Len(list) \/ k = Len(list) + 1
          BY <1>4, <4>1
        <4> QED  BY <4>1, <4>3, <4>4, <4>5
      <3> QED  BY <3>1, <3>2
    <2>3. From(Origin)'
      BY <1>3, <2>2 DEF From
    <2>4. Origin' + hpad' = Origin'
      BY <1>3, <1>4, <2>1
    <2>5. From(Origin + hpad)'
      BY <2>3, <2>4 DEF From
    <2> QED  BY <1>1, <2>1, <2>3, <2>5 DEF Followed
  <1>10. Entered' /\ Hashed'
    BY <1>1 DEF Entered, Hashed
  <1>11. Shows'
    <2> SUFFICES ASSUME NEW e \in Visible, dir[e].size > 0
                 PROVE  Earlier(e) \/ Own(e)' \/ LinkAt(e)'
      BY <1>1, <1>3 DEF Shows
    <2>1. Earlier(e) \/ Own(e) \/ LinkAt(e)
      BY <1>1, <1>2 DEF Shows
    <2>2. Own(e) => Own(e)'
      BY <1>1, <1>7 DEF Own
    <2>3. LinkAt(e) => LinkAt(e)'
      BY <1>1, <1>3, <1>7 DEF LinkAt
    <2> QED  BY <2>1, <2>2, <2>3
  <1>12. Kept'
    BY <1>1, <1>2, <1>3 DEF Kept
  <1> QED  BY <1>8, <1>9, <1>10, <1>11, <1>12 DEF LayoutInv

\* Entries of one file, under one name or several.
Alike(d, e) == dir[d].f = dir[e].f \/ Twin(d, e)

\* A large volume moves every element; the names of a file follow theirs, and those
\* of a file that only ISO 9660 shows follow through the cache.
LEMMA LargeMoves ==
    ASSUME EndInv, LayoutInv, FillsUpOnce, Supported, Hfs, Unit = 2
    PROVE  /\ pc = "hfs" /\ pc' \in {"hfs", "inodes"} /\ job.hfs /\ tries' = tries + 1
           /\ tries < job.retry => pc' = pc /\ hpad' = hpad /\ last' = last
           /\ ~(tries < job.retry) => pc' = "inodes" /\ hpad' = Base - Ahead
           /\ UNCHANGED <<job, dir, weight, null, i>> /\ hash' = NoHash
           /\ ext' = [e \in DOMAIN ext |-> ext'[e]] /\ DOMAIN start' = DOMAIN start
           /\ list' \in Seq(DWrite) /\ Len(list') = Len(list)
           /\ \A k \in 1 .. Len(list) :
                 /\ list'[k].e = list[k].e /\ list'[k].size = list[k].size
                 /\ list'[k].ext = VolumeAt[k] /\ VolumeAt[k] \in Int
                 /\ list'[k].ext = job.session + Base + UpToNth(list', k - 1)
           /\ Elems = 1 .. Len(list) /\ Elems' = 1 .. Len(list)
           /\ \A e \in 1 .. Len(dir) : ~InSections(e)
           /\ \A e \in Visible : \A k \in 1 .. Len(list) : Alike(list[k].e, e) =>
                 ext'[e] = VolumeAt[k] /\ start'[e] = VolumeAt[k] /\ dir[e].off = 0
           /\ \A e \in 1 .. Len(dir) : (\A k \in 1 .. Len(list) : ~Alike(list[k].e, e)) =>
                 ext'[e] = ext[e] /\ start'[e] = start[e]
  <1> DEFINE moved == [e \in DOMAIN start |->
                         IF Place(Filled, e) > 0 THEN VolumeAt[Place(Filled, e)] ELSE start[e]]
             Iso(e) == Cached(e) /\ File(e).kind = "iso"
             I == {File(Filled[k].e).ino :
                     k \in {m \in 1 .. Len(Filled) :
                              Cached(Filled[m].e) /\ File(Filled[m].e).kind = "iso"}}
             h == [x \in I |->
                     LET k == CHOOSE m \in 1 .. Len(Filled) :
                                 /\ Cached(Filled[m].e) /\ File(Filled[m].e).kind = "iso"
                                 /\ File(Filled[m].e).ino = x
                     IN [start |-> moved[Filled[k].e], of |-> Filled[k].e]]
             Linked(e) == File(e).kind = "iso" /\ Cached(e) /\ File(e).ino \in DOMAIN h
  <1>20. /\ pc = "hfs" /\ tries' = tries + 1
         /\ list' = IF Unit = 1 THEN Filled ELSE Padded
         /\ tries < job.retry => pc' = pc /\ last' = last /\ hpad' = hpad
         /\ ~(tries < job.retry) => pc' = "inodes" /\ hpad' = Base - Ahead
         /\ UNCHANGED <<job, dir, weight, null, i>>
    BY DEF Hfs, Chain, given, Missing, Filled, Unit, Base, Rounded, VolumeAt, Padded
  <1>21. ~(Unit = 1) =>
            /\ ext' = [e \in DOMAIN ext |->
                         IF Linked(e) THEN h[File(e).ino].start
                         ELSE IF Place(Filled, e) > 0 THEN moved[e] ELSE ext[e]]
            /\ start' = [e \in DOMAIN start |->
                           IF Linked(e) THEN h[File(e).ino].start ELSE moved[e]]
            /\ hash' = NoHash
    <2>1. ~(Unit = 1) =>
             /\ ext' = [e \in DOMAIN ext |->
                          IF Linked(e) THEN h[File(e).ino].start
                          ELSE IF Place(Filled, e) > 0 THEN moved[e] ELSE ext[e]]
             /\ start' = [e \in DOMAIN start |->
                            IF Linked(e) THEN h[File(e).ino].start ELSE moved[e]]
             /\ hash' = NoHash
      BY DEF Hfs, HashOf, Chain, Missing, Filled, Unit, Base, Rounded, VolumeAt
    <2> HIDE DEF moved, h, Linked
    <2> QED  BY <2>1
  <1> HIDE DEF moved, h, I, Linked
  <1>0. /\ pc = "hfs" /\ pc' \in {"hfs", "inodes"} /\ list' = Padded /\ tries' = tries + 1
        /\ tries < job.retry => pc' = pc /\ hpad' = hpad /\ last' = last
        /\ ~(tries < job.retry) => pc' = "inodes" /\ hpad' = Base - Ahead
        /\ UNCHANGED <<job, dir, weight, null, i>>
    BY <1>20
  <1>1. Kinds /\ Listed /\ Kept /\ job.hfs
    BY <1>0 DEF EndInv, LayoutInv, Planned
  <1>2. /\ Missing = 0 /\ Filled = list /\ last - job.session >= MinVol
        /\ last - job.session + Catalog > BigVol
        /\ hpad = 0 /\ Base \in Int /\ Base >= Ahead /\ Ahead \in Int
        /\ Origin = job.session + Ahead
        /\ job.session \in Int /\ list \in Seq(DWrite) /\ Len(list) \in Nat
    <2>1. /\ Missing \in Nat /\ (Missing > 0 => Unit = 1)
          /\ Missing = 0 => Filled = list /\ last - job.session >= MinVol
          /\ Unit = 1 <=> last - job.session + Missing + Catalog <= BigVol
          /\ {last, BigVol} \subseteq Int /\ Catalog \in Nat /\ job.session \in Int
      BY <1>0, HfsFacts
    <2>2. /\ hpad = 0 /\ Base \in Int /\ Base >= Ahead /\ Ahead \in Nat
          /\ Origin = job.session + Ahead
          /\ list \in Seq(DWrite) /\ Len(list) \in Nat
      BY <1>0, HfsFacts
    <2>3. Missing = 0
      BY <2>1
    <2> QED  BY <2>1, <2>2, <2>3
  <1>3. /\ ext' = [e \in DOMAIN ext |->
                     IF Linked(e) THEN h[File(e).ino].start
                     ELSE IF Place(list, e) > 0 THEN moved[e] ELSE ext[e]]
        /\ start' = [e \in DOMAIN start |->
                       IF Linked(e) THEN h[File(e).ino].start ELSE moved[e]]
        /\ hash' = NoHash
    BY <1>2, <1>21
  <1>5. /\ list' \in Seq(DWrite) /\ Len(list') = Len(list)
        /\ \A k \in 1 .. Len(list) :
              /\ list'[k].e = list[k].e /\ list'[k].size = list[k].size
              /\ list'[k].ext = VolumeAt[k]
              /\ list'[k].ext = job.session + Base + UpToNth(list', k - 1)
    <2>1. /\ Padded \in Seq(DWrite) /\ Len(Padded) = Len(Filled)
          /\ \A k \in 1 .. Len(Filled) :
                /\ Padded[k].e = Filled[k].e /\ Padded[k].size = Filled[k].size
                /\ Padded[k].ext = VolumeAt[k]
                /\ VolumeAt[k] = job.session + Base + UpToNth(Padded, k - 1)
      BY <1>0, PaddedFacts
    <2> QED  BY <1>0, <1>2, <2>1
  <1>6. Elems = 1 .. Len(list) /\ Elems' = 1 .. Len(list)
    <2>1. Elems = 1 .. Len(list)
      BY <1>0, <1>1 DEF Listed
    <2>2. \A k \in 1 .. Len(list) : list'[k].e # 0
      BY <1>5, <2>1 DEF Elems
    <2> QED  BY <1>5, <2>1, <2>2 DEF Elems
  <1>7. \A k \in 1 .. Len(list) : /\ list[k].e \in Visible /\ list[k].e \in 1 .. Len(dir)
                                  /\ File(list[k].e).prev = 0 /\ dir[list[k].e].off = 0
    BY <1>1, <1>6 DEF Listed, Visible
  <1>8. \A j, k \in 1 .. Len(list) :
            dir[list[j].e].f = dir[list[k].e].f \/ Twin(list[j].e, list[k].e) => j = k
    BY <1>1, <1>6 DEF Listed
  <1>9. DOMAIN ext = 1 .. Len(dir) /\ DOMAIN start = 1 .. Len(dir)
    BY <1>1 DEF Kept
  <1>10. \A e \in 1 .. Len(dir) : ~InSections(e)
    BY <1>1, EntryFacts DEF Supported, InSections
  <1>22. ASSUME NEW e \in Visible, NEW k \in 1 .. Len(list), dir[list[k].e].f = dir[e].f
         PROVE  Place(list, e) = k /\ dir[e].off = 0 /\ e = list[k].e
    <2>1. /\ \A x \in 1 .. Len(list) : list[x].e \in Visible /\ dir[list[x].e].off = 0
          /\ \A j, x \in 1 .. Len(list) : dir[list[j].e].f = dir[list[x].e].f => j = x
          /\ e \in 1 .. Len(dir) /\ ~InSections(e) /\ list \in Seq(DWrite) /\ Kinds
      BY <1>1, <1>2, <1>7, <1>8, <1>10 DEF Visible
    <2>2. IF InSections(e)
          THEN Owner(list, e) = k /\ e \in Run(list[k].e) /\ Before(list[k].e, e) = dir[e].off
          ELSE Owner(list, e) = 0 /\ Place(list, e) = k /\ dir[e].off = 0 /\ e = list[k].e
      BY <1>22, <2>1, Keys
    <2> QED  BY <2>1, <2>2
  \* Where the elements go, and what the cache says of it.
  <1>11. ASSUME NEW k \in 1 .. Len(list) PROVE moved[list[k].e] = VolumeAt[k]
    <2> DEFINE x == list[k].e
    <2>1. x \in Visible /\ x \in 1 .. Len(dir) /\ ~InSections(x) /\ dir[list[k].e].f = dir[x].f
      BY <1>7, <1>10
    <2> HIDE DEF x
    <2>2. Place(list, x) = k
      BY <1>22, <2>1
    <2>3. k > 0
      BY <1>2
    <2>4. moved[x] = VolumeAt[k]
      BY <1>2, <1>9, <2>1, <2>2, <2>3 DEF moved
    <2> QED  BY <2>4 DEF x
  <1>12. ASSUME NEW e, Linked(e)
         PROVE  \E k \in 1 .. Len(list) : Twin(list[k].e, e) /\ h[File(e).ino].start = VolumeAt[k]
    <2> DEFINE x == File(e).ino
               c == CHOOSE m \in 1 .. Len(list) :
                       /\ Cached(list[m].e) /\ File(list[m].e).kind = "iso"
                       /\ File(list[m].e).ino = x
    <2>1. x \in DOMAIN h /\ Cached(e)
      BY <1>12 DEF Linked
    <2>2. h = [y \in I |->
                 LET k == CHOOSE m \in 1 .. Len(list) :
                             /\ Cached(list[m].e) /\ File(list[m].e).kind = "iso"
                             /\ File(list[m].e).ino = y
                 IN [start |-> moved[list[k].e], of |-> list[k].e]]
      BY <1>2, Zenon DEF h
    <2>6. x \in I
      BY <2>1, <2>2, Zenon
    <2>3. c \in 1 .. Len(list) /\ Iso(list[c].e) /\ File(list[c].e).ino = x
      <3>1. x \in I
        BY <2>6
      <3>2. \E m \in 1 .. Len(list) : /\ Cached(list[m].e) /\ File(list[m].e).kind = "iso"
                                      /\ File(list[m].e).ino = x
        BY <1>2, <3>1 DEF I
      <3> QED  BY <3>2
    <2>4. h[x] = [start |-> moved[list[c].e], of |-> list[c].e]
      BY <2>2, <2>6, Zenon
    <2> HIDE DEF c
    <2>5. h[x].start = VolumeAt[c]
      <3>1. moved[list[c].e] = VolumeAt[c]
        BY <1>11, <2>3
      <3> QED  BY <2>4, <3>1
    <2> QED  BY <2>1, <2>3, <2>5 DEF Twin
  <1>13. ASSUME NEW e \in Visible, NEW k \in 1 .. Len(list), dir[list[k].e].f = dir[e].f
         PROVE  ext'[e] = VolumeAt[k] /\ start'[e] = VolumeAt[k] /\ dir[e].off = 0
    <2>1. e \in 1 .. Len(dir)
      BY DEF Visible
    <2>2. Place(list, e) = k /\ dir[e].off = 0 /\ e = list[k].e
      BY <1>13, <1>22
    <2>3. Linked(e) => h[File(e).ino].start = VolumeAt[k]
      <3> SUFFICES ASSUME Linked(e) PROVE h[File(e).ino].start = VolumeAt[k]
        OBVIOUS
      <3>1. PICK c \in 1 .. Len(list) : Twin(list[c].e, e) /\ h[File(e).ino].start = VolumeAt[c]
        BY <1>12
      <3>2. c = k
        BY <1>8, <2>2, <3>1
      <3> QED  BY <3>1, <3>2
    <2>4. moved[e] = VolumeAt[k] /\ k > 0
      BY <1>2, <1>11, <2>2
    <2> QED  BY <1>3, <1>9, <2>1, <2>2, <2>3, <2>4
  <1>14. ASSUME NEW e \in Visible, NEW k \in 1 .. Len(list), Twin(list[k].e, e)
         PROVE  ext'[e] = VolumeAt[k] /\ start'[e] = VolumeAt[k] /\ dir[e].off = 0
    <2>1. CASE dir[list[k].e].f = dir[e].f
      BY <1>13, <2>1
    <2>2. CASE dir[list[k].e].f # dir[e].f
      <3> DEFINE x == list[k].e
      <3>1. e \in 1 .. Len(dir) /\ x \in 1 .. Len(dir)
        BY <1>7 DEF Visible
      <3>2. Cached(x) /\ Cached(e) /\ File(x).ino = File(e).ino
        BY <1>14 DEF Twin
      <3>3. dir[x].f # dir[e].f
        BY <2>2
      <3> HIDE DEF x
      <3>4. /\ dir[e].f \in 1 .. Len(job.files) /\ File(e) = job.files[dir[e].f]
            /\ dir[x].f \in 1 .. Len(job.files) /\ File(x) = job.files[dir[x].f]
        BY <1>1, <3>1, EntryFacts
      <3>5. File(e).kind # "mac" /\ File(x).kind # "mac"
        BY <1>1, <3>2, <3>3, <3>4 DEF Supported
      <3>6. File(e).kind = "iso" /\ File(x).kind = "iso"
        <4>1. File(e) \in Files /\ File(x) \in Files
          BY <1>1, <3>1, JobFacts
        <4>2. File(e).kind # "fork" /\ File(x).kind # "fork"
          BY <3>2 DEF Cached
        <4> QED  BY <3>5, <4>1, <4>2 DEF Files
      <3>7. Linked(e)
        <4>1. DOMAIN h = I
          BY DEF h
        <4>2. File(x).ino \in I
          BY <1>2, <3>2, <3>6 DEF I, x
        <4> QED  BY <3>2, <3>6, <4>1, <4>2 DEF Linked
      <3>8. PICK c \in 1 .. Len(list) : Twin(list[c].e, e) /\ h[File(e).ino].start = VolumeAt[c]
        BY <1>12, <3>7
      <3>9. c = k
        <4>1. Twin(list[c].e, list[k].e)
          BY <1>14, <3>8 DEF Twin
        <4> QED  BY <1>8, <4>1
      <3>10. ext'[e] = VolumeAt[k] /\ start'[e] = VolumeAt[k]
        BY <1>3, <1>9, <3>1, <3>7, <3>8, <3>9
      <3>11. dir[e].off = 0
        <4>1. Parts(e) = 1
          BY <1>1, <1>10, <3>1, EntryFacts
        <4> QED  BY <1>1, <4>1, OffsetFacts
      <3> QED  BY <3>10, <3>11
    <2> QED  BY <2>1, <2>2
  <1>15. ASSUME NEW e \in 1 .. Len(dir), \A k \in 1 .. Len(list) : ~Alike(list[k].e, e)
         PROVE  ext'[e] = ext[e] /\ start'[e] = start[e]
    <2>1. ~Linked(e)
      BY <1>12, <1>15 DEF Alike
    <2>2. Place(list, e) \in Nat /\ ~(Place(list, e) > 0)
      <3>1. /\ Place(list, e) \in Nat
            /\ Place(list, e) > 0 => Place(list, e) \in 1 .. Len(list)
                                     /\ list[Place(list, e)].e = e
        BY <1>2, PlaceFacts
      <3>2. \A k \in 1 .. Len(list) : list[k].e # e
        BY <1>15 DEF Alike
      <3> QED  BY <3>1, <3>2
    <2>3. moved[e] = start[e]
      BY <1>2, <1>9, <2>2 DEF moved
    <2> QED  BY <1>3, <1>9, <2>1, <2>2, <2>3
  <1>16. \A k \in 1 .. Len(list) : VolumeAt[k] \in Int
    <2>1. \A k \in 1 .. Len(list) : list'[k] \in DWrite
      BY <1>5
    <2> QED  BY <1>5, <2>1 DEF DWrite
  <1>17. ext' = [e \in DOMAIN ext |-> ext'[e]] /\ DOMAIN start' = DOMAIN start
    BY <1>3
  <1> QED  BY <1>0, <1>1, <1>3, <1>5, <1>6, <1>10, <1>13, <1>14, <1>15, <1>16, <1>17 DEF Alike

\* So the names of every file still find it.
LEMMA LayoutHfsLarge ==
    ASSUME EndInv, LayoutInv, FillsUpOnce, Supported, Hfs, Unit = 2
    PROVE  LayoutInv'
  <1>0. /\ pc = "hfs" /\ pc' \in {"hfs", "inodes"} /\ job.hfs /\ tries' = tries + 1
        /\ tries < job.retry => pc' = pc /\ hpad' = hpad /\ last' = last
        /\ ~(tries < job.retry) => pc' = "inodes" /\ hpad' = Base - Ahead
        /\ UNCHANGED <<job, dir, weight>>
    BY LargeMoves
  <1>1. Kinds /\ Listed /\ Followed /\ Shows /\ Kept
    BY DEF EndInv, LayoutInv
  <1>2. /\ last - job.session >= MinVol /\ last - job.session + Catalog > BigVol
        /\ hpad = 0 /\ Base \in Int /\ Base >= Ahead /\ Ahead \in Int
        /\ Origin = job.session + Ahead
        /\ job.session \in Int /\ Len(list) \in Nat
    <2>1. /\ Missing \in Nat /\ (Missing > 0 => Unit = 1)
          /\ Missing = 0 => last - job.session >= MinVol
          /\ Unit = 1 <=> last - job.session + Missing + Catalog <= BigVol
          /\ {last, BigVol} \subseteq Int /\ Catalog \in Nat /\ job.session \in Int
      BY <1>0, HfsFacts
    <2>2. /\ hpad = 0 /\ Base \in Int /\ Base >= Ahead /\ Ahead \in Nat
          /\ Origin = job.session + Ahead /\ Len(list) \in Nat
      BY <1>0, HfsFacts
    <2>3. Missing = 0
      BY <2>1
    <2> QED  BY <2>1, <2>2, <2>3
  <1>3. ext' = [e \in DOMAIN ext |-> ext'[e]] /\ DOMAIN start' = DOMAIN start
    BY LargeMoves
  <1>4. /\ Visible' = Visible /\ Origin' = Origin
        /\ \A e : File(e)' = File(e) /\ (Cached(e)' <=> Cached(e))
                  /\ (InSections(e)' <=> InSections(e)) /\ (Earlier(e)' <=> Earlier(e))
        /\ \A x, e : Twin(x, e)' <=> Twin(x, e)
    BY <1>0, Steady
  <1>5. /\ list' \in Seq(DWrite) /\ Len(list') = Len(list)
        /\ \A k \in 1 .. Len(list) :
              /\ list'[k].e = list[k].e /\ list'[k].size = list[k].size
              /\ list'[k].ext = VolumeAt[k] /\ VolumeAt[k] \in Int
              /\ list'[k].ext = job.session + Base + UpToNth(list', k - 1)
    BY LargeMoves
  <1>6. Elems = 1 .. Len(list) /\ Elems' = 1 .. Len(list)
    BY LargeMoves
  <1>7. \A k \in 1 .. Len(list) : /\ list[k].e \in Visible /\ list[k].e \in 1 .. Len(dir)
                                  /\ File(list[k].e).prev = 0 /\ dir[list[k].e].off = 0
    BY <1>1, <1>6 DEF Listed, Visible
  <1>8. \A j, k \in 1 .. Len(list) :
            dir[list[j].e].f = dir[list[k].e].f \/ Twin(list[j].e, list[k].e) => j = k
    BY <1>1, <1>6 DEF Listed
  <1>9. DOMAIN ext = 1 .. Len(dir) /\ DOMAIN start = 1 .. Len(dir)
    BY <1>1 DEF Kept
  <1>10. /\ \A e \in Visible : \A k \in 1 .. Len(list) :
                dir[list[k].e].f = dir[e].f \/ Twin(list[k].e, e) =>
                    ext'[e] = VolumeAt[k] /\ dir[e].off = 0
         /\ \A e \in 1 .. Len(dir) : (\A k \in 1 .. Len(list) : ~Alike(list[k].e, e)) =>
                ext'[e] = ext[e]
    <2>1. \A e \in Visible : \A k \in 1 .. Len(list) : Alike(list[k].e, e) =>
             ext'[e] = VolumeAt[k] /\ dir[e].off = 0
      BY LargeMoves
    <2>2. \A e \in 1 .. Len(dir) : (\A k \in 1 .. Len(list) : ~Alike(list[k].e, e)) =>
             ext'[e] = ext[e]
      BY LargeMoves
    <2> QED  BY <2>1, <2>2 DEF Alike
  <1>15. Listed'
    <2>1. Elems' = 1 .. Len(list')
      BY <1>5, <1>6
    <2>2. /\ \A k \in Elems' : /\ list'[k].e \in Visible' /\ dir'[list'[k].e].off = 0
                               /\ list'[k].size = File(list[k].e)'.size /\ list'[k].size > 0
                               /\ File(list[k].e)'.prev = 0
          /\ \A j, k \in Elems' :
                dir'[list'[j].e].f = dir'[list'[k].e].f \/ Twin(list[j].e, list[k].e)' => j = k
      <3>1. \A k \in 1 .. Len(list) : list[k].size = File(list[k].e).size /\ list[k].size > 0
        BY <1>1, <1>6 DEF Listed
      <3>2. \A k \in 1 .. Len(list) :
               /\ list'[k].e \in Visible /\ dir[list'[k].e].off = 0
               /\ list'[k].size = File(list'[k].e).size /\ list'[k].size > 0
               /\ File(list'[k].e).prev = 0
        BY <1>5, <1>7, <3>1
      <3>3. \A j, k \in 1 .. Len(list) :
               dir[list'[j].e].f = dir[list'[k].e].f \/ Twin(list'[j].e, list'[k].e) => j = k
        BY <1>5, <1>8
      <3> QED  BY <1>0, <1>4, <1>6, <3>2, <3>3
    <2> QED  BY <1>0, <2>1, <2>2 DEF Listed
  <1>16. Followed'
    <2>1. CASE tries < job.retry
      <3>1. pc' = "hfs" /\ hpad' = 0 /\ last' = last /\ job' = job
        BY <1>0, <1>2, <2>1
      <3>2. Extra * tries' = Catalog
        BY <1>0 DEF Catalog
      <3> QED  BY <1>2, <3>1, <3>2 DEF Followed
    <2>2. CASE ~(tries < job.retry)
      <3>1. pc' = "inodes" /\ hpad' = Base - Ahead
        BY <1>0, <2>2
      <3>2. Origin' + hpad' = job.session + Base /\ hpad' >= 0
        BY <1>2, <1>4, <3>1
      <3>3. \A k \in 1 .. Len(list') : list'[k].ext = (Origin' + hpad') + UpToNth(list', k - 1)
        BY <1>5, <3>2
      <3>4. From(Origin + hpad)'
        BY <3>3 DEF From
      <3> QED  BY <3>1, <3>2, <3>4 DEF Followed
    <2> QED  BY <2>1, <2>2
  <1>17. Entered' /\ Hashed'
    BY <1>0 DEF Entered, Hashed
  <1>18. Shows'
    <2> SUFFICES ASSUME NEW e \in Visible, dir[e].size > 0
                 PROVE  Earlier(e) \/ Own(e)' \/ LinkAt(e)'
      BY <1>0, <1>4 DEF Shows
    <2>1. Earlier(e) \/ Own(e) \/ LinkAt(e)
      BY <1>0, <1>1 DEF Shows
    <2>3. ASSUME Own(e) PROVE Own(e)'
      <3>1. PICK k \in 1 .. Len(list) : dir[list[k].e].f = dir[e].f
        BY <1>6, <2>3 DEF Own
      <3>2. ext'[e] = list'[k].ext + dir[e].off
        <4>1. ext'[e] = VolumeAt[k] /\ dir[e].off = 0
          BY <1>10, <3>1
        <4>2. list'[k].ext = VolumeAt[k] /\ VolumeAt[k] \in Int
          BY <1>5
        <4> QED  BY <4>1, <4>2
      <3> QED  BY <1>0, <1>5, <1>6, <3>1, <3>2 DEF Own
    <2>4. ASSUME LinkAt(e) PROVE LinkAt(e)'
      <3>1. PICK k \in 1 .. Len(list) : Twin(list[k].e, e)
        BY <1>6, <2>4 DEF LinkAt
      <3>2. ext'[e] = list'[k].ext + dir[e].off
        <4>1. ext'[e] = VolumeAt[k] /\ dir[e].off = 0
          BY <1>10, <3>1
        <4>2. list'[k].ext = VolumeAt[k] /\ VolumeAt[k] \in Int
          BY <1>5
        <4> QED  BY <4>1, <4>2
      <3>3. Twin(list[k].e, e)' /\ k \in Elems'
        BY <1>4, <1>5, <1>6, <3>1
      <3> QED  BY <1>0, <3>2, <3>3 DEF LinkAt
    <2> QED  BY <2>1, <2>3, <2>4
  <1>19. Kept'
    <2>1. ASSUME NEW e \in 1 .. Len(dir), Earlier(e), dir[e].size > 0 PROVE ext'[e] = File(e).prev
      <3>1. \A k \in 1 .. Len(list) : ~Alike(list[k].e, e)
        <4> SUFFICES ASSUME NEW k \in 1 .. Len(list), Alike(list[k].e, e) PROVE FALSE
          OBVIOUS
        <4>1. File(list[k].e).prev = File(e).prev
          <5>1. CASE dir[list[k].e].f = dir[e].f
            BY <5>1, SameFile
          <5>2. CASE Twin(list[k].e, e)
            BY <1>1, <1>7, <5>2, TwinFacts
          <5> QED  BY <5>1, <5>2 DEF Alike
        <4> QED  BY <1>7, <2>1, <4>1 DEF Earlier
      <3>2. ext[e] = File(e).prev
        BY <1>1, <2>1 DEF Kept
      <3> QED  BY <1>10, <3>1, <3>2
    <2>2. job'.sort => \A e \in Visible' : InSections(e)' => weight'[e] > NotSorted
      BY <1>0, <1>1, <1>4 DEF Kept
    <2>3. \A e \in 1 .. Len(dir') : Earlier(e)' /\ (dir'[e].size > 0 \/ pc' = "assign") =>
              ext'[e] = File(e)'.prev
      BY <1>0, <1>4, <2>1
    <2>4. ext' = [e \in 1 .. Len(dir') |-> ext'[e]] /\ DOMAIN start' = 1 .. Len(dir')
      <3>1. ext' = [e \in DOMAIN ext |-> ext'[e]]
        BY <1>3
      <3> QED  BY <1>0, <1>3, <1>9, <3>1
    <2> QED  BY <2>2, <2>3, <2>4 DEF Kept
  <1> QED  BY <1>15, <1>16, <1>17, <1>18, <1>19 DEF LayoutInv

\* The Macintosh volume, whatever the size of its blocks.
LEMMA LayoutHfs == EndInv /\ LayoutInv /\ FillsUpOnce /\ Supported /\ Hfs => LayoutInv'
  <1> SUFFICES ASSUME EndInv, LayoutInv, FillsUpOnce, Supported, Hfs PROVE LayoutInv'
    OBVIOUS
  <1>1. Unit = 1 \/ Unit = 2
    <2>1. pc = "hfs"
      BY DEF Hfs
    <2>2. Unit \in {1, 2}
      BY <2>1, HfsFacts
    <2> QED  BY <2>2
  <1>2. CASE Unit = 1
    BY <1>2, LayoutHfsSmall
  <1>3. CASE Unit = 2
    BY <1>3, LayoutHfsLarge
  <1> QED  BY <1>1, <1>2, <1>3

\* No step loses a file.
LEMMA LayoutNext == EndInv /\ LayoutInv /\ FillsUpOnce /\ Supported /\ [Next]_vars => LayoutInv'
  <1> SUFFICES ASSUME EndInv, LayoutInv, FillsUpOnce, Supported, [Next]_vars PROVE LayoutInv'
    OBVIOUS
  <1>1. CASE AssignLinked
    BY <1>1, LayoutAssignLinked
  <1>2. CASE AssignNew
    BY <1>2, LayoutAssignNew
  <1>3. CASE AssignEmpty
    BY <1>3, LayoutAssignEmpty
  <1>4. CASE Sort
    BY <1>4, LayoutSort
  <1>5. CASE Reassign
    BY <1>5, LayoutReassign
  <1>6. CASE Hfs
    BY <1>6, LayoutHfs
  <1>7. CASE \/ AssignKnown \/ AssignedAll \/ NumberFile \/ NumberEmpty \/ StartWriting
             \/ WriteFile \/ WritePadding \/ Abort \/ Finish \/ UNCHANGED vars
    BY <1>7, LayoutPassed
  <1> QED  BY <1>1, <1>2, <1>3, <1>4, <1>5, <1>6, <1>7 DEF Next, Done

-----------------------------------------------------------------------------
(* What the medium holds                                                   *)

\* A file of an earlier session lies before this one and has one section.
LEMMA EarlierFacts ==
    ASSUME Kinds, NEW e \in 1 .. Len(dir), Earlier(e)
    PROVE  /\ File(e).prev \in Nat /\ File(e).size \in Nat
           /\ File(e).prev + File(e).size <= job.session /\ job.session \in Nat
           /\ File(e).kind # "fork" /\ ~InSections(e)
           /\ File(e) \in ToSet(job.files) /\ OnDisk(job)
  <1>1. /\ job.files \in Seq(Files) /\ job.session \in Nat
        /\ File(e).prev \in Nat /\ File(e).size \in Nat
    BY JobFacts
  <1>2. dir[e].f \in 1 .. Len(job.files) /\ File(e) = job.files[dir[e].f]
    BY EntryFacts
  <1>3. OnDisk(job)
    BY LayoutAssumption DEF Kinds
  <1>4. File(e) \in ToSet(job.files)
    BY <1>2 DEF ToSet
  <1>5. File(e).prev > 0
    BY DEF Earlier
  <1>6. /\ File(e).kind = "fork" => File(e).prev = 0
        /\ File(e).prev + File(e).size <= job.session /\ File(e).size <= Large
    BY <1>3, <1>4, <1>5 DEF OnDisk
  <1>7. Sections(File(e).size) = 1
    BY <1>1, <1>6, SectionsFacts
  <1> QED  BY <1>1, <1>3, <1>4, <1>5, <1>6, <1>7 DEF InSections, MultiExtent

\* The files of earlier sessions are on the medium from the start.
LEMMA CopiesInit == Init => Copies
  <1> SUFFICES ASSUME Init PROVE Copies
    OBVIOUS
  <1>0. Kinds /\ pc = "assign"
    BY EndInit DEF EndInv, Init
  <1> DEFINE old == {e \in 1 .. Len(dir) : File(e).prev > 0}
             Span(e) == File(e).prev .. File(e).prev + File(e).size - 1
             In(b) == CHOOSE d \in 1 .. Len(dir) : File(d).prev > 0 /\ b \in Span(d)
  <1>1. image = [b \in UNION {Span(e) : e \in old} |->
                   [ino |-> File(In(b)).ino, at |-> b - File(In(b)).prev, zero |-> FALSE]]
    BY DEF Init
  <1>2. ASSUME NEW e \in 1 .. Len(dir), Earlier(e), NEW x \in 0 .. File(e).size - 1
        PROVE  /\ File(e).prev + x \in DOMAIN image
               /\ image[File(e).prev + x].ino = File(e).ino /\ image[File(e).prev + x].at = x
    <2> DEFINE b == File(e).prev + x
               d == In(b)
    <2>1. /\ File(e).prev \in Nat /\ File(e).size \in Nat /\ File(e).kind # "fork"
          /\ File(e) \in ToSet(job.files) /\ OnDisk(job)
      BY <1>0, <1>2, EarlierFacts
    <2>2. b \in Span(e) /\ File(e).prev > 0
      BY <1>2, <2>1 DEF Earlier
    <2>3. d \in 1 .. Len(dir) /\ File(d).prev > 0 /\ b \in Span(d)
      BY <2>2
    <2>4. b \in UNION {Span(y) : y \in old}
      BY <2>2
    <2> HIDE DEF d, b, Span, In, old
    <2>5. image[b] = [ino |-> File(d).ino, at |-> b - File(d).prev, zero |-> FALSE]
      BY <1>1, <2>4 DEF d
    <2>6. File(d).kind # "fork" /\ File(d) \in ToSet(job.files)
      BY <1>0, <2>3, EarlierFacts DEF Earlier
    <2>7. b \in OldBlocks(File(e)) /\ b \in OldBlocks(File(d))
      BY <2>2, <2>3 DEF OldBlocks, Span
    <2>8. File(d).ino = File(e).ino /\ File(d).prev = File(e).prev
      BY <2>1, <2>6, <2>7 DEF OnDisk
    <2>9. b - File(d).prev = x
      BY <2>1, <2>8 DEF b
    <2>10. b \in DOMAIN image
      BY <1>1, <2>4
    <2> QED  BY <2>5, <2>8, <2>9, <2>10 DEF b
  <1>3. \A e \in 1 .. Len(dir) : Earlier(e) => Copy(File(e).prev, File(e).size, e)
    BY <1>2 DEF Copy
  <1> QED  BY <1>0, <1>3 DEF Copies

\* Where the pass that writes is, the element it writes belongs, behind all that
\* is on the medium already.
LEMMA WriteFacts ==
    ASSUME EndInv, LayoutInv, pc = "write", NEW n \in 1 .. Len(list), n = i
    PROVE  /\ list[n].ext = pos /\ pos \in Int /\ list[n].size \in Nat
           /\ \A e \in 1 .. Len(dir) : Earlier(e) => File(e).prev + File(e).size <= pos
           /\ \A k \in 1 .. Len(list) : k < n => list[k].ext + list[k].size <= pos
           /\ \A k \in 1 .. Len(list) : list[k].ext \in Int /\ list[k].size \in Nat
  <1>1. Kinds /\ pos = Origin + hpad + UpToNth(list, n - 1) /\ From(Origin + hpad) /\ hpad >= 0
    BY DEF EndInv, Planned, LayoutInv, Followed
  <1>2. list \in Seq(DWrite) /\ hpad \in Int /\ pos \in Int /\ Len(list) \in Nat
    BY <1>1 DEF Kinds
  <1>3. Origin \in Int /\ job.session \in Nat /\ Origin >= job.session
    <2>1. job.session \in Nat
      BY <1>1, JobFacts
    <2>2. Ahead \in Nat
      BY LayoutAssumption
    <2> QED  BY <2>1, <2>2 DEF Origin
  <1>4. \A k \in 1 .. Len(list) : list[k].ext \in Int /\ list[k].size \in Nat
    <2>1. \A k \in 1 .. Len(list) : list[k] \in DWrite
      BY <1>2
    <2> QED  BY <2>1 DEF DWrite
  <1>5. /\ \A k \in 0 .. Len(list) : UpToNth(list, k) \in Nat
        /\ \A j, k \in 1 .. Len(list) : j < k =>
              UpToNth(list, j - 1) + list[j].size <= UpToNth(list, k - 1)
    BY <1>2, UpToNthGrows
  <1> DEFINE base == Origin + hpad
  <1>6. base \in Int /\ base >= job.session
    BY <1>1, <1>2, <1>3
  <1>7. pos = base + UpToNth(list, n - 1)
        /\ \A k \in 1 .. Len(list) : list[k].ext = base + UpToNth(list, k - 1)
    BY <1>1 DEF From
  <1> HIDE DEF base
  <1>8. n - 1 \in 0 .. Len(list)
    BY <1>2
  <1>9. \A k \in 1 .. Len(list) : k < n => list[k].ext + list[k].size <= pos
    <2> SUFFICES ASSUME NEW k \in 1 .. Len(list), k < n PROVE list[k].ext + list[k].size <= pos
      OBVIOUS
    <2>1. k - 1 \in 0 .. Len(list)
      BY <1>2
    <2>2. UpToNth(list, k - 1) + list[k].size <= UpToNth(list, n - 1)
      BY <1>5
    <2>3. UpToNth(list, k - 1) \in Nat /\ UpToNth(list, n - 1) \in Nat /\ list[k].size \in Nat
      BY <1>4, <1>5, <1>8, <2>1
    <2>4. list[k].ext = base + UpToNth(list, k - 1)
      BY <1>7
    <2> QED  BY <1>6, <1>7, <2>2, <2>3, <2>4
  <1>10. ASSUME NEW e \in 1 .. Len(dir), Earlier(e) PROVE File(e).prev + File(e).size <= pos
    <2>1. /\ File(e).prev \in Nat /\ File(e).size \in Nat
          /\ File(e).prev + File(e).size <= job.session
      BY <1>1, <1>10, EarlierFacts
    <2>2. UpToNth(list, n - 1) \in Nat
      BY <1>5, <1>8
    <2> QED  BY <1>3, <1>6, <1>7, <2>1, <2>2
  <1> QED  BY <1>2, <1>4, <1>7, <1>9, <1>10

\* A file that is written leaves what is on the medium alone.
LEMMA CopiesWriteFile == EndInv /\ LayoutInv /\ Copies /\ WriteFile => Copies'
  <1> SUFFICES ASSUME EndInv, LayoutInv, Copies, WriteFile PROVE Copies'
    OBVIOUS
  <1>0. /\ pc = "write" /\ i <= Len(list) /\ list[i].e > 0 /\ pc' = pc /\ i' = i + 1
        /\ UNCHANGED <<job, dir, list>>
    BY DEF WriteFile, given, deferred
  <1>1. PICK got : image' = [b \in DOMAIN image \cup DOMAIN Written(list[i], got) |->
                               IF b \in DOMAIN Written(list[i], got)
                               THEN Written(list[i], got)[b] ELSE image[b]]
    BY DEF WriteFile
  <1>2. Kinds /\ i \in Nat /\ i >= 1 /\ Len(list) \in Nat /\ i \in 1 .. Len(list)
    BY <1>0 DEF EndInv, Kinds
  <1>3. /\ list[i].ext = pos /\ pos \in Int /\ list[i].size \in Nat
        /\ \A e \in 1 .. Len(dir) : Earlier(e) => File(e).prev + File(e).size <= pos
        /\ \A k \in 1 .. Len(list) : k < i => list[k].ext + list[k].size <= pos
        /\ \A k \in 1 .. Len(list) : list[k].ext \in Int /\ list[k].size \in Nat
    BY <1>0, <1>2, WriteFacts
  <1>4. \A e : File(e)' = File(e) /\ (Earlier(e)' <=> Earlier(e))
    BY <1>0, Steady
  <1> DEFINE w == Written(list[i], got)
             Stays(at, size, e) ==
                \A b \in 0 .. size - 1 : /\ at + b \in DOMAIN image'
                                         /\ image'[at + b].ino = File(e).ino
                                         /\ image'[at + b].at = b
  <1>5. /\ DOMAIN w = pos .. pos + list[i].size - 1
        /\ \A b \in pos .. pos + list[i].size - 1 :
              w[b].ino = File(list[i].e).ino /\ w[b].at = b - pos
    BY DEF Written
  <1>6. /\ \A b \in DOMAIN w : b \in DOMAIN image' /\ image'[b] = w[b]
        /\ \A b \in DOMAIN image : b \notin DOMAIN w => b \in DOMAIN image' /\ image'[b] = image[b]
    BY <1>1
  <1> HIDE DEF w
  \* What lies below stays.
  <1>7. ASSUME NEW at \in Int, NEW size \in Nat, NEW e, at + size <= pos, Copy(at, size, e)
        PROVE  Stays(at, size, e)
    <2> SUFFICES ASSUME NEW x \in 0 .. size - 1
                 PROVE  /\ at + x \in DOMAIN image'
                        /\ image'[at + x].ino = File(e).ino /\ image'[at + x].at = x
      OBVIOUS
    <2>1. /\ at + x \in DOMAIN image
          /\ image[at + x].ino = File(e).ino /\ image[at + x].at = x
      BY <1>7 DEF Copy
    <2>2. at + x \notin DOMAIN w
      <3>1. at + x < pos
        BY <1>3, <1>7
      <3> QED  BY <1>3, <1>5, <3>1
    <2> QED  BY <1>6, <2>1, <2>2
  <1>8. \A e \in 1 .. Len(dir) : Earlier(e) => Copy(File(e).prev, File(e).size, e)'
    <2> SUFFICES ASSUME NEW e \in 1 .. Len(dir), Earlier(e)
                 PROVE  Copy(File(e).prev, File(e).size, e)'
      OBVIOUS
    <2>1. Copy(File(e).prev, File(e).size, e)
      BY DEF Copies
    <2>2. File(e).prev \in Nat /\ File(e).size \in Nat
      BY <1>2, EarlierFacts
    <2> DEFINE at == File(e).prev
               size == File(e).size
    <2>3. Copy(at, size, e) /\ at \in Int /\ size \in Nat /\ at + size <= pos
      BY <1>3, <2>1, <2>2
    <2> HIDE DEF at, size, Stays
    <2>4. Stays(at, size, e)
      BY <1>7, <2>3
    <2> QED  BY <1>4, <2>4 DEF at, size, Stays, Copy
  <1>9. ASSUME NEW k \in Elems, k < i + 1 PROVE Held(k)'
    <2>1. k \in 1 .. Len(list)
      BY DEF Elems
    <2>2. list[k].ext \in Int /\ list[k].size \in Nat
      BY <1>3, <2>1
    <2>3. CASE k < i
      <3>1. Copy(list[k].ext, list[k].size, list[k].e)
        BY <1>0, <2>3 DEF Copies, Held
      <3>2. list[k].ext + list[k].size <= pos
        BY <1>3, <2>1, <2>3
      <3> DEFINE at == list[k].ext
                 size == list[k].size
                 e == list[k].e
      <3>3. Copy(at, size, e) /\ at \in Int /\ size \in Nat /\ at + size <= pos
        BY <2>2, <3>1, <3>2
      <3> HIDE DEF at, size, e, Stays
      <3>4. Stays(at, size, e)
        BY <1>7, <3>3
      <3> QED  BY <1>0, <1>4, <3>4 DEF at, size, e, Stays, Held, Copy
    <2>4. CASE k = i
      <3> SUFFICES ASSUME NEW b \in 0 .. list[i].size - 1
                   PROVE  /\ pos + b \in DOMAIN image'
                          /\ image'[pos + b].ino = File(list[i].e).ino /\ image'[pos + b].at = b
        BY <1>0, <1>3, <1>4, <2>4 DEF Held, Copy
      <3>1. pos + b \in pos .. pos + list[i].size - 1 /\ (pos + b) - pos = b
        BY <1>3
      <3>2. pos + b \in DOMAIN w /\ w[pos + b].ino = File(list[i].e).ino /\ w[pos + b].at = b
        BY <1>5, <3>1
      <3> QED  BY <1>6, <3>2
    <2>5. k \in Nat
      BY <1>2, <2>1
    <2> QED  BY <1>2, <1>9, <2>3, <2>4, <2>5
  <1>10. Elems' = Elems
    BY <1>0 DEF Elems
  <1>11. \A e \in 1 .. Len(dir') : Earlier(e)' => Copy(File(e).prev, File(e).size, e)'
    BY <1>0, <1>4, <1>8
  <1>12. \A k \in Elems' : k < i' => Held(k)'
    BY <1>0, <1>9, <1>10
  <1> QED  BY <1>0, <1>11, <1>12 DEF Copies

\* No step but that of a file touches the medium.
LEMMA CopiesNext == EndInv /\ LayoutInv /\ Copies /\ [Next]_vars => Copies'
  <1> SUFFICES ASSUME EndInv, LayoutInv, Copies, [Next]_vars, ~WriteFile PROVE Copies'
    BY CopiesWriteFile
  <1>1. UNCHANGED <<job, dir, image>>
        /\ \/ pc' \notin {"write", "done"}
           \/ pc' = "write" /\ i' = 1
           \/ pc = "write" /\ pc' = "write" /\ list' = list /\ i <= Len(list) /\ list[i].e = 0
                           /\ i' = i + 1
           \/ pc = "write" /\ pc' = "done" /\ list' = list /\ i > Len(list)
           \/ pc' = pc /\ list' = list /\ i' = i
    BY DEF Next, AssignKnown, AssignLinked, AssignNew, AssignEmpty, AssignedAll, Sort, Reassign,
           Hfs, NumberFile, NumberEmpty, StartWriting, WritePadding, Abort, Finish, Done, vars,
           given, written, deferred, Assigning, NextEntry, Numbering
  <1>2. i \in Nat /\ Len(list) \in Nat
    BY DEF EndInv, Kinds
  <1>3. \A e : File(e)' = File(e) /\ (Earlier(e)' <=> Earlier(e))
    BY <1>1, Steady
  <1>4. \A e \in 1 .. Len(dir') : Earlier(e)' => Copy(File(e).prev, File(e).size, e)'
    BY <1>1, <1>3 DEF Copies, Copy
  <1>5. list' = list => Elems' = Elems /\ \A k : Held(k)' <=> Held(k)
    BY <1>1, <1>3 DEF Elems, Held, Copy
  <1>6. \A k : k \in Elems => k \in Nat /\ k <= Len(list) /\ k >= 1 /\ list[k].e # 0
    BY <1>2 DEF Elems
  <1>7. pc' = "write" => \A k \in Elems' : k < i' => Held(k)'
    <2>1. CASE pc' = "write" /\ i' = 1
      <3>1. \A k \in Elems' : k >= 1 /\ k \in Int
        BY DEF Elems
      <3> QED  BY <2>1, <3>1
    <2>2. CASE pc = "write" /\ pc' = "write" /\ list' = list /\ list[i].e = 0 /\ i' = i + 1
      <3>1. \A k \in Elems : k < i + 1 => k < i
        BY <1>2, <1>6, <2>2
      <3> QED  BY <1>5, <2>2, <3>1 DEF Copies
    <2>3. CASE pc' = pc /\ list' = list /\ i' = i
      BY <1>5, <2>3 DEF Copies
    <2> QED  BY <1>1, <2>1, <2>2, <2>3
  <1>8. pc' = "done" => \A k \in Elems' : Held(k)'
    <2>1. CASE pc = "write" /\ pc' = "done" /\ list' = list /\ i > Len(list)
      <3>1. \A k \in Elems : k < i
        BY <1>2, <1>6, <2>1
      <3> QED  BY <1>5, <2>1, <3>1 DEF Copies
    <2>2. CASE pc' = pc /\ list' = list /\ i' = i
      BY <1>5, <2>2 DEF Copies
    <2> QED  BY <1>1, <2>1, <2>2
  <1> QED  BY <1>4, <1>7, <1>8 DEF Copies

\* When mkisofs is done every entry points at what the medium has of its file.
LEMMA PlacedFinal == EndInv /\ LayoutInv /\ Copies => Placed
  <1> SUFFICES ASSUME EndInv, LayoutInv, Copies, pc = "done",
                      NEW e \in DOMAIN ext, ~Hidden(e), NEW b \in 0 .. dir[e].size - 1
               PROVE  /\ ext[e] + b \in DOMAIN image
                      /\ image[ext[e] + b].ino = File(e).ino
                      /\ image[ext[e] + b].at = dir[e].off + b
    BY DEF Placed, Complete
  <1>1. Kinds /\ Listed /\ Shows /\ Kept
    BY DEF EndInv, LayoutInv
  <1>2. e \in Visible /\ e \in 1 .. Len(dir)
    BY <1>1 DEF Kept, Visible
  <1>3. /\ dir[e].off \in Nat /\ dir[e].size \in Nat /\ File(e).size \in Nat
        /\ dir[e].off + dir[e].size <= File(e).size
        /\ Parts(e) = 1 => dir[e].off = 0 /\ dir[e].size = File(e).size
    BY <1>1, <1>2, OffsetFacts
  <1>4. dir[e].size > 0 /\ b \in Nat
    BY <1>3
  <1>5. Earlier(e) \/ Own(e) \/ LinkAt(e)
    BY <1>1, <1>2, <1>4 DEF Shows
  <1>6. CASE Earlier(e)
    <2>1. ~InSections(e)
      BY <1>1, <1>2, <1>6, EarlierFacts
    <2>2. Parts(e) = 1
      BY <1>1, <1>2, <2>1, EntryFacts
    <2>3. dir[e].off = 0 /\ dir[e].size = File(e).size
      BY <1>3, <2>2
    <2>4. ext[e] = File(e).prev
      BY <1>1, <1>2, <1>4, <1>6 DEF Kept
    <2>5. Copy(File(e).prev, File(e).size, e)
      BY <1>2, <1>6 DEF Copies
    <2> QED  BY <1>4, <2>3, <2>4, <2>5 DEF Copy
  <1>7. CASE Own(e) \/ LinkAt(e)
    <2>1. PICK k \in Elems : /\ ext[e] = list[k].ext + dir[e].off
                             /\ dir[list[k].e].f = dir[e].f \/ Twin(list[k].e, e)
      BY <1>7 DEF Own, LinkAt
    <2>2. /\ list[k].e \in Visible /\ list[k].e \in 1 .. Len(dir)
          /\ list[k].size = File(list[k].e).size
      BY <1>1 DEF Listed, Visible
    <2>3. File(list[k].e).size = File(e).size /\ File(list[k].e).ino = File(e).ino
      <3>1. CASE dir[list[k].e].f = dir[e].f
        BY <3>1 DEF File
      <3>2. CASE Twin(list[k].e, e)
        <4> DEFINE d == list[k].e
        <4>1. d \in 1 .. Len(dir) /\ Twin(d, e)
          BY <2>2, <3>2
        <4> HIDE DEF d
        <4>2. File(d).size = File(e).size /\ File(d).ino = File(e).ino
          BY <1>1, <1>2, <4>1, TwinFacts DEF Twin
        <4> QED  BY <4>2 DEF d
      <3> QED  BY <2>1, <3>1, <3>2
    <2>4. Copy(list[k].ext, File(e).size, list[k].e)
      BY <2>2, <2>3 DEF Copies, Held
    <2>5. dir[e].off + b \in 0 .. File(e).size - 1
      BY <1>3, <1>4
    <2>6. ext[e] + b = list[k].ext + (dir[e].off + b)
      <3>1. list[k].ext \in Int
        <4>1. k \in 1 .. Len(list) /\ list \in Seq(DWrite)
          BY <1>1 DEF Elems, Kinds
        <4>2. list[k] \in DWrite
          BY <4>1
        <4> QED  BY <4>2 DEF DWrite
      <3> QED  BY <1>3, <1>4, <2>1, <3>1
    <2> QED  BY <2>3, <2>4, <2>5, <2>6 DEF Copy
  <1> QED  BY <1>5, <1>6, <1>7

\* An image mkisofs completes shows every file where its data are, whatever moved
\* between the pass that planned and the pass that wrote: for all directories,
\* links, weights, sizes and earlier sessions the layout is meant for.
THEOREM EveryFileFound == Spec /\ [](FillsUpOnce /\ Supported) => []Placed
  <1>1. Init => EndInv /\ LayoutInv /\ Copies
    BY EndInit, LayoutInit, CopiesInit
  <1>2. /\ EndInv /\ LayoutInv /\ Copies /\ FillsUpOnce /\ Supported /\ [Next]_vars
        => EndInv' /\ LayoutInv' /\ Copies'
    BY EndNext, LayoutNext, CopiesNext
  <1>3. EndInv /\ LayoutInv /\ Copies => Placed
    BY PlacedFinal
  <1> QED  BY <1>1, <1>2, <1>3, PTL DEF Spec

-----------------------------------------------------------------------------
(* Sorting puts the heavier file first                                     *)

\* While extents are handed out the first name of a file collects the weights of
\* the others.
Collected ==
    pc \in {"assign", "sort"} /\ job.sort =>
        /\ pc = "assign" => /\ \A x \in Visible : x >= i => weight[x] = File(x).weight
                            /\ \A k \in Elems : list[k].e < i
        /\ \A j, k \in Elems : j < k => list[j].e < list[k].e
        /\ \A k \in Elems : Cached(list[k].e) =>
              /\ \E x \in 1 .. Len(dir) : Twin(x, list[k].e) /\ weight[list[k].e] = File(x).weight
              /\ \A x \in 1 .. Len(dir) : Twin(x, list[k].e) =>
                    /\ list[k].e <= x
                    /\ pc = "sort" \/ x < i => File(x).weight <= weight[list[k].e]

\* From then on the list has the order of the weights.
Nearer(e, d) == Weight(e) > Weight(d) \/ (Weight(e) = Weight(d) /\ First(e) < First(d))

Ordered ==
    pc \in {"reassign", "hfs", "inodes", "write", "done"} /\ job.sort =>
        \A j, k \in Elems :
            Cached(list[j].e) /\ Cached(list[k].e) /\ Nearer(list[j].e, list[k].e) => j < k

\* A file with data that has been passed under one of its names is in the list.
LEMMA TwinPassed ==
    ASSUME EndInv, LayoutInv, pc = "assign", NEW x \in 1 .. Len(dir), x < i,
           NEW y \in 1 .. Len(dir), Twin(x, y), File(y).prev = 0, File(y).size > 0
    PROVE  \E k \in Elems : Twin(list[k].e, y)
  <1> DEFINE z == Begin(x)
  <1>1. Kinds /\ Entered /\ Shows /\ i \in Nat
    BY DEF EndInv, LayoutInv, Kinds
  <1>2. z \in Visible /\ dir[z].f = dir[x].f /\ z \in Nat
    BY <1>1, BeginFacts, EntryFacts
  <1>3. z <= x
    <2>1. CASE x \in Visible
      BY <1>1, <2>1, EntryFacts
    <2>2. CASE x \notin Visible
      BY <1>1, <1>2, <2>2, RootFacts
    <2> QED  BY <2>1, <2>2
  <1> HIDE DEF z
  <1>4. z < i /\ z \in 1 .. Len(dir)
    BY <1>1, <1>2, <1>3 DEF Visible
  <1>5. ext[z] # 0
    BY <1>1, <1>4 DEF Entered
  <1>6. Twin(z, y)
    <2>1. File(z) = File(x) /\ (Cached(z) <=> Cached(x))
      BY <1>2, SameFile
    <2> QED  BY <2>1 DEF Twin
  <1>7. File(z).size > 0 /\ File(z).prev = 0
    BY <1>1, <1>4, <1>6, TwinFacts
  <1>8. dir[z].size > 0 /\ ~Earlier(z)
    BY <1>1, <1>2, <1>7, OffsetFacts DEF Earlier
  <1>9. Own(z) \/ LinkAt(z)
    BY <1>1, <1>2, <1>5, <1>8 DEF Shows
  <1>10. CASE Own(z)
    <2>1. PICK k \in Elems : dir[list[k].e].f = dir[z].f
      BY <1>10 DEF Own
    <2>2. File(list[k].e) = File(z) /\ (Cached(list[k].e) <=> Cached(z))
      BY <2>1, SameFile
    <2> QED  BY <1>6, <2>2 DEF Twin
  <1>11. CASE LinkAt(z)
    BY <1>6, <1>11 DEF LinkAt, Twin
  <1> QED  BY <1>9, <1>10, <1>11

\* An entry that is passed is no new name of a file in the list.
LEMMA CollectedPassed ==
    ASSUME EndInv, LayoutInv, Collected, pc = "assign", pc' = "assign",
           UNCHANGED <<job, dir, list, weight>>, i' = i + 1, i \in 1 .. Len(dir),
           job.sort => \A k \in Elems : Twin(i, list[k].e) => Begin(i) < i
    PROVE  Collected'
  <1> SUFFICES ASSUME job'.sort PROVE Collected'
    BY DEF Collected
  <1>0. /\ Elems' = Elems /\ Visible' = Visible /\ job.sort /\ i \in Nat /\ Kinds /\ Listed
        /\ \A e : File(e)' = File(e) /\ (Cached(e)' <=> Cached(e))
        /\ \A d, e : Twin(d, e)' <=> Twin(d, e)
    <2>1. Elems' = Elems
      BY DEF Elems
    <2> QED  BY <2>1, Steady DEF EndInv, LayoutInv, Kinds
  <1>1. /\ \A x \in Visible : x >= i => weight[x] = File(x).weight
        /\ \A k \in Elems : list[k].e < i
        /\ \A j, k \in Elems : j < k => list[j].e < list[k].e
        /\ \A k \in Elems : Cached(list[k].e) =>
              /\ \E x \in 1 .. Len(dir) : Twin(x, list[k].e) /\ weight[list[k].e] = File(x).weight
              /\ \A x \in 1 .. Len(dir) : Twin(x, list[k].e) =>
                    /\ list[k].e <= x
                    /\ x < i => File(x).weight <= weight[list[k].e]
    BY <1>0 DEF Collected
  <1>2. ASSUME NEW k \in Elems, Cached(list[k].e), Twin(i, list[k].e)
        PROVE  File(i).weight <= weight[list[k].e]
    <2> DEFINE z == Begin(i)
    <2>1. z < i /\ z \in 1 .. Len(dir) /\ dir[z].f = dir[i].f
      BY <1>0, <1>2, BeginFacts DEF Visible
    <2> HIDE DEF z
    <2>2. File(z) = File(i) /\ (Cached(z) <=> Cached(i))
      BY <2>1, SameFile
    <2>3. Twin(z, list[k].e)
      BY <1>2, <2>2 DEF Twin
    <2> QED  BY <1>1, <1>2, <2>1, <2>2, <2>3
  <1>3. \A x \in 1 .. Len(dir) : x < i + 1 => x < i \/ x = i
    BY <1>0
  <1>4. \A x \in Visible : x >= i + 1 => x >= i
    BY <1>0 DEF Visible
  <1>5. \A k \in Elems : list[k].e < i + 1
    <2>1. \A k \in Elems : list[k].e \in 1 .. Len(dir)
      BY <1>0 DEF Listed, Visible
    <2> QED  BY <1>0, <1>1, <2>1
  <1>6. \A k \in Elems : Cached(list[k].e) =>
           /\ \E x \in 1 .. Len(dir) : Twin(x, list[k].e) /\ weight[list[k].e] = File(x).weight
           /\ \A x \in 1 .. Len(dir) : Twin(x, list[k].e) =>
                 /\ list[k].e <= x
                 /\ x < i + 1 => File(x).weight <= weight[list[k].e]
    BY <1>1, <1>2, <1>3
  <1>7. pc' # "sort"
    OBVIOUS
  <1>8. /\ \A x \in Visible' : x >= i' => weight'[x] = File(x)'.weight
        /\ \A k \in Elems' : list'[k].e < i'
        /\ \A j, k \in Elems' : j < k => list'[j].e < list'[k].e
    BY <1>0, <1>1, <1>4, <1>5
  <1>9. \A k \in Elems' : Cached(list[k].e)' =>
           /\ \E x \in 1 .. Len(dir') : Twin(x, list[k].e)' /\ weight'[list'[k].e] = File(x)'.weight
           /\ \A x \in 1 .. Len(dir') : Twin(x, list[k].e)' =>
                 /\ list'[k].e <= x
                 /\ x < i' => File(x)'.weight <= weight'[list'[k].e]
    BY <1>0, <1>6
  <1> QED  BY <1>7, <1>8, <1>9 DEF Collected

\* Entries that have their extent, and empty files.
LEMMA CollectedKnown ==
    EndInv /\ LayoutInv /\ Collected /\ (AssignKnown \/ AssignEmpty) => Collected'
  <1> SUFFICES ASSUME EndInv, LayoutInv, Collected, AssignKnown \/ AssignEmpty PROVE Collected'
    OBVIOUS
  <1>0. /\ pc = "assign" /\ pc' = "assign" /\ i' = i + 1 /\ i <= Len(dir)
        /\ UNCHANGED <<job, dir, list, weight>>
    BY DEF AssignKnown, AssignEmpty, Assigning, NextEntry, given, entries, deferred
  <1>1. /\ Kinds /\ Listed /\ Shows /\ Kept /\ i \in 1 .. Len(dir)
    BY <1>0, JobFacts DEF EndInv, LayoutInv, Kinds
  <1>2. ASSUME job.sort, NEW k \in Elems, Twin(i, list[k].e) PROVE Begin(i) < i
    <2> SUFFICES ASSUME ~(Begin(i) < i) PROVE FALSE
      OBVIOUS
    <2>1. i \in Visible /\ i = Begin(i)
      <3>1. Begin(i) \in Visible /\ Begin(i) \in Nat /\ dir[Begin(i)].f = dir[i].f
        BY <1>1, BeginFacts, EntryFacts
      <3>2. i \in Visible
        BY <1>1, <3>1, RootFacts
      <3>3. Begin(i) <= i
        BY <1>1, <3>2, EntryFacts
      <3> QED  BY <1>1, <3>1, <3>2, <3>3
    <2> DEFINE d == list[k].e
    <2>2. /\ d \in Visible /\ d \in 1 .. Len(dir) /\ dir[d].off = 0
          /\ File(d).size > 0 /\ File(d).prev = 0
      BY <1>1 DEF Listed, Visible
    <2>3. Twin(i, d) /\ d < i
      BY <1>0, <1>2 DEF Collected
    <2> HIDE DEF d
    <2>4. File(i).size > 0 /\ File(i).prev = 0
      BY <1>1, <2>2, <2>3, TwinFacts
    <2>5. dir[i].size > 0 /\ ~Earlier(i)
      BY <1>1, <2>1, <2>4, OffsetFacts DEF Earlier
    <2>6. ext[i] # 0
      BY <2>5 DEF AssignKnown, AssignEmpty
    <2>7. Own(i) \/ Waits(i)
      BY <1>0, <1>1, <1>2, <2>1, <2>5, <2>6 DEF Shows
    <2>8. CASE Own(i)
      <3>1. PICK m \in Elems : dir[list[m].e].f = dir[i].f
        BY <2>8 DEF Own
      <3>2. File(list[m].e) = File(i) /\ (Cached(list[m].e) <=> Cached(i))
        BY <3>1, SameFile
      <3>3. Twin(list[m].e, list[k].e)
        BY <1>2, <3>2 DEF Twin
      <3>4. m = k
        BY <1>1, <3>3 DEF Listed
      <3>5. Begin(d) = Begin(i)
        BY <3>1, <3>4, SameFile DEF d
      <3>6. d = Begin(d)
        BY <1>1, <2>2, FirstEntry
      <3> QED  BY <2>1, <2>2, <2>3, <3>5, <3>6
    <2>9. CASE Waits(i)
      <3>1. weight[i] = NotSorted /\ weight[i] = File(i).weight
        BY <1>0, <1>1, <1>2, <2>1, <2>9 DEF Waits, Collected
      <3>2. File(i).weight > NotSorted
        <4>1. dir[i].f \in 1 .. Len(job.files) /\ File(i) = job.files[dir[i].f]
          BY <1>1, EntryFacts
        <4>2. OnDisk(job)
          BY <1>1, LayoutAssumption DEF Kinds
        <4>3. File(i) \in ToSet(job.files)
          BY <4>1 DEF ToSet
        <4> QED  BY <4>2, <4>3 DEF OnDisk
      <3> QED  BY <3>1, <3>2 DEF NotSorted
    <2> QED  BY <2>7, <2>8, <2>9
  <1> QED  BY <1>0, <1>1, <1>2, CollectedPassed

\* A new element is the first of its names.
LEMMA CollectedNew == EndInv /\ LayoutInv /\ Collected /\ AssignNew => Collected'
  <1> SUFFICES ASSUME EndInv, LayoutInv, Collected, AssignNew, job.sort PROVE Collected'
    BY DEF Collected, AssignNew, given
  <1> DEFINE n == Len(list) + 1
  <1>0. /\ pc = "assign" /\ pc' = "assign" /\ i' = i + 1 /\ i <= Len(dir) /\ ext[i] = 0 /\ ~Hit(i)
        /\ dir[i].size > 0 /\ Assigning
        /\ UNCHANGED <<job, dir, weight>>
        /\ list' = Append(list, [e |-> i, size |-> File(i).size, ext |-> last, pad |-> Padding(i)])
    BY DEF AssignNew, Assigning, NextEntry, given
  <1>1. /\ Kinds /\ Listed /\ Hashed /\ i \in 1 .. Len(dir) /\ i \in Nat /\ Len(list) \in Nat
        /\ list \in Seq(DWrite) /\ Elems = 1 .. Len(list)
    BY <1>0, JobFacts DEF EndInv, LayoutInv, Kinds, Listed
  <1>2. /\ Visible' = Visible
        /\ \A e : File(e)' = File(e) /\ (Cached(e)' <=> Cached(e))
        /\ \A d, e : Twin(d, e)' <=> Twin(d, e)
    BY <1>0, Steady
  <1>3. i \in Visible /\ File(i).prev = 0 /\ File(i).size > 0 /\ i # 0
    <2>1. i \in Visible /\ File(i).prev = 0
      BY <1>0, Unmet
    <2>2. dir[i].size <= File(i).size /\ dir[i].size \in Nat /\ File(i).size \in Nat
      BY <1>1, JobFacts
    <2> QED  BY <1>0, <1>1, <2>1, <2>2
  <1>4. /\ \A x \in Visible : x >= i => weight[x] = File(x).weight
        /\ \A k \in Elems : list[k].e < i
        /\ \A j, k \in Elems : j < k => list[j].e < list[k].e
        /\ \A k \in Elems : Cached(list[k].e) =>
              /\ \E x \in 1 .. Len(dir) : Twin(x, list[k].e) /\ weight[list[k].e] = File(x).weight
              /\ \A x \in 1 .. Len(dir) : Twin(x, list[k].e) =>
                    /\ list[k].e <= x
                    /\ x < i => File(x).weight <= weight[list[k].e]
    BY <1>0 DEF Collected
  <1>5. /\ Len(list') = n /\ list'[n].e = i /\ \A k \in 1 .. Len(list) : list'[k] = list[k]
        /\ Elems' = 1 .. n
    <2>1. Len(list') = n /\ list'[n].e = i /\ \A k \in 1 .. Len(list) : list'[k] = list[k]
      BY <1>0, <1>1
    <2>2. \A k \in 1 .. n : k \in 1 .. Len(list) \/ k = n
      BY <1>1
    <2>3. \A k \in 1 .. n : list'[k].e # 0
      <3>1. \A k \in 1 .. Len(list) : list[k].e # 0
        BY <1>1 DEF Elems
      <3> QED  BY <1>3, <2>1, <2>2, <3>1
    <2> QED  BY <2>1, <2>3 DEF Elems
  <1>6. \A k \in 1 .. n : (k \in Elems /\ list'[k] = list[k] /\ k < n) \/ k = n
    BY <1>1, <1>5
  <1>7. \A k \in Elems : list[k].e \in 1 .. Len(dir)
    BY <1>1 DEF Listed, Visible
  <1>8. \A k \in Elems : ~Twin(i, list[k].e) /\ ~Twin(list[k].e, i)
    <2> SUFFICES ASSUME NEW k \in Elems, Twin(i, list[k].e) \/ Twin(list[k].e, i) PROVE FALSE
      OBVIOUS
    <2>1. Cached(i) /\ Cached(list[k].e) /\ File(i).ino = File(list[k].e).ino
      BY DEF Twin
    <2>2. File(list[k].e).ino \in DOMAIN hash
      BY <1>0, <1>1, <2>1 DEF Hashed
    <2> QED  BY <1>0, <2>1, <2>2 DEF Hit
  <1>9. ASSUME NEW x \in 1 .. Len(dir), Twin(x, i) PROVE i <= x
    <2> SUFFICES ASSUME x < i PROVE FALSE
      BY <1>1
    <2>1. \E k \in Elems : Twin(list[k].e, i)
      BY <1>0, <1>1, <1>3, <1>9, TwinPassed
    <2> QED  BY <1>8, <2>1
  <1>10. /\ \A x \in Visible : x >= i + 1 => weight[x] = File(x).weight
         /\ \A k \in 1 .. n : list'[k].e < i + 1
         /\ \A j, k \in 1 .. n : j < k => list'[j].e < list'[k].e
    <2>1. \A x \in Visible : x >= i + 1 => x >= i
      BY <1>1 DEF Visible
    <2>2. \A k \in 1 .. n : list'[k].e < i + 1
      BY <1>1, <1>4, <1>5, <1>6, <1>7
    <2>3. \A j, k \in 1 .. n : j < k => list'[j].e < list'[k].e
      <3> SUFFICES ASSUME NEW j \in 1 .. n, NEW k \in 1 .. n, j < k
                   PROVE  list'[j].e < list'[k].e
        OBVIOUS
      <3>1. j \in Elems /\ list'[j] = list[j]
        BY <1>1, <1>6
      <3>2. (k \in Elems /\ list'[k] = list[k]) \/ k = n
        BY <1>6
      <3> QED  BY <1>4, <1>5, <3>1, <3>2
    <2> QED  BY <1>4, <2>1, <2>2, <2>3
  <1>11. ASSUME NEW k \in 1 .. n, Cached(list'[k].e)
         PROVE  /\ \E x \in 1 .. Len(dir) : Twin(x, list'[k].e) /\ weight[list'[k].e] = File(x).weight
                /\ \A x \in 1 .. Len(dir) : Twin(x, list'[k].e) =>
                      /\ list'[k].e <= x
                      /\ x < i + 1 => File(x).weight <= weight[list'[k].e]
    <2>1. CASE k = n
      <3>1. list'[k].e = i /\ weight[i] = File(i).weight /\ Twin(i, i) /\ File(i).weight \in Int
        BY <1>1, <1>3, <1>4, <1>5, <1>11, <2>1, JobFacts DEF Twin
      <3>2. \A x \in 1 .. Len(dir) : Twin(x, i) =>
               i <= x /\ (x < i + 1 => File(x).weight <= weight[i])
        <4> SUFFICES ASSUME NEW x \in 1 .. Len(dir), Twin(x, i)
                     PROVE  i <= x /\ (x < i + 1 => File(x).weight <= weight[i])
          OBVIOUS
        <4>1. i <= x
          BY <1>9
        <4>2. x < i + 1 => x = i
          BY <1>1, <4>1
        <4> QED  BY <3>1, <4>1, <4>2
      <3> QED  BY <1>1, <3>1, <3>2
    <2>2. CASE k \in Elems /\ list'[k] = list[k]
      <3>1. Cached(list[k].e)
        BY <1>11, <2>2
      <3>2. \A x \in 1 .. Len(dir) : Twin(x, list[k].e) /\ x < i + 1 => x < i
        BY <1>1, <1>8, <2>2
      <3> QED  BY <1>4, <2>2, <3>1, <3>2
    <2> QED  BY <1>6, <2>1, <2>2
  <1>12. /\ \A x \in Visible' : x >= i' => weight'[x] = File(x)'.weight
         /\ \A k \in Elems' : list'[k].e < i'
         /\ \A j, k \in Elems' : j < k => list'[j].e < list'[k].e
    BY <1>0, <1>2, <1>5, <1>10
  <1>13. \A k \in Elems' : Cached(list[k].e)' =>
            /\ \E x \in 1 .. Len(dir') : Twin(x, list[k].e)' /\ weight'[list'[k].e] = File(x)'.weight
            /\ \A x \in 1 .. Len(dir') : Twin(x, list[k].e)' =>
                  /\ list'[k].e <= x
                  /\ x < i' => File(x)'.weight <= weight'[list'[k].e]
    BY <1>0, <1>2, <1>5, <1>11
  <1>14. pc' # "sort"
    BY <1>0
  <1> QED  BY <1>12, <1>13, <1>14 DEF Collected

\* A link gives its weight to the first name.
LEMMA CollectedLinked == EndInv /\ LayoutInv /\ Collected /\ AssignLinked => Collected'
  <1> SUFFICES ASSUME EndInv, LayoutInv, Collected, AssignLinked, job.sort PROVE Collected'
    BY DEF Collected, AssignLinked, given
  <1>0. /\ pc = "assign" /\ pc' = "assign" /\ i' = i + 1 /\ i <= Len(dir) /\ ext[i] = 0 /\ Hit(i)
        /\ Assigning /\ UNCHANGED <<job, dir, list>> /\ weight' = Weigh(i)
    BY DEF AssignLinked, Assigning, NextEntry, given, deferred
  <1>1. /\ Kinds /\ Listed /\ Hashed /\ i \in 1 .. Len(dir) /\ i \in Nat
        /\ weight \in [1 .. Len(dir) -> Int]
    BY <1>0, JobFacts DEF EndInv, LayoutInv, Kinds
  <1>2. CASE i \notin Visible
    <2>1. Hidden(i)
      BY <1>1, <1>2 DEF Visible
    <2>2. weight' = weight
      BY <1>0, <2>1 DEF Weigh
    <2>3. Begin(i) < i
      BY <1>1, <1>2, BeginFacts, RootFacts
    <2> QED  BY <1>0, <1>1, <2>2, <2>3, CollectedPassed
  <1>3. CASE i \in Visible
    <2>1. PICK j \in Elems : /\ Cached(list[j].e) /\ File(list[j].e).ino = File(i).ino
                             /\ hash[File(i).ino].of = list[j].e
      BY <1>0, <1>1 DEF Hashed, Hit
    <2> DEFINE of == list[j].e
    <2>2. /\ Elems' = Elems /\ Visible' = Visible
          /\ \A e : File(e)' = File(e) /\ (Cached(e)' <=> Cached(e))
          /\ \A d, e : Twin(d, e)' <=> Twin(d, e)
      <3>1. Elems' = Elems
        BY <1>0 DEF Elems
      <3> QED  BY <1>0, <3>1, Steady
    <2>3. /\ \A x \in Visible : x >= i => weight[x] = File(x).weight
          /\ \A k \in Elems : list[k].e < i
          /\ \A m, k \in Elems : m < k => list[m].e < list[k].e
          /\ \A k \in Elems : Cached(list[k].e) =>
                /\ \E x \in 1 .. Len(dir) :
                      Twin(x, list[k].e) /\ weight[list[k].e] = File(x).weight
                /\ \A x \in 1 .. Len(dir) : Twin(x, list[k].e) =>
                      /\ list[k].e <= x
                      /\ x < i => File(x).weight <= weight[list[k].e]
      BY <1>0 DEF Collected
    <2>4. /\ Twin(of, i) /\ Twin(i, of)
          /\ of \in 1 .. Len(dir) /\ of < i /\ weight[i] = File(i).weight
          /\ File(i).weight \in Int /\ weight[of] \in Int
      <3>1. of \in 1 .. Len(dir) /\ of < i
        BY <1>1, <2>3 DEF Listed, Visible
      <3>2. weight[i] = File(i).weight
        BY <1>1, <1>3, <2>3
      <3>3. Cached(i)
        BY <1>0 DEF Hit
      <3> QED  BY <1>1, <2>1, <3>1, <3>2, <3>3, JobFacts DEF Twin
    <2>5. \A k \in Elems : /\ list[k].e \in 1 .. Len(dir)
                           /\ list[k].e = of \/ Twin(i, list[k].e) => k = j
      <3> SUFFICES ASSUME NEW k \in Elems
                   PROVE  /\ list[k].e \in 1 .. Len(dir)
                          /\ list[k].e = of \/ Twin(i, list[k].e) => k = j
        OBVIOUS
      <3>1. list[k].e \in 1 .. Len(dir)
        BY <1>1 DEF Listed, Visible
      <3>2. list[k].e = of => k = j
        BY <1>1 DEF Listed
      <3>3. Twin(i, list[k].e) => Twin(list[j].e, list[k].e)
        BY <2>4 DEF Twin
      <3>4. Twin(list[j].e, list[k].e) => k = j
        BY <1>1 DEF Listed
      <3> QED  BY <3>1, <3>2, <3>3, <3>4
    <2> DEFINE max == IF weight[of] > weight[i] THEN weight[of] ELSE weight[i]
    <2>6. /\ weight' \in [1 .. Len(dir) -> Int] /\ weight'[of] = max
          /\ \A x \in 1 .. Len(dir) : x # of /\ x # i => weight'[x] = weight[x]
      <3>1. ~Hidden(i)
        BY <1>3 DEF Visible
      <3>2. weight' = [[weight EXCEPT ![of] = IF @ > weight[i] THEN @ ELSE weight[i]]
                         EXCEPT ![i] = NotSorted]
        BY <1>0, <2>1, <3>1 DEF Weigh
      <3>3. NotSorted \in Int
        BY DEF NotSorted
      <3> HIDE DEF of
      <3>4. /\ of # i /\ of \in DOMAIN weight /\ i \in DOMAIN weight
            /\ weight[of] \in Int /\ weight[i] \in Int
        BY <1>1, <2>4
      <3> QED  BY <1>1, <3>2, <3>3, <3>4
    <2>7. max >= weight[of] /\ max >= weight[i] /\ (max = weight[of] \/ max = weight[i]) /\ max \in Int
      BY <2>4
    <2> HIDE DEF max
    <2>8. /\ \A x \in Visible : x >= i + 1 => weight'[x] = File(x).weight
          /\ \A k \in Elems : list[k].e < i + 1
      <3>1. ASSUME NEW x \in Visible, x >= i + 1 PROVE weight'[x] = File(x).weight
        <4>1. x \in 1 .. Len(dir) /\ x >= i /\ x # i /\ x # of
          BY <1>1, <2>4, <3>1 DEF Visible
        <4> QED  BY <2>3, <2>6, <4>1
      <3>2. \A k \in Elems : list[k].e < i + 1
        BY <1>1, <2>3, <2>5
      <3> QED  BY <3>1, <3>2
    <2>9. ASSUME NEW k \in Elems, Cached(list[k].e)
          PROVE  /\ \E x \in 1 .. Len(dir) :
                       Twin(x, list[k].e) /\ weight'[list[k].e] = File(x).weight
                 /\ \A x \in 1 .. Len(dir) : Twin(x, list[k].e) =>
                       /\ list[k].e <= x
                       /\ x < i + 1 => File(x).weight <= weight'[list[k].e]
      <3>1. CASE k # j
        <4>1. weight'[list[k].e] = weight[list[k].e]
          <5>1. list[k].e < i /\ list[k].e \in 1 .. Len(dir) /\ list[k].e # of
            BY <2>3, <2>5, <3>1
          <5> QED  BY <1>1, <2>6, <5>1
        <4>2. \A x \in 1 .. Len(dir) : Twin(x, list[k].e) /\ x < i + 1 => x < i
          BY <1>1, <2>5, <3>1
        <4> QED  BY <2>3, <2>9, <4>1, <4>2
      <3>2. CASE k = j
        <4>1. /\ \E x \in 1 .. Len(dir) : Twin(x, of) /\ weight[of] = File(x).weight
              /\ \A x \in 1 .. Len(dir) : Twin(x, of) =>
                    of <= x /\ (x < i => File(x).weight <= weight[of])
          BY <2>1, <2>3
        <4> HIDE DEF of
        <4>2. \E x \in 1 .. Len(dir) : Twin(x, of) /\ weight'[of] = File(x).weight
          <5>1. CASE max = weight[of]
            BY <2>6, <4>1, <5>1
          <5>2. CASE max = weight[i]
            BY <1>1, <2>4, <2>6, <5>2
          <5> QED  BY <2>7, <5>1, <5>2
        <4>3. \A x \in 1 .. Len(dir) : Twin(x, of) =>
                 of <= x /\ (x < i + 1 => File(x).weight <= weight'[of])
          <5> SUFFICES ASSUME NEW x \in 1 .. Len(dir), Twin(x, of)
                       PROVE  of <= x /\ (x < i + 1 => File(x).weight <= weight'[of])
            OBVIOUS
          <5>1. of <= x /\ (x < i => File(x).weight <= weight[of])
            BY <4>1
          <5>2. x < i + 1 => x < i \/ x = i
            BY <1>1
          <5>3. File(x).weight \in Int
            BY <1>1, JobFacts
          <5>4. CASE x < i
            BY <2>4, <2>6, <2>7, <5>1, <5>3, <5>4
          <5>5. CASE x = i
            BY <2>4, <2>6, <2>7, <5>1, <5>5
          <5> QED  BY <5>1, <5>2, <5>4, <5>5
        <4> QED  BY <3>2, <4>2, <4>3 DEF of
      <3> QED  BY <3>1, <3>2
    <2>10. /\ \A x \in Visible' : x >= i' => weight'[x] = File(x)'.weight
           /\ \A k \in Elems' : list'[k].e < i'
           /\ \A m, k \in Elems' : m < k => list'[m].e < list'[k].e
      BY <1>0, <2>2, <2>3, <2>8
    <2>11. \A k \in Elems' : Cached(list[k].e)' =>
              /\ \E x \in 1 .. Len(dir') :
                    Twin(x, list[k].e)' /\ weight'[list'[k].e] = File(x)'.weight
              /\ \A x \in 1 .. Len(dir') : Twin(x, list[k].e)' =>
                    /\ list'[k].e <= x
                    /\ x < i' => File(x)'.weight <= weight'[list'[k].e]
      BY <1>0, <2>2, <2>9
    <2>12. pc' # "sort"
      BY <1>0
    <2> QED  BY <2>10, <2>11, <2>12 DEF Collected
  <1> QED  BY <1>2, <1>3

\* At the end of the directory a file has the weights of all its names.
LEMMA CollectedAll == EndInv /\ LayoutInv /\ Collected /\ AssignedAll => Collected'
  <1> SUFFICES ASSUME EndInv, LayoutInv, Collected, AssignedAll, job.sort PROVE Collected'
    BY DEF Collected, AssignedAll, given
  <1>0. pc = "assign" /\ pc' = "sort" /\ i > Len(dir) /\ UNCHANGED <<job, dir, list, weight>>
    BY DEF AssignedAll, given, entries, deferred
  <1>1. /\ Elems' = Elems
        /\ \A e : File(e)' = File(e) /\ (Cached(e)' <=> Cached(e))
        /\ \A d, e : Twin(d, e)' <=> Twin(d, e)
    <2>1. Elems' = Elems
      BY <1>0 DEF Elems
    <2> QED  BY <1>0, <2>1, Steady
  <1>2. \A x \in 1 .. Len(dir) : x < i
    <2>1. i \in Nat /\ Len(dir) \in Nat
      BY JobFacts DEF EndInv, Kinds
    <2> QED  BY <1>0, <2>1
  <1>3. /\ \A j, k \in Elems : j < k => list[j].e < list[k].e
        /\ \A k \in Elems : Cached(list[k].e) =>
              /\ \E x \in 1 .. Len(dir) : Twin(x, list[k].e) /\ weight[list[k].e] = File(x).weight
              /\ \A x \in 1 .. Len(dir) : Twin(x, list[k].e) =>
                    /\ list[k].e <= x
                    /\ File(x).weight <= weight[list[k].e]
    BY <1>0, <1>2 DEF Collected
  <1>4. /\ \A j, k \in Elems' : j < k => list'[j].e < list'[k].e
        /\ \A k \in Elems' : Cached(list[k].e)' =>
              /\ \E x \in 1 .. Len(dir') :
                    Twin(x, list[k].e)' /\ weight'[list'[k].e] = File(x)'.weight
              /\ \A x \in 1 .. Len(dir') : Twin(x, list[k].e)' =>
                    /\ list'[k].e <= x
                    /\ File(x)'.weight <= weight'[list'[k].e]
    BY <1>0, <1>1, <1>3
  <1> QED  BY <1>0, <1>4 DEF Collected

\* At the start nothing is in the list.
LEMMA OrderInit == Init => Collected /\ Ordered
  <1> SUFFICES ASSUME Init PROVE Collected /\ Ordered
    OBVIOUS
  <1>1. /\ pc = "assign" /\ Elems = {}
        /\ \A x \in 1 .. Len(dir) : weight[x] = File(x).weight
    <2>1. pc = "assign" /\ list = <<>> /\ weight = [e \in 1 .. Len(dir) |-> File(e).weight]
      BY DEF Init
    <2> QED  BY <2>1 DEF Elems
  <1>2. \A x \in Visible : weight[x] = File(x).weight
    BY <1>1 DEF Visible
  <1> QED  BY <1>1, <1>2 DEF Collected, Ordered

\* The largest and the smallest number of a set.
LEMMA Extremes ==
    ASSUME NEW S \in SUBSET Int, NEW m \in S
    PROVE  /\ (\A y \in S : y <= m) => Max(S) = m
           /\ (\A y \in S : m <= y) => Min(S) = m
  <1>1. ASSUME \A y \in S : y <= m PROVE Max(S) = m
    <2>1. \A y \in S : m >= y
      BY <1>1
    <2>2. \A x \in S : (\A y \in S : x >= y) => x = m
      BY <1>1
    <2>3. Max(S) = CHOOSE x \in S : \A y \in S : x >= y
      BY DEF Max
    <2> QED  BY <2>1, <2>2, <2>3
  <1>2. ASSUME \A y \in S : m <= y PROVE Min(S) = m
    <2>1. \A x \in S : (\A y \in S : x <= y) => x = m
      BY <1>2
    <2>2. Min(S) = CHOOSE x \in S : \A y \in S : x <= y
      BY DEF Min
    <2> QED  BY <1>2, <2>1, <2>2
  <1> QED  BY <1>1, <1>2

\* When the list is sorted each file has the highest weight of its names, and is
\* known by the first of them.
LEMMA WeightCollected ==
    ASSUME EndInv, LayoutInv, Collected, pc = "sort", NEW k \in Elems, Cached(list[k].e)
    PROVE  /\ Weight(list[k].e) = weight[list[k].e] /\ weight[list[k].e] \in Int
           /\ First(list[k].e) = list[k].e
  <1> DEFINE d == list[k].e
  <1>1. job.sort /\ Kinds /\ DOMAIN ext = 1 .. Len(dir)
    BY DEF EndInv, Planned, LayoutInv, Kept
  <1>2. d \in 1 .. Len(dir) /\ Cached(d)
    BY DEF LayoutInv, Listed, Visible
  <1>3. /\ \E x \in 1 .. Len(dir) : Twin(x, d) /\ weight[d] = File(x).weight
        /\ \A x \in 1 .. Len(dir) : Twin(x, d) => d <= x /\ File(x).weight <= weight[d]
    BY <1>1 DEF Collected
  <1> HIDE DEF d
  <1>4. Aliases(d) = {x \in 1 .. Len(dir) : Twin(x, d)}
    BY <1>1, <1>2 DEF Aliases, Twin
  <1>5. \A x \in 1 .. Len(dir) : File(x).weight \in Int /\ x \in Int
    BY <1>1, JobFacts
  <1>6. Twin(d, d)
    BY <1>2 DEF Twin
  <1>7. Weight(d) = weight[d] /\ weight[d] \in Int
    <2> DEFINE W == {File(x).weight : x \in Aliases(d)}
    <2>1. W \in SUBSET Int /\ weight[d] \in W /\ \A y \in W : y <= weight[d]
      BY <1>3, <1>4, <1>5
    <2>2. Weight(d) = Max(W)
      BY DEF Weight
    <2> HIDE DEF W
    <2> QED  BY <2>1, <2>2, Extremes
  <1>8. First(d) = d
    <2>1. Aliases(d) \in SUBSET Int /\ d \in Aliases(d) /\ \A y \in Aliases(d) : d <= y
      BY <1>2, <1>3, <1>4, <1>5, <1>6
    <2> QED  BY <2>1, Extremes DEF First
  <1> QED  BY <1>7, <1>8 DEF d

\* The order of the files does not change while mkisofs runs.
LEMMA NearerSteady ==
    ASSUME job' = job, dir' = dir, DOMAIN ext' = DOMAIN ext
    PROVE  \A d, e : Nearer(d, e)' <=> Nearer(d, e)
  <1>1. \A e : File(e)' = File(e) /\ (Cached(e)' <=> Cached(e))
    BY Steady
  <1>2. \A e : Aliases(e)' = Aliases(e)
    BY <1>1 DEF Aliases
  <1>3. \A e : Weight(e)' = Weight(e) /\ First(e)' = First(e)
    BY <1>1, <1>2 DEF Weight, First
  <1> QED  BY <1>3 DEF Nearer

\* Sorting gives the list the order of the weights.
LEMMA OrderedSort == EndInv /\ LayoutInv /\ Supported /\ Collected /\ Sort => Ordered'
  <1> SUFFICES ASSUME EndInv, LayoutInv, Supported, Collected, Sort PROVE Ordered'
    OBVIOUS
  <1>0. pc = "sort" /\ job' = job /\ dir' = dir /\ DOMAIN ext' = DOMAIN ext
    <2>1. pc = "sort" /\ job' = job /\ dir' = dir
      BY DEF Sort, given
    <2>2. DOMAIN ext' = DOMAIN ext
      BY DEF Sort
    <2> QED  BY <2>1, <2>2
  <1>1. Kinds /\ Queued /\ job.sort /\ Elems = 1 .. Len(list)
    BY <1>0 DEF EndInv, Planned, LayoutInv, Listed
  <1>2. /\ Len(list) \in Nat /\ Len(list') = Len(list) /\ Len(Sorted) = Len(list)
        /\ \A k \in 1 .. Len(list) : list'[k].e = Sorted[k].e
        /\ \A k \in 1 .. Len(list) : \E j \in 1 .. Len(list) : Sorted[k] = list[j]
    BY SortMoves
  <1>3. \A j, k \in 1 .. Len(list) : j < k => Precedes(Sorted[j], Sorted[k])
    BY <1>0, <1>1, <1>2, SortedFacts
  <1>4. ASSUME NEW j \in 1 .. Len(list), NEW k \in 1 .. Len(list),
               Cached(list'[j].e), Cached(list'[k].e), Nearer(list'[j].e, list'[k].e)
        PROVE  j < k
    <2>1. PICK a \in 1 .. Len(list) : Sorted[j] = list[a]
      BY <1>2
    <2>2. PICK b \in 1 .. Len(list) : Sorted[k] = list[b]
      BY <1>2
    <2>3. /\ Weight(list[a].e) = weight[list[a].e] /\ weight[list[a].e] \in Int
          /\ First(list[a].e) = list[a].e
      BY <1>0, <1>1, <1>2, <1>4, <2>1, WeightCollected
    <2>4. /\ Weight(list[b].e) = weight[list[b].e] /\ weight[list[b].e] \in Int
          /\ First(list[b].e) = list[b].e
      BY <1>0, <1>1, <1>2, <1>4, <2>2, WeightCollected
    <2>5. list[a].e \in Int /\ list[b].e \in Int /\ list[a].ext \in Int /\ list[b].ext \in Int
      <3>1. list \in Seq(DWrite)
        BY <1>1 DEF Kinds
      <3>2. list[a] \in DWrite /\ list[b] \in DWrite
        BY <3>1
      <3> QED  BY <3>2 DEF DWrite
    <2>6. Nearer(list[a].e, list[b].e)
      BY <1>2, <1>4, <2>1, <2>2
    <2>7. \/ weight[list[a].e] > weight[list[b].e]
          \/ weight[list[a].e] = weight[list[b].e] /\ list[a].e < list[b].e
      BY <2>3, <2>4, <2>6 DEF Nearer
    <2>8. ~Precedes(list[b], list[a])
      <3>1. ASSUME list[b].ext < list[a].ext PROVE list[b].e < list[a].e
        <4>1. b < a
          <5>1. a < b => list[a].ext < list[b].ext
            BY <1>0, <1>1 DEF Queued
          <5> QED  BY <2>5, <3>1, <5>1
        <4> QED  BY <1>0, <1>1, <4>1 DEF Collected
      <3> QED  BY <2>3, <2>4, <2>5, <2>7, <3>1 DEF Precedes
    <2>9. ~(k < j)
      BY <1>3, <2>1, <2>2, <2>8
    <2>10. j # k
      <3>1. ASSUME j = k PROVE FALSE
        <4>1. list[a] = list[b]
          BY <2>1, <2>2, <3>1
        <4> QED  BY <2>3, <2>5, <2>7, <4>1
      <3> QED  BY <3>1
    <2> QED  BY <2>9, <2>10
  <1>5. Elems' \subseteq 1 .. Len(list)
    BY <1>2 DEF Elems
  <1>6. \A e : Cached(e)' <=> Cached(e)
    BY <1>0, Steady
  <1>7. \A d, e : Nearer(d, e)' <=> Nearer(d, e)
    BY <1>0, NearerSteady
  <1>8. \A j, k \in Elems' :
           Cached(list[j].e)' /\ Cached(list[k].e)' /\ Nearer(list[j].e, list[k].e)' => j < k
    BY <1>4, <1>5, <1>6, <1>7
  <1> QED  BY <1>8 DEF Ordered

\* Every step keeps what the first name of a file has collected.
LEMMA CollectedNext ==
    EndInv /\ LayoutInv /\ Supported /\ Collected /\ [Next]_vars => Collected'
  <1> SUFFICES ASSUME EndInv, LayoutInv, Supported, Collected, [Next]_vars PROVE Collected'
    OBVIOUS
  <1>1. CASE AssignKnown \/ AssignEmpty
    BY <1>1, CollectedKnown
  <1>2. CASE AssignNew
    BY <1>2, CollectedNew
  <1>3. CASE AssignLinked
    BY <1>3, CollectedLinked
  <1>4. CASE AssignedAll
    BY <1>4, CollectedAll
  <1>5. CASE Sort
    <2>1. pc' \notin {"assign", "sort"}
      BY <1>5 DEF Sort
    <2> QED  BY <2>1 DEF Collected
  <1>6. CASE Reassign
    <2>1. pc' \notin {"assign", "sort"}
      BY <1>6 DEF Reassign
    <2> QED  BY <2>1 DEF Collected
  <1>7. CASE Hfs
    <2>1. pc' \notin {"assign", "sort"}
      <3>1. pc = "hfs" /\ (pc' = pc \/ pc' = "inodes")
        BY <1>7 DEF Hfs
      <3> QED  BY <3>1
    <2> QED  BY <2>1 DEF Collected
  <1>8. CASE NumberFile \/ NumberEmpty \/ StartWriting \/ WriteFile \/ WritePadding \/ Abort \/ Finish
    <2>1. pc' \notin {"assign", "sort"}
      BY <1>8 DEF NumberFile, NumberEmpty, Numbering, StartWriting, WriteFile, WritePadding,
                  Abort, Finish
    <2> QED  BY <2>1 DEF Collected
  <1>9. CASE Done \/ UNCHANGED vars
    <2>1. UNCHANGED <<job, dir, pc, i, list, weight>>
      BY <1>9 DEF Done, vars
    <2>2. /\ Elems' = Elems /\ Visible' = Visible
          /\ \A e : File(e)' = File(e) /\ (Cached(e)' <=> Cached(e))
          /\ \A d, e : Twin(d, e)' <=> Twin(d, e)
      <3>1. Elems' = Elems
        BY <2>1 DEF Elems
      <3> QED  BY <2>1, <3>1, Steady
    <2> QED  BY <2>1, <2>2 DEF Collected
  <1> QED
    BY <1>1, <1>2, <1>3, <1>4, <1>5, <1>6, <1>7, <1>8, <1>9 DEF Next

\* What comes after the sorting leaves the order alone.
LEMMA OrderedQuiet ==
    ASSUME Ordered, pc \in {"reassign", "hfs", "inodes", "write", "done"},
           job' = job, dir' = dir, DOMAIN ext' = DOMAIN ext, Len(list') = Len(list),
           \A k \in 1 .. Len(list) : list'[k].e = list[k].e
    PROVE  Ordered'
  <1>1. Elems' = Elems /\ \A k \in Elems : list'[k].e = list[k].e
    BY DEF Elems
  <1>2. \A e : Cached(e)' <=> Cached(e)
    BY Steady
  <1>3. \A d, e : Nearer(d, e)' <=> Nearer(d, e)
    BY NearerSteady
  <1>4. ASSUME job.sort
        PROVE  \A j, k \in Elems' :
                  Cached(list[j].e)' /\ Cached(list[k].e)' /\ Nearer(list[j].e, list[k].e)' => j < k
    <2>1. \A j, k \in Elems :
             Cached(list[j].e) /\ Cached(list[k].e) /\ Nearer(list[j].e, list[k].e) => j < k
      BY <1>4 DEF Ordered
    <2> QED  BY <1>1, <1>2, <1>3, <2>1
  <1> QED  BY <1>4 DEF Ordered

\* A Macintosh volume moves the files without changing their order.
LEMMA OrderedHfs == EndInv /\ LayoutInv /\ LayoutInv' /\ FillsUpOnce /\ Ordered /\ Hfs => Ordered'
  <1> SUFFICES ASSUME EndInv, LayoutInv, LayoutInv', FillsUpOnce, Ordered, Hfs, job'.sort
               PROVE  Ordered'
    BY DEF Ordered
  <1>1. pc = "hfs" /\ job' = job /\ dir' = dir
    BY DEF Hfs, given
  <1>2. DOMAIN ext' = DOMAIN ext
    BY <1>1 DEF LayoutInv, Kept
  <1>3. Missing = 0 /\ Filled = list
    <2>1. /\ Missing \in Nat /\ (Missing > 0 => ~job.sort)
          /\ (Missing = 0 => Filled = list)
      BY <1>1, HfsFacts
    <2>2. job.sort
      BY <1>1
    <2> QED  BY <2>1, <2>2
  <1>4. list' = Filled \/ list' = Padded
    BY DEF Hfs, Missing, Filled, Unit, Base, Padded, VolumeAt, Rounded, Chain
  <1>5. Len(list') = Len(list) /\ \A k \in 1 .. Len(list) : list'[k].e = list[k].e
    <2>1. CASE list' = Filled
      BY <1>3, <2>1
    <2>2. CASE list' = Padded
      <3>1. Len(Padded) = Len(Filled) /\ \A k \in 1 .. Len(Filled) : Padded[k].e = Filled[k].e
        BY <1>1, PaddedFacts
      <3> QED  BY <1>3, <2>2, <3>1
    <2> QED  BY <1>4, <2>1, <2>2
  <1> QED  BY <1>1, <1>2, <1>5, OrderedQuiet

\* Every step keeps the order of the list.
LEMMA OrderedNext ==
    /\ EndInv /\ LayoutInv /\ LayoutInv' /\ FillsUpOnce /\ Supported
    /\ Collected /\ Ordered /\ [Next]_vars
    => Ordered'
  <1> SUFFICES ASSUME EndInv, LayoutInv, LayoutInv', FillsUpOnce, Supported, Collected, Ordered,
                      [Next]_vars
               PROVE  Ordered'
    OBVIOUS
  <1>1. CASE AssignKnown \/ AssignEmpty \/ AssignNew \/ AssignLinked
    <2>1. pc' = "assign"
      BY <1>1 DEF AssignKnown, AssignEmpty, AssignNew, AssignLinked, NextEntry
    <2> QED  BY <2>1 DEF Ordered
  <1>2. CASE AssignedAll
    <2>1. job'.sort => pc' = "sort"
      BY <1>2 DEF AssignedAll, given
    <2> QED  BY <2>1 DEF Ordered
  <1>3. CASE Sort
    BY <1>3, OrderedSort
  <1>4. CASE Hfs
    BY <1>4, OrderedHfs
  <1>5. CASE \/ Reassign \/ NumberFile \/ NumberEmpty \/ StartWriting \/ WriteFile
             \/ WritePadding \/ Finish
    <2>1. /\ pc \in {"reassign", "hfs", "inodes", "write", "done"}
          /\ job' = job /\ dir' = dir /\ list' = list
      BY <1>5 DEF Reassign, NumberFile, NumberEmpty, Numbering, StartWriting, WriteFile,
                  WritePadding, Finish, given, deferred
    <2>2. DOMAIN ext' = DOMAIN ext
      BY <2>1 DEF LayoutInv, Kept
    <2> QED  BY <2>1, <2>2, OrderedQuiet
  <1>6. CASE Abort
    <2>1. pc' = "aborted"
      BY <1>6 DEF Abort
    <2> QED  BY <2>1 DEF Ordered
  <1>7. CASE Done \/ UNCHANGED vars
    <2>1. UNCHANGED <<job, dir, ext, list, pc>>
      BY <1>7 DEF Done, vars
    <2>2. CASE pc \in {"reassign", "hfs", "inodes", "write", "done"}
      BY <2>1, <2>2, OrderedQuiet
    <2>3. CASE pc \notin {"reassign", "hfs", "inodes", "write", "done"}
      BY <2>1, <2>3 DEF Ordered
    <2> QED  BY <2>2, <2>3
  <1> QED  BY <1>1, <1>2, <1>3, <1>4, <1>5, <1>6, <1>7 DEF Next

\* In the finished image the first section of a file is where its element of the
\* list is.
LEMMA FirstSection ==
    ASSUME EndInv, LayoutInv, pc = "done", NEW x \in DOMAIN ext,
           dir[x].size > 0, dir[x].part < 2, ~Hidden(x), File(x).prev = 0, Cached(x)
    PROVE  \E k \in Elems : /\ Cached(list[k].e) /\ ext[x] = list[k].ext
                            /\ Weight(list[k].e) = Weight(x) /\ First(list[k].e) = First(x)
  <1>1. Kinds /\ Shows /\ x \in Visible /\ x \in 1 .. Len(dir)
    BY DEF EndInv, LayoutInv, Kept, Visible
  <1>2. dir[x].off = 0
    <2>1. PICK p \in 1 .. Parts(x) : dir[x] = Section(job.files, dir[x].f, p)
      BY <1>1, EntryFacts
    <2>2. CASE Sections(job.files[dir[x].f].size) = 1
      BY <2>1, <2>2 DEF Section
    <2>3. CASE Sections(job.files[dir[x].f].size) # 1
      <3>1. dir[x].part = p /\ dir[x].off = (p - 1) * Large
        BY <2>1, <2>3 DEF Section
      <3>2. p = 1
        BY <1>1, <3>1, EntryFacts
      <3>3. Large \in Nat
        BY LayoutAssumption
      <3> QED  BY <3>1, <3>2, <3>3
    <2> QED  BY <2>2, <2>3
  <1>3. Own(x) \/ LinkAt(x)
    BY <1>1, JobFacts DEF Shows, Earlier
  <1>4. PICK k \in Elems : Twin(list[k].e, x) /\ ext[x] = list[k].ext + dir[x].off
    <2>1. CASE Own(x)
      <3>1. PICK k \in Elems : dir[list[k].e].f = dir[x].f /\ ext[x] = list[k].ext + dir[x].off
        BY <2>1 DEF Own
      <3>2. File(list[k].e) = File(x) /\ (Cached(list[k].e) <=> Cached(x))
        BY <3>1, SameFile
      <3> QED  BY <3>1, <3>2 DEF Twin
    <2>2. CASE LinkAt(x)
      BY <2>2 DEF LinkAt
    <2> QED  BY <1>3, <2>1, <2>2
  <1>5. ext[x] = list[k].ext
    <2>1. list[k].ext \in Int
      <3>1. k \in 1 .. Len(list) /\ list \in Seq(DWrite)
        BY <1>1 DEF Elems, Kinds
      <3>2. list[k] \in DWrite
        BY <3>1
      <3> QED  BY <3>2 DEF DWrite
    <2> QED  BY <1>2, <1>4, <2>1
  <1>6. Cached(list[k].e) /\ File(list[k].e).ino = File(x).ino
    BY <1>4 DEF Twin
  <1>7. Aliases(list[k].e) = Aliases(x)
    BY <1>6 DEF Aliases
  <1> QED  BY <1>5, <1>6, <1>7 DEF Weight, First

\* An image completed from an ordered list has the heavier files first.
LEMMA HeavierFinal == EndInv /\ LayoutInv /\ Ordered => HeavierFirst
  <1> DEFINE Some == {x \in DOMAIN ext : dir[x].size > 0 /\ dir[x].part < 2
                                       /\ ~Hidden(x) /\ File(x).prev = 0 /\ Cached(x)}
  <1>1. SUFFICES ASSUME EndInv, LayoutInv, Ordered, Complete, job.sort,
                        NEW e \in Some, NEW d \in Some, Nearer(e, d)
                 PROVE  ext[e] < ext[d]
    BY DEF HeavierFirst, Nearer
  <1>2. pc = "done" /\ Kinds /\ From(Origin + hpad)
    BY <1>1 DEF Complete, EndInv, LayoutInv, Followed
  <1>3. PICK j \in Elems : /\ Cached(list[j].e) /\ ext[e] = list[j].ext
                           /\ Weight(list[j].e) = Weight(e) /\ First(list[j].e) = First(e)
    BY <1>1, <1>2, FirstSection
  <1>4. PICK k \in Elems : /\ Cached(list[k].e) /\ ext[d] = list[k].ext
                           /\ Weight(list[k].e) = Weight(d) /\ First(list[k].e) = First(d)
    BY <1>1, <1>2, FirstSection
  <1> HIDE DEF Some
  <1>5. j < k
    <2>1. Nearer(list[j].e, list[k].e)
      BY <1>1, <1>3, <1>4 DEF Nearer
    <2> QED  BY <1>1, <1>2, <1>3, <1>4, <2>1 DEF Ordered
  <1>6. j \in 1 .. Len(list) /\ k \in 1 .. Len(list) /\ list \in Seq(DWrite)
    BY <1>2 DEF Elems, Kinds
  <1>7. list[j].size > 0 /\ list[j].size \in Nat
    <2>1. list[j] \in DWrite
      BY <1>6
    <2> QED  BY <1>1, <2>1 DEF DWrite, LayoutInv, Listed
  <1>8. UpToNth(list, j - 1) + list[j].size <= UpToNth(list, k - 1)
    BY <1>5, <1>6, UpToNthGrows
  <1>9. UpToNth(list, j - 1) \in Nat /\ UpToNth(list, k - 1) \in Nat
    <2>1. j - 1 \in 0 .. Len(list) /\ k - 1 \in 0 .. Len(list)
      BY <1>6
    <2> QED  BY <1>6, <2>1, UpToNthGrows
  <1>10. Origin + hpad \in Int
    <2>1. job.session \in Nat
      BY <1>2, JobFacts
    <2>2. hpad \in Int /\ Ahead \in Nat
      BY <1>2, LayoutAssumption DEF Kinds
    <2> QED  BY <2>1, <2>2 DEF Origin
  <1>11. /\ ext[e] = Origin + hpad + UpToNth(list, j - 1)
         /\ ext[d] = Origin + hpad + UpToNth(list, k - 1)
    BY <1>2, <1>3, <1>4, <1>6 DEF From
  <1> QED  BY <1>7, <1>8, <1>9, <1>10, <1>11

\* In an image mkisofs completes with sort weights the heavier file is nearer the
\* start of the medium, a file with several names counting with the highest weight
\* among them; files of the same weight keep the order of the directory.
THEOREM HeavyFilesFirst == Spec /\ [](FillsUpOnce /\ Supported) => []HeavierFirst
  <1> DEFINE Inv == EndInv /\ LayoutInv /\ Collected /\ Ordered
  <1>1. Init => Inv
    BY EndInit, LayoutInit, OrderInit
  <1>2. Inv /\ FillsUpOnce /\ Supported /\ [Next]_vars => Inv'
    BY EndNext, LayoutNext, CollectedNext, OrderedNext
  <1>3. Inv => HeavierFirst
    BY HeavierFinal
  <1> HIDE DEF Inv
  <1> QED  BY <1>1, <1>2, <1>3, PTL DEF Spec

-----------------------------------------------------------------------------
(* Inode numbers tell the files apart                                      *)

\* An entry has the number of the element its file has in the list.
Takes(e) == \E k \in Elems : Alike(list[k].e, e) /\ start[e] = start[list[k].e]

\* That number is a block of the file, after sorting not always the first one.
Anchored ==
    \A k \in Elems :
        /\ start[list[k].e] \in Int /\ list[k].ext <= start[list[k].e]
        /\ start[list[k].e] < list[k].ext + list[k].size
        /\ pc \in {"assign", "sort"} => start[list[k].e] = list[k].ext

\* The first section of every file has its number once it has its extent; a link
\* may have to wait for it.
Firsts ==
    \A e \in Visible : dir[e].size > 0 /\ dir[e].off = 0 /\ ~Earlier(e) =>
        \/ pc = "assign" /\ ext[e] = 0
        \/ Takes(e) /\ (pc \in {"assign", "sort"} /\ job.sort =>
                            Waits(e) \/ \E k \in Elems : list[k].e = e)
        \/ pc = "reassign" /\ Waits(e)

\* The other sections have none before the numbers are given.
Laters ==
    \A e \in Visible : dir[e].off > 0 /\ ~Earlier(e) =>
        IF pc \in {"write", "done"} \/ (pc = "inodes" /\ e < i) THEN Takes(e) ELSE start[e] = 0

\* What the cache of links says then is right.
Remembered ==
    pc \in {"reassign", "hfs", "inodes"} =>
        /\ \A n \in DOMAIN hash :
              \/ \E k \in Elems : /\ Cached(list[k].e) /\ File(list[k].e).ino = n
                                  /\ hash[n].start = start[list[k].e]
              \/ pc = "inodes" /\ \E e \in Visible : /\ e < i /\ dir[e].size = 0 /\ Cached(e)
                                                     /\ File(e).ino = n /\ hash[n].start = start[e]
        /\ pc = "reassign" \/ (pc = "inodes" /\ ~job.hfs) =>
              \A k \in Elems : Cached(list[k].e) => File(list[k].e).ino \in DOMAIN hash

\* Empty files have numbers from the top, the names of one the same.
Emptied(e) == dir[e].size = 0 /\ (pc = "inodes" => e < i)

Topped ==
    pc \in {"inodes", "write", "done"} =>
        /\ \A e \in Visible : Emptied(e) =>
              /\ start[e] \in Int /\ start[e] > null
              /\ pc = "inodes" /\ Cached(e) =>
                    File(e).ino \in DOMAIN hash /\ hash[File(e).ino].start = start[e]
        /\ \A e, d \in Visible : Emptied(e) /\ Emptied(d) =>
              (start[e] = start[d] <=> e = d \/ Twin(e, d))

Above ==
    /\ null \in Int
    /\ pc \in {"write", "done"} => \A k \in Elems : list[k].ext + list[k].size <= null
    /\ pc \in {"sort", "reassign", "hfs"} => i = 1

Numbered ==
    job.cache /\ pc \notin {"aborted", "botch"} =>
        Anchored /\ Firsts /\ Laters /\ Remembered /\ Topped /\ Above

\* The inode numbers of empty files stay above the blocks.  do_inode() sees to it:
\* "Inode number overflow, too many files in file system".
EnoughNumbers == pc = "inodes" => null >= last

\* Being entries of one file.
LEMMA AlikeFacts ==
    /\ \A a, b : Alike(a, b) => Alike(b, a)
    /\ \A a, b, c : Alike(a, b) /\ Alike(b, c) => Alike(a, c)
  <1>1. \A a, b : Alike(a, b) => Alike(b, a)
    BY DEF Alike, Twin
  <1>2. ASSUME NEW a, NEW b, NEW c, Alike(a, b), Alike(b, c) PROVE Alike(a, c)
    <2>1. dir[a].f = dir[b].f => File(a) = File(b) /\ (Cached(a) <=> Cached(b))
      BY SameFile
    <2>2. dir[b].f = dir[c].f => File(b) = File(c) /\ (Cached(b) <=> Cached(c))
      BY SameFile
    <2>3. CASE dir[a].f = dir[b].f
      BY <1>2, <2>1, <2>3 DEF Alike, Twin
    <2>4. CASE dir[b].f = dir[c].f
      BY <1>2, <2>2, <2>4 DEF Alike, Twin
    <2>5. CASE Twin(a, b) /\ Twin(b, c)
      BY <2>5 DEF Alike, Twin
    <2> QED  BY <1>2, <2>3, <2>4, <2>5 DEF Alike
  <1> QED  BY <1>1, <1>2

\* A file has one element.
LEMMA OneElement ==
    ASSUME LayoutInv, NEW j \in Elems, NEW k \in Elems, NEW e,
           Alike(list[j].e, e), Alike(list[k].e, e)
    PROVE  j = k
  <1>1. Alike(list[j].e, list[k].e)
    BY AlikeFacts
  <1> QED  BY <1>1 DEF Alike, LayoutInv, Listed

\* What a step leaves alone.
LEMMA TakesSteady ==
    ASSUME job' = job, dir' = dir, Elems' = Elems,
           \A k \in Elems : list'[k].e = list[k].e /\ start'[list[k].e] = start[list[k].e]
    PROVE  \A e : start'[e] = start[e] => (Takes(e)' <=> Takes(e))
  <1>1. \A d, e : Alike(d, e)' <=> Alike(d, e)
    BY Steady DEF Alike
  <1>2. \A k \in Elems : start'[list'[k].e] = start[list[k].e]
    OBVIOUS
  <1>3. ASSUME NEW e, start'[e] = start[e] PROVE Takes(e)' <=> Takes(e)
    <2>1. \A k \in Elems : Alike(list[k].e, e)' <=> Alike(list[k].e, e)
      BY <1>1
    <2> QED  BY <1>2, <1>3, <2>1 DEF Takes
  <1> QED  BY <1>3

\* At the start only the files of earlier sessions have numbers.
LEMMA NumberedInit == Init => Numbered
  <1> SUFFICES ASSUME Init PROVE Numbered
    OBVIOUS
  <1>1. /\ pc = "assign" /\ Elems = {} /\ null \in Int /\ Kinds
        /\ \A e \in 1 .. Len(dir) : ext[e] = File(e).prev /\ start[e] = File(e).prev
    <2>1. /\ pc = "assign" /\ list = <<>> /\ null = Top /\ start = ext
          /\ ext = [e \in 1 .. Len(dir) |-> File(e).prev]
      BY DEF Init
    <2>2. Kinds
      BY EndInit DEF EndInv
    <2>3. Top \in Nat
      BY LayoutAssumption
    <2> QED  BY <2>1, <2>2, <2>3 DEF Elems
  <1>2. \A e \in Visible : ~Earlier(e) => ext[e] = 0 /\ start[e] = 0
    <2>1. \A e \in Visible : e \in 1 .. Len(dir) /\ File(e).prev \in Nat
      BY <1>1, JobFacts DEF Visible
    <2> QED  BY <1>1, <2>1 DEF Earlier
  <1>3. Anchored /\ Remembered /\ Topped /\ Above
    BY <1>1 DEF Anchored, Remembered, Topped, Above
  <1>4. Firsts /\ Laters
    BY <1>1, <1>2 DEF Firsts, Laters
  <1> QED  BY <1>3, <1>4 DEF Numbered

\* An entry that has its extent, and an empty file.
LEMMA NumberedPassed ==
    ASSUME EndInv, LayoutInv, Numbered, AssignKnown \/ AssignEmpty
    PROVE  Numbered'
  <1>0. /\ pc = "assign" /\ pc' = "assign"
        /\ UNCHANGED <<job, dir, list, start, weight, null>>
        /\ ext' = ext \/ (dir[i].size = 0 /\ ext' = [ext EXCEPT ![i] = last])
    BY DEF AssignKnown, AssignEmpty, Assigning, NextEntry, given, entries, deferred
  <1> SUFFICES ASSUME job.cache PROVE Numbered'
    BY <1>0 DEF Numbered
  <1>1. Kinds /\ Kept /\ Anchored /\ Firsts /\ Laters /\ null \in Int
    BY <1>0 DEF EndInv, LayoutInv, Numbered, Above
  <1>2. /\ Elems' = Elems /\ Visible' = Visible
        /\ \A e : (Earlier(e)' <=> Earlier(e)) /\ (InSections(e)' <=> InSections(e))
        /\ \A d, e : Twin(d, e)' <=> Twin(d, e)
    <2>1. Elems' = Elems
      BY <1>0 DEF Elems
    <2> QED  BY <1>0, <2>1, Steady
  <1>3. \A e \in Visible : dir[e].size > 0 => ext'[e] = ext[e]
    BY <1>0, <1>1 DEF Kept, Visible
  <1>4. \A e : (Takes(e)' <=> Takes(e)) /\ (Waits(e)' <=> Waits(e))
    <2>1. \A e : Takes(e)' <=> Takes(e)
      BY <1>0, <1>2, TakesSteady
    <2> QED  BY <1>0, <1>2, <2>1 DEF Waits
  <1>5. Anchored'
    BY <1>0, <1>1, <1>2 DEF Anchored
  <1>6. Firsts'
    <2>1. \A e \in Visible : dir[e].size > 0 /\ dir[e].off = 0 /\ ~Earlier(e) =>
             \/ ext'[e] = 0
             \/ Takes(e) /\ (job.sort => Waits(e) \/ \E k \in Elems : list[k].e = e)
      BY <1>0, <1>1, <1>3 DEF Firsts
    <2> QED  BY <1>0, <1>2, <1>4, <2>1 DEF Firsts
  <1>7. Laters'
    <2>1. \A e \in Visible : dir[e].off > 0 /\ ~Earlier(e) => start[e] = 0
      BY <1>0, <1>1 DEF Laters
    <2> QED  BY <1>0, <1>2, <2>1 DEF Laters
  <1>8. Remembered' /\ Topped' /\ Above'
    BY <1>0, <1>1 DEF Remembered, Topped, Above
  <1> QED  BY <1>5, <1>6, <1>7, <1>8 DEF Numbered

\* A file that goes to the end of the list.
LEMMA NumberedNew ==
    ASSUME EndInv, LayoutInv, Numbered, AssignNew
    PROVE  Numbered'
  <1> DEFINE d == [e |-> i, size |-> File(i).size, ext |-> last, pad |-> Padding(i)]
             n == Len(list) + 1
  <1>0. /\ Assigning /\ ext[i] = 0 /\ ~Hit(i) /\ dir[i].size > 0 /\ pc = "assign" /\ pc' = pc
        /\ list' = Append(list, d)
        /\ ext' = [e \in DOMAIN ext |->
                     IF InSections(i) /\ e = Root(i) THEN last
                     ELSE IF e \in Run(i) THEN last + Before(i, e) ELSE ext[e]]
        /\ start' = [e \in DOMAIN start |->
                       IF e = i \/ (InSections(i) /\ e = Root(i)) THEN last ELSE start[e]]
        /\ UNCHANGED <<job, dir, weight, null>>
    BY DEF AssignNew, Assigning, NextEntry, given, volume
  <1> SUFFICES ASSUME job.cache PROVE Numbered'
    BY <1>0 DEF Numbered
  <1>1. /\ i \in 1 .. Len(dir) /\ ~Earlier(i) /\ i \in Visible
        /\ i = Begin(i) /\ dir[i].off = 0
        /\ \A k \in Elems : dir[list[k].e].f # dir[i].f
        /\ last \in Int
    BY <1>0, Unmet
  <1>2. Kinds /\ Listed /\ Kept /\ Anchored /\ Firsts /\ Laters /\ null \in Int
    BY <1>0 DEF EndInv, LayoutInv, Numbered, Above
  <1>3. /\ Visible' = Visible
        /\ \A e : (InSections(e)' <=> InSections(e)) /\ (Earlier(e)' <=> Earlier(e))
        /\ \A x, e : Twin(x, e)' <=> Twin(x, e)
        /\ \A x, e : Alike(x, e)' <=> Alike(x, e)
    <2>1. \A x, e : Twin(x, e)' <=> Twin(x, e)
      BY <1>0, Steady
    <2> QED  BY <1>0, <2>1, Steady DEF Alike
  \* The list.
  <1>4. d.e = i /\ d.size = File(i).size /\ d.ext = last /\ d.size > 0 /\ d.size \in Nat
    <2>1. File(i).size \in Nat /\ dir[i].size <= File(i).size /\ dir[i].size \in Nat
      BY <1>1, <1>2, JobFacts
    <2> QED  BY <1>0, <2>1
  <1> HIDE DEF d
  <1>5. /\ Len(list) \in Nat /\ Len(list') = n /\ list'[n] = d
        /\ \A k \in 1 .. Len(list) : list'[k] = list[k]
        /\ \A k \in 1 .. Len(list') : k \in 1 .. Len(list) \/ k = n
        /\ n \in 1 .. Len(list') /\ 1 .. Len(list) \subseteq 1 .. Len(list')
    BY <1>0, <1>2 DEF Kinds
  <1>6. /\ n \in Elems' /\ Elems \subseteq Elems' /\ \A k \in Elems : list'[k] = list[k]
        /\ \A k \in Elems' : k \in Elems \/ k = n
    <2>1. \A k \in Elems : k \in 1 .. Len(list) /\ list[k].e # 0
      BY DEF Elems
    <2>2. list'[n].e # 0
      BY <1>1, <1>4, <1>5
    <2>3. \A k \in Elems' : k \in 1 .. Len(list') /\ list'[k].e # 0
      BY DEF Elems
    <2>4. \A k \in 1 .. Len(list') : list'[k].e # 0 => k \in Elems'
      BY DEF Elems
    <2>5. \A k \in 1 .. Len(list) : list[k].e # 0 => k \in Elems
      BY DEF Elems
    <2> QED  BY <1>5, <2>1, <2>2, <2>3, <2>4, <2>5
  <1> HIDE DEF n
  \* The entries.
  <1>7. /\ \A e \in Visible : e # i => start'[e] = start[e]
        /\ start'[i] = last
    <2>1. DOMAIN start = 1 .. Len(dir) /\ \A e \in Visible : e \in 1 .. Len(dir)
      BY <1>2 DEF Kept, Visible
    <2>2. InSections(i) => Root(i) \notin Visible
      BY <1>1, <1>2, RootFacts
    <2> QED  BY <1>0, <1>1, <2>1, <2>2
  <1>8. \A k \in Elems : list[k].e \in Visible /\ list[k].e # i
    BY <1>1, <1>2 DEF Listed
  <1>9. ASSUME NEW e \in Visible, dir[e].off = 0, e # i PROVE ext'[e] = ext[e]
    <2>1. dir[e].f # dir[i].f
      <3> SUFFICES ASSUME dir[e].f = dir[i].f PROVE FALSE
        OBVIOUS
      <3>1. e = Begin(e) /\ Begin(e) = Begin(i)
        BY <1>2, <1>9, FirstEntry, SameFile
      <3> QED  BY <1>1, <1>9, <3>1
    <2>2. /\ InSections(i) => dir[Root(i)].f = dir[i].f
          /\ \A t \in Run(i) : dir[t].f = dir[i].f
      BY <1>1, <1>2, RootFacts, RunFacts
    <2>3. e \in DOMAIN ext
      BY <1>2 DEF Kept, Visible
    <2> QED  BY <1>0, <2>1, <2>2, <2>3
  <1>10. ASSUME NEW e \in Visible, e # i
         PROVE  (Takes(e) => Takes(e)') /\ (Waits(e) => Waits(e)')
    <2>1. ASSUME Takes(e) PROVE Takes(e)'
      <3>1. PICK k \in Elems : Alike(list[k].e, e) /\ start[e] = start[list[k].e]
        BY <2>1 DEF Takes
      <3>2. k \in Elems' /\ list'[k] = list[k] /\ start'[list[k].e] = start[list[k].e]
        BY <1>6, <1>7, <1>8
      <3>3. Alike(list[k].e, e)' /\ start'[e] = start'[list'[k].e]
        BY <1>3, <1>7, <1>10, <3>1, <3>2
      <3> QED  BY <3>2, <3>3 DEF Takes
    <2>2. ASSUME Waits(e) PROVE Waits(e)'
      <3>1. PICK k \in Elems : Twin(list[k].e, e)
        BY <2>2 DEF Waits
      <3>2. k \in Elems' /\ Twin(list[k].e, e)'
        BY <1>3, <1>6, <3>1
      <3> QED  BY <1>0, <1>3, <2>2, <3>2 DEF Waits
    <2> QED  BY <2>1, <2>2
  <1>11. Anchored'
    <2> SUFFICES ASSUME NEW k \in Elems'
                 PROVE  /\ start'[list'[k].e] \in Int /\ list'[k].ext <= start'[list'[k].e]
                        /\ start'[list'[k].e] < list'[k].ext + list'[k].size
                        /\ start'[list'[k].e] = list'[k].ext
      BY <1>0 DEF Anchored
    <2>1. CASE k \in Elems
      <3>1. list'[k] = list[k] /\ start'[list[k].e] = start[list[k].e]
        BY <1>6, <1>7, <1>8, <2>1
      <3> QED  BY <1>0, <1>2, <2>1, <3>1 DEF Anchored
    <2>2. CASE k = n
      BY <1>1, <1>4, <1>5, <1>7, <2>2
    <2> QED  BY <1>6, <2>1, <2>2
  <1>12. Firsts'
    <2> SUFFICES ASSUME NEW e \in Visible, dir[e].size > 0, dir[e].off = 0, ~Earlier(e)
                 PROVE  \/ ext'[e] = 0
                        \/ Takes(e)' /\ (job.sort => Waits(e)' \/ \E k \in Elems' : list'[k].e = e)
      BY <1>0, <1>3 DEF Firsts
    <2>1. CASE e = i
      <3>1. PICK m \in Elems' : list'[m].e = e
        BY <1>4, <1>5, <1>6, <2>1
      <3>2. Alike(list[m].e, e)' /\ start'[e] = start'[list'[m].e]
        BY <3>1 DEF Alike
      <3> QED  BY <3>1, <3>2 DEF Takes
    <2>2. CASE e # i
      <3>1. \/ ext[e] = 0
            \/ Takes(e) /\ (job.sort => Waits(e) \/ \E k \in Elems : list[k].e = e)
        BY <1>0, <1>2 DEF Firsts
      <3>2. ext'[e] = ext[e]
        BY <1>9, <2>2
      <3>3. (\E k \in Elems : list[k].e = e) => \E k \in Elems' : list'[k].e = e
        BY <1>6
      <3> QED  BY <1>10, <2>2, <3>1, <3>2, <3>3
    <2> QED  BY <2>1, <2>2
  <1>13. Laters'
    <2>1. ASSUME NEW e \in Visible, dir[e].off > 0, ~Earlier(e) PROVE start'[e] = 0
      <3>1. start[e] = 0
        BY <1>0, <1>2, <2>1 DEF Laters
      <3>2. e # i
        BY <1>1, <2>1
      <3> QED  BY <1>7, <3>1, <3>2
    <2> QED  BY <1>0, <1>3, <2>1 DEF Laters
  <1>14. Remembered' /\ Topped' /\ Above'
    BY <1>0, <1>2 DEF Remembered, Topped, Above
  <1> QED  BY <1>11, <1>12, <1>13, <1>14 DEF Numbered

\* A link takes the number of its file, which when sorting is not the last word.
LEMMA NumberedLinked ==
    ASSUME EndInv, LayoutInv, Supported, Numbered, AssignLinked
    PROVE  Numbered'
  <1> DEFINE there == hash[File(i).ino].start
             of == hash[File(i).ino].of
             first == InSections(i) /\ ~Hidden(i)
  <1>0. /\ Assigning /\ ext[i] = 0 /\ Hit(i) /\ pc = "assign" /\ pc' = pc
        /\ ext' = [e \in DOMAIN ext |->
                     IF first /\ e \in Run(i) THEN there + Before(i, e)
                     ELSE IF e = i THEN there ELSE ext[e]]
        /\ start' = [e \in DOMAIN start |->
                       IF e = i \/ (first /\ e = Root(i)) THEN there ELSE start[e]]
        /\ weight' = Weigh(i)
        /\ UNCHANGED <<job, dir, list, null>>
    BY DEF AssignLinked, Assigning, NextEntry, given, deferred
  <1> SUFFICES ASSUME job.cache PROVE Numbered'
    BY <1>0 DEF Numbered
  <1>1. /\ i \in 1 .. Len(dir) /\ ~Earlier(i)
        /\ i \in Visible => /\ i = Begin(i) /\ dir[i].off = 0
                            /\ \A k \in Elems : dir[list[k].e].f # dir[i].f
    BY <1>0, Unmet
  <1>2. /\ Kinds /\ Listed /\ Hashed /\ Kept /\ Anchored /\ Firsts /\ Laters /\ null \in Int
    BY <1>0 DEF EndInv, LayoutInv, Numbered, Above
  <1>3. /\ Elems' = Elems /\ Visible' = Visible
        /\ \A e : (InSections(e)' <=> InSections(e)) /\ (Earlier(e)' <=> Earlier(e))
        /\ \A d, e : Twin(d, e)' <=> Twin(d, e)
    <2>1. Elems' = Elems
      BY <1>0 DEF Elems
    <2> QED  BY <1>0, <2>1, Steady
  <1>4. Cached(i) /\ File(i).ino \in DOMAIN hash
    BY <1>0 DEF Hit
  <1>5. PICK k \in Elems : /\ Cached(list[k].e) /\ File(list[k].e).ino = File(i).ino
                           /\ hash[File(i).ino] = [start |-> list[k].ext, of |-> list[k].e]
    BY <1>0, <1>2, <1>4 DEF Hashed
  <1>6. there = list[k].ext /\ of = list[k].e /\ Twin(of, i)
    BY <1>4, <1>5 DEF Twin
  <1>7. there = start[of]
    BY <1>0, <1>2, <1>6 DEF Anchored
  <1> HIDE DEF there, of
  <1>8. of \in Visible /\ of \in 1 .. Len(dir) /\ (i \in Visible => of # i)
    BY <1>1, <1>2, <1>6 DEF Listed, Visible
  <1>9. DOMAIN start = 1 .. Len(dir) /\ DOMAIN ext = 1 .. Len(dir)
    BY <1>2 DEF Kept
  <1>10. /\ \A e \in Visible : e # i => start'[e] = start[e]
         /\ i \in Visible => start'[i] = there
    <2>1. InSections(i) => Root(i) \notin Visible
      BY <1>1, <1>2, RootFacts
    <2>2. \A e \in Visible : e \in 1 .. Len(dir)
      BY DEF Visible
    <2> QED  BY <1>0, <1>9, <2>1, <2>2
  <1>11. \A m \in Elems : list[m].e \in Visible /\ list[m].e # i
    <2>1. i \in Visible => \A m \in Elems : list[m].e # i
      BY <1>1
    <2> QED  BY <1>2, <2>1 DEF Listed
  <1>12. \A m \in Elems : start'[list[m].e] = start[list[m].e]
    BY <1>10, <1>11
  <1>13. \A e : start'[e] = start[e] => (Takes(e)' <=> Takes(e))
    BY <1>0, <1>3, <1>12, TakesSteady
  <1>14. ASSUME NEW e \in Visible, dir[e].off = 0, e # i PROVE ext'[e] = ext[e]
    <2>1. first => \A t \in Run(i) : dir[t].f = dir[i].f
      BY <1>1, <1>2, RunFacts DEF Visible
    <2>2. first => dir[e].f # dir[i].f
      <3> SUFFICES ASSUME first, dir[e].f = dir[i].f PROVE FALSE
        OBVIOUS
      <3>1. e = Begin(e) /\ Begin(e) = Begin(i)
        BY <1>2, <1>14, FirstEntry, SameFile
      <3> QED  BY <1>1, <1>14, <3>1 DEF Visible
    <2>3. e \in DOMAIN ext
      BY <1>9 DEF Visible
    <2> QED  BY <1>0, <1>14, <2>1, <2>2, <2>3
  <1> HIDE DEF first
  \* The weights.
  <1>15. job.sort /\ i \in Visible => ~InSections(i)
    <2> SUFFICES ASSUME job.sort, i \in Visible, InSections(i) PROVE FALSE
      OBVIOUS
    <2>1. /\ dir[i].f \in 1 .. Len(job.files) /\ File(i) = job.files[dir[i].f]
          /\ dir[of].f \in 1 .. Len(job.files) /\ File(of) = job.files[dir[of].f]
      BY <1>1, <1>2, <1>8, EntryFacts
    <2>2. dir[of].f # dir[i].f
      BY <1>1, <1>6
    <2>3. MultiExtent(job.files[dir[i].f])
      BY <2>1 DEF InSections
    <2>4. File(of).ino # File(i).ino
      BY <2>1, <2>2, <2>3 DEF Supported
    <2> QED  BY <1>6, <2>4 DEF Twin
  <1>16. /\ \A e \in 1 .. Len(dir) : e # i /\ e # of => weight'[e] = weight[e]
         /\ job.sort /\ i \in Visible => weight'[i] = NotSorted
    <2>1. DOMAIN weight = 1 .. Len(dir)
      BY <1>2 DEF Kinds
    <2>2. i \in Visible <=> ~Hidden(i)
      BY <1>1 DEF Visible
    <2> DEFINE m == IF weight[of] > weight[i] THEN weight[of] ELSE weight[i]
    <2>3. job.sort /\ i \in Visible =>
              weight' = [[weight EXCEPT ![of] = m] EXCEPT ![i] = NotSorted]
      BY <1>0, <1>8, <2>1, <2>2 DEF Weigh, of
    <2>4. ~(job.sort /\ i \in Visible) => weight' = weight
      BY <1>0, <2>2 DEF Weigh
    <2> HIDE DEF m
    <2> QED  BY <1>1, <2>1, <2>3, <2>4
  <1>17. Anchored'
    BY <1>0, <1>2, <1>3, <1>12 DEF Anchored
  <1>18. Firsts'
    <2> SUFFICES ASSUME NEW e \in Visible, dir[e].size > 0, dir[e].off = 0, ~Earlier(e)
                 PROVE  \/ ext'[e] = 0
                        \/ Takes(e)' /\ (job.sort => Waits(e)' \/ \E m \in Elems : list[m].e = e)
      BY <1>0, <1>3 DEF Firsts
    <2>1. CASE e = i
      <3>1. Alike(list[k].e, e)' /\ start'[e] = start'[list'[k].e]
        <4>1. Twin(list[k].e, e)'
          BY <1>0, <1>3, <1>6, <2>1
        <4>2. start'[e] = start'[list[k].e]
          BY <1>6, <1>7, <1>10, <1>12, <2>1
        <4> QED  BY <1>0, <4>1, <4>2 DEF Alike
      <3>2. Takes(e)'
        BY <1>3, <3>1 DEF Takes
      <3>3. job.sort => Waits(e)'
        <4>1. Twin(list[k].e, e)' /\ k \in Elems'
          BY <1>0, <1>3, <1>6, <2>1
        <4>2. job.sort => ~InSections(e)' /\ weight'[e] = NotSorted
          BY <1>3, <1>15, <1>16, <2>1
        <4> QED  BY <4>1, <4>2 DEF Waits
      <3> QED  BY <3>2, <3>3
    <2>2. CASE e # i
      <3>1. \/ ext[e] = 0
            \/ Takes(e) /\ (job.sort => Waits(e) \/ \E m \in Elems : list[m].e = e)
        BY <1>0, <1>2 DEF Firsts
      <3>2. ext'[e] = ext[e] /\ (Takes(e)' <=> Takes(e))
        BY <1>10, <1>13, <1>14, <2>2
      <3>3. Waits(e) => Waits(e)' \/ \E m \in Elems : list[m].e = e
        <4>1. CASE e = of
          BY <1>6, <4>1
        <4>2. CASE e # of
          <5>1. weight'[e] = weight[e]
            BY <1>16, <2>2, <4>2 DEF Visible
          <5> QED  BY <1>0, <1>3, <5>1 DEF Waits
        <4> QED  BY <4>1, <4>2
      <3> QED  BY <3>1, <3>2, <3>3
    <2> QED  BY <2>1, <2>2
  <1>19. Laters'
    <2>1. \A e \in Visible : dir[e].off > 0 /\ ~Earlier(e) => start'[e] = 0
      BY <1>0, <1>1, <1>2, <1>10 DEF Laters
    <2> QED  BY <1>0, <1>3, <2>1 DEF Laters
  <1>20. Remembered' /\ Topped' /\ Above'
    BY <1>0, <1>2 DEF Remembered, Topped, Above
  <1> QED  BY <1>17, <1>18, <1>19, <1>20 DEF Numbered

\* At the end of the directory the cache knows the number of every file.
LEMMA NumberedAll ==
    ASSUME EndInv, LayoutInv, Numbered, AssignedAll
    PROVE  Numbered'
  <1>0. /\ pc = "assign" /\ i > Len(dir) /\ i' = 1
        /\ pc' = IF job.sort THEN "sort" ELSE IF job.hfs THEN "hfs" ELSE "inodes"
        /\ UNCHANGED <<job, dir, ext, start, weight, hash, list, null>>
    BY DEF AssignedAll, given, entries, deferred
  <1> SUFFICES ASSUME job.cache PROVE Numbered'
    BY <1>0 DEF Numbered
  <1>1. /\ Kinds /\ Entered /\ Hashed /\ Anchored /\ Firsts /\ Laters /\ null \in Int
    BY <1>0 DEF EndInv, LayoutInv, Numbered, Above
  <1>2. /\ Elems' = Elems /\ Visible' = Visible
        /\ \A e : /\ File(e)' = File(e) /\ (Cached(e)' <=> Cached(e))
                  /\ (InSections(e)' <=> InSections(e)) /\ (Earlier(e)' <=> Earlier(e))
        /\ \A d, e : Twin(d, e)' <=> Twin(d, e)
    <2>1. Elems' = Elems
      BY <1>0 DEF Elems
    <2> QED  BY <1>0, <2>1, Steady
  <1>3. \A e : (Takes(e)' <=> Takes(e)) /\ (Waits(e)' <=> Waits(e))
    <2>1. \A e : Takes(e)' <=> Takes(e)
      BY <1>0, <1>2, TakesSteady
    <2> QED  BY <1>0, <1>2, <2>1 DEF Waits
  <1>4. \A e \in Visible : ext[e] # 0 /\ e \in 1 .. Len(dir) /\ e < i /\ ~(e < 1)
    <2>1. i \in Nat /\ Len(dir) \in Nat
      BY <1>1, JobFacts DEF Kinds
    <2>2. \A e \in 1 .. Len(dir) : e < i /\ ~(e < 1)
      BY <1>0, <2>1
    <2> QED  BY <1>0, <1>1, <2>2 DEF Entered, Visible
  <1>5. Anchored'
    BY <1>0, <1>1, <1>2 DEF Anchored
  <1>6. Firsts'
    <2>1. \A e \in Visible : dir[e].size > 0 /\ dir[e].off = 0 /\ ~Earlier(e) =>
             Takes(e) /\ (job.sort => Waits(e) \/ \E k \in Elems : list[k].e = e)
      BY <1>0, <1>1, <1>4 DEF Firsts
    <2> QED  BY <1>0, <1>2, <1>3, <2>1 DEF Firsts
  <1>7. Laters'
    <2>1. \A e \in Visible : dir[e].off > 0 /\ ~Earlier(e) => start[e] = 0
      BY <1>0, <1>1 DEF Laters
    <2>2. pc' \notin {"write", "done"} /\ \A e \in Visible : ~(e < i')
      BY <1>0, <1>4
    <2> QED  BY <1>0, <1>2, <2>1, <2>2 DEF Laters
  <1>8. Remembered'
    <2>1. \A n \in DOMAIN hash : \E k \in Elems : /\ Cached(list[k].e) /\ File(list[k].e).ino = n
                                                  /\ hash[n].start = start[list[k].e]
      <3> SUFFICES ASSUME NEW n \in DOMAIN hash
                   PROVE  \E k \in Elems : /\ Cached(list[k].e) /\ File(list[k].e).ino = n
                                           /\ hash[n].start = start[list[k].e]
        OBVIOUS
      <3>1. PICK k \in Elems : /\ Cached(list[k].e) /\ File(list[k].e).ino = n
                               /\ hash[n] = [start |-> list[k].ext, of |-> list[k].e]
        BY <1>0, <1>1 DEF Hashed
      <3>2. start[list[k].e] = list[k].ext
        BY <1>0, <1>1 DEF Anchored
      <3> QED  BY <3>1, <3>2
    <2>2. \A k \in Elems : Cached(list[k].e) => File(list[k].e).ino \in DOMAIN hash
      BY <1>0, <1>1 DEF Hashed
    <2> QED  BY <1>0, <1>2, <2>1, <2>2 DEF Remembered
  <1>9. Topped'
    <2>1. pc' \notin {"write", "done"} /\ \A e \in Visible' : ~(e < i')
      BY <1>0, <1>2, <1>4
    <2>2. \A e \in Visible' : pc' = "inodes" => ~Emptied(e)'
      BY <2>1 DEF Emptied
    <2> QED  BY <2>1, <2>2 DEF Topped
  <1>10. Above'
    BY <1>0, <1>1 DEF Above
  <1> QED  BY <1>5, <1>6, <1>7, <1>8, <1>9, <1>10 DEF Numbered

\* The number sorting gives to a file in sections is a block of its last section.
LEMMA LastSection ==
    ASSUME EndInv, Supported, job.sort, NEW x \in Visible, InSections(x), dir[x].off = 0,
           File(x).size > 0
    PROVE  /\ Before(x, Max(Run(x))) \in Nat
           /\ Before(x, Max(Run(x))) < File(x).size
  <1> DEFINE t == Begin(x) + Parts(x) - 1
  <1>1. Kinds /\ x \in 1 .. Len(dir) /\ x = Begin(x)
    BY FirstEntry DEF EndInv, Visible
  <1>2. /\ Begin(x) \in Nat /\ Parts(x) \in Nat /\ Parts(x) >= 1
        /\ dir[x].f \in 1 .. Len(job.files) /\ File(x) = job.files[dir[x].f]
    BY <1>1, EntryFacts
  <1>3. Run(x) = x .. t
    <2>1. dir[x].f < Len(job.files)
      BY <1>2 DEF Supported, InSections
    <2> QED  BY <1>1, <2>1, RunFacts
  <1>4. t \in x .. t /\ t \in Nat /\ x \in Nat
    BY <1>1, <1>2
  <1>5. Max(Run(x)) = t
    <2>1. x .. t \in SUBSET Int /\ \A y \in x .. t : y <= t
      BY <1>4
    <2> HIDE DEF t
    <2> QED  BY <1>3, <1>4, <2>1, Extremes
  <1>6. t \in Mine(x) /\ t >= x
    BY <1>1, <1>4 DEF Mine
  <1>7. Before(x, t) = dir[t].off - dir[x].off
    BY <1>1, <1>6, BeforeFacts
  <1>8. t \in Visible /\ dir[t].f = dir[x].f
    BY <1>1, <1>6, MineFacts
  <1>9. File(t) = File(x) /\ Begin(t) = Begin(x) /\ Parts(t) = Parts(x)
    BY <1>8, SameFile
  <1>10. /\ dir[t].off \in Nat /\ dir[t].size \in Nat /\ dir[t].size > 0
         /\ dir[t].off + dir[t].size = File(x).size
    <2>1. t = Begin(t) + Parts(t) - 1
      BY <1>9
    <2> HIDE DEF t
    <2> QED  BY <1>1, <1>8, <1>9, <2>1, OffsetFacts
  <1> HIDE DEF t
  <1> QED  BY <1>5, <1>7, <1>10

\* Sorting numbers the files anew.
LEMMA NumberedSort ==
    ASSUME EndInv, LayoutInv, Supported, Numbered, Sort
    PROVE  Numbered'
  <1> DEFINE l == Sorted
             at == SortedAt
             n == Len(list)
             begin == [e \in DOMAIN start |->
                         IF Owner(l, e) > 0 /\ e = l[Owner(l, e)].e
                         THEN at[Owner(l, e)] + Before(e, Max(Run(e)))
                         ELSE IF Owner(l, e) > 0 /\ Hidden(e) THEN at[Owner(l, e)]
                         ELSE IF Place(l, e) > 0 THEN at[Place(l, e)] ELSE start[e]]
  <1>0. /\ pc = "sort" /\ pc' = "reassign"
        /\ UNCHANGED <<job, dir, weight, null, i>>
        /\ start' = begin
        /\ hash' = [x \in {File(l[k].e).ino : k \in {m \in 1 .. Len(l) : Cached(l[m].e) /\ TRUE}} |->
                      LET k == CHOOSE m \in 1 .. Len(l) :
                                  Cached(l[m].e) /\ TRUE /\ File(l[m].e).ino = x
                      IN [start |-> begin[l[k].e], of |-> l[k].e]]
    BY DEF Sort, Chain, SortedAt, HashOf, given
  <1> SUFFICES ASSUME job.cache PROVE Numbered'
    BY <1>0 DEF Numbered
  <1>1. /\ Kinds /\ Listed /\ Kept /\ job.sort /\ LayoutInv'
        /\ Firsts /\ Laters /\ null \in Int /\ i = 1
    BY <1>0, LayoutSort DEF EndInv, Planned, LayoutInv, Numbered, Above
  <1>2. /\ l \in Seq(DWrite) /\ Len(list') = n /\ Len(l) = n /\ n \in Nat
        /\ list' \in Seq(DWrite)
        /\ \A k \in 1 .. n : /\ list'[k].e = l[k].e /\ list'[k].size = l[k].size
                             /\ list'[k].ext = at[k]
    BY SortMoves
  <1>3. \A k \in 1 .. n : \E j \in 1 .. n : l[k] = list[j]
    BY SortMoves
  <1>4. \A k \in 1 .. n : \E j \in 1 .. n : list[k] = l[j]
    BY SortMoves
  <1> HIDE DEF begin, l, at
  <1>5. Elems = 1 .. n
    BY <1>0, <1>1 DEF Listed
  <1> HIDE DEF n
  <1>6. \A k \in 1 .. n : /\ l[k].e \in Visible /\ dir[l[k].e].off = 0 /\ l[k].e \in 1 .. Len(dir)
                          /\ l[k].size = File(l[k].e).size /\ l[k].size > 0 /\ l[k].e # 0
    <2> SUFFICES ASSUME NEW k \in 1 .. n
                 PROVE  /\ l[k].e \in Visible /\ dir[l[k].e].off = 0 /\ l[k].e \in 1 .. Len(dir)
                        /\ l[k].size = File(l[k].e).size /\ l[k].size > 0 /\ l[k].e # 0
      OBVIOUS
    <2>1. PICK j \in 1 .. n : l[k] = list[j]
      BY <1>3
    <2>2. /\ list[j].e \in Visible /\ dir[list[j].e].off = 0
          /\ list[j].size = File(list[j].e).size /\ list[j].size > 0
      BY <1>1, <1>5 DEF Listed
    <2>3. \A e \in Visible : e \in 1 .. Len(dir) /\ e # 0
      BY DEF Visible
    <2> QED  BY <2>1, <2>2, <2>3
  <1>7. Elems' = 1 .. n
    <2>1. \A k \in 1 .. n : list'[k].e # 0
      BY <1>2, <1>6
    <2> QED  BY <1>2, <2>1 DEF Elems
  <1>8. /\ Visible' = Visible
        /\ \A e : /\ File(e)' = File(e) /\ (Cached(e)' <=> Cached(e))
                  /\ (InSections(e)' <=> InSections(e)) /\ (Earlier(e)' <=> Earlier(e))
        /\ \A x, e : Twin(x, e)' <=> Twin(x, e)
    BY <1>0, Steady
  <1>9. \A j, k \in 1 .. n : dir[l[j].e].f = dir[l[k].e].f => j = k
    <2>1. \A j, k \in Elems' : dir'[list'[j].e].f = dir'[list'[k].e].f => j = k
      BY <1>1 DEF LayoutInv, Listed
    <2> QED  BY <1>0, <1>2, <1>7, <2>1
  <1>10. DOMAIN start = 1 .. Len(dir)
    BY <1>1 DEF Kept
  \* The numbers.
  <1>11. \A k \in 1 .. n : at[k] \in Int /\ l[k].size \in Nat
    <2> SUFFICES ASSUME NEW k \in 1 .. n PROVE at[k] \in Int /\ l[k].size \in Nat
      OBVIOUS
    <2>1. list'[k] \in DWrite /\ l[k] \in DWrite
      BY <1>2
    <2> QED  BY <1>2, <2>1 DEF DWrite
  <1>12. ASSUME NEW k \in 1 .. n
         PROVE  /\ start'[l[k].e] \in Int /\ at[k] <= start'[l[k].e]
                /\ start'[l[k].e] < at[k] + l[k].size
    <2> DEFINE x == l[k].e
    <2>1. /\ x \in Visible /\ dir[x].off = 0 /\ x \in 1 .. Len(dir) /\ l[k].size = File(x).size
          /\ l[k].size > 0 /\ k > 0
      BY <1>2, <1>6
    <2>2. IF InSections(x) THEN Owner(l, x) = k ELSE Owner(l, x) = 0 /\ Place(l, x) = k
      <3>1. \A m \in 1 .. Len(l) : l[m].e \in Visible /\ dir[l[m].e].off = 0
        BY <1>2, <1>6
      <3>2. \A j, m \in 1 .. Len(l) : dir[l[j].e].f = dir[l[m].e].f => j = m
        BY <1>2, <1>9
      <3>3. dir[l[k].e].f = dir[x].f /\ k \in 1 .. Len(l)
        BY <1>2
      <3> HIDE DEF x
      <3>4. IF InSections(x)
            THEN Owner(l, x) = k /\ x \in Run(l[k].e) /\ Before(l[k].e, x) = dir[x].off
            ELSE Owner(l, x) = 0 /\ Place(l, x) = k /\ dir[x].off = 0 /\ x = l[k].e
        <4>1. Kinds /\ l \in Seq(DWrite) /\ x \in Visible /\ x \in 1 .. Len(dir)
          BY <1>1, <1>2, <2>1
        <4> QED  BY <3>1, <3>2, <3>3, <4>1, Keys
      <3> QED  BY <3>4
    <2>3. x = l[k].e
      OBVIOUS
    <2> HIDE DEF x
    <2>4. CASE InSections(x)
      <3> DEFINE b == Before(x, Max(Run(x)))
      <3>1. b \in Nat /\ b < File(x).size
        BY <1>1, <2>1, <2>4, LastSection
      <3>2. start'[x] = at[k] + b
        <4>1. begin[x] = at[k] + b
          BY <1>10, <2>1, <2>2, <2>3, <2>4 DEF begin
        <4> QED  BY <1>0, <4>1
      <3> HIDE DEF b
      <3> QED  BY <1>11, <2>1, <2>3, <3>1, <3>2
    <2>5. CASE ~InSections(x)
      <3>1. begin[x] = at[k]
        BY <1>10, <2>1, <2>2, <2>3, <2>5 DEF begin
      <3> QED  BY <1>0, <1>11, <2>1, <2>3, <3>1
    <2> QED  BY <2>4, <2>5
  <1>13. ASSUME NEW e \in Visible, \A k \in 1 .. n : l[k].e # e
         PROVE  start'[e] = start[e]
    <2>1. e \in 1 .. Len(dir) /\ ~Hidden(e)
      BY DEF Visible
    <2>2. ~(Owner(l, e) > 0 /\ e = l[Owner(l, e)].e)
      <3>1. Owner(l, e) > 0 => Owner(l, e) \in 1 .. Len(l)
        BY <1>2, OwnerFacts
      <3> QED  BY <1>2, <1>13, <3>1
    <2>3. ~(Place(l, e) > 0)
      <3>1. Place(l, e) > 0 => Place(l, e) \in 1 .. Len(l) /\ l[Place(l, e)].e = e
        BY <1>2, PlaceFacts
      <3> QED  BY <1>2, <1>13, <3>1
    <2>4. begin[e] = start[e]
      BY <1>10, <2>1, <2>2, <2>3 DEF begin
    <2> QED  BY <1>0, <2>4
  <1>14. Anchored'
    <2>1. \A k \in 1 .. n : /\ start'[list'[k].e] \in Int /\ list'[k].ext <= start'[list'[k].e]
                            /\ start'[list'[k].e] < list'[k].ext + list'[k].size
      BY <1>2, <1>12
    <2> QED  BY <1>0, <1>7, <2>1 DEF Anchored
  <1>15. Firsts'
    <2> SUFFICES ASSUME NEW e \in Visible, dir[e].size > 0, dir[e].off = 0, ~Earlier(e)
                 PROVE  Takes(e)' \/ Waits(e)'
      BY <1>0, <1>8 DEF Firsts
    <2>1. Waits(e) \/ \E k \in Elems : list[k].e = e
      BY <1>0, <1>1 DEF Firsts
    <2>2. CASE Waits(e)
      <3>1. PICK j \in 1 .. n : Twin(list[j].e, e)
        BY <1>5, <2>2 DEF Waits
      <3>2. PICK k \in 1 .. n : list[j] = l[k]
        BY <1>4
      <3>3. k \in Elems' /\ Twin(list[k].e, e)'
        BY <1>2, <1>7, <1>8, <3>1, <3>2
      <3>4. ~InSections(e)' /\ weight'[e] = NotSorted
        BY <1>0, <1>8, <2>2 DEF Waits
      <3> QED  BY <3>3, <3>4 DEF Waits
    <2>3. CASE \E k \in Elems : list[k].e = e
      <3>1. PICK j \in 1 .. n : list[j].e = e
        BY <1>5, <2>3
      <3>2. PICK k \in 1 .. n : list[j] = l[k]
        BY <1>4
      <3>3. list'[k].e = e /\ k \in Elems'
        BY <1>2, <1>7, <3>1, <3>2
      <3>4. Alike(list[k].e, e)' /\ start'[e] = start'[list'[k].e]
        BY <3>3 DEF Alike
      <3> QED  BY <3>3, <3>4 DEF Takes
    <2> QED  BY <2>1, <2>2, <2>3
  <1>16. Laters'
    <2> SUFFICES ASSUME NEW e \in Visible, dir[e].off > 0, ~Earlier(e) PROVE start'[e] = 0
      BY <1>0, <1>8 DEF Laters
    <2>1. start[e] = 0
      BY <1>0, <1>1 DEF Laters
    <2>2. \A k \in 1 .. n : l[k].e # e
      BY <1>6
    <2> QED  BY <1>13, <2>1, <2>2
  <1>17. Remembered'
    <2>1. ASSUME NEW x \in DOMAIN hash'
          PROVE  \E k \in 1 .. n : /\ Cached(l[k].e) /\ File(l[k].e).ino = x
                                   /\ hash'[x].start = start'[l[k].e]
      <3> DEFINE c == CHOOSE m \in 1 .. Len(l) : Cached(l[m].e) /\ TRUE /\ File(l[m].e).ino = x
      <3>1. \E m \in 1 .. Len(l) : Cached(l[m].e) /\ TRUE /\ File(l[m].e).ino = x
        BY <1>0, <2>1
      <3>2. hash'[x] = [start |-> begin[l[c].e], of |-> l[c].e]
        BY <1>0, <2>1
      <3>3. c \in 1 .. n /\ Cached(l[c].e) /\ File(l[c].e).ino = x
        BY <1>2, <3>1
      <3> HIDE DEF c
      <3> QED  BY <1>0, <3>2, <3>3
    <2>2. \A x \in DOMAIN hash' : \E k \in Elems' :
             /\ Cached(list[k].e)' /\ File(list[k].e)'.ino = x
             /\ hash'[x].start = start'[list'[k].e]
      BY <1>2, <1>7, <1>8, <2>1
    <2>3. \A k \in Elems' : Cached(list[k].e)' => File(list[k].e)'.ino \in DOMAIN hash'
      BY <1>0, <1>1 DEF LayoutInv, Hashed
    <2> QED  BY <1>0, <2>2, <2>3 DEF Remembered
  <1>18. Topped' /\ Above'
    BY <1>0, <1>1 DEF Topped, Above
  <1> QED  BY <1>14, <1>15, <1>16, <1>17, <1>18 DEF Numbered

\* The links that waited get the number of their file.
LEMMA NumberedReassign ==
    ASSUME EndInv, LayoutInv, Numbered, Reassign
    PROVE  Numbered'
  <1>0. /\ pc = "reassign" /\ pc' \in {"hfs", "inodes"} /\ (job.hfs => pc' = "hfs")
        /\ UNCHANGED <<job, dir, i, hash, list, null>>
        /\ start' = [e \in DOMAIN start |-> IF weight[e] = NotSorted /\ Hit(e)
                                            THEN hash[File(e).ino].start ELSE start[e]]
    BY DEF Reassign, given, deferred
  <1> SUFFICES ASSUME job.cache PROVE Numbered'
    BY <1>0 DEF Numbered
  <1>1. /\ Kinds /\ Listed /\ Kept /\ job.sort /\ Anchored /\ Firsts /\ Laters /\ Remembered
        /\ null \in Int /\ i = 1
    BY <1>0 DEF EndInv, Planned, LayoutInv, Numbered, Above
  <1>2. /\ Elems' = Elems /\ Visible' = Visible
        /\ \A e : /\ File(e)' = File(e) /\ (Cached(e)' <=> Cached(e))
                  /\ (Earlier(e)' <=> Earlier(e))
        /\ \A d, e : Twin(d, e)' <=> Twin(d, e)
        /\ \A d, e : Alike(d, e)' <=> Alike(d, e)
    <2>1. Elems' = Elems
      BY <1>0 DEF Elems
    <2>2. \A d, e : Twin(d, e)' <=> Twin(d, e)
      BY <1>0, Steady
    <2> QED  BY <1>0, <2>1, <2>2, Steady DEF Alike
  <1>3. DOMAIN start = 1 .. Len(dir) /\ \A e \in Visible : e \in 1 .. Len(dir) /\ ~(e < 1)
    BY <1>1 DEF Kept, Visible
  <1>4. ASSUME NEW e, Hit(e), NEW k \in Elems, Alike(list[k].e, e)
        PROVE  hash[File(e).ino].start = start[list[k].e]
    <2>1. Cached(e) /\ File(e).ino \in DOMAIN hash
      BY <1>4 DEF Hit
    <2>2. PICK j \in Elems : /\ Cached(list[j].e) /\ File(list[j].e).ino = File(e).ino
                             /\ hash[File(e).ino].start = start[list[j].e]
      BY <1>0, <1>1, <2>1 DEF Remembered
    <2>3. Alike(list[j].e, e)
      BY <2>1, <2>2 DEF Alike, Twin
    <2> QED  BY <1>4, <2>2, <2>3, OneElement
  <1>5. ASSUME NEW e \in Visible, NEW k \in Elems, Alike(list[k].e, e),
               start[e] = start[list[k].e] \/ (weight[e] = NotSorted /\ Hit(e))
        PROVE  start'[e] = start[list[k].e]
    <2>1. Hit(e) => hash[File(e).ino].start = start[list[k].e]
      BY <1>4, <1>5
    <2> QED  BY <1>0, <1>3, <1>5, <2>1
  <1>6. ASSUME NEW k \in Elems PROVE start'[list[k].e] = start[list[k].e]
    <2>1. list[k].e \in Visible /\ Alike(list[k].e, list[k].e)
      BY <1>1 DEF Listed, Alike
    <2> QED  BY <1>5, <2>1
  <1>7. Anchored'
    BY <1>0, <1>1, <1>2, <1>6 DEF Anchored
  <1>8. Firsts'
    <2> SUFFICES ASSUME NEW e \in Visible, dir[e].size > 0, dir[e].off = 0, ~Earlier(e)
                 PROVE  Takes(e)'
      BY <1>0, <1>2 DEF Firsts
    <2>1. PICK k \in Elems :
             /\ Alike(list[k].e, e)
             /\ start[e] = start[list[k].e] \/ (weight[e] = NotSorted /\ Hit(e))
      <3>1. CASE Takes(e)
        BY <3>1 DEF Takes
      <3>2. CASE Waits(e)
        <4>1. PICK k \in Elems : Twin(list[k].e, e)
          BY <3>2 DEF Waits
        <4>2. Cached(list[k].e) /\ Cached(e) /\ File(list[k].e).ino = File(e).ino
          BY <4>1 DEF Twin
        <4>3. Hit(e)
          BY <1>0, <1>1, <4>2 DEF Remembered, Hit
        <4> QED  BY <3>2, <4>1, <4>3 DEF Waits, Alike
      <3> QED  BY <1>0, <1>1, <3>1, <3>2 DEF Firsts
    <2>2. start'[e] = start'[list[k].e]
      BY <1>5, <1>6, <2>1
    <2>3. Alike(list[k].e, e)' /\ start'[e] = start'[list'[k].e]
      BY <1>0, <1>2, <2>1, <2>2
    <2> QED  BY <1>2, <2>3 DEF Takes
  <1>9. Laters'
    <2> SUFFICES ASSUME NEW e \in Visible, dir[e].off > 0, ~Earlier(e) PROVE start'[e] = 0
      BY <1>0, <1>1, <1>2, <1>3 DEF Laters
    <2>1. InSections(e)
      <3>1. Parts(e) = 1 => dir[e].off = 0
        BY <1>1, OffsetFacts
      <3>2. Parts(e) \in Nat /\ Parts(e) >= 1 /\ (InSections(e) <=> Parts(e) > 1)
        BY <1>1, <1>3, EntryFacts
      <3> QED  BY <3>1, <3>2
    <2>2. weight[e] # NotSorted
      BY <1>1, <2>1 DEF Kept, NotSorted
    <2>3. start[e] = 0
      BY <1>0, <1>1 DEF Laters
    <2> QED  BY <1>0, <1>3, <2>2, <2>3
  <1>10. Remembered'
    <2>1. \A n \in DOMAIN hash : \E k \in Elems : /\ Cached(list[k].e) /\ File(list[k].e).ino = n
                                                  /\ hash[n].start = start'[list[k].e]
      BY <1>0, <1>1, <1>6 DEF Remembered
    <2>2. \A k \in Elems : Cached(list[k].e) => File(list[k].e).ino \in DOMAIN hash
      BY <1>0, <1>1 DEF Remembered
    <2> QED  BY <1>0, <1>2, <2>1, <2>2 DEF Remembered
  <1>11. Topped'
    <2>1. pc' \notin {"write", "done"} /\ \A e \in Visible' : ~(e < i')
      BY <1>0, <1>1, <1>2, <1>3
    <2>2. \A e \in Visible' : pc' = "inodes" => ~Emptied(e)'
      BY <2>1 DEF Emptied
    <2> QED  BY <2>1, <2>2 DEF Topped
  <1>12. Above'
    BY <1>0, <1>1 DEF Above
  <1> QED  BY <1>7, <1>8, <1>9, <1>10, <1>11, <1>12 DEF Numbered

\* A volume in single blocks leaves the numbers alone.
LEMMA NumberedHfsSmall ==
    ASSUME EndInv, LayoutInv, FillsUpOnce, Numbered, Hfs, Unit = 1
    PROVE  Numbered'
  <1>0. /\ pc = "hfs" /\ pc' \in {"hfs", "inodes"} /\ job.hfs
        /\ UNCHANGED <<job, dir, weight, ext, start, hash, null, i>>
        /\ Elems' = Elems /\ \A k \in Elems : list'[k] = list[k]
    BY SmallMoves
  <1> SUFFICES ASSUME job.cache PROVE Numbered'
    BY <1>0 DEF Numbered
  <1>1. /\ Kinds /\ Anchored /\ Firsts /\ Laters /\ Remembered /\ null \in Int /\ i = 1
    BY <1>0 DEF EndInv, Numbered, Above
  <1>2. /\ Visible' = Visible
        /\ \A e : /\ File(e)' = File(e) /\ (Cached(e)' <=> Cached(e))
                  /\ (Earlier(e)' <=> Earlier(e))
    BY <1>0, Steady
  <1>3. \A e : Takes(e)' <=> Takes(e)
    BY <1>0, TakesSteady
  <1>4. \A e \in Visible : ~(e < 1)
    BY DEF Visible
  <1>5. Anchored'
    <2>1. \A k \in Elems : /\ start[list[k].e] \in Int /\ list[k].ext <= start[list[k].e]
                           /\ start[list[k].e] < list[k].ext + list[k].size
      BY <1>1 DEF Anchored
    <2> QED  BY <1>0, <2>1 DEF Anchored
  <1>6. Firsts'
    <2>1. \A e \in Visible : dir[e].size > 0 /\ dir[e].off = 0 /\ ~Earlier(e) => Takes(e)
      BY <1>0, <1>1 DEF Firsts
    <2> QED  BY <1>0, <1>2, <1>3, <2>1 DEF Firsts
  <1>7. Laters'
    <2>1. \A e \in Visible : dir[e].off > 0 /\ ~Earlier(e) => start[e] = 0
      BY <1>0, <1>1 DEF Laters
    <2> QED  BY <1>0, <1>1, <1>2, <1>4, <2>1 DEF Laters
  <1>8. Remembered'
    <2>1. \A n \in DOMAIN hash : \E k \in Elems : /\ Cached(list[k].e) /\ File(list[k].e).ino = n
                                                  /\ hash[n].start = start[list[k].e]
      BY <1>0, <1>1 DEF Remembered
    <2>2. \A n \in DOMAIN hash' : \E k \in Elems' :
             /\ Cached(list[k].e)' /\ File(list[k].e)'.ino = n
             /\ hash'[n].start = start'[list'[k].e]
      BY <1>0, <1>2, <2>1
    <2> QED  BY <1>0, <2>2 DEF Remembered
  <1>9. Topped'
    <2>1. \A e \in Visible' : pc' = "inodes" => ~Emptied(e)'
      BY <1>0, <1>1, <1>2, <1>4 DEF Emptied
    <2> QED  BY <1>0, <2>1 DEF Topped
  <1>10. Above'
    BY <1>0, <1>1 DEF Above
  <1> QED  BY <1>5, <1>6, <1>7, <1>8, <1>9, <1>10 DEF Numbered

\* A large volume gives every file its new extent as its number.
LEMMA NumberedHfsLarge ==
    ASSUME EndInv, LayoutInv, FillsUpOnce, Supported, Numbered, Hfs, Unit = 2
    PROVE  Numbered'
  <1>0. /\ pc = "hfs" /\ pc' \in {"hfs", "inodes"} /\ job.hfs
        /\ UNCHANGED <<job, dir, weight, null, i>> /\ hash' = NoHash
    BY LargeMoves
  <1>1. /\ \A k \in 1 .. Len(list) :
              /\ list'[k].e = list[k].e /\ list'[k].size = list[k].size
              /\ list'[k].ext = VolumeAt[k] /\ VolumeAt[k] \in Int
        /\ Elems = 1 .. Len(list) /\ Elems' = 1 .. Len(list)
        /\ \A e \in 1 .. Len(dir) : ~InSections(e)
    BY LargeMoves
  <1>2. \A e \in Visible : \A k \in 1 .. Len(list) : Alike(list[k].e, e) => start'[e] = VolumeAt[k]
    BY LargeMoves
  <1> SUFFICES ASSUME job.cache PROVE Numbered'
    BY <1>0 DEF Numbered
  <1>3. Kinds /\ Listed /\ Firsts /\ null \in Int /\ i = 1
    BY <1>0 DEF EndInv, LayoutInv, Numbered, Above
  <1>4. /\ Visible' = Visible
        /\ \A e : Earlier(e)' <=> Earlier(e)
        /\ \A d, e : Alike(d, e)' <=> Alike(d, e)
    <2>1. \A d, e : Twin(d, e)' <=> Twin(d, e)
      BY <1>0, Steady
    <2> QED  BY <1>0, <2>1, Steady DEF Alike
  <1>5. \A e \in Visible : ~(e < 1)
    BY DEF Visible
  <1>6. \A k \in 1 .. Len(list) : /\ start'[list[k].e] = VolumeAt[k]
                                  /\ list[k].size \in Nat /\ list[k].size > 0
    <2> SUFFICES ASSUME NEW k \in 1 .. Len(list)
                 PROVE  /\ start'[list[k].e] = VolumeAt[k]
                        /\ list[k].size \in Nat /\ list[k].size > 0
      OBVIOUS
    <2>1. list[k].e \in Visible /\ list[k].size > 0
      BY <1>1, <1>3 DEF Listed
    <2>2. list[k] \in DWrite
      BY <1>3 DEF Kinds
    <2>3. Alike(list[k].e, list[k].e)
      BY DEF Alike
    <2> QED  BY <1>2, <2>1, <2>2, <2>3 DEF DWrite
  <1>7. Anchored'
    <2>1. \A k \in 1 .. Len(list) : /\ VolumeAt[k] <= VolumeAt[k]
                                    /\ VolumeAt[k] < VolumeAt[k] + list[k].size
      BY <1>1, <1>6
    <2>2. \A k \in Elems' : /\ start'[list'[k].e] \in Int /\ list'[k].ext <= start'[list'[k].e]
                            /\ start'[list'[k].e] < list'[k].ext + list'[k].size
      BY <1>1, <1>6, <2>1
    <2> QED  BY <1>0, <2>2 DEF Anchored
  <1>8. Firsts'
    <2> SUFFICES ASSUME NEW e \in Visible, dir[e].size > 0, dir[e].off = 0, ~Earlier(e)
                 PROVE  Takes(e)'
      BY <1>0, <1>4 DEF Firsts
    <2>1. PICK k \in 1 .. Len(list) : Alike(list[k].e, e)
      BY <1>0, <1>1, <1>3 DEF Firsts, Takes
    <2>2. Alike(list[k].e, e)' /\ start'[e] = start'[list'[k].e]
      <3>1. list'[k].e = list[k].e
        BY <1>1
      <3>2. start'[e] = start'[list[k].e]
        BY <1>2, <1>6, <2>1
      <3> QED  BY <1>4, <2>1, <3>1, <3>2
    <2> QED  BY <1>1, <2>2 DEF Takes
  <1>9. Laters'
    <2>1. \A e \in Visible : ~(dir[e].off > 0)
      <3> SUFFICES ASSUME NEW e \in Visible PROVE ~(dir[e].off > 0)
        OBVIOUS
      <3>1. e \in 1 .. Len(dir)
        BY DEF Visible
      <3>2. Parts(e) = 1
        BY <1>1, <1>3, <3>1, EntryFacts
      <3> QED  BY <1>3, <3>2, OffsetFacts
    <2> QED  BY <1>0, <1>4, <2>1 DEF Laters
  <1>10. Remembered'
    <2>1. DOMAIN hash' = {}
      BY <1>0 DEF NoHash
    <2> QED  BY <1>0, <2>1 DEF Remembered
  <1>11. Topped'
    <2>1. \A e \in Visible' : pc' = "inodes" => ~Emptied(e)'
      BY <1>0, <1>3, <1>4, <1>5 DEF Emptied
    <2> QED  BY <1>0, <2>1 DEF Topped
  <1>12. Above'
    BY <1>0, <1>3 DEF Above
  <1> QED  BY <1>7, <1>8, <1>9, <1>10, <1>11, <1>12 DEF Numbered

\* The Macintosh volume, whatever the size of its blocks.
LEMMA NumberedHfs ==
    ASSUME EndInv, LayoutInv, FillsUpOnce, Supported, Numbered, Hfs
    PROVE  Numbered'
  <1>1. Unit = 1 \/ Unit = 2
    BY DEF Unit
  <1> QED  BY <1>1, NumberedHfsSmall, NumberedHfsLarge

\* Entries of one file are empty together.
LEMMA AlikeSize ==
    ASSUME Kinds, NEW d \in Visible, NEW e \in Visible, Alike(d, e)
    PROVE  dir[d].size = 0 <=> dir[e].size = 0
  <1>1. d \in 1 .. Len(dir) /\ e \in 1 .. Len(dir)
    BY DEF Visible
  <1>2. File(d).size = File(e).size
    <2>1. CASE dir[d].f = dir[e].f
      BY <2>1, SameFile
    <2>2. CASE Twin(d, e)
      BY <1>1, <2>2, TwinFacts
    <2> QED  BY <2>1, <2>2 DEF Alike
  <1>3. \A x \in {d, e} : /\ dir[x].size \in Nat /\ File(x).size \in Nat
                          /\ dir[x].size <= File(x).size
                          /\ (File(x).size > 0 => dir[x].size > 0)
    BY <1>1, JobFacts, OffsetFacts
  <1>4. \A x \in {d, e} : dir[x].size = 0 <=> File(x).size = 0
    BY <1>3
  <1> QED  BY <1>2, <1>4

\* An empty file has one entry.
LEMMA EmptyFacts ==
    ASSUME Kinds, NEW e \in 1 .. Len(dir), dir[e].size = 0
    PROVE  e \in Visible /\ File(e).size = 0 /\ dir[e].off = 0 /\ e = Begin(e)
  <1> DEFINE file == job.files[dir[e].f]
  <1>1. /\ File(e) = file /\ file.size \in Nat /\ Parts(e) = Sections(file.size)
        /\ Parts(e) \in Nat /\ Parts(e) >= 1
    BY EntryFacts, JobFacts DEF Parts, FileCount
  <1>2. file.size > 0 => dir[e].size > 0
    <2>1. CASE e \in Visible
      BY <1>1, <2>1, OffsetFacts
    <2>2. CASE e \notin Visible
      <3>1. dir[e] = TheRoot(job.files, dir[e].f)
        BY <2>2, EntryFacts
      <3>2. TheRoot(job.files, dir[e].f).size = file.size
        BY DEF TheRoot
      <3> QED  BY <3>1, <3>2
    <2> QED  BY <2>1, <2>2
  <1>3. file.size = 0
    BY <1>1, <1>2
  <1>4. Parts(e) = 1
    <2>1. Large \in Nat
      BY LayoutAssumption
    <2> QED  BY <1>1, <1>3, <2>1, SectionsFacts
  <1>5. e \in Visible
    BY <1>4, EntryFacts
  <1>6. dir[e].off = 0
    BY <1>4, <1>5, OffsetFacts
  <1> QED  BY <1>1, <1>3, <1>5, <1>6, FirstEntry

\* When the numbers are given every file with data is in the list.
LEMMA InTheList ==
    ASSUME EndInv, LayoutInv, pc \in {"inodes", "write", "done"},
           NEW e \in Visible, dir[e].size > 0, ~Earlier(e)
    PROVE  \E k \in Elems : Alike(list[k].e, e)
  <1>1. Own(e) \/ LinkAt(e)
    BY DEF LayoutInv, Shows
  <1> QED  BY <1>1 DEF Own, LinkAt, Alike

\* The elements then are where the data are written.
LEMMA ElementFacts ==
    ASSUME EndInv, LayoutInv, pc \in {"inodes", "write", "done"}
    PROVE  /\ \A k \in Elems : /\ list[k].ext \in Int /\ list[k].size \in Nat /\ list[k].ext > 0
                               /\ list[k].e \in Visible /\ dir[list[k].e].off = 0
                               /\ dir[list[k].e].size > 0 /\ ~Earlier(list[k].e)
           /\ \A j, k \in Elems : j < k => list[j].ext + list[j].size <= list[k].ext
           /\ pc = "inodes" => \A k \in Elems : list[k].ext + list[k].size <= last
  <1> DEFINE base == Origin + hpad
  <1>1. /\ Kinds /\ Listed /\ From(Origin + hpad) /\ hpad >= 0 /\ hpad \in Int
        /\ Len(list) \in Nat /\ list \in Seq(DWrite)
    BY DEF EndInv, LayoutInv, Followed, Kinds
  <1>2. base \in Int /\ base > 0
    <2>1. Origin = job.session + Ahead /\ job.session \in Nat
      BY <1>1, JobFacts DEF Origin
    <2>2. Ahead \in Nat /\ Ahead > 0
      BY LayoutAssumption
    <2> QED  BY <1>1, <2>1, <2>2
  <1>3. \A k \in Elems : k \in 1 .. Len(list) /\ k - 1 \in 0 .. Len(list) /\ k \in 0 .. Len(list)
    BY <1>1 DEF Elems
  <1>4. \A k \in Elems : list[k].ext = base + UpToNth(list, k - 1)
    BY <1>1, <1>3 DEF From
  <1>5. \A k \in Elems : list[k].size \in Nat /\ list[k].pad \in Nat
    <2>1. \A k \in Elems : list[k] \in DWrite
      BY <1>1, <1>3
    <2> QED  BY <2>1 DEF DWrite
  <1>6. \A k \in Elems : UpToNth(list, k - 1) \in Nat
    BY <1>1, <1>3, UpToNthGrows
  <1> HIDE DEF base
  <1>7. \A k \in Elems : /\ list[k].ext \in Int /\ list[k].ext > 0
                         /\ list[k].e \in Visible /\ dir[list[k].e].off = 0
                         /\ dir[list[k].e].size > 0 /\ ~Earlier(list[k].e)
    <2> SUFFICES ASSUME NEW k \in Elems
                 PROVE  /\ list[k].ext \in Int /\ list[k].ext > 0
                        /\ list[k].e \in Visible /\ dir[list[k].e].off = 0
                        /\ dir[list[k].e].size > 0 /\ ~Earlier(list[k].e)
      OBVIOUS
    <2>1. /\ list[k].e \in Visible /\ dir[list[k].e].off = 0 /\ File(list[k].e).prev = 0
          /\ File(list[k].e).size > 0
      BY <1>1 DEF Listed
    <2>2. dir[list[k].e].size > 0
      BY <1>1, <2>1, OffsetFacts
    <2>3. list[k].ext \in Int /\ list[k].ext > 0
      BY <1>2, <1>4, <1>6
    <2> QED  BY <2>1, <2>2, <2>3 DEF Earlier
  <1>8. ASSUME NEW j \in Elems, NEW k \in Elems, j < k
        PROVE  list[j].ext + list[j].size <= list[k].ext
    <2>1. UpToNth(list, j - 1) + list[j].size <= UpToNth(list, k - 1)
      BY <1>1, <1>3, <1>8, UpToNthGrows
    <2> QED  BY <1>2, <1>4, <1>5, <1>6, <2>1
  <1>9. ASSUME pc = "inodes", NEW k \in Elems PROVE list[k].ext + list[k].size <= last
    <2>1. last = base + Bulk(list) + Catalogs
      BY <1>9 DEF EndInv, Planned, base
    <2>2. Catalogs \in Nat
      <3>1. Extra \in Nat /\ tries \in Nat
        BY <1>1, LayoutAssumption DEF Kinds
      <3>2. Extra * tries \in Nat
        BY <3>1
      <3> QED  BY <3>2 DEF Catalogs
    <2>3. UpToNth(list, k) = UpToNth(list, k - 1) + list[k].size + list[k].pad
      BY <1>1, <1>3, RoomFacts
    <2>4. UpToNth(list, k) <= UpToNth(list, Len(list)) /\ UpToNth(list, Len(list)) = Bulk(list)
      <3>1. Len(list) \in 0 .. Len(list) /\ k <= Len(list) /\ k \in 0 .. Len(list)
        BY <1>1, <1>3
      <3> QED  BY <1>1, <3>1, UpToNthGrows, RoomFacts
    <2>5. Bulk(list) \in Int
      BY <1>1, RoomFacts
    <2> QED  BY <1>2, <1>4, <1>5, <1>6, <2>1, <2>2, <2>3, <2>4, <2>5
  <1> QED  BY <1>5, <1>7, <1>8, <1>9

\* The first section of a file keeps its number, the others look it up in the cache.
LEMMA NumberedFile ==
    ASSUME EndInv, LayoutInv, Supported, Numbered, NumberFile
    PROVE  Numbered'
  <1>0. /\ pc = "inodes" /\ pc' = pc /\ i <= Len(dir) /\ job.cache /\ dir[i].size > 0
        /\ i' = i + 1 /\ start' = [start EXCEPT ![i] = Found(i)]
        /\ UNCHANGED <<job, dir, ext, weight, hash, list, null>>
    BY DEF NumberFile, Numbering, given, deferred
  <1>1. /\ Kinds /\ Kept /\ Anchored /\ Firsts /\ Laters /\ Remembered /\ Topped
        /\ null \in Int
    BY <1>0 DEF EndInv, LayoutInv, Numbered, Above
  <1>2. i \in Nat /\ i \in 1 .. Len(dir) /\ Len(dir) \in Nat /\ DOMAIN start = 1 .. Len(dir)
    BY <1>0, <1>1, JobFacts DEF Kinds, Kept
  <1>3. /\ Elems' = Elems /\ Visible' = Visible
        /\ \A e : /\ File(e)' = File(e) /\ (Cached(e)' <=> Cached(e))
                  /\ (Earlier(e)' <=> Earlier(e))
        /\ \A d, e : Twin(d, e)' <=> Twin(d, e)
        /\ \A d, e : Alike(d, e)' <=> Alike(d, e)
    <2>1. Elems' = Elems
      BY <1>0 DEF Elems
    <2>2. \A d, e : Twin(d, e)' <=> Twin(d, e)
      BY <1>0, Steady
    <2> QED  BY <1>0, <2>1, <2>2, Steady DEF Alike
  <1>4. /\ \A k \in Elems : start[list[k].e] \in Int /\ start[list[k].e] > 0
        /\ \A k \in Elems : /\ list[k].e \in Visible /\ dir[list[k].e].off = 0
                            /\ dir[list[k].e].size > 0 /\ ~Earlier(list[k].e)
    <2>1. \A k \in Elems : /\ list[k].ext \in Int /\ list[k].ext > 0
                           /\ list[k].e \in Visible /\ dir[list[k].e].off = 0
                           /\ dir[list[k].e].size > 0 /\ ~Earlier(list[k].e)
      BY <1>0, ElementFacts
    <2>2. \A k \in Elems : start[list[k].e] \in Int /\ list[k].ext <= start[list[k].e]
      BY <1>1 DEF Anchored
    <2> QED  BY <2>1, <2>2
  <1>5. start'[i] = Found(i) /\ \A e \in Visible : e # i => start'[e] = start[e]
    BY <1>0, <1>2 DEF Visible
  \* The first section.
  <1>6. i \in Visible /\ dir[i].off = 0 /\ ~Earlier(i) => start'[i] = start[i]
    <2> SUFFICES ASSUME i \in Visible, dir[i].off = 0, ~Earlier(i) PROVE start'[i] = start[i]
      OBVIOUS
    <2>1. Takes(i)
      BY <1>0, <1>1 DEF Firsts
    <2>2. start[i] # 0
      BY <1>4, <2>1 DEF Takes
    <2> QED  BY <1>5, <2>2 DEF Found
  <1>7. \A k \in Elems : start'[list[k].e] = start[list[k].e]
    <2> SUFFICES ASSUME NEW k \in Elems PROVE start'[list[k].e] = start[list[k].e]
      OBVIOUS
    <2>1. list[k].e \in Visible /\ dir[list[k].e].off = 0 /\ ~Earlier(list[k].e)
      BY <1>4
    <2> QED  BY <1>5, <1>6, <2>1
  <1>8. \A e : start'[e] = start[e] => (Takes(e)' <=> Takes(e))
    BY <1>0, <1>3, <1>7, TakesSteady
  \* A later one.
  <1>9. ASSUME i \in Visible, dir[i].off > 0, ~Earlier(i)
        PROVE  \E m \in Elems : Alike(list[m].e, i) /\ start'[i] = start'[list[m].e]
    <2>1. PICK k \in Elems : Alike(list[k].e, i)
      BY <1>0, <1>9, InTheList
    <2>2. InSections(i)
      <3>1. Parts(i) = 1 => dir[i].off = 0
        BY <1>1, <1>9, OffsetFacts
      <3>2. Parts(i) \in Nat /\ Parts(i) >= 1 /\ (InSections(i) <=> Parts(i) > 1)
        BY <1>1, <1>2, EntryFacts
      <3> QED  BY <1>9, <3>1, <3>2
    <2>3. dir[i].f \in 1 .. Len(job.files) /\ File(i) = job.files[dir[i].f]
      BY <1>1, <1>2, EntryFacts
    <2>4. ~job.hfs
      BY <2>2, <2>3 DEF Supported, InSections
    <2>5. File(i).kind # "fork"
      <3>1. job.files \in Seq(Files) /\ job \in Jobs
        BY <1>1, JobFacts DEF Kinds
      <3>2. File(i) \in ToSet(job.files)
        BY <2>3, <3>1 DEF ToSet
      <3>3. OnDisk(job)
        BY <3>1, LayoutAssumption
      <3> QED  BY <2>4, <3>2, <3>3 DEF OnDisk
    <2>6. Cached(i)
      BY <1>0, <2>5 DEF Cached
    <2>7. Cached(list[k].e) /\ File(list[k].e).ino = File(i).ino
      <3>1. CASE dir[list[k].e].f = dir[i].f
        BY <2>6, <3>1, SameFile
      <3>2. CASE Twin(list[k].e, i)
        BY <3>2 DEF Twin
      <3> QED  BY <2>1, <3>1, <3>2 DEF Alike
    <2>8. File(i).ino \in DOMAIN hash
      BY <1>0, <1>1, <2>4, <2>7 DEF Remembered
    <2>9. ~\E e \in Visible : dir[e].size = 0 /\ Cached(e) /\ File(e).ino = File(i).ino
      <3> SUFFICES ASSUME NEW e \in Visible, dir[e].size = 0, Cached(e),
                          File(e).ino = File(i).ino
                   PROVE  FALSE
        OBVIOUS
      <3>1. Alike(e, i)
        BY <2>6 DEF Alike, Twin
      <3> QED  BY <1>0, <1>1, <1>9, <3>1, AlikeSize
    <2>10. PICK j \in Elems : /\ Cached(list[j].e) /\ File(list[j].e).ino = File(i).ino
                              /\ hash[File(i).ino].start = start[list[j].e]
      BY <1>0, <1>1, <2>8, <2>9 DEF Remembered
    <2>11. start[i] = 0
      <3>1. ~(i < i)
        BY <1>2
      <3> QED  BY <1>0, <1>1, <1>9, <3>1 DEF Laters
    <2>12. start'[i] = start'[list[j].e]
      BY <1>5, <1>7, <2>6, <2>8, <2>10, <2>11 DEF Found, Hit
    <2>13. Alike(list[j].e, i)
      BY <2>6, <2>10 DEF Alike, Twin
    <2> QED  BY <2>12, <2>13
  <1>10. ASSUME NEW e \in Visible, e = i, dir[e].off > 0, ~Earlier(e) PROVE Takes(e)'
    <2>1. PICK m \in Elems : Alike(list[m].e, e) /\ start'[e] = start'[list[m].e]
      BY <1>9, <1>10
    <2>2. Alike(list[m].e, e)' /\ start'[e] = start'[list'[m].e] /\ m \in Elems'
      BY <1>0, <1>3, <2>1
    <2> QED  BY <2>2 DEF Takes
  <1>11. Anchored'
    <2>1. \A k \in Elems : /\ start[list[k].e] \in Int /\ list[k].ext <= start[list[k].e]
                           /\ start[list[k].e] < list[k].ext + list[k].size
      BY <1>1 DEF Anchored
    <2> QED  BY <1>0, <1>3, <1>7, <2>1 DEF Anchored
  <1>12. Firsts'
    <2> SUFFICES ASSUME NEW e \in Visible, dir[e].size > 0, dir[e].off = 0, ~Earlier(e)
                 PROVE  Takes(e)'
      BY <1>0, <1>3 DEF Firsts
    <2>1. Takes(e)
      BY <1>0, <1>1 DEF Firsts
    <2>2. start'[e] = start[e]
      BY <1>5, <1>6
    <2> QED  BY <1>8, <2>1, <2>2
  <1>13. \A e \in Visible : e \in Nat /\ (e < i + 1 <=> e < i \/ e = i)
    BY <1>2 DEF Visible
  <1>14. Laters'
    <2>1. ASSUME NEW e \in Visible, dir[e].off > 0, ~Earlier(e)
          PROVE  IF e < i + 1 THEN Takes(e)' ELSE start'[e] = 0
      <3>1. CASE e = i
        BY <1>10, <1>13, <2>1, <3>1
      <3>2. CASE e # i
        <4>1. IF e < i THEN Takes(e) ELSE start[e] = 0
          BY <1>0, <1>1, <2>1 DEF Laters
        <4>2. start'[e] = start[e]
          BY <1>5, <3>2
        <4> QED  BY <1>8, <1>13, <3>2, <4>1, <4>2
      <3> QED  BY <3>1, <3>2
    <2> QED  BY <1>0, <1>3, <2>1 DEF Laters
  \* The empty files.
  <1>15. \A e \in Visible : /\ Emptied(e)' <=> Emptied(e)
                            /\ dir[e].size = 0 => start'[e] = start[e]
    <2>1. \A e \in Visible : dir[e].size = 0 => e # i
      BY <1>0
    <2> QED  BY <1>0, <1>5, <1>13, <2>1 DEF Emptied
  <1>16. Remembered'
    <2>1. ASSUME NEW n \in DOMAIN hash
          PROVE  \/ \E k \in Elems : /\ Cached(list[k].e) /\ File(list[k].e).ino = n
                                     /\ hash[n].start = start'[list[k].e]
                 \/ \E e \in Visible : /\ e < i + 1 /\ dir[e].size = 0 /\ Cached(e)
                                       /\ File(e).ino = n /\ hash[n].start = start'[e]
      <3>1. \/ \E k \in Elems : /\ Cached(list[k].e) /\ File(list[k].e).ino = n
                                /\ hash[n].start = start[list[k].e]
            \/ \E e \in Visible : /\ e < i /\ dir[e].size = 0 /\ Cached(e)
                                  /\ File(e).ino = n /\ hash[n].start = start[e]
        BY <1>0, <1>1, <2>1 DEF Remembered
      <3> QED  BY <1>7, <1>13, <1>15, <3>1
    <2>2. ~job.hfs => \A k \in Elems : Cached(list[k].e) => File(list[k].e).ino \in DOMAIN hash
      BY <1>0, <1>1 DEF Remembered
    <2> QED  BY <1>0, <1>3, <2>1, <2>2 DEF Remembered
  <1>17. Topped'
    <2>1. \A e \in Visible : Emptied(e) =>
             /\ start'[e] \in Int /\ start'[e] > null
             /\ Cached(e) => File(e).ino \in DOMAIN hash /\ hash[File(e).ino].start = start'[e]
      BY <1>0, <1>1, <1>15 DEF Topped, Emptied
    <2>2. \A e, d \in Visible : Emptied(e) /\ Emptied(d) =>
             (start'[e] = start'[d] <=> e = d \/ Twin(e, d))
      BY <1>0, <1>1, <1>15 DEF Topped, Emptied
    <2> QED  BY <1>0, <1>3, <1>15, <2>1, <2>2 DEF Topped
  <1>18. Above'
    BY <1>0, <1>1 DEF Above
  <1> QED  BY <1>11, <1>12, <1>14, <1>16, <1>17, <1>18 DEF Numbered

\* An empty file gets the next number from the top, or the one it has under another
\* name.
LEMMA NumberedEmpty ==
    ASSUME EndInv, LayoutInv, Numbered, NumberEmpty
    PROVE  Numbered'
  <1> DEFINE n == IF Hit(i) THEN hash[File(i).ino].start ELSE null
  <1>0. /\ pc = "inodes" /\ pc' = pc /\ i <= Len(dir) /\ job.cache /\ dir[i].size = 0
        /\ i' = i + 1 /\ start' = [start EXCEPT ![i] = n]
        /\ hash' = IF Hit(i) THEN hash ELSE Remember(hash, i, n)
        /\ null' = IF Hit(i) THEN null ELSE null - 1
        /\ UNCHANGED <<job, dir, weight, list>>
    BY DEF NumberEmpty, Numbering, given, deferred
  <1>1. /\ Kinds /\ Kept /\ Anchored /\ Firsts /\ Laters /\ Remembered /\ Topped
        /\ null \in Int
    BY <1>0 DEF EndInv, LayoutInv, Numbered, Above
  <1>2. i \in Nat /\ i \in 1 .. Len(dir) /\ Len(dir) \in Nat /\ DOMAIN start = 1 .. Len(dir)
    BY <1>0, <1>1, JobFacts DEF Kinds, Kept
  <1>3. /\ Elems' = Elems /\ Visible' = Visible
        /\ \A e : /\ File(e)' = File(e) /\ (Cached(e)' <=> Cached(e))
                  /\ (Earlier(e)' <=> Earlier(e))
        /\ \A d, e : Twin(d, e)' <=> Twin(d, e)
    <2>1. Elems' = Elems
      BY <1>0 DEF Elems
    <2> QED  BY <1>0, <2>1, Steady
  <1>4. i \in Visible /\ dir[i].off = 0
    BY <1>0, <1>1, <1>2, EmptyFacts
  <1>5. \A k \in Elems : list[k].e \in Visible /\ dir[list[k].e].size > 0
    BY <1>0, ElementFacts
  <1>6. /\ start'[i] = n /\ (Hit(i) => n = hash[File(i).ino].start) /\ (~Hit(i) => n = null)
        /\ \A e \in Visible : e # i => start'[e] = start[e]
    BY <1>0, <1>2 DEF Visible
  <1> HIDE DEF n
  <1>7. \A k \in Elems : start'[list[k].e] = start[list[k].e]
    <2>1. \A k \in Elems : list[k].e # i
      BY <1>0, <1>5
    <2> QED  BY <1>5, <1>6, <2>1
  <1>8. \A e : start'[e] = start[e] => (Takes(e)' <=> Takes(e))
    BY <1>0, <1>3, <1>7, TakesSteady
  <1>9. \A e \in Visible : e \in Nat /\ (e < i + 1 <=> e < i \/ e = i)
    BY <1>2 DEF Visible
  <1>10. Anchored'
    <2>1. \A k \in Elems : /\ start[list[k].e] \in Int /\ list[k].ext <= start[list[k].e]
                           /\ start[list[k].e] < list[k].ext + list[k].size
      BY <1>1 DEF Anchored
    <2> QED  BY <1>0, <1>3, <1>7, <2>1 DEF Anchored
  <1>11. Firsts'
    <2> SUFFICES ASSUME NEW e \in Visible, dir[e].size > 0, dir[e].off = 0, ~Earlier(e)
                 PROVE  Takes(e)'
      BY <1>0, <1>3 DEF Firsts
    <2>1. Takes(e)
      BY <1>0, <1>1 DEF Firsts
    <2>2. start'[e] = start[e]
      BY <1>0, <1>6
    <2> QED  BY <1>8, <2>1, <2>2
  <1>12. Laters'
    <2>1. ASSUME NEW e \in Visible, dir[e].off > 0, ~Earlier(e)
          PROVE  IF e < i + 1 THEN Takes(e)' ELSE start'[e] = 0
      <3>1. e # i
        BY <1>4, <2>1
      <3>2. IF e < i THEN Takes(e) ELSE start[e] = 0
        BY <1>0, <1>1, <2>1 DEF Laters
      <3>3. start'[e] = start[e]
        BY <1>6, <3>1
      <3> QED  BY <1>8, <1>9, <3>1, <3>2, <3>3
    <2> QED  BY <1>0, <1>3, <2>1 DEF Laters
  \* The cache.
  <1>13. /\ DOMAIN hash \subseteq DOMAIN hash'
         /\ \A x \in DOMAIN hash : hash'[x] = hash[x]
         /\ \A x \in DOMAIN hash' : x \notin DOMAIN hash =>
               /\ ~Hit(i) /\ Cached(i) /\ x = File(i).ino
         /\ ~Hit(i) /\ Cached(i) => File(i).ino \in DOMAIN hash' /\ hash'[File(i).ino].start = n
    <2>1. CASE Hit(i) \/ ~Cached(i)
      <3>1. hash' = hash
        BY <1>0, <2>1 DEF Remember
      <3> QED  BY <2>1, <3>1
    <2>2. CASE ~Hit(i) /\ Cached(i)
      <3>1. hash' = [x \in DOMAIN hash \cup {File(i).ino} |->
                        IF x = File(i).ino THEN [start |-> n, of |-> i] ELSE hash[x]]
        BY <1>0, <2>2 DEF Remember
      <3>2. File(i).ino \notin DOMAIN hash
        BY <2>2 DEF Hit
      <3> QED  BY <2>2, <3>1, <3>2
    <2> QED  BY <2>1, <2>2
  <1>14. \A e : Cached(e) /\ File(e).ino \in DOMAIN hash /\ Cached(i)
                /\ File(e).ino = File(i).ino => Hit(i)
    BY DEF Hit
  <1>15. ASSUME Hit(i)
         PROVE  \E x \in Visible : /\ x < i /\ dir[x].size = 0 /\ Twin(x, i) /\ n = start[x]
    <2>1. Cached(i) /\ File(i).ino \in DOMAIN hash
      BY <1>15 DEF Hit
    <2>2. ~\E k \in Elems : Cached(list[k].e) /\ File(list[k].e).ino = File(i).ino
      <3> SUFFICES ASSUME NEW k \in Elems, Cached(list[k].e), File(list[k].e).ino = File(i).ino
                   PROVE  FALSE
        OBVIOUS
      <3>1. Alike(list[k].e, i) /\ list[k].e \in Visible /\ dir[list[k].e].size > 0
        BY <1>5, <2>1 DEF Alike, Twin
      <3> QED  BY <1>0, <1>1, <1>4, <3>1, AlikeSize
    <2>3. PICK x \in Visible : /\ x < i /\ dir[x].size = 0 /\ Cached(x)
                               /\ File(x).ino = File(i).ino /\ hash[File(i).ino].start = start[x]
      BY <1>0, <1>1, <2>1, <2>2 DEF Remembered
    <2> QED  BY <1>6, <1>15, <2>1, <2>3 DEF Twin
  <1>16. Remembered'
    <2>1. ASSUME NEW x \in DOMAIN hash'
          PROVE  \/ \E k \in Elems : /\ Cached(list[k].e) /\ File(list[k].e).ino = x
                                     /\ hash'[x].start = start'[list[k].e]
                 \/ \E e \in Visible : /\ e < i + 1 /\ dir[e].size = 0 /\ Cached(e)
                                       /\ File(e).ino = x /\ hash'[x].start = start'[e]
      <3>1. CASE x \in DOMAIN hash
        <4>1. \/ \E k \in Elems : /\ Cached(list[k].e) /\ File(list[k].e).ino = x
                                  /\ hash[x].start = start[list[k].e]
              \/ \E e \in Visible : /\ e < i /\ dir[e].size = 0 /\ Cached(e)
                                    /\ File(e).ino = x /\ hash[x].start = start[e]
          BY <1>0, <1>1, <3>1 DEF Remembered
        <4>2. \A e \in Visible : e < i => e < i + 1 /\ start'[e] = start[e]
          BY <1>2, <1>6, <1>9
        <4> QED  BY <1>7, <1>13, <3>1, <4>1, <4>2
      <3>2. CASE x \notin DOMAIN hash
        <4>1. ~Hit(i) /\ Cached(i) /\ x = File(i).ino /\ hash'[x].start = n
          BY <1>13, <2>1, <3>2
        <4> QED  BY <1>0, <1>4, <1>6, <1>9, <4>1
      <3> QED  BY <3>1, <3>2
    <2>2. ~job.hfs => \A k \in Elems : Cached(list[k].e) => File(list[k].e).ino \in DOMAIN hash'
      BY <1>0, <1>1, <1>13 DEF Remembered
    <2> QED  BY <1>0, <1>3, <2>1, <2>2 DEF Remembered
  \* The numbers from the top.
  <1> DEFINE Old(e) == dir[e].size = 0 /\ e < i
  <1>17. \A e \in Visible : /\ Emptied(e)' <=> Old(e) \/ e = i
                            /\ Old(e) => e # i /\ start'[e] = start[e]
    <2>1. \A e \in Visible : e < i => e # i
      BY <1>9, <1>2
    <2> QED  BY <1>0, <1>6, <1>9, <2>1 DEF Emptied
  <1>18. /\ \A e \in Visible : Old(e) =>
              /\ start[e] \in Int /\ start[e] > null
              /\ Cached(e) => File(e).ino \in DOMAIN hash /\ hash[File(e).ino].start = start[e]
         /\ \A e, d \in Visible : Old(e) /\ Old(d) =>
              (start[e] = start[d] <=> e = d \/ Twin(e, d))
    BY <1>0, <1>1 DEF Topped, Emptied
  <1> HIDE DEF Old
  <1>19. null' \in Int /\ null' <= null /\ n \in Int /\ n > null'
    <2>1. CASE Hit(i)
      <3>1. PICK x \in Visible : Old(x) /\ n = start[x]
        BY <1>15, <2>1 DEF Old
      <3> QED  BY <1>0, <1>1, <1>18, <2>1, <3>1
    <2>2. CASE ~Hit(i)
      BY <1>0, <1>1, <1>6, <2>2
    <2> QED  BY <2>1, <2>2
  <1>20. ASSUME NEW d \in Visible, Old(d) PROVE n = start[d] <=> Twin(i, d)
    <2>1. CASE Hit(i)
      <3>1. PICK x \in Visible : Old(x) /\ Twin(x, i) /\ n = start[x]
        BY <1>15, <2>1 DEF Old
      <3>2. start[x] = start[d] <=> x = d \/ Twin(x, d)
        BY <1>18, <1>20, <3>1
      <3>3. Twin(x, d) <=> Twin(i, d)
        BY <3>1 DEF Twin
      <3>4. x = d => Twin(i, d)
        BY <3>1 DEF Twin
      <3> QED  BY <3>1, <3>2, <3>3, <3>4
    <2>2. CASE ~Hit(i)
      <3>1. n # start[d]
        BY <1>1, <1>6, <1>18, <1>20, <2>2
      <3>2. ~Twin(i, d)
        <4>1. Cached(d) => File(d).ino \in DOMAIN hash
          BY <1>18, <1>20
        <4> QED  BY <1>14, <2>2, <4>1 DEF Twin
      <3> QED  BY <3>1, <3>2
    <2> QED  BY <2>1, <2>2
  <1>21. Topped'
    <2>1. ASSUME NEW e \in Visible, Old(e) \/ e = i
          PROVE  /\ start'[e] \in Int /\ start'[e] > null'
                 /\ Cached(e) => /\ File(e).ino \in DOMAIN hash'
                                 /\ hash'[File(e).ino].start = start'[e]
      <3>1. CASE e = i
        <4>1. Cached(i) => File(i).ino \in DOMAIN hash' /\ hash'[File(i).ino].start = n
          <5>1. CASE Hit(i)
            BY <1>6, <1>13, <5>1 DEF Hit
          <5>2. CASE ~Hit(i)
            BY <1>13, <5>2
          <5> QED  BY <5>1, <5>2
        <4> QED  BY <1>6, <1>19, <3>1, <4>1
      <3>2. CASE Old(e)
        <4>1. start'[e] = start[e] /\ start[e] \in Int /\ start[e] > null
          BY <1>17, <1>18, <3>2
        <4>2. Cached(e) => File(e).ino \in DOMAIN hash' /\ hash'[File(e).ino].start = start[e]
          BY <1>13, <1>18, <3>2
        <4> QED  BY <1>1, <1>19, <4>1, <4>2
      <3> QED  BY <2>1, <3>1, <3>2
    <2>2. ASSUME NEW e \in Visible, NEW d \in Visible, Old(e) \/ e = i, Old(d) \/ d = i
          PROVE  start'[e] = start'[d] <=> e = d \/ Twin(e, d)
      <3>1. CASE Old(e) /\ Old(d)
        BY <1>17, <1>18, <3>1
      <3>2. CASE e = i /\ d = i
        BY <3>2
      <3>3. CASE e = i /\ Old(d)
        <4>1. n = start[d] <=> Twin(i, d)
          BY <1>20, <3>3
        <4>2. d # i /\ start'[d] = start[d]
          BY <1>17, <3>3
        <4> QED  BY <1>6, <3>3, <4>1, <4>2
      <3>4. CASE Old(e) /\ d = i
        <4>1. n = start[e] <=> Twin(i, e)
          BY <1>20, <3>4
        <4>2. e # i /\ start'[e] = start[e]
          BY <1>17, <3>4
        <4>3. Twin(i, e) <=> Twin(e, i)
          BY DEF Twin
        <4> QED  BY <1>6, <3>4, <4>1, <4>2, <4>3
      <3> QED  BY <2>2, <3>1, <3>2, <3>3, <3>4
    <2>3. \A e, d \in Visible : Emptied(e)' /\ Emptied(d)' =>
             (start'[e] = start'[d] <=> e = d \/ Twin(e, d)')
      BY <1>3, <1>17, <2>2
    <2>4. \A e \in Visible : Emptied(e)' =>
             /\ start'[e] \in Int /\ start'[e] > null'
             /\ Cached(e)' => File(e)'.ino \in DOMAIN hash' /\ hash'[File(e)'.ino].start = start'[e]
      BY <1>3, <1>17, <2>1
    <2> QED  BY <1>3, <2>3, <2>4 DEF Topped
  <1>22. Above'
    BY <1>0, <1>19 DEF Above
  <1> QED  BY <1>10, <1>11, <1>12, <1>16, <1>21, <1>22 DEF Numbered

\* Before the second pass the numbers from the top have stayed above the data.
LEMMA NumberedStart ==
    ASSUME EndInv, LayoutInv, EnoughNumbers, Numbered, StartWriting
    PROVE  Numbered'
  <1>0. /\ pc = "inodes" /\ pc' = "write" /\ (i > Len(dir) \/ ~job.cache)
        /\ UNCHANGED <<job, dir, ext, start, weight, hash, list, null>>
    BY DEF StartWriting, given, entries
  <1> SUFFICES ASSUME job.cache PROVE Numbered'
    BY <1>0 DEF Numbered
  <1>1. /\ Kinds /\ Anchored /\ Firsts /\ Laters /\ Topped /\ null \in Int
        /\ null >= last /\ i > Len(dir)
    BY <1>0 DEF EndInv, Numbered, Above, EnoughNumbers
  <1>2. /\ Elems' = Elems /\ Visible' = Visible
        /\ \A e : Earlier(e)' <=> Earlier(e)
        /\ \A d, e : Twin(d, e)' <=> Twin(d, e)
    <2>1. Elems' = Elems
      BY <1>0 DEF Elems
    <2> QED  BY <1>0, <2>1, Steady
  <1>3. \A e : Takes(e)' <=> Takes(e)
    BY <1>0, <1>2, TakesSteady
  <1>4. \A e \in Visible : e < i
    <2>1. i \in Nat /\ Len(dir) \in Nat
      BY <1>1, JobFacts DEF Kinds
    <2> QED  BY <1>1, <2>1 DEF Visible
  <1>5. Anchored'
    BY <1>0, <1>1, <1>2 DEF Anchored
  <1>6. Firsts'
    <2>1. \A e \in Visible : dir[e].size > 0 /\ dir[e].off = 0 /\ ~Earlier(e) => Takes(e)
      BY <1>0, <1>1 DEF Firsts
    <2> QED  BY <1>0, <1>2, <1>3, <2>1 DEF Firsts
  <1>7. Laters'
    <2>1. \A e \in Visible : dir[e].off > 0 /\ ~Earlier(e) => Takes(e)
      BY <1>0, <1>1, <1>4 DEF Laters
    <2> QED  BY <1>0, <1>2, <1>3, <2>1 DEF Laters
  <1>8. Remembered'
    BY <1>0 DEF Remembered
  <1>9. Topped'
    <2>1. \A e \in Visible : Emptied(e)' <=> Emptied(e)
      BY <1>0, <1>4 DEF Emptied
    <2>2. /\ \A e \in Visible : Emptied(e) => start[e] \in Int /\ start[e] > null
          /\ \A e, d \in Visible : Emptied(e) /\ Emptied(d) =>
                (start[e] = start[d] <=> e = d \/ Twin(e, d))
      BY <1>0, <1>1 DEF Topped
    <2> QED  BY <1>0, <1>2, <2>1, <2>2 DEF Topped
  <1>10. Above'
    <2>1. \A k \in Elems : /\ list[k].ext \in Int /\ list[k].size \in Nat
                           /\ list[k].ext + list[k].size <= last
      BY <1>0, ElementFacts
    <2>2. last \in Int
      BY <1>1 DEF Kinds
    <2>3. \A k \in Elems : list[k].ext + list[k].size <= null
      BY <1>1, <2>1, <2>2
    <2> QED  BY <1>0, <1>1, <1>2, <2>3 DEF Above
  <1> QED  BY <1>5, <1>6, <1>7, <1>8, <1>9, <1>10 DEF Numbered

\* The second pass changes no number.
LEMMA NumberedQuiet ==
    ASSUME Numbered, UNCHANGED <<job, dir, ext, start, weight, hash, list, null>>,
           \/ pc' = pc /\ i' = i
           \/ pc = "write" /\ pc' \in {"write", "done", "botch", "aborted"}
    PROVE  Numbered'
  <1> SUFFICES ASSUME job.cache, pc \notin {"aborted", "botch"},
                      pc' \notin {"aborted", "botch"}
               PROVE  Numbered'
    BY DEF Numbered
  <1>1. Anchored /\ Firsts /\ Laters /\ Remembered /\ Topped /\ Above
    BY DEF Numbered
  <1>2. /\ Elems' = Elems /\ Visible' = Visible
        /\ \A e : /\ File(e)' = File(e) /\ (Cached(e)' <=> Cached(e))
                  /\ (InSections(e)' <=> InSections(e)) /\ (Earlier(e)' <=> Earlier(e))
        /\ \A d, e : Twin(d, e)' <=> Twin(d, e)
    <2>1. Elems' = Elems
      BY DEF Elems
    <2> QED  BY <2>1, Steady
  <1>3. \A e : (Takes(e)' <=> Takes(e)) /\ (Waits(e)' <=> Waits(e))
    <2>1. \A e : Takes(e)' <=> Takes(e)
      BY <1>2, TakesSteady
    <2> QED  BY <1>2, <2>1 DEF Waits
  <1>4. \A e : pc \in {"write", "done"} \/ (pc = pc' /\ i' = i) => (Emptied(e)' <=> Emptied(e))
    BY DEF Emptied
  <1>5. Anchored'
    BY <1>1, <1>2 DEF Anchored
  <1>6. Firsts'
    BY <1>1, <1>2, <1>3 DEF Firsts
  <1>7. Laters'
    BY <1>1, <1>2, <1>3 DEF Laters
  <1>8. Remembered'
    BY <1>1, <1>2 DEF Remembered
  <1>9. Topped'
    BY <1>1, <1>2, <1>4 DEF Topped
  <1>10. Above'
    BY <1>1, <1>2 DEF Above
  <1> QED  BY <1>5, <1>6, <1>7, <1>8, <1>9, <1>10 DEF Numbered

\* Every step keeps the numbers right.
LEMMA NumberedNext ==
    EndInv /\ LayoutInv /\ FillsUpOnce /\ Supported /\ EnoughNumbers /\ Numbered /\ [Next]_vars
        => Numbered'
  <1> SUFFICES ASSUME EndInv, LayoutInv, FillsUpOnce, Supported, EnoughNumbers, Numbered,
                      [Next]_vars
               PROVE  Numbered'
    OBVIOUS
  <1>1. CASE AssignKnown \/ AssignEmpty
    BY <1>1, NumberedPassed
  <1>2. CASE AssignLinked
    BY <1>2, NumberedLinked
  <1>3. CASE AssignNew
    BY <1>3, NumberedNew
  <1>4. CASE AssignedAll
    BY <1>4, NumberedAll
  <1>5. CASE Sort
    BY <1>5, NumberedSort
  <1>6. CASE Reassign
    BY <1>6, NumberedReassign
  <1>7. CASE Hfs
    BY <1>7, NumberedHfs
  <1>8. CASE NumberFile
    BY <1>8, NumberedFile
  <1>9. CASE NumberEmpty
    BY <1>9, NumberedEmpty
  <1>10. CASE StartWriting
    BY <1>10, NumberedStart
  <1>11. CASE WriteFile \/ WritePadding \/ Abort \/ Finish
    <2>1. /\ UNCHANGED <<job, dir, ext, start, weight, hash, list, null>>
          /\ pc = "write" /\ pc' \in {"write", "done", "botch", "aborted"}
      BY <1>11 DEF WriteFile, WritePadding, Abort, Finish, given, entries, deferred
    <2> QED  BY <2>1, NumberedQuiet
  <1>12. CASE UNCHANGED vars
    <2>1. UNCHANGED <<job, dir, ext, start, weight, hash, list, null>> /\ pc' = pc /\ i' = i
      BY <1>12 DEF vars
    <2> QED  BY <2>1, NumberedQuiet
  <1> QED  BY <1>1, <1>2, <1>3, <1>4, <1>5, <1>6, <1>7, <1>8, <1>9, <1>10, <1>11, <1>12
           DEF Next, Done

\* In the finished image names of one file, and only they, have the same number.
LEMMA SameInodeFinal == EndInv /\ LayoutInv /\ Numbered => SameInode
  <1> SUFFICES ASSUME EndInv, LayoutInv, Numbered, pc = "done", job.cache,
                      NEW e \in Visible, NEW d \in Visible, ~Earlier(e), ~Earlier(d)
               PROVE  start[e] = start[d] <=> Alike(e, d)
    <2> SUFFICES ASSUME EndInv, LayoutInv, Numbered, pc = "done", job.cache,
                        NEW e \in DOMAIN start, NEW d \in DOMAIN start, ~Hidden(e), ~Hidden(d),
                        ~(File(e).prev > 0), ~(File(d).prev > 0)
                 PROVE  (start[e] = start[d]) <=>
                            \/ dir[e].f = dir[d].f
                            \/ File(e).ino = File(d).ino /\ Cached(e) /\ Cached(d)
      BY DEF SameInode, Complete
    <2>1. e \in Visible /\ d \in Visible
      BY DEF Visible, LayoutInv, Kept
    <2> QED  BY <2>1 DEF Alike, Twin, Earlier
  <1>1. Kinds /\ Anchored /\ Firsts /\ Laters /\ Topped /\ Above
    BY DEF EndInv, Numbered
  \* Data.
  <1>2. ASSUME NEW x \in Visible, ~Earlier(x), dir[x].size > 0 PROVE Takes(x)
    <2>1. dir[x].off \in Nat
      BY <1>1, OffsetFacts
    <2>2. CASE dir[x].off = 0
      BY <1>1, <1>2, <2>2 DEF Firsts
    <2>3. CASE dir[x].off > 0
      BY <1>1, <1>2, <2>3 DEF Laters
    <2> QED  BY <2>1, <2>2, <2>3
  <1>3. /\ \A k \in Elems : /\ list[k].ext \in Int /\ list[k].size \in Nat
                            /\ list[k].ext + list[k].size <= null
                            /\ start[list[k].e] \in Int /\ list[k].ext <= start[list[k].e]
                            /\ start[list[k].e] < list[k].ext + list[k].size
        /\ \A j, k \in Elems : j < k => list[j].ext + list[j].size <= list[k].ext
        /\ null \in Int
    <2>1. /\ \A k \in Elems : list[k].ext \in Int /\ list[k].size \in Nat
          /\ \A j, k \in Elems : j < k => list[j].ext + list[j].size <= list[k].ext
      BY ElementFacts
    <2>2. \A k \in Elems : list[k].ext + list[k].size <= null
      BY <1>1 DEF Above
    <2>3. \A k \in Elems : /\ start[list[k].e] \in Int /\ list[k].ext <= start[list[k].e]
                           /\ start[list[k].e] < list[k].ext + list[k].size
      BY <1>1 DEF Anchored
    <2> QED  BY <1>1, <2>1, <2>2, <2>3 DEF Above
  <1>4. \A j, k \in Elems : start[list[j].e] = start[list[k].e] => j = k
    <2> SUFFICES ASSUME NEW j \in Elems, NEW k \in Elems, j < k
                 PROVE  start[list[j].e] # start[list[k].e]
      <3>1. \A k \in Elems : k \in Int
        BY DEF Elems
      <3> QED  BY <3>1
    <2>1. list[j].ext + list[j].size <= list[k].ext
      BY <1>3
    <2> QED  BY <1>3, <2>1
  <1>5. CASE dir[e].size > 0 /\ dir[d].size > 0
    <2>1. PICK j \in Elems : Alike(list[j].e, e) /\ start[e] = start[list[j].e]
      BY <1>2, <1>5 DEF Takes
    <2>2. PICK k \in Elems : Alike(list[k].e, d) /\ start[d] = start[list[k].e]
      BY <1>2, <1>5 DEF Takes
    <2>3. ASSUME Alike(e, d) PROVE start[e] = start[d]
      <3>1. Alike(list[j].e, d)
        BY <2>1, <2>3, AlikeFacts
      <3>2. j = k
        BY <2>2, <3>1, OneElement
      <3> QED  BY <2>1, <2>2, <3>2
    <2>4. ASSUME start[e] = start[d] PROVE Alike(e, d)
      <3>1. j = k
        BY <1>4, <2>1, <2>2, <2>4
      <3>2. Alike(e, list[j].e) /\ Alike(list[j].e, d)
        BY <2>1, <2>2, <3>1, AlikeFacts
      <3> QED  BY <3>2, AlikeFacts
    <2> QED  BY <2>3, <2>4
  \* Empty files.
  <1>6. \A x \in Visible : dir[x].size = 0 => start[x] \in Int /\ start[x] > null
    BY <1>1 DEF Topped, Emptied
  <1>7. CASE dir[e].size = 0 /\ dir[d].size = 0
    <2>1. start[e] = start[d] <=> e = d \/ Twin(e, d)
      BY <1>1, <1>7 DEF Topped, Emptied
    <2>2. dir[e].f = dir[d].f => e = d
      <3>1. e = Begin(e) /\ d = Begin(d)
        BY <1>1, <1>7, EmptyFacts DEF Visible
      <3> QED  BY <3>1, SameFile
    <2> QED  BY <2>1, <2>2 DEF Alike
  <1>8. ASSUME NEW x \in Visible, NEW y \in Visible, ~Earlier(x),
               dir[x].size > 0, dir[y].size = 0
        PROVE  start[x] # start[y] /\ ~Alike(x, y)
    <2>1. PICK k \in Elems : start[x] = start[list[k].e]
      BY <1>2, <1>8 DEF Takes
    <2>2. start[x] # start[y]
      BY <1>3, <1>6, <1>8, <2>1
    <2> QED  BY <1>1, <1>8, <2>2, AlikeSize
  <1>9. dir[e].size \in Nat /\ dir[d].size \in Nat
    BY <1>1, OffsetFacts
  <1>10. CASE dir[e].size > 0 /\ dir[d].size = 0
    BY <1>8, <1>10
  <1>11. CASE dir[e].size = 0 /\ dir[d].size > 0
    BY <1>8, <1>11, AlikeFacts
  <1> QED  BY <1>5, <1>7, <1>9, <1>10, <1>11

\* In an image mkisofs completes two names have the same inode number exactly if
\* they are names of one file, whatever was linked, sorted or moved for a Macintosh
\* volume, and empty files differ from each other and from all that have data.  The
\* numbers from the top must not run out, which do_inode() checks for Rock Ridge.
THEOREM OneNumberPerFile ==
    Spec /\ [](FillsUpOnce /\ Supported /\ EnoughNumbers) => []SameInode
  <1> DEFINE Inv == EndInv /\ LayoutInv /\ Numbered
             Given == FillsUpOnce /\ Supported /\ EnoughNumbers
  <1>1. Init => Inv
    BY EndInit, LayoutInit, NumberedInit
  <1>2. Inv /\ Given /\ [Next]_vars => Inv'
    BY EndNext, LayoutNext, NumberedNext
  <1>3. Inv => SameInode
    BY SameInodeFinal
  <1> HIDE DEF Inv, Given
  <1>4. Spec /\ []Given => []SameInode
    BY <1>1, <1>2, <1>3, PTL DEF Spec
  <1> QED  BY <1>4 DEF Given
=============================================================================
