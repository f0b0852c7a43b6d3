---------------------------- MODULE PackingProof ----------------------------
(***************************************************************************)
(* What Pack returns, for every list of files and every pair of limits:    *)
(* the facts about it that the proofs of the source role rest on.          *)
(*                                                                         *)
(* Pack is a recursive function over the positions of its input, and the   *)
(* provers have no induction of their own. The library's least-element     *)
(* theorem WFMin is about sets, and gives induction for a property that is *)
(* written as a set of numbers.                                            *)
(***************************************************************************)
EXTENDS Batching, TLAPS, WellFoundedInduction

\* A set of natural numbers that is not empty has a least element.
LEMMA LeastNumber ==
  ASSUME NEW T, T \subseteq Nat, T # {}
  PROVE  \E x \in T : \A y \in T : x <= y
<1> DEFINE R == OpToRel(<, Nat)
<1>1. IsWellFoundedOn(R, Nat)
  BY NatLessThanWellFounded
<1>2. \A x, y \in Nat : y < x => <<y, x>> \in R
  BY DEF OpToRel
<1> HIDE DEF R
<1>3. PICK x \in T : \A y \in T : ~(<<y, x>> \in R)
  BY <1>1, WFMin
<1>4. \A y \in T : ~(y < x)
  BY <1>2, <1>3
<1>5. \A y \in T : x <= y
  BY <1>4
<1>6. QED BY <1>5

\* Induction, for a set in the place of a property.
LEMMA Induction ==
  ASSUME NEW S, 0 \in S, \A n \in Nat : n \in S => n + 1 \in S
  PROVE  Nat \subseteq S
<1> SUFFICES ASSUME Nat \ S # {} PROVE FALSE
  OBVIOUS
<1>1. PICK x \in Nat \ S : \A y \in Nat \ S : x <= y
  BY LeastNumber
<1>2. x # 0 /\ x - 1 \in Nat
  BY <1>1
<1>3. x - 1 \in S
  BY <1>1, <1>2
<1>4. QED BY <1>1, <1>2, <1>3

-----------------------------------------------------------------------------
\* The equation of Packings up to position n.
IsPacked(r, files, maxFiles, maxBytes, n) ==
  r = [i \in 0 .. n |->
         IF i = 0 THEN EmptyPacking
         ELSE PackFile(r[i - 1], files[i], MaxFilesOf(maxFiles), MaxBytesOf(maxBytes))]

\* A function that satisfies the equation exists, up to every position.
LEMMA PackedExists ==
  ASSUME NEW files, NEW maxFiles, NEW maxBytes
  PROVE  \A n \in Nat : \E r : IsPacked(r, files, maxFiles, maxBytes, n)
<1> DEFINE Step(p, i) == PackFile(p, files[i], MaxFilesOf(maxFiles), MaxBytesOf(maxBytes))
           E(r, n) == r = [i \in 0 .. n |-> IF i = 0 THEN EmptyPacking ELSE Step(r[i - 1], i)]
           S == {n \in Nat : \E r : E(r, n)}
<1> HIDE DEF Step
<1>1. 0 \in S
  <2> DEFINE r == [i \in 0 .. 0 |-> EmptyPacking]
  <2>1. E(r, 0)
    OBVIOUS
  <2>2. QED BY <2>1
<1>2. ASSUME NEW n \in Nat, n \in S PROVE n + 1 \in S
  <2>1. PICK r : E(r, n)
    BY <1>2
  <2> DEFINE q == [i \in 0 .. (n + 1) |-> IF i = n + 1 THEN Step(r[n], n + 1) ELSE r[i]]
  <2>2. \A i \in 0 .. n : q[i] = r[i]
    OBVIOUS
  <2>3. ASSUME NEW i \in 0 .. (n + 1)
        PROVE  q[i] = IF i = 0 THEN EmptyPacking ELSE Step(q[i - 1], i)
    <3>1. CASE i = n + 1
      BY <3>1, <2>2
    <3>2. CASE i # n + 1 /\ i = 0
      BY <3>2, <2>1
    <3>3. CASE i # n + 1 /\ i # 0
      <4>1. i \in 0 .. n /\ i - 1 \in 0 .. n
        BY <3>3
      <4>2. r[i] = Step(r[i - 1], i)
        BY <2>1, <3>3, <4>1
      <4>3. QED BY <2>2, <3>3, <4>1, <4>2
    <3>4. QED BY <3>1, <3>2, <3>3
  <2>4. E(q, n + 1)
    BY <2>3
  <2> HIDE DEF q, E
  <2>5. QED BY <2>4
<1>3. Nat \subseteq S
  <2> HIDE DEF S
  <2>1. QED BY <1>1, <1>2, Induction
<1>4. QED BY <1>3 DEF IsPacked, Step

\* Packings satisfies its equation: the first packing is empty, each other
\* one comes from the one before it by an iteration of the loop.
LEMMA PackingsDef ==
  ASSUME NEW files, Len(files) \in Nat, NEW maxFiles, NEW maxBytes
  PROVE  LET P == Packings(files, maxFiles, maxBytes)
         IN  /\ P[0] = EmptyPacking
             /\ \A i \in 1 .. Len(files) :
                  P[i] = PackFile(P[i - 1], files[i], MaxFilesOf(maxFiles), MaxBytesOf(maxBytes))
<1> DEFINE P == Packings(files, maxFiles, maxBytes)
           n == Len(files)
<1>1. P = CHOOSE r : IsPacked(r, files, maxFiles, maxBytes, n)
  BY DEF Packings, IsPacked
<1>2. IsPacked(P, files, maxFiles, maxBytes, n)
  BY <1>1, PackedExists
<1> HIDE DEF P
<1>3. \A i \in 0 .. n : P[i] = IF i = 0 THEN EmptyPacking
                               ELSE PackFile(P[i - 1], files[i], MaxFilesOf(maxFiles), MaxBytesOf(maxBytes))
  BY <1>2 DEF IsPacked
<1>4. QED BY <1>3 DEF P

-----------------------------------------------------------------------------
BatchOf(F) == [Files : Seq(F), Bytes : Nat]

PackingOf(F) == [batches : Seq(BatchOf(F)), cur : BatchOf(F)]

\* One iteration puts the file at the end of the open batch, or closes the
\* open batch, which is not empty, and starts another (batching.go:42-49).
LEMMA PackFileEither ==
  ASSUME NEW F, NEW p \in PackingOf(F), NEW f \in F, f.Size \in Nat,
         NEW maxFiles, NEW maxBytes
  PROVE  LET q == PackFile(p, f, maxFiles, maxBytes)
         IN  /\ q \in PackingOf(F)
             /\ \/ /\ q.batches = p.batches
                   /\ q.cur.Files = Append(p.cur.Files, f)
                \/ /\ p.cur.Files # <<>>
                   /\ q.batches = Append(p.batches, p.cur)
                   /\ q.cur.Files = <<f>>
<1> DEFINE q == PackFile(p, f, maxFiles, maxBytes)
           Put(c) == [Files |-> Append(c.Files, f), Bytes |-> (c.Bytes + f.Size) % Word]
<1>1. /\ p.batches \in Seq(BatchOf(F)) /\ p.cur \in BatchOf(F)
      /\ p = [batches |-> p.batches, cur |-> p.cur]
      /\ p.cur.Files \in Seq(F) /\ p.cur.Bytes \in Nat
  BY DEF PackingOf, BatchOf
<1>2. \A c \in BatchOf(F) : Put(c) \in BatchOf(F)
  BY WordAssumption DEF BatchOf
<1>3. EmptyBatch \in BatchOf(F) /\ EmptyBatch.Files = <<>>
  BY DEF EmptyBatch, BatchOf
<1>4. q = [p EXCEPT !.cur = Put(p.cur)] \/ q = [flush(p) EXCEPT !.cur = Put(flush(p).cur)]
  BY DEF PackFile
<1>5. Put(EmptyBatch).Files = Append(<<>>, f) /\ Put(p.cur).Files = Append(p.cur.Files, f)
  BY <1>3
<1> HIDE DEF Put, q
<1>6. \/ q = [batches |-> p.batches, cur |-> Put(p.cur)]
      \/ /\ p.cur.Files # <<>>
         /\ q = [batches |-> Append(p.batches, p.cur), cur |-> Put(EmptyBatch)]
  <2>1. CASE q = [p EXCEPT !.cur = Put(p.cur)]
    BY <1>1, <2>1
  <2>2. CASE q = [flush(p) EXCEPT !.cur = Put(flush(p).cur)]
    <3>1. CASE Len(p.cur.Files) > 0
      <4>1. flush(p) = [batches |-> Append(p.batches, p.cur), cur |-> EmptyBatch]
        BY <3>1 DEF flush
      <4>2. p.cur.Files # <<>>
        BY <3>1
      <4>3. q = [[batches |-> Append(p.batches, p.cur), cur |-> EmptyBatch]
                   EXCEPT !.cur = Put(EmptyBatch)]
        BY <2>2, <4>1
      <4>4. QED BY <4>2, <4>3
    <3>2. CASE ~(Len(p.cur.Files) > 0)
      <4>1. flush(p) = p
        BY <3>2 DEF flush
      <4>2. q = [p EXCEPT !.cur = Put(p.cur)]
        BY <2>2, <4>1
      <4>3. QED BY <2>1, <4>2
    <3>3. QED BY <3>1, <3>2
  <2>3. QED BY <1>4, <2>1, <2>2
<1>7. /\ Put(EmptyBatch) \in BatchOf(F) /\ Put(EmptyBatch).Files = <<f>>
      /\ Put(p.cur) \in BatchOf(F) /\ Put(p.cur).Files = Append(p.cur.Files, f)
  BY <1>1, <1>2, <1>3, <1>5
<1>8. Append(p.batches, p.cur) \in Seq(BatchOf(F))
  BY <1>1
<1>9. q \in PackingOf(F)
  BY <1>1, <1>6, <1>7, <1>8 DEF PackingOf
<1>10. QED BY <1>6, <1>7, <1>9 DEF q

\* The elements of a sequence, and the files of a list of batches.
Elements(s) == {s[i] : i \in 1 .. Len(s)}

FilesOf(B) == UNION {Elements(B[i].Files) : i \in 1 .. Len(B)}

LEMMA ElementsAppend ==
  ASSUME NEW T, NEW s \in Seq(T), NEW x \in T
  PROVE  Elements(Append(s, x)) = Elements(s) \cup {x}
<1>1. /\ Len(Append(s, x)) = Len(s) + 1 /\ Len(s) \in Nat
      /\ Append(s, x)[Len(s) + 1] = x
      /\ \A i \in 1 .. Len(s) : Append(s, x)[i] = s[i]
  OBVIOUS
<1> DEFINE t == Append(s, x)
<1> HIDE DEF t
<1>2. 1 .. (Len(s) + 1) = (1 .. Len(s)) \cup {Len(s) + 1}
  BY <1>1
<1>3. QED BY <1>1, <1>2 DEF Elements

LEMMA FilesOfAppend ==
  ASSUME NEW F, NEW B \in Seq(BatchOf(F)), NEW b \in BatchOf(F)
  PROVE  FilesOf(Append(B, b)) = FilesOf(B) \cup Elements(b.Files)
<1>1. /\ Len(Append(B, b)) = Len(B) + 1 /\ Len(B) \in Nat
      /\ Append(B, b)[Len(B) + 1] = b
      /\ \A i \in 1 .. Len(B) : Append(B, b)[i] = B[i]
  OBVIOUS
<1>2. 1 .. (Len(B) + 1) = (1 .. Len(B)) \cup {Len(B) + 1}
  BY <1>1
<1>3. QED BY <1>1, <1>2 DEF FilesOf

\* A packing of the first n files: nothing is lost, nothing is added, and no
\* closed batch is empty.
PacksFirst(p, files, n) ==
  /\ FilesOf(p.batches) \cup Elements(p.cur.Files) = {files[j] : j \in 1 .. n}
  /\ \A i \in 1 .. Len(p.batches) : p.batches[i].Files # <<>>

LEMMA PacksNext ==
  ASSUME NEW F, \A f \in F : f.Size \in Nat, NEW files \in Seq(F),
         NEW n \in Nat, n < Len(files), NEW p \in PackingOf(F), PacksFirst(p, files, n),
         NEW maxFiles, NEW maxBytes
  PROVE  LET q == PackFile(p, files[n + 1], maxFiles, maxBytes)
         IN  q \in PackingOf(F) /\ PacksFirst(q, files, n + 1)
<1> DEFINE f == files[n + 1]
           q == PackFile(p, f, maxFiles, maxBytes)
<1>1. f \in F /\ f.Size \in Nat
  OBVIOUS
<1>2. /\ p.batches \in Seq(BatchOf(F)) /\ p.cur \in BatchOf(F) /\ p.cur.Files \in Seq(F)
  BY DEF PackingOf, BatchOf
<1>3. {files[j] : j \in 1 .. (n + 1)} = {files[j] : j \in 1 .. n} \cup {f}
  <2>1. 1 .. (n + 1) = (1 .. n) \cup {n + 1}
    OBVIOUS
  <2>2. QED BY <2>1
<1>4. /\ q \in PackingOf(F)
      /\ \/ /\ q.batches = p.batches
            /\ q.cur.Files = Append(p.cur.Files, f)
         \/ /\ p.cur.Files # <<>>
            /\ q.batches = Append(p.batches, p.cur)
            /\ q.cur.Files = <<f>>
  BY <1>1, PackFileEither
<1> HIDE DEF q, f
<1>5. CASE q.batches = p.batches /\ q.cur.Files = Append(p.cur.Files, f)
  <2>1. Elements(q.cur.Files) = Elements(p.cur.Files) \cup {f}
    BY <1>1, <1>2, <1>5, ElementsAppend
  <2>2. QED BY <1>3, <1>4, <1>5, <2>1 DEF PacksFirst, q, f
<1>6. CASE /\ p.cur.Files # <<>> /\ q.batches = Append(p.batches, p.cur)
           /\ q.cur.Files = <<f>>
  <2>1. FilesOf(q.batches) = FilesOf(p.batches) \cup Elements(p.cur.Files)
    BY <1>2, <1>6, FilesOfAppend
  <2>2. Elements(q.cur.Files) = {f}
    BY <1>6 DEF Elements
  <2>3. \A i \in 1 .. Len(q.batches) : q.batches[i].Files # <<>>
    <3>1. /\ Len(q.batches) = Len(p.batches) + 1 /\ Len(p.batches) \in Nat
          /\ q.batches[Len(p.batches) + 1] = p.cur
          /\ \A i \in 1 .. Len(p.batches) : q.batches[i] = p.batches[i]
      BY <1>2, <1>6
    <3>2. QED BY <1>6, <3>1 DEF PacksFirst
  <2>4. PacksFirst(q, files, n + 1)
    BY <1>3, <2>1, <2>2, <2>3 DEF PacksFirst
  <2>5. QED BY <1>4, <2>4 DEF q, f
<1>7. QED BY <1>4, <1>5, <1>6

LEMMA PackingsPack ==
  ASSUME NEW F, \A f \in F : f.Size \in Nat, NEW files \in Seq(F),
         NEW maxFiles, NEW maxBytes
  PROVE  \A n \in 0 .. Len(files) :
            LET p == Packings(files, maxFiles, maxBytes)[n]
            IN  p \in PackingOf(F) /\ PacksFirst(p, files, n)
<1> DEFINE P == Packings(files, maxFiles, maxBytes)
           G(n) == P[n] \in PackingOf(F) /\ PacksFirst(P[n], files, n)
           S == {n \in Nat : n <= Len(files) => G(n)}
<1>0. /\ P[0] = EmptyPacking
      /\ \A i \in 1 .. Len(files) :
            P[i] = PackFile(P[i - 1], files[i], MaxFilesOf(maxFiles), MaxBytesOf(maxBytes))
  BY PackingsDef
<1> HIDE DEF P
<1>1. 0 \in S
  <2>1. EmptyPacking \in PackingOf(F) /\ PacksFirst(EmptyPacking, files, 0)
    BY DEF EmptyPacking, EmptyBatch, PackingOf, BatchOf, PacksFirst, FilesOf, Elements
  <2>2. QED BY <1>0, <2>1
<1>2. ASSUME NEW n \in Nat, n \in S PROVE n + 1 \in S
  <2> SUFFICES ASSUME n + 1 <= Len(files) PROVE G(n + 1)
    OBVIOUS
  <2>1. n < Len(files) /\ P[n] \in PackingOf(F) /\ PacksFirst(P[n], files, n)
    BY <1>2
  <2>2. P[n + 1] = PackFile(P[n], files[n + 1], MaxFilesOf(maxFiles), MaxBytesOf(maxBytes))
    BY <1>0, <2>1
  <2>3. QED BY <2>1, <2>2, PacksNext
<1>3. Nat \subseteq S
  <2> HIDE DEF S
  <2>1. QED BY <1>1, <1>2, Induction
<1>4. QED BY <1>3 DEF P

\* Pack puts every file into a batch, puts nothing else into one, and
\* returns no empty batch, whatever the limits (batching.go:21-24, 50-51).
THEOREM PackKeepsFiles ==
  ASSUME NEW F, \A f \in F : f.Size \in Nat, NEW files \in Seq(F),
         NEW maxFiles, NEW maxBytes
  PROVE  LET B == Pack(files, maxFiles, maxBytes)
         IN  /\ B \in Seq(BatchOf(F))
             /\ FilesOf(B) = Elements(files)
             /\ \A i \in 1 .. Len(B) : B[i].Files # <<>>
<1> DEFINE p == Packings(files, maxFiles, maxBytes)[Len(files)]
           B == Pack(files, maxFiles, maxBytes)
<1>1. p \in PackingOf(F) /\ PacksFirst(p, files, Len(files))
  BY PackingsPack
<1>2. B = flush(p).batches
  BY DEF Pack
<1> HIDE DEF p, B
<1>3. p.batches \in Seq(BatchOf(F)) /\ p.cur \in BatchOf(F) /\ p.cur.Files \in Seq(F)
  BY <1>1 DEF PackingOf, BatchOf
<1>4. CASE Len(p.cur.Files) > 0
  <2>1. B = Append(p.batches, p.cur) /\ p.cur.Files # <<>>
    BY <1>2, <1>4 DEF flush
  <2>2. FilesOf(B) = FilesOf(p.batches) \cup Elements(p.cur.Files)
    BY <1>3, <2>1, FilesOfAppend
  <2>3. /\ Len(B) = Len(p.batches) + 1 /\ Len(p.batches) \in Nat
        /\ B[Len(p.batches) + 1] = p.cur
        /\ \A i \in 1 .. Len(p.batches) : B[i] = p.batches[i]
    BY <1>3, <2>1
  <2>4. \A i \in 1 .. Len(B) : B[i].Files # <<>>
    BY <1>1, <2>1, <2>3 DEF PacksFirst
  <2>5. FilesOf(B) = Elements(files)
    BY <1>1, <2>2 DEF PacksFirst, Elements
  <2>6. B \in Seq(BatchOf(F))
    BY <1>3, <2>1
  <2>7. QED BY <2>4, <2>5, <2>6 DEF B
<1>5. CASE ~(Len(p.cur.Files) > 0)
  <2>1. B = p.batches
    BY <1>2, <1>5 DEF flush
  <2>2. Elements(p.cur.Files) = {}
    BY <1>3, <1>5 DEF Elements
  <2>3. QED BY <1>1, <1>3, <2>1, <2>2 DEF PacksFirst, Elements, B
<1>6. QED BY <1>4, <1>5
=============================================================================
