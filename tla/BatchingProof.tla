--------------------------- MODULE BatchingProof ----------------------------
(***************************************************************************)
(* Proofs about the loop of Pack, for every list of files, every pair of   *)
(* limits and every word size.                                             *)
(***************************************************************************)
EXTENDS BatchingLoop, PackingProof, SequenceTheorems

\* Whatever the limits given to Pack, the ones it works with are positive
\* (batching.go:26-31).
LEMMA LimitsPositive ==
  ASSUME maxFiles \in Int, maxBytes \in 0 .. (Word - 1)
  PROVE  /\ MaxFilesOf(maxFiles) \in Nat \ {0}
         /\ MaxBytesOf(maxBytes) \in 1 .. (Word - 1)
BY WordAssumption, DefaultsAssumption DEF MaxFilesOf, MaxBytesOf

\* The two outcomes of one iteration: the file joins the open batch, which
\* stays within both caps, or the open batch, not empty, is closed and the
\* file starts a new one (batching.go:42-49).
LEMMA PackFileCases ==
  ASSUME TypeOK, NEW f \in File
  PROVE  LET p == packing
             q == PackFile(p, f, MaxFilesOf(maxFiles), MaxBytesOf(maxBytes))
         IN  \/ /\ q.batches = p.batches
                /\ q.cur = [Files |-> Append(p.cur.Files, f),
                            Bytes |-> (p.cur.Bytes + f.Size) % Word]
                /\ Len(p.cur.Files) + 1 <= MaxFilesOf(maxFiles)
                /\ Len(p.cur.Files) > 0 =>
                      (p.cur.Bytes + f.Size) % Word <= MaxBytesOf(maxBytes)
             \/ /\ Len(p.cur.Files) > 0
                /\ q.batches = Append(p.batches, p.cur)
                /\ q.cur = [Files |-> <<f>>, Bytes |-> f.Size % Word]
                /\ \/ Len(p.cur.Files) + 1 > MaxFilesOf(maxFiles)
                   \/ (p.cur.Bytes + f.Size) % Word > MaxBytesOf(maxBytes)
<1> DEFINE p == packing
           mf == MaxFilesOf(maxFiles)
           mb == MaxBytesOf(maxBytes)
           q  == PackFile(p, f, mf, mb)
<1>1. /\ p \in [batches : Seq(Batch), cur : Batch]
      /\ mf \in Nat \ {0} /\ mb \in 1 .. (Word - 1)
      /\ p.cur.Files \in Seq(File) /\ Len(p.cur.Files) \in Nat
      /\ p.cur.Bytes \in Nat /\ f.Size \in Nat /\ Word \in Nat \ {0}
  BY LimitsPositive, WordAssumption DEF TypeOK, Batch, File
<1>2. (p.cur.Bytes + f.Size) % Word \in Nat /\ (0 + f.Size) % Word = f.Size % Word
  BY <1>1
<1>3. CASE ~WouldExceed(p.cur, f, mf, mb)
  <2>1. q = [p EXCEPT !.cur = [Files |-> Append(p.cur.Files, f),
                               Bytes |-> (p.cur.Bytes + f.Size) % Word]]
    BY <1>3 DEF PackFile
  <2>2. /\ Len(p.cur.Files) + 1 <= mf
        /\ Len(p.cur.Files) > 0 => (p.cur.Bytes + f.Size) % Word <= mb
    BY <1>1, <1>2, <1>3 DEF WouldExceed
  <2>3. QED BY <1>1, <2>1, <2>2
<1>4. CASE WouldExceed(p.cur, f, mf, mb)
  <2>1. Len(p.cur.Files) > 0
    BY <1>1, <1>4 DEF WouldExceed
  <2>2. flush(p) = [batches |-> Append(p.batches, p.cur), cur |-> EmptyBatch]
    BY <2>1 DEF flush
  <2>3. q.batches = Append(p.batches, p.cur)
    BY <1>4, <2>2 DEF PackFile
  <2>4. q.cur = [Files |-> Append(<<>>, f), Bytes |-> (0 + f.Size) % Word]
    BY <1>4, <2>2 DEF PackFile, EmptyBatch
  <2>5. Len(p.cur.Files) + 1 > mf \/ (p.cur.Bytes + f.Size) % Word > mb
    BY <1>4 DEF WouldExceed
  <2>6. QED BY <2>1, <2>3, <2>4, <2>5, <1>2
<1>5. QED BY <1>3, <1>4

\* The same for a step of the loop: the file is the one at the loop's
\* position (batching.go:42-49).
LEMMA AddFileCases ==
  ASSUME TypeOK, AddFile
  PROVE  LET f == files[next]
         IN  /\ f \in File /\ f.pos = next /\ f.Size \in Nat
             /\ packing' = [batches |-> packing'.batches, cur |-> packing'.cur]
             /\ \/ /\ packing'.batches = packing.batches
                   /\ packing'.cur = [Files |-> Append(packing.cur.Files, f),
                                      Bytes |-> (packing.cur.Bytes + f.Size) % Word]
                   /\ Len(packing.cur.Files) + 1 <= MaxFilesOf(maxFiles)
                   /\ Len(packing.cur.Files) > 0 =>
                         (packing.cur.Bytes + f.Size) % Word <= MaxBytesOf(maxBytes)
                \/ /\ Len(packing.cur.Files) > 0
                   /\ packing'.batches = Append(packing.batches, packing.cur)
                   /\ packing'.cur = [Files |-> <<f>>, Bytes |-> f.Size % Word]
                   /\ \/ Len(packing.cur.Files) + 1 > MaxFilesOf(maxFiles)
                      \/ (packing.cur.Bytes + f.Size) % Word > MaxBytesOf(maxBytes)
<1> DEFINE f == files[next]
<1>1. f \in File /\ f.pos = next
  BY InputsAssumption DEF AddFile, TypeOK, IsInput
<1>2. f.Size \in Nat
  BY <1>1, WordAssumption DEF File
<1>3. packing' = PackFile(packing, f, MaxFilesOf(maxFiles), MaxBytesOf(maxBytes))
  BY DEF AddFile
<1>4. packing' = [batches |-> packing'.batches, cur |-> packing'.cur]
  BY <1>3 DEF PackFile, flush, TypeOK
<1>5. QED BY <1>1, <1>2, <1>3, <1>4, PackFileCases

\* What TypeOK says of the packing's parts, for the provers.
LEMMA PackingType ==
  ASSUME TypeOK
  PROVE  /\ packing.batches \in Seq(Batch) /\ packing.cur \in Batch
         /\ packing.cur.Files \in Seq(File) /\ packing.cur.Bytes \in Nat
         /\ \A i \in 1 .. Len(packing.batches) :
               packing.batches[i] \in Batch /\ packing.batches[i].Files \in Seq(File)
         /\ MaxFilesOf(maxFiles) \in Nat \ {0} /\ MaxBytesOf(maxBytes) \in Nat
         /\ next \in Nat /\ Word \in Nat \ {0}
<1>1. packing.batches \in Seq(Batch) /\ packing.cur \in Batch
  BY DEF TypeOK
<1>2. \A i \in 1 .. Len(packing.batches) : packing.batches[i] \in Batch
  BY <1>1
<1>3. \A b \in Batch : b.Files \in Seq(File) /\ b.Bytes \in Nat
  BY WordAssumption DEF Batch
<1>4. /\ MaxFilesOf(maxFiles) \in Nat \ {0} /\ MaxBytesOf(maxBytes) \in Nat
      /\ Word \in Nat \ {0}
  BY LimitsPositive, WordAssumption DEF TypeOK
<1>5. next \in Nat
  BY InputsAssumption DEF TypeOK, IsInput
<1>6. QED BY <1>1, <1>2, <1>3, <1>4, <1>5

\* The last flush closes the open batch, or there is none (batching.go:50).
LEMMA FinishCases ==
  ASSUME TypeOK, Finish
  PROVE  \/ /\ packing.cur.Files # <<>>
            /\ packing' = [batches |-> Append(packing.batches, packing.cur), cur |-> EmptyBatch]
         \/ packing.cur.Files = <<>> /\ packing' = packing
BY PackingType DEF Finish, flush

-----------------------------------------------------------------------------
LEMMA TypeInductive == TypeOK /\ [Next]_vars => TypeOK'
<1> SUFFICES ASSUME TypeOK, [Next]_vars PROVE TypeOK'
  OBVIOUS
<1>1. CASE AddFile
  <2> DEFINE f == files[next]
  <2>1. f \in File /\ f.Size \in Nat
    BY <1>1, AddFileCases
  <2>2. /\ (packing.cur.Bytes + f.Size) % Word \in 0 .. (Word - 1)
        /\ f.Size % Word \in 0 .. (Word - 1)
    BY <2>1, PackingType
  <2>3. /\ Append(packing.cur.Files, f) \in Seq(File) /\ <<f>> \in Seq(File)
        /\ Append(packing.batches, packing.cur) \in Seq(Batch)
    BY <2>1, PackingType
  <2>4. /\ [Files |-> Append(packing.cur.Files, f),
            Bytes |-> (packing.cur.Bytes + f.Size) % Word] \in Batch
        /\ [Files |-> <<f>>, Bytes |-> f.Size % Word] \in Batch
    BY <2>2, <2>3 DEF Batch
  <2>5. packing'.batches \in Seq(Batch) /\ packing'.cur \in Batch
    BY <1>1, <2>3, <2>4, AddFileCases, PackingType
  <2>6. packing' \in [batches : Seq(Batch), cur : Batch]
    BY <1>1, <2>5, AddFileCases
  <2>7. QED BY <1>1, <2>6 DEF AddFile, TypeOK
<1>2. CASE Finish
  <2>1. EmptyBatch \in Batch
    BY WordAssumption DEF EmptyBatch, Batch
  <2>2. Append(packing.batches, packing.cur) \in Seq(Batch)
    BY PackingType
  <2>3. packing \in [batches : Seq(Batch), cur : Batch]
    BY DEF TypeOK
  <2>4. packing' \in [batches : Seq(Batch), cur : Batch]
    BY <1>2, <2>1, <2>2, <2>3, FinishCases
  <2>5. QED BY <1>2, <2>4 DEF Finish, TypeOK
<1>3. CASE UNCHANGED vars
  BY <1>3 DEF vars, TypeOK
<1>4. QED BY <1>1, <1>2, <1>3 DEF Next

LEMMA TypeInit == Init => TypeOK
BY WordAssumption, LimitsAssumption, InputsAssumption
   DEF Init, TypeOK, EmptyPacking, EmptyBatch, Batch, ToUint, IsInput

\* Every state of the loop is well typed, on which the theorems below rest.
LEMMA TypeCorrect == Spec => []TypeOK
<1>1. TypeOK /\ [Next]_vars => TypeOK'
  BY TypeInductive
<1>2. QED BY <1>1, TypeInit, PTL DEF Spec

-----------------------------------------------------------------------------
\* Closing a batch that is within the caps keeps the closed ones within them.
LEMMA CapsClose ==
  ASSUME TypeOK, CapsRespected
  PROVE  LET B == Append(packing.batches, packing.cur)
         IN  \A i \in 1 .. Len(B) : WithinCaps(B[i])
<1> DEFINE B == Append(packing.batches, packing.cur)
<1>1. /\ Len(B) = Len(packing.batches) + 1
      /\ \A i \in 1 .. Len(packing.batches) : B[i] = packing.batches[i]
      /\ B[Len(packing.batches) + 1] = packing.cur
  BY PackingType
<1>2. SUFFICES ASSUME NEW i \in 1 .. Len(B) PROVE WithinCaps(B[i])
  OBVIOUS
<1>3. Len(packing.batches) \in Nat
  BY PackingType
<1>4. CASE i = Len(packing.batches) + 1
  BY <1>1, <1>4 DEF CapsRespected
<1>5. CASE i \in 1 .. Len(packing.batches)
  BY <1>1, <1>5 DEF CapsRespected
<1>6. QED BY <1>1, <1>3, <1>4, <1>5

LEMMA CapsInductive == TypeOK /\ CapsRespected /\ [Next]_vars => CapsRespected'
<1> SUFFICES ASSUME TypeOK, CapsRespected, [Next]_vars PROVE CapsRespected'
  OBVIOUS
<1> USE PackingType
<1>1. CASE AddFile
  <2> DEFINE f == files[next]
  <2>1. UNCHANGED <<maxFiles, maxBytes>>
    BY <1>1 DEF AddFile
  <2>2. CASE /\ packing'.batches = packing.batches
             /\ packing'.cur = [Files |-> Append(packing.cur.Files, f),
                                Bytes |-> (packing.cur.Bytes + f.Size) % Word]
             /\ Len(packing.cur.Files) + 1 <= MaxFilesOf(maxFiles)
             /\ Len(packing.cur.Files) > 0 =>
                   (packing.cur.Bytes + f.Size) % Word <= MaxBytesOf(maxBytes)
    <3>1. Len(packing'.cur.Files) = Len(packing.cur.Files) + 1
      BY <2>2
    <3>2. WithinCaps(packing.cur)'
      BY <2>1, <2>2, <3>1 DEF WithinCaps
    <3>3. QED BY <2>1, <2>2, <3>2 DEF CapsRespected, WithinCaps
  <2>3. CASE /\ packing'.batches = Append(packing.batches, packing.cur)
             /\ packing'.cur = [Files |-> <<f>>, Bytes |-> f.Size % Word]
    <3>1. WithinCaps(packing.cur)'
      BY <2>1, <2>3 DEF WithinCaps
    <3>2. QED BY <2>1, <2>3, <3>1, CapsClose DEF CapsRespected, WithinCaps
  <2>4. QED BY <1>1, <2>2, <2>3, AddFileCases
<1>2. CASE Finish
  <2>1. UNCHANGED <<maxFiles, maxBytes>>
    BY <1>2 DEF Finish
  <2>2. CASE packing' = [batches |-> Append(packing.batches, packing.cur), cur |-> EmptyBatch]
    BY <2>1, <2>2, CapsClose DEF CapsRespected, WithinCaps, EmptyBatch
  <2>3. CASE packing' = packing
    BY <2>1, <2>3 DEF CapsRespected, WithinCaps
  <2>4. QED BY <1>2, <2>2, <2>3, FinishCases
<1>3. CASE UNCHANGED vars
  BY <1>3 DEF vars, CapsRespected, WithinCaps
<1>4. QED BY <1>1, <1>2, <1>3 DEF Next

LEMMA CapsInit == Init /\ TypeOK => CapsRespected
BY PackingType DEF Init, CapsRespected, WithinCaps, EmptyPacking, EmptyBatch

\* Pack never builds a bundle over peat's caps, for every input and every
\* limit: too many files never, too many bytes only for a file that is over
\* the cap alone.
THEOREM CapsCorrect == Spec => []CapsRespected
<1>1. Init => TypeOK /\ CapsRespected
  BY TypeInit, CapsInit
<1>2. TypeOK /\ CapsRespected /\ [Next]_vars => TypeOK' /\ CapsRespected'
  BY TypeInductive, CapsInductive
<1>3. QED BY <1>1, <1>2, PTL DEF Spec

-----------------------------------------------------------------------------
Start(B) == IF B = <<>> THEN 1 ELSE LastPos(B[Len(B)]) + 1

\* The closed batches: runs of consecutive files, each beginning where the
\* one before it ended.
Chained(B) ==
  /\ \A i \in 1 .. Len(B) : B[i].Files # <<>> /\ Consecutive(B[i].Files)
  /\ B # <<>> => B[1].Files[1].pos = 1
  /\ \A i \in 1 .. Len(B) - 1 : B[i + 1].Files[1].pos = LastPos(B[i]) + 1

\* The open batch of loop position n.
Open(B, c, n) ==
  /\ Consecutive(c)
  /\ c # <<>> => c[1].pos = Start(B) /\ c[Len(c)].pos = n - 1
  /\ c = <<>> => n = Start(B)

LEMMA OrderSplit ==
  OrderPreserved <=> Chained(packing.batches) /\ Open(packing.batches, packing.cur.Files, next)
BY DEF OrderPreserved, Chained, Open, Start

\* Closing the open batch prolongs the chain up to the loop's position.
LEMMA ChainClose ==
  ASSUME TypeOK, OrderPreserved, packing.cur.Files # <<>>
  PROVE  LET B == Append(packing.batches, packing.cur)
         IN  Chained(B) /\ B # <<>> /\ Start(B) = next
<1> DEFINE A == packing.batches
           b == packing.cur
           n == Len(A)
           B == Append(A, b)
<1>1. /\ A \in Seq(Batch) /\ b \in Batch /\ n \in Nat /\ next \in Nat
      /\ b.Files \in Seq(File) /\ b.Files # <<>>
  BY PackingType
<1>2. Chained(A) /\ Open(A, b.Files, next)
  BY OrderSplit
<1> HIDE DEF A, b
<1>3. /\ Len(B) = n + 1 /\ B # <<>> /\ B[n + 1] = b
      /\ \A i \in 1 .. n : B[i] = A[i]
  BY <1>1
<1>4. A = <<>> <=> n = 0
  BY <1>1
<1>5. \A i \in 1 .. (n + 1) : B[i].Files # <<>> /\ Consecutive(B[i].Files)
  BY <1>1, <1>2, <1>3 DEF Chained, Open
<1>6. B[1].Files[1].pos = 1
  <2>1. CASE n = 0
    BY <1>1, <1>2, <1>3, <1>4, <2>1 DEF Open, Start
  <2>2. CASE n > 0
    BY <1>1, <1>2, <1>3, <1>4, <2>2 DEF Chained
  <2>3. QED BY <1>1, <2>1, <2>2
<1>7. ASSUME NEW i \in 1 .. n
      PROVE  B[i + 1].Files[1].pos = LastPos(B[i]) + 1
  <2>1. CASE i = n
    BY <1>1, <1>2, <1>3, <1>4, <2>1 DEF Open, Start
  <2>2. CASE i < n
    <3>1. i \in 1 .. (n - 1) /\ i + 1 \in 1 .. n
      BY <1>1, <2>2
    <3>2. QED BY <1>1, <1>2, <1>3, <3>1 DEF Chained
  <2>3. QED BY <1>1, <2>1, <2>2
<1>8. Chained(B)
  BY <1>1, <1>3, <1>5, <1>6, <1>7 DEF Chained
<1>9. Start(B) = next
  <2>1. LastPos(b) = next - 1
    BY <1>1, <1>2 DEF Open, LastPos
  <2>2. QED BY <1>1, <1>3, <2>1 DEF Start
<1>10. QED BY <1>3, <1>8, <1>9 DEF A, b

LEMMA OrderInductive == TypeOK /\ OrderPreserved /\ [Next]_vars => OrderPreserved'
<1> SUFFICES ASSUME TypeOK, OrderPreserved, [Next]_vars PROVE OrderPreserved'
  OBVIOUS
<1> DEFINE A == packing.batches
           c == packing.cur.Files
<1>1. /\ A \in Seq(Batch) /\ c \in Seq(File) /\ next \in Nat
      /\ Chained(A) /\ Open(A, c, next)
  BY PackingType, OrderSplit
<1>2. SUFFICES Chained(packing'.batches) /\ Open(packing'.batches, packing'.cur.Files, next')
  BY DEF OrderPreserved, Chained, Open, Start
<1>3. CASE AddFile
  <2> DEFINE f == files[next]
  <2>1. f \in File /\ f.pos = next /\ next' = next + 1
    BY <1>3, AddFileCases DEF AddFile
  <2>2. CASE packing'.batches = A /\ packing'.cur.Files = Append(c, f)
    <3> HIDE DEF A, c, f
    <3> DEFINE d == Append(c, f)
    <3>1. /\ d # <<>> /\ Len(d) = Len(c) + 1 /\ d[Len(c) + 1] = f /\ Len(c) \in Nat
          /\ \A i \in 1 .. Len(c) : d[i] = c[i]
      BY <1>1, <2>1
    <3>2. Consecutive(d)
      <4> SUFFICES ASSUME NEW i \in 1 .. Len(d) - 1 PROVE Follows(d[i], d[i + 1])
        BY DEF Consecutive
      <4>1. CASE i = Len(c)
        BY <1>1, <2>1, <3>1, <4>1 DEF Open, Follows
      <4>2. CASE i < Len(c)
        BY <1>1, <3>1, <4>2 DEF Open, Consecutive
      <4>3. QED BY <3>1, <4>1, <4>2
    <3>3. d[1].pos = Start(A)
      <4>1. CASE c = <<>>
        BY <1>1, <2>1, <3>1, <4>1 DEF Open
      <4>2. CASE c # <<>>
        BY <1>1, <3>1, <4>2 DEF Open
      <4>3. QED BY <4>1, <4>2
    <3>4. d[Len(d)].pos = next' - 1
      BY <1>1, <2>1, <3>1
    <3>5. QED BY <1>1, <2>2, <3>1, <3>2, <3>3, <3>4 DEF Open
  <2>3. CASE /\ c # <<>> /\ packing'.batches = Append(A, packing.cur)
             /\ packing'.cur.Files = <<f>>
    <3>1. Chained(packing'.batches) /\ Start(packing'.batches) = next
      BY <2>3, ChainClose
    <3>2. Consecutive(<<f>>)
      BY DEF Consecutive
    <3> HIDE DEF f
    <3>3. QED BY <1>1, <2>1, <2>3, <3>1, <3>2 DEF Open
  <2>4. QED
    <3>1. \/ packing'.batches = A /\ packing'.cur.Files = Append(c, f)
          \/ /\ Len(c) > 0 /\ packing'.batches = Append(A, packing.cur)
             /\ packing'.cur.Files = <<f>>
      BY <1>3, AddFileCases
    <3>2. QED BY <1>1, <2>2, <2>3, <3>1
<1>4. CASE Finish
  <2>1. next' = next
    BY <1>4 DEF Finish
  <2>2. CASE /\ c # <<>>
             /\ packing' = [batches |-> Append(packing.batches, packing.cur), cur |-> EmptyBatch]
    <3>1. Chained(packing'.batches) /\ Start(packing'.batches) = next
      BY <2>2, ChainClose
    <3>2. packing'.cur.Files = <<>>
      BY <2>2 DEF EmptyBatch
    <3>3. QED BY <2>1, <3>1, <3>2 DEF Open, Consecutive
  <2>3. CASE packing' = packing
    BY <1>1, <2>1, <2>3
  <2>4. QED BY <1>4, <2>2, <2>3, FinishCases
<1>5. CASE UNCHANGED vars
  BY <1>1, <1>5 DEF vars
<1>6. QED BY <1>3, <1>4, <1>5 DEF Next

LEMMA OrderInit == Init => OrderPreserved
BY DEF Init, OrderPreserved, EmptyPacking, EmptyBatch, Consecutive

\* Pack loses, repeats and reorders nothing, for every input and every limit.
THEOREM OrderCorrect == Spec => []OrderPreserved
<1>1. Init => TypeOK /\ OrderPreserved
  BY TypeInit, OrderInit
<1>2. TypeOK /\ OrderPreserved /\ [Next]_vars => TypeOK' /\ OrderPreserved'
  BY TypeInductive, OrderInductive
<1>3. QED BY <1>1, <1>2, PTL DEF Spec

-----------------------------------------------------------------------------
(* A batch is closed only when the next file does not fit.                 *)

TooMuch(b, f) ==
  \/ Len(b.Files) = MaxFilesOf(maxFiles)
  \/ (b.Bytes + f.Size) % Word > MaxBytesOf(maxBytes)

\* ClosedOnlyWhenFull by the closed batches and the open one, and while the
\* loop runs the open one is empty only at the start.
FullBatches ==
  LET B == packing.batches
      c == packing.cur
  IN  /\ \A i \in 1 .. Len(B) - 1 : B[i + 1].Files # <<>> => TooMuch(B[i], B[i + 1].Files[1])
      /\ B # <<>> /\ c.Files # <<>> => TooMuch(B[Len(B)], c.Files[1])
      /\ result = "running" /\ c.Files = <<>> => B = <<>>

LEMMA FullSplit == TypeOK /\ FullBatches => ClosedOnlyWhenFull
<1> SUFFICES ASSUME TypeOK, FullBatches PROVE ClosedOnlyWhenFull
  OBVIOUS
<1> DEFINE B == packing.batches
           c == packing.cur
           A == Append(B, c)
<1>1. B \in Seq(Batch) /\ c \in Batch
  BY PackingType
<1>2. /\ Len(A) = Len(B) + 1 /\ A[Len(B) + 1] = c /\ Len(B) \in Nat
      /\ \A i \in 1 .. Len(B) : A[i] = B[i]
  BY <1>1
<1> HIDE DEF A
<1>3. ASSUME NEW i \in 1 .. Len(A) - 1, A[i + 1].Files # <<>>
      PROVE  TooMuch(A[i], A[i + 1].Files[1])
  <2>1. CASE i + 1 <= Len(B)
    <3>1. i \in 1 .. Len(B) - 1 /\ A[i] = B[i] /\ A[i + 1] = B[i + 1]
      BY <1>2, <2>1
    <3>2. QED BY <1>3, <3>1 DEF FullBatches
  <2>2. CASE i = Len(B)
    <3>1. B # <<>> /\ A[i] = B[Len(B)] /\ A[i + 1] = c
      BY <1>2, <2>2
    <3>2. QED BY <1>3, <3>1 DEF FullBatches
  <2>3. QED BY <1>2, <2>1, <2>2
<1>4. QED BY <1>3 DEF ClosedOnlyWhenFull, TooMuch, A

\* Closing the open batch, when it follows on the closed ones, keeps them full.
LEMMA FullClose ==
  ASSUME TypeOK, FullBatches
  PROVE  LET B == Append(packing.batches, packing.cur)
         IN  /\ \A i \in 1 .. Len(B) - 1 :
                  B[i + 1].Files # <<>> => TooMuch(B[i], B[i + 1].Files[1])
             /\ B[Len(B)] = packing.cur
<1>1. ClosedOnlyWhenFull
  BY FullSplit
<1>2. packing.batches \in Seq(Batch) /\ packing.cur \in Batch
  BY PackingType
<1>3. QED BY <1>1, <1>2 DEF ClosedOnlyWhenFull, TooMuch

LEMMA FullInductive ==
  TypeOK /\ CapsRespected /\ FullBatches /\ [Next]_vars => FullBatches'
<1> SUFFICES ASSUME TypeOK, CapsRespected, FullBatches, [Next]_vars PROVE FullBatches'
  OBVIOUS
<1> DEFINE B == packing.batches
           c == packing.cur
<1>t. /\ B \in Seq(Batch) /\ c \in Batch /\ c.Files \in Seq(File) /\ Len(c.Files) \in Nat
      /\ MaxFilesOf(maxFiles) \in Nat
  BY PackingType
<1>1. CASE AddFile
  <2> DEFINE f == files[next]
  <2>0. UNCHANGED <<maxFiles, maxBytes, result>> /\ result = "running"
    BY <1>1 DEF AddFile
  <2>1. CASE packing'.batches = B /\ packing'.cur.Files = Append(c.Files, f)
    <3>1. CASE c.Files = <<>>
      <4>1. B = <<>> /\ packing'.cur.Files # <<>>
        BY <1>t, <2>0, <2>1, <3>1 DEF FullBatches
      <4>2. packing'.batches = <<>> /\ \A i \in 1 .. Len(packing'.batches) - 1 : FALSE
        BY <2>1, <4>1
      <4>3. QED BY <2>1, <4>1, <4>2 DEF FullBatches
    <3>2. CASE c.Files # <<>>
      <4>1. packing'.cur.Files[1] = c.Files[1] /\ packing'.cur.Files # <<>>
        <5>1. f \in File /\ Len(c.Files) >= 1
          BY <1>t, <1>1, <3>2, AddFileCases
        <5> HIDE DEF f, c
        <5>2. Append(c.Files, f)[1] = c.Files[1] /\ Append(c.Files, f) # <<>>
          BY <1>t, <5>1
        <5>3. QED BY <2>1, <5>2
      <4>2. QED BY <2>0, <2>1, <3>2, <4>1 DEF FullBatches, TooMuch
    <3>3. QED BY <3>1, <3>2
  <2>2. CASE /\ packing'.batches = Append(B, c) /\ packing'.cur.Files = <<f>>
             /\ \/ Len(c.Files) + 1 > MaxFilesOf(maxFiles)
                \/ (c.Bytes + f.Size) % Word > MaxBytesOf(maxBytes)
    <3>1. TooMuch(c, f)
      BY <1>t, <2>2 DEF TooMuch, CapsRespected, WithinCaps
    <3>2. packing'.cur.Files[1] = f /\ packing'.cur.Files # <<>>
      BY <2>2
    <3>3. QED BY <2>0, <2>2, <3>1, <3>2, FullClose DEF FullBatches, TooMuch
  <2>3. QED BY <1>1, <2>1, <2>2, AddFileCases
<1>2. CASE Finish
  <2>0. UNCHANGED <<maxFiles, maxBytes>> /\ result' = "done"
    BY <1>2 DEF Finish
  <2>1. CASE packing' = [batches |-> Append(B, c), cur |-> EmptyBatch]
    <3>1. packing'.batches = Append(B, c) /\ packing'.cur.Files = <<>>
      BY <2>1 DEF EmptyBatch
    <3>2. QED BY <2>0, <3>1, FullClose DEF FullBatches, TooMuch
  <2>2. CASE packing' = packing
    BY <2>0, <2>2 DEF FullBatches, TooMuch
  <2>3. QED BY <1>2, <2>1, <2>2, FinishCases
<1>3. CASE UNCHANGED vars
  BY <1>3 DEF vars, FullBatches, TooMuch
<1>4. QED BY <1>1, <1>2, <1>3 DEF Next

\* Pack never closes a batch that could have taken the next file, for every
\* list and every pair of limits (batching.go:42-46).
THEOREM ClosedOnlyWhenFullCorrect == Spec => []ClosedOnlyWhenFull
<1>1. Init => FullBatches
  BY DEF Init, FullBatches, EmptyPacking, EmptyBatch
<1>2. QED
  BY <1>1, FullSplit, FullInductive, TypeCorrect, CapsCorrect, PTL DEF Spec

-----------------------------------------------------------------------------
(* The byte sums do not wrap.                                              *)

\* The equation of the sum of BatchSize up to position n.
IsSum(r, fs, n) == r = [i \in 0 .. n |-> IF i = 0 THEN 0 ELSE r[i - 1] + fs[i].Size]

LEMMA SumExists == ASSUME NEW fs PROVE \A n \in Nat : \E r : IsSum(r, fs, n)
<1> DEFINE S == {n \in Nat : \E r : IsSum(r, fs, n)}
<1>1. 0 \in S
  <2>1. IsSum([i \in 0 .. 0 |-> 0], fs, 0)
    BY DEF IsSum
  <2>2. QED BY <2>1
<1>2. ASSUME NEW n \in Nat, n \in S PROVE n + 1 \in S
  <2>1. PICK r : IsSum(r, fs, n)
    BY <1>2
  <2> DEFINE q == [i \in 0 .. (n + 1) |-> IF i = n + 1 THEN r[n] + fs[n + 1].Size ELSE r[i]]
  <2>2. \A i \in 0 .. n : q[i] = r[i]
    OBVIOUS
  <2>3. ASSUME NEW i \in 0 .. (n + 1) PROVE q[i] = IF i = 0 THEN 0 ELSE q[i - 1] + fs[i].Size
    <3>1. CASE i = n + 1
      BY <3>1, <2>2
    <3>2. CASE i # n + 1
      <4>1. i \in 0 .. n /\ (i # 0 => i - 1 \in 0 .. n)
        BY <3>2
      <4>2. r[i] = IF i = 0 THEN 0 ELSE r[i - 1] + fs[i].Size
        BY <2>1, <4>1 DEF IsSum
      <4>3. QED BY <2>2, <4>1, <4>2
    <3>3. QED BY <3>1, <3>2
  <2>4. IsSum(q, fs, n + 1)
    BY <2>3 DEF IsSum
  <2> HIDE DEF q
  <2>5. QED BY <2>4
<1>3. Nat \subseteq S
  <2> HIDE DEF S
  <2>1. QED BY <1>1, <1>2, Induction
<1>4. QED BY <1>3

\* BatchSize satisfies its equation.
LEMMA BatchSizeDef ==
  ASSUME NEW fs, Len(fs) \in Nat
  PROVE  \E r : /\ BatchSize(fs) = r[Len(fs)] /\ r[0] = 0
                /\ \A i \in 1 .. Len(fs) : r[i] = r[i - 1] + fs[i].Size
<1> DEFINE n == Len(fs)
           r == CHOOSE r : IsSum(r, fs, n)
<1>1. BatchSize(fs) = r[n]
  BY DEF BatchSize, IsSum
<1>2. IsSum(r, fs, n)
  BY SumExists
<1> HIDE DEF r
<1>3. \A i \in 0 .. n : r[i] = IF i = 0 THEN 0 ELSE r[i - 1] + fs[i].Size
  BY <1>2 DEF IsSum
<1>4. r[0] = 0
  BY <1>3
<1>5. \A i \in 1 .. n : r[i] = r[i - 1] + fs[i].Size
  BY <1>3
<1>6. QED BY <1>1, <1>4, <1>5

LEMMA BatchSizeAppend ==
  ASSUME NEW fs \in Seq(File), NEW f \in File
  PROVE  BatchSize(Append(fs, f)) = BatchSize(fs) + f.Size
<1> DEFINE n == Len(fs)
           g == Append(fs, f)
<1>0. n \in Nat /\ Len(g) = n + 1 /\ g[n + 1] = f /\ \A i \in 1 .. n : g[i] = fs[i]
  OBVIOUS
<1> HIDE DEF g
<1>1. PICK r : /\ BatchSize(fs) = r[n] /\ r[0] = 0
               /\ \A i \in 1 .. n : r[i] = r[i - 1] + fs[i].Size
  BY <1>0, BatchSizeDef
<1>2. PICK q : /\ BatchSize(g) = q[n + 1] /\ q[0] = 0
               /\ \A i \in 1 .. (n + 1) : q[i] = q[i - 1] + g[i].Size
  BY <1>0, BatchSizeDef
<1> DEFINE S == {k \in Nat : k <= n => q[k] = r[k]}
<1> HIDE DEF n
<1>3. 0 \in S
  BY <1>1, <1>2
<1>4. ASSUME NEW k \in Nat, k \in S PROVE k + 1 \in S
  <2>1. ASSUME k + 1 <= n PROVE q[k + 1] = r[k + 1]
    <3>1. k + 1 \in 1 .. n /\ k + 1 \in 1 .. (n + 1) /\ k <= n /\ (k + 1) - 1 = k
      BY <1>0, <2>1
    <3>2. q[k + 1] = q[k] + g[k + 1].Size /\ r[k + 1] = r[k] + fs[k + 1].Size
      BY <1>1, <1>2, <3>1
    <3>3. QED BY <1>0, <1>4, <3>1, <3>2
  <2>2. QED BY <2>1
<1>5. Nat \subseteq S
  <2> HIDE DEF S
  <2>1. QED BY <1>3, <1>4, Induction
<1>6. q[n] = r[n]
  BY <1>0, <1>5
<1>7. q[n + 1] = q[n] + f.Size
  <2>1. n + 1 \in 1 .. (n + 1) /\ (n + 1) - 1 = n
    BY <1>0
  <2>2. QED BY <1>0, <1>2, <2>1
<1>8. QED BY <1>1, <1>2, <1>6, <1>7 DEF g

LEMMA BatchSizeEmpty == BatchSize(<<>>) = 0
<1> DEFINE e == <<>>
<1>1. Len(e) = 0
  OBVIOUS
<1> HIDE DEF e
<1>2. PICK r : BatchSize(e) = r[Len(e)] /\ r[0] = 0
  BY <1>1, BatchSizeDef
<1>3. QED BY <1>1, <1>2 DEF e

LEMMA BatchSizeOne == ASSUME NEW f \in File PROVE BatchSize(<<f>>) = f.Size
<1> DEFINE e == <<>>
           s == <<f>>
<1>1. e \in Seq(File) /\ s = Append(e, f) /\ f.Size \in Nat /\ BatchSize(e) = 0
  BY WordAssumption, BatchSizeEmpty DEF File
<1> HIDE DEF e, s
<1>2. BatchSize(s) = BatchSize(e) + f.Size
  BY <1>1, BatchSizeAppend
<1>3. QED BY <1>1, <1>2 DEF s

\* BytesExact, and the open batch stays within half a word, so that one more
\* file does not wrap its sum.
HalfWord ==
  2 * MaxBytesOf(maxBytes) < Word =>
    /\ 2 * packing.cur.Bytes < Word /\ packing.cur.Bytes = BatchSize(packing.cur.Files)
    /\ \A i \in 1 .. Len(packing.batches) :
         packing.batches[i].Bytes = BatchSize(packing.batches[i].Files)

LEMMA HalfWordInductive == TypeOK /\ HalfWord /\ [Next]_vars => HalfWord'
<1> SUFFICES ASSUME TypeOK, HalfWord, [Next]_vars PROVE HalfWord'
  OBVIOUS
<1> DEFINE B == packing.batches
           c == packing.cur
<1>t. /\ B \in Seq(Batch) /\ c \in Batch /\ c.Files \in Seq(File) /\ Len(c.Files) \in Nat
      /\ c.Bytes \in Nat /\ Word \in Nat \ {0} /\ MaxBytesOf(maxBytes) \in Nat
  BY PackingType
<1>1. ASSUME UNCHANGED maxBytes, packing'.batches = Append(B, c), 2 * packing'.cur.Bytes < Word,
             packing'.cur.Bytes = BatchSize(packing'.cur.Files)
      PROVE  HalfWord'
  <2>1. /\ Len(Append(B, c)) = Len(B) + 1 /\ Append(B, c)[Len(B) + 1] = c /\ Len(B) \in Nat
        /\ \A i \in 1 .. Len(B) : Append(B, c)[i] = B[i]
    BY <1>t
  <2>2. \A i \in 1 .. (Len(B) + 1) : i \in 1 .. Len(B) \/ i = Len(B) + 1
    BY <2>1
  <2>3. QED BY <1>1, <2>1, <2>2 DEF HalfWord
<1>2. CASE AddFile
  <2> DEFINE f == files[next]
  <2>0. UNCHANGED maxBytes
    BY <1>2 DEF AddFile
  <2>1. f \in File /\ f.Size \in Nat /\ 2 * f.Size < Word
    <3>1. files \in Inputs /\ next \in 1 .. Len(files)
      BY <1>2, InputsAssumption DEF TypeOK, AddFile, IsInput
    <3>2. QED BY <1>2, <3>1, InputsAssumption, AddFileCases DEF IsInput
  <2> HIDE DEF f
  <2>2. \A a, w \in Nat : a < w => a % w = a
    OBVIOUS
  <2>3. CASE /\ packing'.batches = B
             /\ packing'.cur = [Files |-> Append(c.Files, f), Bytes |-> (c.Bytes + f.Size) % Word]
             /\ Len(c.Files) > 0 => (c.Bytes + f.Size) % Word <= MaxBytesOf(maxBytes)
    <3> SUFFICES ASSUME 2 * MaxBytesOf(maxBytes) < Word
                 PROVE  /\ 2 * packing'.cur.Bytes < Word
                        /\ packing'.cur.Bytes = BatchSize(packing'.cur.Files)
      BY <2>0, <2>3 DEF HalfWord
    <3>1. 2 * c.Bytes < Word /\ c.Bytes = BatchSize(c.Files)
      BY DEF HalfWord
    <3>2. c.Bytes + f.Size \in Nat /\ c.Bytes + f.Size < Word
      BY <1>t, <2>1, <3>1
    <3>3. (c.Bytes + f.Size) % Word = c.Bytes + f.Size
      BY <1>t, <2>2, <3>2
    <3>4. packing'.cur.Bytes = c.Bytes + f.Size /\ packing'.cur.Files = Append(c.Files, f)
      BY <2>3, <3>3
    <3>5. packing'.cur.Bytes = BatchSize(packing'.cur.Files)
      BY <1>t, <2>1, <3>1, <3>4, BatchSizeAppend
    <3>6. CASE Len(c.Files) > 0
      <4>1. c.Bytes + f.Size <= MaxBytesOf(maxBytes)
        BY <2>3, <3>3, <3>6
      <4>2. QED BY <1>t, <2>1, <3>2, <3>4, <3>5, <4>1
    <3>7. CASE c.Files = <<>>
      BY <1>t, <2>1, <3>1, <3>4, <3>5, <3>7, BatchSizeEmpty
    <3>8. QED BY <1>t, <3>6, <3>7
  <2>4. CASE /\ packing'.batches = Append(B, c)
             /\ packing'.cur = [Files |-> <<f>>, Bytes |-> f.Size % Word]
    <3>1. f.Size % Word = f.Size
      BY <1>t, <2>1, <2>2
    <3>2. packing'.cur.Bytes = f.Size /\ packing'.cur.Files = <<f>>
      BY <2>4, <3>1
    <3>3. QED BY <1>1, <2>0, <2>1, <2>4, <3>2, BatchSizeOne
  <2>5. QED BY <1>2, <2>3, <2>4, AddFileCases DEF f
<1>3. CASE Finish
  <2>0. UNCHANGED maxBytes
    BY <1>3 DEF Finish
  <2>1. CASE packing' = [batches |-> Append(B, c), cur |-> EmptyBatch]
    <3>1. packing'.batches = Append(B, c) /\ packing'.cur.Files = <<>> /\ packing'.cur.Bytes = 0
      BY <2>1 DEF EmptyBatch
    <3>2. QED BY <1>t, <1>1, <2>0, <3>1, BatchSizeEmpty
  <2>2. CASE packing' = packing
    BY <2>0, <2>2 DEF HalfWord
  <2>3. QED BY <1>3, <2>1, <2>2, FinishCases
<1>4. CASE UNCHANGED vars
  BY <1>4 DEF vars, HalfWord
<1>5. QED BY <1>2, <1>3, <1>4 DEF Next

\* With a byte limit below half a word, as the policy's int64 is unless it is
\* negative, no uint64 sum of Pack wraps: the Bytes of every batch is the true
\* sum of its file sizes, for every list and word size (batching.go:44, 49).
THEOREM BytesExactCorrect == Spec => []BytesExact
<1>1. Init => HalfWord
  BY BatchSizeEmpty, WordAssumption DEF Init, HalfWord, EmptyPacking, EmptyBatch
<1>2. TypeOK /\ HalfWord => BytesExact
  <2> SUFFICES ASSUME TypeOK, HalfWord, 2 * MaxBytesOf(maxBytes) < Word,
                      NEW b \in {packing.cur} \cup ToSet(packing.batches)
               PROVE  b.Bytes = BatchSize(b.Files)
    BY DEF BytesExact
  <2>1. packing.batches \in Seq(Batch)
    BY PackingType
  <2>2. CASE b \in ToSet(packing.batches)
    <3>1. \E i \in 1 .. Len(packing.batches) : b = packing.batches[i]
      BY <2>1, <2>2 DEF ToSet
    <3>2. QED BY <3>1 DEF HalfWord
  <2>3. QED BY <2>2 DEF HalfWord
<1>3. QED BY <1>1, <1>2, HalfWordInductive, TypeCorrect, PTL DEF Spec

-----------------------------------------------------------------------------
(* The loop is Pack, and the batches one after the other are the input.    *)

\* The equation of FlattenSeq up to position n.
IsFlat(r, s, n) == r = [i \in 1 .. n |-> IF i = 1 THEN s[i] ELSE r[i - 1] \o s[i]]

LEMMA FlatExists == ASSUME NEW s PROVE \A n \in Nat : \E r : IsFlat(r, s, n)
<1> DEFINE Step(t, i) == t \o s[i]
           E(r, n) == r = [i \in 1 .. n |-> IF i = 1 THEN s[i] ELSE Step(r[i - 1], i)]
           S == {n \in Nat : \E r : E(r, n)}
<1> HIDE DEF Step
<1>1. 0 \in S
  <2> DEFINE r == [i \in 1 .. 0 |-> s[i]]
  <2>1. E(r, 0)
    OBVIOUS
  <2>2. QED BY <2>1
<1>2. ASSUME NEW n \in Nat, n \in S PROVE n + 1 \in S
  <2>1. PICK r : E(r, n)
    BY <1>2
  <2> DEFINE x == IF n = 0 THEN s[1] ELSE Step(r[n], n + 1)
             q == [i \in 1 .. (n + 1) |-> IF i = n + 1 THEN x ELSE r[i]]
  <2>2. q[n + 1] = x /\ \A i \in 1 .. n : q[i] = r[i]
    OBVIOUS
  <2>3. ASSUME NEW i \in 1 .. (n + 1) PROVE q[i] = IF i = 1 THEN s[i] ELSE Step(q[i - 1], i)
    <3>1. CASE i = n + 1
      BY <3>1, <2>2
    <3>2. CASE i # n + 1
      <4>1. i \in 1 .. n /\ (i # 1 => i - 1 \in 1 .. n)
        BY <3>2
      <4>2. r[i] = IF i = 1 THEN s[i] ELSE Step(r[i - 1], i)
        BY <2>1, <4>1
      <4>3. QED BY <2>2, <4>1, <4>2
    <3>3. QED BY <3>1, <3>2
  <2>4. E(q, n + 1)
    BY <2>3
  <2> HIDE DEF q, E
  <2>5. QED BY <2>4
<1>3. Nat \subseteq S
  <2> HIDE DEF S
  <2>1. QED BY <1>1, <1>2, Induction
<1>4. QED BY <1>3 DEF IsFlat, Step

LEMMA FlattenDef ==
  ASSUME NEW s, Len(s) \in Nat, Len(s) # 0
  PROVE  \E r : /\ FlattenSeq(s) = r[Len(s)] /\ r[1] = s[1]
                /\ \A i \in 2 .. Len(s) : r[i] = r[i - 1] \o s[i]
<1> DEFINE n == Len(s)
           r == CHOOSE r : IsFlat(r, s, n)
<1>1. FlattenSeq(s) = r[n]
  BY DEF FlattenSeq, IsFlat
<1>2. IsFlat(r, s, n)
  BY FlatExists
<1> HIDE DEF r
<1>3. \A i \in 1 .. n : r[i] = IF i = 1 THEN s[i] ELSE r[i - 1] \o s[i]
  BY <1>2 DEF IsFlat
<1>4. r[1] = s[1]
  BY <1>3
<1>5. \A i \in 2 .. n : r[i] = r[i - 1] \o s[i]
  <2>1. \A i \in 2 .. n : i \in 1 .. n /\ i # 1
    OBVIOUS
  <2>2. QED BY <1>3, <2>1, Zenon
<1>6. QED BY <1>1, <1>4, <1>5

LEMMA FlattenEmpty == FlattenSeq(<<>>) = <<>>
  BY DEF FlattenSeq

LEMMA FlattenAppend ==
  ASSUME NEW s \in Seq(Seq(File)), FlattenSeq(s) \in Seq(File), NEW c \in Seq(File)
  PROVE  FlattenSeq(Append(s, c)) = FlattenSeq(s) \o c
<1> DEFINE n == Len(s)
           t == Append(s, c)
<1>0. n \in Nat /\ Len(t) = n + 1 /\ t[n + 1] = c /\ \A i \in 1 .. n : t[i] = s[i]
  OBVIOUS
<1> HIDE DEF t
<1>1. PICK q : /\ FlattenSeq(t) = q[n + 1] /\ q[1] = t[1]
               /\ \A i \in 2 .. (n + 1) : q[i] = q[i - 1] \o t[i]
  <2>1. Len(t) \in Nat /\ Len(t) # 0
    BY <1>0
  <2>2. \E q : /\ FlattenSeq(t) = q[Len(t)] /\ q[1] = t[1]
               /\ \A i \in 2 .. Len(t) : q[i] = q[i - 1] \o t[i]
    BY <2>1, FlattenDef
  <2>3. Len(t) = n + 1
    BY <1>0
  <2>4. QED BY <2>2, <2>3, Zenon
<1>2. CASE n = 0
  <2>1. s = <<>>
    BY <1>2
  <2>2. FlattenSeq(t) = c
    BY <1>0, <1>1, <1>2
  <2>3. <<>> \o c = c
    BY ConcatEmptySeq
  <2>4. QED BY <2>1, <2>2, <2>3, FlattenEmpty DEF t
<1>3. CASE n # 0
  <2>1. PICK r : /\ FlattenSeq(s) = r[n] /\ r[1] = s[1]
                 /\ \A i \in 2 .. n : r[i] = r[i - 1] \o s[i]
    BY <1>0, <1>3, FlattenDef
  <2> DEFINE S == {k \in Nat : k + 1 <= n => q[k + 1] = r[k + 1]}
  <2> HIDE DEF n
  <2>2. 0 \in S
    BY <1>0, <1>1, <1>3, <2>1
  <2>3. ASSUME NEW k \in Nat, k \in S PROVE k + 1 \in S
    <3>1. ASSUME k + 2 <= n PROVE q[k + 2] = r[k + 2]
      <4>1. /\ k + 2 \in 2 .. n /\ k + 2 \in 2 .. (n + 1) /\ k + 1 <= n /\ (k + 2) - 1 = k + 1
            /\ k + 2 \in 1 .. n
        BY <1>0, <3>1
      <4>2. q[k + 2] = q[k + 1] \o t[k + 2] /\ r[k + 2] = r[k + 1] \o s[k + 2]
        BY <1>1, <2>1, <4>1
      <4>3. QED BY <1>0, <2>3, <4>1, <4>2
    <3>2. (k + 1) + 1 = k + 2
      OBVIOUS
    <3>3. QED BY <3>1, <3>2
  <2>4. Nat \subseteq S
    <3> HIDE DEF S
    <3>1. QED BY <2>2, <2>3, Induction
  <2>5. q[n] = r[n]
    <3>1. n - 1 \in Nat /\ (n - 1) + 1 = n
      BY <1>0, <1>3
    <3>2. QED BY <2>4, <3>1
  <2>6. n + 1 \in 2 .. (n + 1) /\ (n + 1) - 1 = n
    BY <1>0, <1>3
  <2>7. q[n + 1] = q[n] \o c
    BY <1>0, <1>1, <2>6
  <2>8. QED BY <1>1, <2>1, <2>5, <2>7 DEF t
<1>4. QED BY <1>2, <1>3

FilesSeq(B) == [i \in 1 .. Len(B) |-> B[i].Files]

LEMMA FilesSeqAppend ==
  ASSUME NEW B \in Seq(Batch), NEW b \in Batch
  PROVE  /\ FilesSeq(B) \in Seq(Seq(File))
         /\ FilesSeq(Append(B, b)) = Append(FilesSeq(B), b.Files)
<1>0. \A x \in Batch : x.Files \in Seq(File)
  BY DEF Batch
<1>1. ASSUME NEW A \in Seq(Batch)
      PROVE  /\ FilesSeq(A) \in Seq(Seq(File)) /\ Len(FilesSeq(A)) = Len(A)
             /\ \A i \in 1 .. Len(A) : FilesSeq(A)[i] = A[i].Files
  <2>1. Len(A) \in Nat /\ \A i \in 1 .. Len(A) : A[i].Files \in Seq(File)
    BY <1>0
  <2>2. QED BY <2>1 DEF FilesSeq
<1>2. /\ Append(B, b) \in Seq(Batch) /\ Len(Append(B, b)) = Len(B) + 1 /\ Len(B) \in Nat
      /\ Append(B, b)[Len(B) + 1] = b /\ \A i \in 1 .. Len(B) : Append(B, b)[i] = B[i]
  OBVIOUS
<1> DEFINE s == FilesSeq(Append(B, b))
           t == Append(FilesSeq(B), b.Files)
           S == Seq(File)
<1>3. /\ s \in Seq(S) /\ Len(s) = Len(B) + 1 /\ s[Len(B) + 1] = b.Files
      /\ \A i \in 1 .. Len(B) : s[i] = B[i].Files
  <2> DEFINE A == Append(B, b)
  <2> HIDE DEF A
  <2>1. /\ A \in Seq(Batch) /\ Len(A) = Len(B) + 1 /\ A[Len(B) + 1] = b /\ Len(B) \in Nat
        /\ \A i \in 1 .. Len(B) : A[i] = B[i]
    BY <1>2 DEF A
  <2>2. /\ FilesSeq(A) \in Seq(S) /\ Len(FilesSeq(A)) = Len(A)
        /\ \A i \in 1 .. Len(A) : FilesSeq(A)[i] = A[i].Files
    BY <1>1, <2>1
  <2>3. Len(B) + 1 \in 1 .. Len(A) /\ \A i \in 1 .. Len(B) : i \in 1 .. Len(A)
    BY <2>1
  <2>4. QED BY <2>1, <2>2, <2>3 DEF A
<1>4. FilesSeq(B) \in Seq(S) /\ Len(FilesSeq(B)) = Len(B) /\ b.Files \in S
      /\ \A i \in 1 .. Len(B) : FilesSeq(B)[i] = B[i].Files
  BY <1>0, <1>1
<1> HIDE DEF s, S
<1>5. /\ t \in Seq(S) /\ Len(t) = Len(B) + 1 /\ t[Len(B) + 1] = b.Files
      /\ \A i \in 1 .. Len(B) : t[i] = B[i].Files
  BY <1>4
<1> HIDE DEF t
<1>6. \A i \in 1 .. (Len(B) + 1) : i \in 1 .. Len(B) \/ i = Len(B) + 1
  BY <1>2
<1>7. \A i \in 1 .. Len(s) : s[i] = t[i]
  BY <1>3, <1>5, <1>6
<1>8. s = t
  BY <1>3, <1>5, <1>7, SeqEqual
<1>9. QED BY <1>4, <1>8 DEF s, t, S

\* What the batches hold, one after the other and then the open one.
Laid == FlattenSeq(FilesSeq(packing.batches)) \o packing.cur.Files

\* x is the first n files of the input.
Begins(x, n) == x \in Seq(File) /\ Len(x) = n /\ \A k \in 1 .. n : x[k] = files[k]

LoopIsPack ==
  /\ result = "running" => packing = Packings(files, maxFiles, maxBytes)[next - 1]
  /\ result = "done" => /\ packing.batches = Pack(files, maxFiles, maxBytes)
                        /\ packing.cur.Files = <<>> /\ next = Len(files) + 1

LaidInOrder ==
  /\ FlattenSeq(FilesSeq(packing.batches)) \in Seq(File)
  /\ Begins(Laid, next - 1)

LEMMA LoopInductive == TypeOK /\ LoopIsPack /\ [Next]_vars => LoopIsPack'
<1> SUFFICES ASSUME TypeOK, LoopIsPack, [Next]_vars PROVE LoopIsPack'
  OBVIOUS
<1> DEFINE P == Packings(files, maxFiles, maxBytes)
<1>1. /\ Len(files) \in Nat /\ next \in 1 .. (Len(files) + 1) /\ result \in {"running", "done"}
  BY InputsAssumption DEF TypeOK, IsInput
<1>2. CASE AddFile
  <2>1. /\ packing = P[next - 1] /\ next \in 1 .. Len(files)
        /\ UNCHANGED <<files, maxFiles, maxBytes, result>> /\ result = "running"
        /\ next' - 1 = next
        /\ packing' = PackFile(packing, files[next], MaxFilesOf(maxFiles), MaxBytesOf(maxBytes))
    BY <1>1, <1>2 DEF AddFile, LoopIsPack
  <2>2. P[next] = PackFile(P[next - 1], files[next], MaxFilesOf(maxFiles), MaxBytesOf(maxBytes))
    BY <1>1, <2>1, PackingsDef
  <2>3. packing' = P[next]
    BY <2>1, <2>2
  <2>4. QED BY <2>1, <2>3 DEF LoopIsPack
<1>3. CASE Finish
  <2>1. /\ packing = P[Len(files)] /\ result' = "done" /\ packing' = flush(packing)
        /\ UNCHANGED <<files, maxFiles, maxBytes, next>> /\ next = Len(files) + 1
    <3>1. next - 1 = Len(files) /\ next = Len(files) + 1
      BY <1>1, <1>3 DEF Finish
    <3>2. QED BY <1>3, <3>1 DEF Finish, LoopIsPack
  <2>2. packing'.cur.Files = <<>>
    BY <1>3, FinishCases DEF EmptyBatch
  <2>3. packing'.batches = Pack(files, maxFiles, maxBytes)
    BY <2>1 DEF Pack
  <2>4. QED BY <2>1, <2>2, <2>3 DEF LoopIsPack
<1>4. CASE UNCHANGED vars
  BY <1>4 DEF vars, LoopIsPack
<1>5. QED BY <1>2, <1>3, <1>4 DEF Next

LEMMA LaidInductive == TypeOK /\ LaidInOrder /\ [Next]_vars => LaidInOrder'
<1> SUFFICES ASSUME TypeOK, LaidInOrder, [Next]_vars PROVE LaidInOrder'
  OBVIOUS
<1> DEFINE B == packing.batches
           c == packing.cur
           F == FlattenSeq(FilesSeq(B))
           D == FlattenSeq(FilesSeq(Append(B, c)))
<1>t. /\ B \in Seq(Batch) /\ c \in Batch /\ c.Files \in Seq(File) /\ next \in Nat \ {0}
      /\ F \in Seq(File)
  BY PackingType, InputsAssumption DEF LaidInOrder, TypeOK, IsInput
<1>1. D = F \o c.Files /\ D \in Seq(File) /\ D = Laid
  <2>1. /\ FilesSeq(B) \in Seq(Seq(File))
        /\ FilesSeq(Append(B, c)) = Append(FilesSeq(B), c.Files)
    BY <1>t, FilesSeqAppend
  <2>2. D = F \o c.Files
    BY <1>t, <2>1, FlattenAppend
  <2>3. QED BY <1>t, <2>2, ConcatProperties DEF Laid
<1> HIDE DEF D, F
<1>2. CASE AddFile
  <2> DEFINE f == files[next]
  <2>1. f \in File /\ next' - 1 = next /\ files' = files
    BY <1>t, <1>2, AddFileCases DEF AddFile
  <2> HIDE DEF f
  <2>2. CASE Laid' = Append(Laid, f) /\ FlattenSeq(FilesSeq(packing'.batches)) \in Seq(File)
    <3>1. Laid \in Seq(File) /\ Len(Laid) = next - 1 /\ \A k \in 1 .. (next - 1) : Laid[k] = files[k]
      BY DEF LaidInOrder, Begins
    <3> DEFINE y == Append(Laid, f)
    <3>2. /\ y \in Seq(File) /\ Len(y) = next /\ y[next] = f
          /\ \A k \in 1 .. (next - 1) : y[k] = Laid[k]
      BY <1>t, <2>1, <3>1
    <3> HIDE DEF y
    <3>3. \A k \in 1 .. next : k \in 1 .. (next - 1) \/ k = next
      BY <1>t
    <3>4. \A k \in 1 .. next : y[k] = files[k]
      BY <3>1, <3>2, <3>3 DEF f
    <3>5. Laid' = y
      BY <2>2 DEF y
    <3>6. QED BY <2>1, <2>2, <3>2, <3>4, <3>5 DEF LaidInOrder, Begins
  <2>3. CASE packing'.batches = B /\ packing'.cur.Files = Append(c.Files, f)
    <3>1. Laid' = F \o Append(c.Files, f)
      BY <2>3 DEF Laid, F
    <3> DEFINE x == F \o Append(c.Files, f)
               y == Append(F \o c.Files, f)
               a == Append(c.Files, f)
               z == F \o c.Files
    <3>2. x = y
      <4>1. /\ a \in Seq(File) /\ Len(a) = Len(c.Files) + 1 /\ a[Len(c.Files) + 1] = f
            /\ \A i \in 1 .. Len(c.Files) : a[i] = c.Files[i]
            /\ Len(c.Files) \in Nat /\ Len(F) \in Nat
        BY <1>t, <2>1
      <4>2. /\ z \in Seq(File) /\ Len(z) = Len(F) + Len(c.Files)
            /\ \A i \in 1 .. Len(F) + Len(c.Files) :
                  z[i] = IF i <= Len(F) THEN F[i] ELSE c.Files[i - Len(F)]
        BY <1>t, ConcatProperties
      <4> HIDE DEF a, z
      <4>3. /\ x \in Seq(File) /\ Len(x) = Len(F) + Len(a)
            /\ \A i \in 1 .. Len(F) + Len(a) :
                  x[i] = IF i <= Len(F) THEN F[i] ELSE a[i - Len(F)]
        BY <1>t, <4>1, ConcatProperties DEF a
      <4>4. /\ y \in Seq(File) /\ Len(y) = Len(z) + 1 /\ y[Len(z) + 1] = f
            /\ \A i \in 1 .. Len(z) : y[i] = z[i]
        BY <2>1, <4>2 DEF z
      <4> HIDE DEF x, y
      <4>5. Len(x) = Len(y)
        BY <4>1, <4>2, <4>3, <4>4
      <4>6. ASSUME NEW i \in 1 .. Len(x) PROVE x[i] = y[i]
        <5>1. CASE i = Len(z) + 1
          BY <4>1, <4>2, <4>3, <4>4, <5>1
        <5>2. CASE i \in 1 .. Len(z)
          BY <4>1, <4>2, <4>3, <4>4, <5>2
        <5>3. QED BY <4>1, <4>2, <4>3, <5>1, <5>2
      <4>7. QED BY <4>3, <4>4, <4>5, <4>6, SeqEqual
    <3>3. QED BY <1>t, <1>1, <2>2, <2>3, <3>1, <3>2 DEF F
  <2>4. CASE packing'.batches = Append(B, c) /\ packing'.cur.Files = <<f>>
    <3>1. Laid' = D \o <<f>>
      BY <2>4 DEF Laid, D
    <3>2. D \o <<f>> = Append(D, f)
      BY <1>1, <2>1, AppendIsConcat
    <3>3. FlattenSeq(FilesSeq(packing'.batches)) = D
      BY <2>4 DEF D
    <3>4. QED BY <1>1, <2>2, <3>1, <3>2, <3>3
  <2>5. QED BY <1>2, <2>3, <2>4, AddFileCases DEF f
<1>3. CASE Finish
  <2>0. UNCHANGED <<files, next>>
    BY <1>3 DEF Finish
  <2>1. CASE packing' = [batches |-> Append(B, c), cur |-> EmptyBatch]
    <3>1. packing'.batches = Append(B, c) /\ packing'.cur.Files = <<>>
      BY <2>1 DEF EmptyBatch
    <3>2. Laid' = D \o <<>> /\ FlattenSeq(FilesSeq(packing'.batches)) = D
      BY <3>1 DEF Laid, D
    <3>3. D \o <<>> = D
      BY <1>1, ConcatEmptySeq
    <3>4. Laid' = Laid /\ FlattenSeq(FilesSeq(packing'.batches)) \in Seq(File)
      BY <1>1, <3>2, <3>3
    <3>5. QED BY <2>0, <3>4 DEF LaidInOrder, Begins
  <2>2. CASE packing' = packing
    BY <2>0, <2>2 DEF LaidInOrder, Begins, Laid
  <2>3. QED BY <1>3, <2>1, <2>2, FinishCases
<1>4. CASE UNCHANGED vars
  BY <1>4 DEF vars, LaidInOrder, Begins, Laid
<1>5. QED BY <1>2, <1>3, <1>4 DEF Next

\* Pack, as the pass calls it, returns what the loop leaves, and its batches
\* one after the other are the input, for every list and every pair of limits
\* (batching.go:25-53).
THEOREM PackCompleteCorrect == Spec => []PackComplete
<1>1. Init => LoopIsPack
  <2> SUFFICES ASSUME Init PROVE LoopIsPack
    OBVIOUS
  <2>1. Len(files) \in Nat
    BY InputsAssumption DEF Init, IsInput
  <2>2. Packings(files, maxFiles, maxBytes)[0] = EmptyPacking
    BY <2>1, PackingsDef
  <2>3. packing = EmptyPacking /\ next - 1 = 0 /\ result # "done"
    BY DEF Init
  <2>4. QED BY <2>2, <2>3 DEF LoopIsPack
<1>2. Init => LaidInOrder
  <2> SUFFICES ASSUME Init PROVE LaidInOrder
    OBVIOUS
  <2>1. packing.batches = <<>> /\ packing.cur.Files = <<>> /\ next = 1
    BY DEF Init, EmptyPacking, EmptyBatch
  <2>2. FilesSeq(packing.batches) = <<>>
    BY <2>1 DEF FilesSeq
  <2>3. FlattenSeq(FilesSeq(packing.batches)) = <<>>
    BY <2>2, FlattenEmpty
  <2>4. Laid = <<>>
    BY <2>1, <2>3, ConcatEmptySeq DEF Laid
  <2>5. Laid \in Seq(File) /\ Len(Laid) = 0 /\ next - 1 = 0 /\ \A k \in 1 .. 0 : FALSE
    BY <2>1, <2>4
  <2>6. FlattenSeq(FilesSeq(packing.batches)) \in Seq(File)
    BY <2>3
  <2>7. QED BY <2>5, <2>6 DEF LaidInOrder, Begins
<1>3. TypeOK /\ LoopIsPack /\ LaidInOrder => PackComplete
  <2> SUFFICES ASSUME TypeOK, LoopIsPack, LaidInOrder, result = "done" PROVE PackComplete
    BY DEF PackComplete
  <2>1. files \in Seq(File) /\ Len(files) \in Nat
    BY InputsAssumption DEF TypeOK, IsInput
  <2>2. /\ packing.batches = Pack(files, maxFiles, maxBytes)
        /\ packing.cur.Files = <<>> /\ next - 1 = Len(files)
    BY <2>1 DEF LoopIsPack
  <2> DEFINE x == FlattenSeq(FilesSeq(packing.batches))
  <2>3. x \in Seq(File) /\ Laid = x
    BY <2>2, ConcatEmptySeq DEF LaidInOrder, Laid
  <2> HIDE DEF x
  <2>4. Len(x) = Len(files) /\ \A k \in 1 .. Len(x) : x[k] = files[k]
    BY <2>2, <2>3 DEF LaidInOrder, Begins
  <2>5. x = files
    BY <2>1, <2>3, <2>4, SeqEqual
  <2>6. QED BY <2>2, <2>5 DEF PackComplete, FilesSeq, x
<1>4. QED
  BY <1>1, <1>2, <1>3, LoopInductive, LaidInductive, TypeCorrect, PTL DEF Spec
=============================================================================
