---------------------------- MODULE BatchingLoop ----------------------------
(***************************************************************************)
(* Pack run one iteration at a time over every list of files and every     *)
(* pair of limits, so that what holds of its result is an invariant.       *)
(* A file is its position in the input and its size.                       *)
(***************************************************************************)
EXTENDS Batching

CONSTANTS
  Inputs,      \* the lists of files Pack is called with
  FileLimits,  \* ReplicationPolicy.spec.bundleFileLimit: an int32, any sign
  ByteLimits   \* ReplicationPolicy.spec.bundleByteLimit: an int64, any sign

VARIABLES files, maxFiles, maxBytes,  \* the arguments, as Pack receives them
          packing,                    \* batches and cur
          next,                       \* the next file of the loop
          result                      \* "running", or "done" after the last flush

vars == <<files, maxFiles, maxBytes, packing, next, result>>

File == [pos : Nat \ {0}, Size : 0 .. (Word - 1)]

\* A list of files as the stager returns it: sizes are non-negative int64s.
IsInput(s) ==
  /\ s \in Seq(File)
  /\ \A i \in 1 .. Len(s) : s[i].pos = i /\ 2 * s[i].Size < Word

ASSUME InputsAssumption == \A s \in Inputs : IsInput(s)
ASSUME LimitsAssumption == FileLimits \subseteq Int /\ ByteLimits \subseteq Int

Init ==
  /\ files \in Inputs
  /\ maxFiles \in FileLimits
  /\ maxBytes \in {ToUint(n) : n \in ByteLimits}
  /\ packing = EmptyPacking
  /\ next = 1
  /\ result = "running"

AddFile ==
  /\ result = "running" /\ next <= Len(files)
  /\ packing' = PackFile(packing, files[next], MaxFilesOf(maxFiles),
                         MaxBytesOf(maxBytes))
  /\ next' = next + 1
  /\ UNCHANGED <<files, maxFiles, maxBytes, result>>

Finish ==
  /\ result = "running" /\ next > Len(files)
  /\ packing' = flush(packing)
  /\ result' = "done"
  /\ UNCHANGED <<files, maxFiles, maxBytes, next>>

Next == AddFile \/ Finish

Spec == Init /\ [][Next]_vars /\ WF_vars(Next)

-----------------------------------------------------------------------------
Batch == [Files : Seq(File), Bytes : 0 .. (Word - 1)]

\* The types of the variables, which the proofs rest on.
TypeOK ==
  /\ files \in Inputs
  /\ maxFiles \in Int
  /\ maxBytes \in 0 .. (Word - 1)
  /\ packing \in [batches : Seq(Batch), cur : Batch]
  /\ next \in 1 .. (Len(files) + 1)
  /\ result \in {"running", "done"}

WithinCaps(b) ==
  /\ Len(b.Files) <= MaxFilesOf(maxFiles)
  /\ Len(b.Files) > 1 => b.Bytes <= MaxBytesOf(maxBytes)

\* Both peat caps hold for every batch, closed or open: at most maxFiles
\* files, and at most maxBytes bytes unless a single file is larger than the
\* cap by itself ("files larger than maxBytes are placed in a batch of their
\* own", batching.go:21-24).
CapsRespected ==
  /\ WithinCaps(packing.cur)
  /\ \A i \in 1 .. Len(packing.batches) : WithinCaps(packing.batches[i])

Follows(f, g) == g.pos = f.pos + 1

LastPos(b) == b.Files[Len(b.Files)].pos

Consecutive(s) == \A i \in 1 .. Len(s) - 1 : Follows(s[i], s[i + 1])

\* Every batch is a run of consecutive input files, each run starts where the
\* one before it ended, and the open batch ends at the loop's position: no
\* file is lost, duplicated or reordered, which is what makes the bundle ids
\* built from batch indices deterministic (batching.go:9-10, 23-24).
OrderPreserved ==
  LET B == packing.batches
      c == packing.cur.Files
      start == IF B = <<>> THEN 1 ELSE LastPos(B[Len(B)]) + 1
  IN  /\ \A i \in 1 .. Len(B) : B[i].Files # <<>> /\ Consecutive(B[i].Files)
      /\ B # <<>> => B[1].Files[1].pos = 1
      /\ \A i \in 1 .. Len(B) - 1 : B[i + 1].Files[1].pos = LastPos(B[i]) + 1
      /\ Consecutive(c)
      /\ c # <<>> => c[1].pos = start /\ c[Len(c)].pos = next - 1
      /\ c = <<>> => next = start

BatchSize(fs) ==
  LET sum[i \in 0 .. Len(fs)] == IF i = 0 THEN 0 ELSE sum[i - 1] + fs[i].Size
  IN  sum[Len(fs)]

\* With a byte limit that was not negative, the modular Bytes of a batch is
\* the true sum of its file sizes: the uint64 additions of Pack never wrap,
\* so a wrapped sum can never slip an oversized batch past the cap.
BytesExact ==
  2 * MaxBytesOf(maxBytes) < Word =>
     \A b \in {packing.cur} \cup ToSet(packing.batches) :
        b.Bytes = BatchSize(b.Files)

\* No batch could have taken the next file: Pack closes a batch only when the
\* first file of the following one would break a cap, so a backup is never
\* split into more bundles than the greedy order needs (batching.go:42-46).
ClosedOnlyWhenFull ==
  LET B == Append(packing.batches, packing.cur)
  IN  \A i \in 1 .. Len(B) - 1 :
         B[i + 1].Files # <<>> =>
            \/ Len(B[i].Files) = MaxFilesOf(maxFiles)
            \/ (B[i].Bytes + B[i + 1].Files[1].Size) % Word > MaxBytesOf(maxBytes)

\* Pack, as the other modules use it, returns what the loop leaves, and the
\* batches one after the other are the input: nothing stays in the open batch
\* (batching.go:50-51).
PackComplete ==
  result = "done" =>
     /\ packing.batches = Pack(files, maxFiles, maxBytes)
     /\ files = FlattenSeq([i \in 1 .. Len(packing.batches) |-> packing.batches[i].Files])
=============================================================================
