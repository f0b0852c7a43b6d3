------------------------------ MODULE Batching ------------------------------
(***************************************************************************)
(* src/src/internal/batching: Pack, the function that groups the staged    *)
(* files of one backup into the bundles handed to peat SendAttachments.    *)
(*                                                                         *)
(* A file is anything with a size: the batches keep the files themselves,  *)
(* in input order, so any property of order or loss can be stated on them. *)
(* Sizes are unsigned integers modulo Word (2^64 in the code); they come   *)
(* from io.Copy, a signed count, so a single one is below Word \div 2.     *)
(***************************************************************************)
EXTENDS Integers, Sequences, SequencesExt

CONSTANTS
  Word,             \* number of values of a uint64: every byte sum is % Word
  DefaultMaxFiles,  \* 64: replaces a file limit that is not positive
  DefaultMaxBytes   \* 1 GiB: replaces a byte limit of zero

ASSUME WordAssumption == /\ Word \in Nat /\ Word >= 2
ASSUME DefaultsAssumption == /\ DefaultMaxFiles \in Nat \ {0}
                             /\ DefaultMaxBytes \in 1 .. (Word - 1)

\* int64 to uint64, as in uint64(policy.Spec.BundleByteLimit)
ToUint(n) == n % Word

MaxFilesOf(maxFiles) == IF maxFiles <= 0 THEN DefaultMaxFiles ELSE maxFiles
MaxBytesOf(maxBytes) == IF maxBytes = 0 THEN DefaultMaxBytes ELSE maxBytes

EmptyBatch == [Files |-> <<>>, Bytes |-> 0]

\* The two variables of Pack: the closed batches and the open one.
EmptyPacking == [batches |-> <<>>, cur |-> EmptyBatch]

\* Mutant of flush: the byte count is not reset.
flushKeepsBytes(p) ==
  IF Len(p.cur.Files) > 0
    THEN [batches |-> Append(p.batches, p.cur), cur |-> [p.cur EXCEPT !.Files = <<>>]]
    ELSE p

flush(p) ==
  IF Len(p.cur.Files) > 0
    THEN [batches |-> Append(p.batches, p.cur), cur |-> EmptyBatch]
    ELSE p

\* Mutants of WouldExceed: one file too many, and one byte too few.
WouldExceedLate(cur, f, maxFiles, maxBytes) ==
  \/ Len(cur.Files) > maxFiles
  \/ Len(cur.Files) > 0 /\ (cur.Bytes + f.Size) % Word > maxBytes
WouldExceedEarly(cur, f, maxFiles, maxBytes) ==
  \/ Len(cur.Files) + 1 > maxFiles
  \/ Len(cur.Files) > 0 /\ (cur.Bytes + f.Size) % Word >= maxBytes

WouldExceed(cur, f, maxFiles, maxBytes) ==
  \/ Len(cur.Files) + 1 > maxFiles
  \/ Len(cur.Files) > 0 /\ (cur.Bytes + f.Size) % Word > maxBytes

\* Mutant of PackFile: the file that closes a batch is not put into the next.
PackFileDrops(p, f, maxFiles, maxBytes) ==
  IF WouldExceed(p.cur, f, maxFiles, maxBytes) THEN flush(p)
  ELSE [p EXCEPT !.cur = [Files |-> Append(p.cur.Files, f),
                          Bytes |-> (p.cur.Bytes + f.Size) % Word]]

\* One iteration of the loop of Pack, the limits already defaulted.
PackFile(p, f, maxFiles, maxBytes) ==
  LET q == IF WouldExceed(p.cur, f, maxFiles, maxBytes) THEN flush(p) ELSE p
  IN  [q EXCEPT !.cur = [Files |-> Append(q.cur.Files, f),
                         Bytes |-> (q.cur.Bytes + f.Size) % Word]]

\* The packing after each iteration of the loop.
Packings(files, maxFiles, maxBytes) ==
  LET packed[i \in 0 .. Len(files)] ==
        IF i = 0 THEN EmptyPacking
        ELSE PackFile(packed[i - 1], files[i], MaxFilesOf(maxFiles), MaxBytesOf(maxBytes))
  IN  packed

\* Mutant of Pack: the open batch is forgotten at the end.
PackUnflushed(files, maxFiles, maxBytes) ==
  Packings(files, maxFiles, maxBytes)[Len(files)].batches

Pack(files, maxFiles, maxBytes) ==
  flush(Packings(files, maxFiles, maxBytes)[Len(files)]).batches
=============================================================================
