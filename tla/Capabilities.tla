---------------------------- MODULE Capabilities ----------------------------
(***************************************************************************)
(* Capability bitmaps (workflowCapabilities.ts).  A byte is the set of its *)
(* bits that are 1, a buffer is a sequence of bytes, and `allSorted` lists *)
(* every type there is.  Positions count from 1 here and from 0 in the     *)
(* code.                                                                   *)
(***************************************************************************)
EXTENDS Integers, Sequences

Byte == SUBSET (0..7)

Buffer == Seq(Byte)

(* Where the bit of the k-th type is.                                      *)
ByteIdx(k) == ((k - 1) \div 8) + 1

BitIdx(k) == (k - 1) % 8

(* Math.ceil(n / 8)                                                        *)
BytesFor(n) == (n + 7) \div 8

capabilitiesToBuffer(caps, allSorted) ==
  [b \in 1..BytesFor(Len(allSorted)) |->
     {BitIdx(k) : k \in {i \in 1..Len(allSorted) : ByteIdx(i) = b /\ allSorted[i] \in caps}}]

(* The types a buffer names; it may be shorter or longer than the list.    *)
bufferToCapabilities(buffer, allSorted) ==
  {allSorted[k] : k \in {i \in 1..Len(allSorted) :
                           ByteIdx(i) <= Len(buffer) /\ BitIdx(i) \in buffer[ByteIdx(i)]}}

(* Bytes beyond the end of a buffer are 0.                                 *)
ByteAt(buffer, b) == IF b <= Len(buffer) THEN buffer[b] ELSE {}

(* A plausible fault: a longer buffer replaces the target.                 *)
LongerBuffer(target, source) == IF Len(source) > Len(target) THEN source ELSE target

mergeCapabilityBuffers(target, source) ==
  [b \in 1..(IF Len(target) < Len(source) THEN Len(source) ELSE Len(target)) |->
     ByteAt(target, b) \cup ByteAt(source, b)]

=============================================================================
