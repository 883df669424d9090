---------------------------- MODULE OutputBuffer ----------------------------
(***************************************************************************)
(* HeadTailBuffer (packages/sandbox/src/output.ts): what a sandbox command *)
(* prints is kept in part, its first and its last maxBytes / 2.  The       *)
(* output is a sequence of items, here the lines of a log.                 *)
(***************************************************************************)
EXTENDS Integers, Sequences

CONSTANTS
  Items,     (* what may be printed *)
  maxBytes

ASSUME BufferAssumption == maxBytes \in Nat

VARIABLES
  head,
  tail,
  dropped,
  written    (* everything that was pushed *)

buffer == <<head, tail, dropped, written>>

half == maxBytes \div 2

smaller(m, n) == IF m <= n THEN m ELSE n

BufferType ==
  /\ head \in Seq(Items)
  /\ tail \in Seq(Items)
  /\ dropped \in Nat
  /\ written \in Seq(Items)

BufferInit == head = <<>> /\ tail = <<>> /\ dropped = 0 /\ written = <<>>

(* Every command has a buffer of its own. *)
BufferAnew == head' = <<>> /\ tail' = <<>> /\ dropped' = 0 /\ written' = <<>>

(* Mutant: the excess is counted before the new chunk is there. *)
pushLate(chunk) ==
  LET room   == smaller(half - Len(head), Len(chunk))
      rest   == SubSeq(chunk, room + 1, Len(chunk))
      excess == IF Len(tail) > half THEN Len(tail) - half ELSE 0
  IN /\ head' = head \o SubSeq(chunk, 1, room)
     /\ tail' = SubSeq(tail \o rest, excess + 1, Len(tail) + Len(rest))
     /\ dropped' = dropped + excess
     /\ written' = written \o chunk

(* What fits goes to the head; the tail gives up its oldest items. *)
push(chunk) ==
  LET room   == smaller(half - Len(head), Len(chunk))
      rest   == SubSeq(chunk, room + 1, Len(chunk))
      excess == IF Len(tail) + Len(rest) > half THEN Len(tail) + Len(rest) - half ELSE 0
  IN /\ head' = head \o SubSeq(chunk, 1, room)
     /\ tail' = SubSeq(tail \o rest, excess + 1, Len(tail) + Len(rest))
     /\ dropped' = dropped + excess
     /\ written' = written \o chunk

(* toString, without the line that says how much is missing. *)
shown == head \o tail

BufferNext == BufferAnew \/ \E chunk \in Seq(Items) : push(chunk)

BufferSpec == BufferInit /\ [][BufferNext]_buffer

-----------------------------------------------------------------------------
(* However the output was cut into chunks: nothing is missing until it exceeds
   the limit, then the first half and the last half are there, and the count of
   what is missing between them is right. *)
OutputKeepsEnds ==
  /\ dropped = IF Len(written) <= 2 * half THEN 0 ELSE Len(written) - 2 * half
  /\ Len(head) + dropped + Len(tail) = Len(written)
  /\ Len(head) = smaller(half, Len(written))
  /\ \A n \in 1 .. Len(head) : head[n] = written[n]
  /\ \A n \in 1 .. Len(tail) : tail[n] = written[Len(written) - Len(tail) + n]
=============================================================================
