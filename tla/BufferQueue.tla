---------------------------- MODULE BufferQueue ----------------------------
(***************************************************************************)
(* What the circular buffer of one conman object promises (spec.md 4.5 and *)
(* 8): a FIFO of at most Cap bytes, filled by a producer that never blocks *)
(* and drained by the object's writer to its descriptor.  A put of len     *)
(* bytes keeps at most the first Cap of them; on overrun the OLDEST        *)
(* buffered bytes are discarded.  An EPIPE on the descriptor flushes it.   *)
(*                                                                         *)
(* Bytes are identified by their position in the stream handed to the     *)
(* buffer (1, 2, 3, ...), so order, loss and duplication are visible.     *)
(*                                                                         *)
(* Two specifications are given: Spec is the overwrite accounting the      *)
(* design states (occupancy after a put is min(prior + len, Cap)), and     *)
(* LossySpec only says that what remains after a put is a suffix of the    *)
(* old contents followed by the accepted bytes.                            *)
(***************************************************************************)
EXTENDS Naturals, Sequences, SequencesExt

CONSTANTS
  Cap,      \* usable capacity, MAX_BUF_SIZE - 1
  MaxLen    \* the largest len a producer hands over in one call

VARIABLES
  q,          \* the buffered bytes, oldest first
  produced,   \* number of bytes handed to the buffer so far
  delivered   \* bytes written out to the descriptor, in order

vars == <<q, produced, delivered>>

(* The bytes of one put that the buffer accepts: the first Cap of them.    *)
Accepted(len) ==
  [i \in 1 .. (IF len > Cap THEN Cap ELSE len) |-> produced + i]

KeepLast(s, k) ==
  IF Len(s) > k THEN SubSeq(s, Len(s) - k + 1, Len(s)) ELSE s

Init ==
  /\ q = <<>>
  /\ produced = 0
  /\ delivered = <<>>

(* A put keeping exactly the newest min(prior + len, Cap) bytes.           *)
PutExact(len) ==
  /\ q' = KeepLast(q \o Accepted(len), Cap)
  /\ produced' = produced + len
  /\ UNCHANGED delivered

(* A put after which some suffix of old contents plus new bytes remains.   *)
PutLossy(len) ==
  /\ q' \in Suffixes(q \o Accepted(len))
  /\ Len(q') <= Cap
  /\ produced' = produced + len
  /\ UNCHANGED delivered

(* The k oldest bytes go out to the descriptor.                            *)
Drain(k) ==
  /\ k \in 1 .. Len(q)
  /\ delivered' = delivered \o SubSeq(q, 1, k)
  /\ q' = SubSeq(q, k + 1, Len(q))
  /\ UNCHANGED produced

Flush ==
  /\ q' = <<>>
  /\ UNCHANGED <<produced, delivered>>

Next ==
  \/ \E len \in 1 .. MaxLen : PutExact(len)
  \/ \E k \in 1 .. Cap : Drain(k)
  \/ Flush

LossyNext ==
  \/ \E len \in 1 .. MaxLen : PutLossy(len)
  \/ \E k \in 1 .. Cap : Drain(k)
  \/ Flush

Spec == Init /\ [][Next]_vars

LossySpec == Init /\ [][LossyNext]_vars

=============================================================================
