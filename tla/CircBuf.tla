------------------------------ MODULE CircBuf ------------------------------
(***************************************************************************)
(* The circular buffer of one conman object (src/server-obj.c): the        *)
(* producer write_obj_data() and the locked part of the consumer           *)
(* write_to_obj().  Both run entirely under obj->bufLock, so each is one   *)
(* atomic step here; the unlocked tail of write_to_obj() (the deferred     *)
(* close) belongs to the object graph and is modelled in Engine.           *)
(*                                                                         *)
(* The pointers bufInPtr and bufOutPtr are kept as offsets into buf.  A    *)
(* byte is the number of its position in the stream handed to the buffer, *)
(* which makes loss, reordering and duplication observable.               *)
(***************************************************************************)
EXTENDS Naturals, Sequences

CONSTANTS
  MAX_BUF_SIZE,  \* size of obj->buf
  MaxLen,        \* largest len passed to write_obj_data() in the model
  MaxBytes       \* bound on the number of bytes produced

ASSUME MAX_BUF_SIZE \in Nat /\ MAX_BUF_SIZE >= 2
ASSUME MaxLen \in Nat \ {0} /\ MaxBytes \in Nat

VARIABLES
  buf,        \* obj->buf: the byte stored in each slot (0: never written)
  bufInPtr,   \* offset of obj->bufInPtr
  bufOutPtr,  \* offset of obj->bufOutPtr
  produced,   \* history: bytes handed to write_obj_data() so far
  delivered   \* history: bytes write() has accepted from the buffer

vars == <<buf, bufInPtr, bufOutPtr, produced, delivered>>

Slots == 0 .. MAX_BUF_SIZE - 1

MinOf(a, b) == IF a < b THEN a ELSE b

(* The bytes the buffer holds, oldest first: slots out .. in-1 modulo size.*)
Contents ==
  [i \in 1 .. (bufInPtr - bufOutPtr + MAX_BUF_SIZE) % MAX_BUF_SIZE |->
     buf[(bufOutPtr + i - 1) % MAX_BUF_SIZE]]

(* len clamped so it never exceeds the usable capacity.                    *)
Clamp(len) == IF len >= MAX_BUF_SIZE THEN MAX_BUF_SIZE - 1 ELSE len

(* write_obj_data(): bytes available before data is overwritten.           *)
Avail ==
  IF bufOutPtr = bufInPtr THEN MAX_BUF_SIZE - 1
  ELSE IF bufOutPtr > bufInPtr THEN bufOutPtr - bufInPtr
  ELSE (MAX_BUF_SIZE - bufInPtr) + bufOutPtr

(* The "hokey-pokey": a pointer that has reached &buf[MAX_BUF_SIZE] is   *)
(* set back to buf.  Only this exact test wraps, as in the C.             *)
Wrap(p) == IF p = MAX_BUF_SIZE THEN 0 ELSE p

(* write_obj_data(): the in pointer after the first chunk of m bytes       *)
(* (wrapped) and the second chunk of n - m bytes ("Hokey-Pokey not needed  *)
(* here").                                                                 *)
InPtrAfter(n) ==
  LET m == MinOf(n, MAX_BUF_SIZE - bufInPtr)
      first == IF m > 0 THEN Wrap(bufInPtr + m) ELSE bufInPtr
  IN  IF n - m > 0 THEN first + (n - m) ELSE first

(* write_obj_data(): the overrun check resetting the out pointer to one    *)
(* past the new in pointer, with avail computed before the copy.          *)
OverrunOut(len) ==
  IF Clamp(len) > Avail
  THEN Wrap(InPtrAfter(Clamp(len)) + 1)
  ELSE bufOutPtr

(* Number of slots from the in pointer forward to slot s.                 *)
Ahead(s) == (s - bufInPtr + MAX_BUF_SIZE) % MAX_BUF_SIZE

(* A plausible slip: the second chunk copied without advancing src, so it *)
(* repeats the first bytes of the call.                                    *)
CopyInSrcNotAdvanced(n) ==
  LET m == MinOf(n, MAX_BUF_SIZE - bufInPtr) IN
  [s \in Slots |-> IF Ahead(s) < m THEN produced + 1 + Ahead(s)
                  ELSE IF Ahead(s) < n THEN produced + 1 + Ahead(s) - m
                  ELSE buf[s]]

(* The two memcpy's of write_obj_data(): the first m bytes of src go to    *)
(* slots in .. in+m-1 (up to the end of buf), src advances by m, and the   *)
(* remaining n-m bytes go to slots 0 .. n-m-1.                             *)
CopyIn(n) ==
  LET m == MinOf(n, MAX_BUF_SIZE - bufInPtr) IN
  [s \in Slots |-> IF Ahead(s) < m THEN produced + 1 + Ahead(s)
                  ELSE IF Ahead(s) < n THEN produced + 1 + m + (Ahead(s) - m)
                  ELSE buf[s]]

(* write_obj_data(obj, src, len): copy the first chunk up to the end of   *)
(* buf, then the rest from its start, then repair the out pointer on      *)
(* overrun.  The two memcpy's write slots in .. in+len-1 modulo size.      *)
WriteObjData(len) ==
  /\ produced + len <= MaxBytes
  /\ buf' = CopyIn(Clamp(len))
  /\ bufInPtr' = InPtrAfter(Clamp(len))
  /\ bufOutPtr' = OverrunOut(len)
  /\ produced' = produced + len
  /\ UNCHANGED delivered

(* write_to_obj(): the contiguous run from out to in, or to the end of buf *)
(* when the data wraps.                                                    *)
Pending ==
  IF bufInPtr >= bufOutPtr THEN bufInPtr - bufOutPtr
  ELSE MAX_BUF_SIZE - bufOutPtr

(* A plausible slip: the wrap-around of the out pointer forgotten.        *)
AdvanceOutNoWrap(n) == bufOutPtr + n

(* write_to_obj(): the out pointer advanced past n written bytes, wrapping *)
(* when it reaches the end of buf.                                         *)
AdvanceOut(n) == Wrap(bufOutPtr + n)

(* write_to_obj(): write() accepted n > 0 bytes of the pending run.        *)
WriteToObj(n) ==
  /\ n \in 1 .. Pending
  /\ delivered' = delivered \o [i \in 1 .. n |-> buf[bufOutPtr + i - 1]]
  /\ bufOutPtr' = AdvanceOut(n)
  /\ UNCHANGED <<buf, bufInPtr, produced>>

(* write_to_obj(): write() failed with EPIPE and the buffer is flushed.   *)
(* (Setting gotEOF is modelled in Engine.)                                 *)
WriteToObjEpipe ==
  /\ Pending > 0
  /\ bufInPtr' = 0
  /\ bufOutPtr' = 0
  /\ UNCHANGED <<buf, produced, delivered>>

Init ==
  /\ buf = [s \in Slots |-> 0]
  /\ bufInPtr = 0
  /\ bufOutPtr = 0
  /\ produced = 0
  /\ delivered = <<>>

Next ==
  \/ \E len \in 1 .. MaxLen : WriteObjData(len)
  \/ \E n \in 1 .. MAX_BUF_SIZE - 1 : WriteToObj(n)
  \/ WriteToObjEpipe

Spec == Init /\ [][Next]_vars

-----------------------------------------------------------------------------

TypeOK ==
  /\ buf \in [Slots -> 0 .. MaxBytes]
  /\ bufInPtr \in Slots
  /\ bufOutPtr \in Slots
  /\ produced \in 0 .. MaxBytes
  /\ delivered \in Seq(1 .. MaxBytes)

(* The assertions of write_obj_data() and write_to_obj(): both pointers   *)
(* stay inside buf.  The pointers move by byte counts and are only ever   *)
(* wrapped by the equality tests against &buf[MAX_BUF_SIZE]; an advance    *)
(* that stepped past the end instead of onto it would go unnoticed by     *)
(* those tests and leave a pointer outside buf.                            *)
PointersInBuf ==
  /\ bufInPtr \in Slots
  /\ bufOutPtr \in Slots

Queue == INSTANCE BufferQueue
           WITH Cap <- MAX_BUF_SIZE - 1, q <- Contents

(* write_obj_data() and write_to_obj() together behave as a FIFO that only *)
(* ever drops its oldest bytes: whatever the interleaving of puts, partial *)
(* writes and EPIPE flushes, no byte is delivered twice, out of order, or  *)
(* after a newer byte was put in front of it.                              *)
ImplementsLossyQueue == Queue!LossySpec

(* write_obj_data() keeps exactly the newest min(prior + len, size - 1)    *)
(* bytes, as spec.md 4.5 step 5 and the "overwrite accounting" property    *)
(* of spec.md 8 state.                                                     *)
ImplementsOverwriteQueue == Queue!Spec

=============================================================================
