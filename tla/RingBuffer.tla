----------------------------- MODULE RingBuffer -----------------------------
(***************************************************************************)
(* The circular input buffer of a connection, internal/reactor/            *)
(* ring_buffer.go.  One worker goroutine owns a connection, so every       *)
(* method is one step.  The buffer is the record the code keeps: the array *)
(* buf, its size, and the read and write cursors r and w.  One position is *)
(* always left unused, so r = w means empty.                               *)
(*                                                                         *)
(* sent and got are history variables: the bytes handed to Write, and the  *)
(* bytes handed out by Read, or taken from Peek/Bytes and then dropped by  *)
(* AdvanceRead, in order.                                                  *)
(***************************************************************************)
EXTENDS Integers, Sequences

CONSTANTS Byte,         \* the bytes of the stream
          Zero,         \* the byte make([]byte, n) fills an array with
          Capacity,     \* argument of NewRingBuffer
          DefaultCap,   \* capacity used when the argument is not positive
          MaxSent,      \* bound: bytes written in a behaviour
          MaxPiece      \* bound: bytes moved by one call

ASSUME ByteAssumption == Zero \in Byte
ASSUME CapacityAssumption == Capacity \in Int /\ DefaultCap \in Nat \ {0}
ASSUME BoundAssumption == MaxSent \in Nat /\ MaxPiece \in Nat

VARIABLES ring, sent, got

vars == <<ring, sent, got>>

NewRingBuffer ==
  LET cap == IF Capacity <= 0 THEN DefaultCap ELSE Capacity
  IN  [buf |-> [i \in 0 .. cap - 1 |-> Zero], size |-> cap, r |-> 0, w |-> 0]

Used(b) == IF b.w >= b.r THEN b.w - b.r ELSE b.size - b.r + b.w

(* Mutant: the unused position is forgotten, a full buffer looks empty. *)
FreeNoSpare(b) == b.size - Used(b)

Free(b) == b.size - 1 - Used(b)

IsEmpty(b) == b.r = b.w

(* copy(buf[from:], p): the bytes that fit. *)
Copy(buf, size, from, p) ==
  [i \in 0 .. size - 1 |->
     IF from <= i /\ i < from + Len(p) THEN p[i - from + 1] ELSE buf[i]]

(* The segment [from, to) of the array, as a slice. *)
Slice(b, from, to) == [i \in 1 .. to - from |-> b.buf[from + i - 1]]

(* Peek: the readable bytes up to the write cursor or the end of the array. *)
Peek(b) == IF IsEmpty(b) THEN << >>
           ELSE IF b.w > b.r THEN Slice(b, b.r, b.w)
           ELSE Slice(b, b.r, b.size)

(* Bytes: all the readable bytes; a wrapped buffer is copied out in two     *)
(* parts, the first of them c1 bytes long.                                  *)
Bytes(b) ==
  LET c1 == b.size - b.r
  IN  IF Used(b) = 0 THEN << >>
      ELSE IF b.w > b.r THEN Slice(b, b.r, b.w)
      ELSE [i \in 1 .. Used(b) |-> IF i <= c1 THEN b.buf[b.r + i - 1]
                                   ELSE b.buf[i - c1 - 1]]

(* Mutant: a wrapped buffer is copied from the start of the array. *)
GrowFromStart(b, minCap) ==
  LET newCap == IF b.size * 2 < minCap THEN minCap * 2 ELSE b.size * 2
  IN  [buf  |-> [i \in 0 .. newCap - 1 |->
                   IF i < Used(b) THEN b.buf[i] ELSE Zero],
       size |-> newCap, r |-> 0, w |-> Used(b)]

(* grow: a larger array with the readable bytes moved to its start. *)
Grow(b, minCap) ==
  LET newCap == IF b.size * 2 < minCap THEN minCap * 2 ELSE b.size * 2
  IN  [buf  |-> [i \in 0 .. newCap - 1 |->
                   IF i < Used(b) THEN Bytes(b)[i + 1] ELSE Zero],
       size |-> newCap, r |-> 0, w |-> Used(b)]

(* The cursor and array part of Write, once the bytes are known to fit. *)
Put(b, p) ==
  LET n  == Len(p)
      c1 == b.size - b.w
  IN  IF b.w >= b.r /\ n > c1
      THEN [b EXCEPT !.buf = Copy(Copy(b.buf, b.size, b.w, SubSeq(p, 1, c1)),
                                  b.size, 0, SubSeq(p, c1 + 1, n)),
                     !.w = n - c1]
      ELSE [b EXCEPT !.buf = Copy(b.buf, b.size, b.w, p),
                     !.w = IF b.w >= b.r /\ b.w + n = b.size
                           THEN 0 ELSE b.w + n]

Fit(b, n) == IF n > Free(b) THEN Grow(b, Used(b) + n + 1) ELSE b

(* The read cursor after Read has copied n bytes out. *)
ReadCursor(b, n) ==
  LET c1 == b.size - b.r
  IN  IF b.w > b.r \/ n < c1 THEN b.r + n
      ELSE IF n = c1 THEN 0 ELSE n - c1

(* What Read copies into a slice of length n: the whole of what is readable *)
(* if that is shorter, in two parts if it wraps.                            *)
ReadBytes(b, n) ==
  LET c1 == b.size - b.r
  IN  [i \in 1 .. n |-> IF b.w > b.r \/ i <= c1 THEN b.buf[b.r + i - 1]
                        ELSE b.buf[i - c1 - 1]]

AdvanceRead(b, n) == LET k == IF n > Used(b) THEN Used(b) ELSE n
                     IN  [b EXCEPT !.r = (b.r + k) % b.size]

AdvanceWrite(b, n) == [b EXCEPT !.w = (b.w + n) % b.size]

(* WriteSlice: where a direct socket read may put bytes, as its length (it  *)
(* always starts at w).                                                     *)
WriteSliceLen(b) == IF b.w >= b.r
                    THEN IF b.r = 0 THEN b.size - 1 - b.w ELSE b.size - b.w
                    ELSE b.r - 1 - b.w
-----------------------------------------------------------------------------
Init == ring = NewRingBuffer /\ sent = << >> /\ got = << >>

(* Pieces the two sides use, within the bounds. *)
Piece == UNION {[1 .. n -> Byte] : n \in 1 .. MaxPiece}

InBound(p) == Len(sent) + Len(p) <= MaxSent

Write(p) == /\ InBound(p)
            /\ ring' = Put(Fit(ring, Len(p)), p)
            /\ sent' = sent \o p
            /\ UNCHANGED got

(* WriteSlice, a socket read into it, and AdvanceWrite by what was read. *)
SocketRead(p) == /\ InBound(p)
                 /\ Len(p) <= WriteSliceLen(ring)
                 /\ ring' = AdvanceWrite([ring EXCEPT
                        !.buf = Copy(ring.buf, ring.size, ring.w, p)], Len(p))
                 /\ sent' = sent \o p
                 /\ UNCHANGED got

Read(len) == /\ ~IsEmpty(ring)
             /\ LET n == IF len > Used(ring) THEN Used(ring) ELSE len
                IN  /\ ring' = [ring EXCEPT !.r = ReadCursor(ring, n)]
                    /\ got' = got \o ReadBytes(ring, n)
             /\ UNCHANGED sent

(* The drain loop of handleRead: the parser sees Peek, or Bytes if Peek is  *)
(* not all there is, and consumes the first n bytes of what it sees.        *)
Parse(n) == LET data == IF Used(ring) > Len(Peek(ring))
                        THEN Bytes(ring) ELSE Peek(ring)
            IN  /\ n <= Len(data)
                /\ got' = got \o SubSeq(data, 1, n)
                /\ ring' = AdvanceRead(ring, n)
                /\ UNCHANGED sent

(* handleRead resets the cursors of a drained buffer. *)
Reset == /\ IsEmpty(ring)
         /\ ring' = [ring EXCEPT !.r = 0, !.w = 0]
         /\ UNCHANGED <<sent, got>>

Next == \/ \E p \in Piece : Write(p) \/ SocketRead(p)
        \/ \E n \in 1 .. MaxPiece : Read(n) \/ Parse(n)
        \/ Reset

Spec == Init /\ [][Next]_vars
-----------------------------------------------------------------------------
(* A ring as the methods keep it: cursors inside the array, the array      *)
(* exactly size bytes long.                                                *)
ValidRing(b) == /\ b = [buf |-> b.buf, size |-> b.size, r |-> b.r, w |-> b.w]
                /\ b.size \in Nat \ {0}
                /\ b.r \in 0 .. b.size - 1
                /\ b.w \in 0 .. b.size - 1
                /\ b.buf \in [0 .. b.size - 1 -> Byte]

(* Type invariant: the cursors never leave the array, in particular they   *)
(* wrap to 0 and never rest on size.                                       *)
TypeInv == ValidRing(ring) /\ sent \in Seq(Byte) /\ got \in Seq(Byte)

(* What has been handed out, followed by what Bytes would hand out now, is *)
(* exactly what has been written: no wrap-around, growth or reset of the   *)
(* cursors loses, repeats or reorders a byte.                              *)
NoByteLost == got \o Bytes(ring) = sent

Stream == INSTANCE ByteStream WITH sent <- sent, got <- got

(* The ring buffer is a byte stream (module ByteStream). *)
IsByteStream == Stream!Spec
=============================================================================
