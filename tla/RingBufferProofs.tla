-------------------------- MODULE RingBufferProofs --------------------------
(***************************************************************************)
(* Proofs about module RingBuffer, for every alphabet, capacity and bound. *)
(***************************************************************************)
EXTENDS RingBuffer, SequenceTheorems, TLAPS

(* The i-th readable byte (from 0) is at the i-th position after the read   *)
(* cursor, counted around the end of an array of the given size.            *)
Pos(size, r, i) == IF r + i < size THEN r + i ELSE r + i - size

At(b, i) == Pos(b.size, b.r, i)

(* An x below twice m is reduced modulo m by at most one subtraction. *)
LEMMA ModOnce ==
  ASSUME NEW m \in Nat \ {0}, NEW x \in Nat, x < 2 * m
  PROVE  x % m = IF x < m THEN x ELSE x - m
BY SMT

(* The cursor arithmetic of AdvanceRead. *)
LEMMA PosIsMod ==
  ASSUME NEW m \in Nat \ {0}, NEW r \in Nat, NEW n \in Nat, r < m, n < m
  PROVE  (r + n) % m = Pos(m, r, n)
<1>1. PICK s \in Nat : s = r + n
  OBVIOUS
<1>2. s < 2 * m
  BY <1>1, SMT
<1>3. s % m = IF s < m THEN s ELSE s - m
  BY <1>2, ModOnce, Zenon
<1> QED  BY <1>1, <1>3 DEF Pos

(* Concatenation of byte sequences is associative. *)
LEMMA Associative ==
  \A s, t, u \in Seq(Byte) : (s \o t) \o u = s \o (t \o u)
BY ConcatAssociative, SMTT(60)

(* A function on 1 .. n is a sequence of length n. *)
LEMMA IsSequence ==
  ASSUME NEW S, NEW n \in Nat, NEW f \in [1 .. n -> S]
  PROVE  f \in Seq(S) /\ Len(f) = n
BY SMT

(* Used is the distance from r to w around the array. *)
LEMMA UsedRange ==
  ASSUME NEW b, ValidRing(b)
  PROVE  Used(b) \in 0 .. b.size - 1
BY SMT DEF ValidRing, Used

(* Every readable position is a position of the array. *)
LEMMA AtRange ==
  ASSUME NEW b, ValidRing(b), NEW i \in 0 .. b.size - 1
  PROVE  At(b, i) \in 0 .. b.size - 1 /\ b.buf[At(b, i)] \in Byte
<1>1. At(b, i) \in 0 .. b.size - 1
  BY SMT DEF ValidRing, At, Pos
<1> QED  BY <1>1 DEF ValidRing

(* Bytes hands out the readable bytes in order. *)
LEMMA BytesAt ==
  ASSUME NEW b, ValidRing(b)
  PROVE  /\ Bytes(b) = [i \in 1 .. Used(b) |-> b.buf[At(b, i - 1)]]
         /\ Bytes(b) \in Seq(Byte)
         /\ Len(Bytes(b)) = Used(b)
<1>1. Used(b) \in Nat /\ Used(b) < b.size /\ b.size \in Nat
  BY UsedRange, SMT DEF ValidRing
<1>2. Bytes(b) = [i \in 1 .. Used(b) |-> b.buf[At(b, i - 1)]]
  <2>1. CASE Used(b) = 0
    <3>1. Bytes(b) = << >> /\ 1 .. Used(b) = {}
      BY <2>1, SMT DEF Bytes
    <3> QED  BY <3>1, SMT
  <2>2. CASE Used(b) # 0 /\ b.w > b.r
    BY <2>2, SMT DEF Bytes, Slice, Used, ValidRing, At, Pos
  <2>3. CASE Used(b) # 0 /\ ~(b.w > b.r)
    BY <2>3, SMTT(60) DEF Bytes, Used, ValidRing, At, Pos
  <2> QED  BY <2>1, <2>2, <2>3
<1>3. Bytes(b) \in [1 .. Used(b) -> Byte]
  <2>1. \A i \in 1 .. Used(b) : b.buf[At(b, i - 1)] \in Byte
    BY AtRange, <1>1, SMT
  <2> QED  BY <1>2, <2>1
<1> QED  BY <1>1, <1>2, <1>3, IsSequence, SMTT(60)

(* BytesAt, one position at a time. *)
LEMMA BytesIndex ==
  \A b : ValidRing(b) =>
     \A i \in 1 .. Used(b) : Bytes(b)[i] = b.buf[Pos(b.size, b.r, i - 1)]
BY BytesAt DEF At

(* Growing the array keeps the readable bytes and makes room. *)
LEMMA GrowKeepsBytes ==
  ASSUME NEW b, ValidRing(b), NEW n \in Nat
  PROVE  LET g == Grow(b, Used(b) + n + 1)
         IN  ValidRing(g) /\ Bytes(g) = Bytes(b) /\ n <= Free(g)
<1> DEFINE m == Used(b) + n + 1
           cap == IF b.size * 2 < m THEN m * 2 ELSE b.size * 2
           g == Grow(b, m)
<1>1. Used(b) \in Nat /\ Used(b) < b.size /\ b.size \in Nat \ {0}
  BY UsedRange, SMT DEF ValidRing
<1>2. cap \in Nat \ {0} /\ Used(b) + n < cap
  BY <1>1, SMT
<1> HIDE DEF cap
<1>3. /\ g = [buf |-> g.buf, size |-> cap, r |-> 0, w |-> Used(b)]
      /\ g.buf = [i \in 0 .. cap - 1 |->
                    IF i < Used(b) THEN Bytes(b)[i + 1] ELSE Zero]
      /\ g.size = cap /\ g.r = 0 /\ g.w = Used(b)
  BY DEF Grow, cap
<1> HIDE DEF g
<1>4. \A i \in 0 .. cap - 1 : g.buf[i] \in Byte
  <2> SUFFICES ASSUME NEW i \in 0 .. cap - 1 PROVE g.buf[i] \in Byte
    OBVIOUS
  <2>1. CASE i < Used(b)
    BY <2>1, <1>1, <1>3, BytesAt, ElementOfSeq, SMT
  <2>2. CASE ~(i < Used(b))
    BY <2>2, <1>3, ByteAssumption
  <2> QED  BY <2>1, <2>2
<1>5. ValidRing(g)
  <2>1. g.buf \in [0 .. cap - 1 -> Byte]
    BY <1>3, <1>4
  <2>2. g.r \in 0 .. cap - 1 /\ g.w \in 0 .. cap - 1
    BY <1>1, <1>2, <1>3, SMT
  <2> QED  BY <1>2, <1>3, <2>1, <2>2 DEF ValidRing
<1>6. Used(g) = Used(b)
  <2>1. \A u \in Nat : (IF u >= 0 THEN u - 0 ELSE cap - 0 + u) = u
    BY SMT
  <2> QED  BY <1>1, <1>3, <2>1 DEF Used
<1>7. Bytes(g) = Bytes(b)
  <2>1. /\ Bytes(g) \in Seq(Byte) /\ Len(Bytes(g)) = Used(b)
        /\ Bytes(b) \in Seq(Byte) /\ Len(Bytes(b)) = Used(b)
    BY <1>5, <1>6, BytesAt
  <2>2. ASSUME NEW i \in 1 .. Used(b)  PROVE Bytes(g)[i] = Bytes(b)[i]
    <3>1. At(g, i - 1) = i - 1 /\ i - 1 \in 0 .. cap - 1 /\ i - 1 < Used(b)
      BY <1>1, <1>2, <1>3, <2>2, SMT DEF At, Pos
    <3>2. Bytes(g)[i] = g.buf[i - 1]
      BY <3>1, <1>5, <1>6, BytesAt
    <3>3. g.buf[i - 1] = Bytes(b)[i - 1 + 1]
      BY <3>1, <1>3
    <3> QED  BY <3>2, <3>3, <1>1, SMT
  <2> QED  BY <2>1, <2>2, SeqEqual
<1>8. n <= Free(g)
  BY <1>1, <1>2, <1>3, <1>6, SMT DEF Free
<1> QED  BY <1>5, <1>7, <1>8 DEF g

(* A ring whose readable part is that of b, followed by the bytes of p in   *)
(* the positions after it, hands out what b does and then p.                *)
LEMMA Appended ==
  ASSUME NEW b, ValidRing(b), NEW p \in Seq(Byte),
         NEW c, ValidRing(c), c.size = b.size, c.r = b.r,
         Used(c) = Used(b) + Len(p),
         \A i \in 0 .. Used(b) - 1 : c.buf[At(b, i)] = b.buf[At(b, i)],
         \A i \in 1 .. Len(p) : c.buf[At(b, Used(b) + i - 1)] = p[i]
  PROVE  Bytes(c) = Bytes(b) \o p
<1>1. Used(b) \in Nat /\ Len(p) \in Nat
  <2>1. Used(b) \in 0 .. b.size - 1 /\ b.size \in Nat
    BY UsedRange, SMTT(60) DEF ValidRing
  <2> QED  BY <2>1, LenProperties, SMT
<1>2. /\ Bytes(b) \in Seq(Byte) /\ Len(Bytes(b)) = Used(b)
      /\ Bytes(c) \in Seq(Byte) /\ Len(Bytes(c)) = Used(b) + Len(p)
  BY BytesAt
<1>3. /\ Bytes(b) \o p \in Seq(Byte)
      /\ Len(Bytes(b) \o p) = Used(b) + Len(p)
      /\ \A i \in 1 .. Used(b) + Len(p) : (Bytes(b) \o p)[i] =
            IF i <= Used(b) THEN Bytes(b)[i] ELSE p[i - Used(b)]
  BY <1>2, ConcatProperties
<1>4. ASSUME NEW i \in 1 .. Used(b) + Len(p)
      PROVE  Bytes(c)[i] = (Bytes(b) \o p)[i]
  <2>1. Bytes(c)[i] = c.buf[At(b, i - 1)]
    BY <1>4, BytesAt DEF At
  <2>2. CASE i <= Used(b)
    <3>1. i \in 1 .. Used(b) /\ i - 1 \in 0 .. Used(b) - 1
      BY <1>1, <2>2, SMT
    <3>2. Bytes(b)[i] = b.buf[At(b, i - 1)]
      BY <3>1, BytesAt
    <3> QED  BY <1>3, <2>1, <2>2, <3>1, <3>2
  <2>3. CASE ~(i <= Used(b))
    <3>1. /\ i - Used(b) \in 1 .. Len(p)
          /\ Used(b) + (i - Used(b)) - 1 = i - 1
      BY <1>1, <2>3, SMT
    <3>2. c.buf[At(b, i - 1)] = p[i - Used(b)]
      BY <3>1
    <3> QED  BY <1>3, <2>1, <2>3, <3>2
  <2> QED  BY <2>2, <2>3, Zenon
<1> QED  BY <1>2, <1>3, <1>4, SeqEqual, Zenon

(* Storing bytes that fit appends them to the readable part. *)
LEMMA PutAppends ==
  ASSUME NEW b, ValidRing(b), NEW p \in Seq(Byte), Len(p) <= Free(b)
  PROVE  ValidRing(Put(b, p)) /\ Bytes(Put(b, p)) = Bytes(b) \o p
<1> DEFINE c == Put(b, p)
<1>a. /\ b.size \in Nat /\ b.r \in Nat /\ b.w \in Nat
      /\ b.size - b.w \in Nat /\ Used(b) \in Nat /\ Len(p) \in Nat
  BY UsedRange, LenProperties, SMTT(60) DEF ValidRing
<1>b. PICK n \in Nat, z \in Nat, r \in Nat, w \in Nat, u \in Nat, c1 \in Nat :
         /\ n = Len(p) /\ z = b.size /\ r = b.r /\ w = b.w
         /\ u = Used(b) /\ c1 = b.size - b.w
  BY <1>a, Zenon
<1>c. /\ b.buf \in [0 .. z - 1 -> Byte]
      /\ b = [buf |-> b.buf, size |-> z, r |-> r, w |-> w]
  BY <1>b DEF ValidRing
<1>d. /\ r < z /\ w < z /\ u + n < z /\ c1 = z - w
      /\ u = IF w >= r THEN w - r ELSE z - r + w
  <2>1. r < z /\ w < z
    BY <1>a, <1>b, SMT DEF ValidRing
  <2>2. u + n < z
    BY <1>a, <1>b, SMTT(60) DEF Free
  <2>3. u = IF w >= r THEN w - r ELSE z - r + w
    BY <1>b DEF Used
  <2> QED  BY <1>b, <2>1, <2>2, <2>3
<1>p. \A i \in 1 .. n : p[i] \in Byte
  BY <1>b, ElementOfSeq
<1>2. CASE w >= r /\ n > c1
  <2> DEFINE front == SubSeq(p, 1, c1)
             back == SubSeq(p, c1 + 1, n)
             half == Copy(b.buf, z, w, front)
  <2>0. c1 > 0 /\ c1 < n /\ n - c1 \in Nat
    BY <1>d, <1>2, SMT
  <2>1. Len(front) = c1 /\ \A i \in 1 .. c1 : front[i] = p[i]
    <3>1. \A i \in 1 .. c1 : p[i] \in Byte /\ 1 + i - 1 = i
      BY <1>p, <2>0, SMT
    <3>2. /\ Len(front) = IF 1 <= c1 THEN c1 - 1 + 1 ELSE 0
          /\ \A i \in 1 .. c1 - 1 + 1 : front[i] = p[1 + i - 1]
      BY <3>1, <2>0, SubSeqProperties
    <3> QED  BY <2>0, <3>1, <3>2, SMT
  <2>2. Len(back) = n - c1 /\ \A i \in 1 .. n - c1 : back[i] = p[c1 + i]
    <3>1. /\ \A i \in c1 + 1 .. n : p[i] \in Byte
          /\ c1 + 1 \in Int /\ n \in Int
      BY <1>p, <2>0, SMT
    <3>2. /\ Len(back) = IF c1 + 1 <= n THEN n - (c1 + 1) + 1 ELSE 0
          /\ \A i \in 1 .. n - (c1 + 1) + 1 : back[i] = p[c1 + 1 + i - 1]
      BY <3>1, SubSeqProperties
    <3> QED  BY <2>0, <3>2, SMT
  <2>3. /\ c = [buf |-> c.buf, size |-> z, r |-> r, w |-> n - c1]
        /\ c.buf = Copy(half, z, 0, back)
        /\ c.size = z /\ c.r = r /\ c.w = n - c1
    BY <1>b, <1>c, <1>2, Zenon DEF Put
  <2> HIDE DEF c, front, back
  <2>4. \A i \in 0 .. z - 1 :
           /\ i < n - c1 => c.buf[i] = p[c1 + i + 1]
           /\ ~(i < n - c1) /\ w <= i => c.buf[i] = p[i - w + 1]
           /\ ~(i < n - c1) /\ ~(w <= i) => c.buf[i] = b.buf[i]
    <3> SUFFICES ASSUME NEW i \in 0 .. z - 1
                 PROVE  /\ i < n - c1 => c.buf[i] = p[c1 + i + 1]
                        /\ ~(i < n - c1) /\ w <= i => c.buf[i] = p[i - w + 1]
                        /\ ~(i < n - c1) /\ ~(w <= i) => c.buf[i] = b.buf[i]
      BY Zenon
    <3>1. half[i] = IF w <= i /\ i < w + c1 THEN front[i - w + 1] ELSE b.buf[i]
      BY <2>1 DEF Copy
    <3>2. c.buf[i] = IF 0 <= i /\ i < 0 + (n - c1) THEN back[i - 0 + 1]
                     ELSE half[i]
      BY <2>2, <2>3 DEF Copy
    <3>3. /\ 0 <= i
          /\ i < n - c1 <=> i < 0 + (n - c1)
          /\ i < n - c1 => /\ i - 0 + 1 \in 1 .. n - c1
                           /\ c1 + (i - 0 + 1) = c1 + i + 1
          /\ w <= i => i < w + c1 /\ i - w + 1 \in 1 .. c1
      BY <1>d, <2>0, SMT
    <3> QED  BY <2>1, <2>2, <3>1, <3>2, <3>3, SMTT(60)
  <2>5. c.buf \in [0 .. z - 1 -> Byte]
    <3>1. c.buf = [i \in 0 .. z - 1 |-> c.buf[i]]
      BY <2>3 DEF Copy
    <3>2. ASSUME NEW i \in 0 .. z - 1 PROVE c.buf[i] \in Byte
      <4>1. /\ i < n - c1 => c1 + i + 1 \in 1 .. n
            /\ w <= i => i - w + 1 \in 1 .. n
        BY <1>d, <2>0, SMT
      <4> QED  BY <1>p, <1>c, <2>4, <4>1, Zenon
    <3> QED  BY <3>1, <3>2
  <2>6. n - c1 \in 0 .. z - 1 /\ r \in 0 .. z - 1 /\ z \in Nat \ {0}
    BY <1>d, <1>2, <2>0, SMT
  <2>7. ValidRing(c)
    BY <2>3, <2>5, <2>6 DEF ValidRing
  <2>8. Used(c) = u + n
    <3>1. (IF n - c1 >= r THEN n - c1 - r ELSE z - r + (n - c1)) = u + n
      BY <1>d, <1>2, <2>0, SMT
    <3> QED  BY <2>3, <3>1 DEF Used
  <2>9. \A i \in 0 .. u - 1 : c.buf[Pos(z, r, i)] = b.buf[Pos(z, r, i)]
    <3> TAKE i \in 0 .. u - 1
    <3>1. /\ Pos(z, r, i) \in 0 .. z - 1
          /\ ~(Pos(z, r, i) < n - c1) /\ ~(w <= Pos(z, r, i))
      BY <1>d, <1>2, <2>0, SMT DEF Pos
    <3> QED  BY <2>4, <3>1
  <2>10. \A i \in 1 .. n : c.buf[Pos(z, r, u + i - 1)] = p[i]
    <3> TAKE i \in 1 .. n
    <3> DEFINE k == Pos(z, r, u + i - 1)
    <3>1. /\ k \in 0 .. z - 1
          /\ k < n - c1 => c1 + k + 1 = i
          /\ ~(k < n - c1) => w <= k /\ k - w + 1 = i
      BY <1>d, <1>2, <2>0, SMT DEF Pos
    <3> HIDE DEF k
    <3>2. c.buf[k] = p[i]
      BY <2>4, <3>1
    <3> QED  BY <3>2 DEF k
  <2> QED  BY <1>b, <2>3, <2>7, <2>8, <2>9, <2>10, Appended, ZenonT(60) DEF c, At
<1>3. CASE ~(w >= r /\ n > c1)
  <2>1. PICK v \in Nat : v = IF w >= r /\ w + n = z THEN 0 ELSE w + n
    OBVIOUS
  <2>3. /\ c = [buf |-> c.buf, size |-> z, r |-> r, w |-> v]
        /\ c.buf = Copy(b.buf, z, w, p)
        /\ c.size = z /\ c.r = r /\ c.w = v
    BY <1>b, <1>c, <1>3, <2>1, Zenon DEF Put
  <2> HIDE DEF c
  <2>4. \A i \in 0 .. z - 1 : c.buf[i] =
           IF w <= i /\ i < w + n THEN p[i - w + 1] ELSE b.buf[i]
    BY <1>b, <2>3 DEF Copy
  <2>5. c.buf \in [0 .. z - 1 -> Byte]
    <3>1. c.buf = [i \in 0 .. z - 1 |-> c.buf[i]]
      BY <2>3 DEF Copy
    <3>2. ASSUME NEW i \in 0 .. z - 1 PROVE c.buf[i] \in Byte
      <4>1. w <= i /\ i < w + n => i - w + 1 \in 1 .. n
        BY SMT
      <4> QED  BY <1>p, <1>c, <2>4, <4>1, Zenon
    <3> QED  BY <3>1, <3>2
  <2>6. v \in 0 .. z - 1 /\ r \in 0 .. z - 1 /\ z \in Nat \ {0}
    BY <1>d, <1>3, <2>1, SMT
  <2>7. ValidRing(c)
    BY <2>3, <2>5, <2>6 DEF ValidRing
  <2>8. Used(c) = u + n
    <3>1. (IF v >= r THEN v - r ELSE z - r + v) = u + n
      BY <1>d, <1>3, <2>1, SMT
    <3> QED  BY <2>3, <3>1 DEF Used
  <2>9. \A i \in 0 .. u - 1 : c.buf[Pos(z, r, i)] = b.buf[Pos(z, r, i)]
    <3> TAKE i \in 0 .. u - 1
    <3>1. /\ Pos(z, r, i) \in 0 .. z - 1
          /\ ~(w <= Pos(z, r, i) /\ Pos(z, r, i) < w + n)
      BY <1>d, <1>3, SMT DEF Pos
    <3> QED  BY <2>4, <3>1, SMTT(60)
  <2>10. \A i \in 1 .. n : c.buf[Pos(z, r, u + i - 1)] = p[i]
    <3> TAKE i \in 1 .. n
    <3> DEFINE k == Pos(z, r, u + i - 1)
    <3>1. k \in 0 .. z - 1 /\ w <= k /\ k < w + n /\ k - w + 1 = i
      BY <1>d, <1>3, SMT DEF Pos
    <3> HIDE DEF k
    <3>2. c.buf[k] = p[i]
      BY <2>4, <3>1
    <3> QED  BY <3>2 DEF k
  <2> QED  BY <1>b, <2>3, <2>7, <2>8, <2>9, <2>10, Appended, ZenonT(60) DEF c, At
<1> QED  BY <1>2, <1>3

(* A socket read of what WriteSlice offers stores it as Write would. *)
LEMMA SocketReadIsPut ==
  ASSUME NEW b, ValidRing(b), NEW p \in Seq(Byte), Len(p) <= WriteSliceLen(b)
  PROVE  /\ Len(p) <= Free(b)
         /\ AdvanceWrite([b EXCEPT !.buf = Copy(b.buf, b.size, b.w, p)], Len(p))
            = Put(b, p)
<1>a. b.size \in Nat /\ b.r \in Nat /\ b.w \in Nat /\ Len(p) \in Nat
  BY LenProperties, SMT DEF ValidRing
<1>b. PICK n \in Nat, z \in Nat, r \in Nat, w \in Nat :
         n = Len(p) /\ z = b.size /\ r = b.r /\ w = b.w
  BY <1>a
<1>c. b = [buf |-> b.buf, size |-> z, r |-> r, w |-> w]
  BY <1>b DEF ValidRing
<1>d. r < z /\ w < z
  BY <1>a, <1>b, SMT DEF ValidRing
<1>e. n <= IF w >= r THEN IF r = 0 THEN z - 1 - w ELSE z - w ELSE r - 1 - w
  BY <1>b DEF WriteSliceLen
<1>1. Len(p) <= Free(b)
  <2>1. n <= z - 1 - (IF w >= r THEN w - r ELSE z - r + w)
    BY <1>d, <1>e, SMT
  <2> QED  BY <1>b, <2>1 DEF Free, Used
<1>2. (w + n) % z = IF w >= r /\ w + n = z THEN 0 ELSE w + n
  <2>1. PICK s \in Nat : s = w + n
    OBVIOUS
  <2>2. s < 2 * z /\ z \in Nat \ {0}
    BY <1>d, <1>e, <2>1, SMT
  <2>3. s % z = IF s < z THEN s ELSE s - z
    BY <2>2, ModOnce, Zenon
  <2> QED  BY <1>d, <1>e, <2>1, <2>3, SMT
<1>3. ~(w >= r /\ n > z - w)
  BY <1>d, <1>e, SMT
<1>4. AdvanceWrite([b EXCEPT !.buf = Copy(b.buf, b.size, b.w, p)], Len(p))
      = [buf |-> Copy(b.buf, z, w, p), size |-> z, r |-> r, w |-> (w + n) % z]
  <2> DEFINE d == [b EXCEPT !.buf = Copy(b.buf, b.size, b.w, p)]
  <2>1. d = [buf |-> Copy(b.buf, z, w, p), size |-> z, r |-> r, w |-> w]
    BY <1>b, <1>c
  <2> HIDE DEF d
  <2>2. AdvanceWrite(d, n)
        = [buf |-> Copy(b.buf, z, w, p), size |-> z, r |-> r, w |-> (w + n) % z]
    BY <2>1 DEF AdvanceWrite
  <2> QED  BY <1>b, <2>2 DEF d
<1>5. Put(b, p) = [buf |-> Copy(b.buf, z, w, p), size |-> z, r |-> r,
                   w |-> IF w >= r /\ w + n = z THEN 0 ELSE w + n]
  BY <1>b, <1>c, <1>3, Zenon DEF Put
<1> QED  BY <1>1, <1>2, <1>4, <1>5

(* Moving the read cursor from r to q, by n of the u readable bytes, leaves  *)
(* u - n of them, where they were.                                           *)
CursorMoved(z, r, w, u, n, q) ==
  /\ q \in 0 .. z - 1 /\ w \in 0 .. z - 1 /\ z \in Nat \ {0}
  /\ (IF w >= q THEN w - q ELSE z - q + w) = u - n /\ u - n \in Nat
  /\ n + (u - n) = u
  /\ \A i \in 1 .. u : i <= n => i \in 1 .. n
  /\ \A i \in 1 .. u : ~(i <= n) =>
         /\ i - n \in 1 .. u - n
         /\ Pos(z, q, i - n - 1) = Pos(z, r, i - 1)

(* The arithmetic of the read cursor. *)
LEMMA CursorArithmetic ==
  ASSUME NEW z \in Nat, NEW r \in Nat, NEW w \in Nat, NEW u \in Nat, NEW n \in Nat,
         r < z, w < z, n <= u, u = IF w >= r THEN w - r ELSE z - r + w
  PROVE  CursorMoved(z, r, w, u, n, Pos(z, r, n))
BY SMT DEF Pos, CursorMoved

(* Moving the read cursor on by n hands out the first n readable bytes. *)
LEMMA TakeBytes ==
  ASSUME NEW b, ValidRing(b), NEW n \in Nat, n <= Used(b), NEW c,
         c = [b EXCEPT !.r = Pos(b.size, b.r, n)],
         NEW x \in Seq(Byte), Len(x) = n,
         \A i \in 1 .. n : x[i] = Bytes(b)[i]
  PROVE  ValidRing(c) /\ x \o Bytes(c) = Bytes(b)
<1>a. b.size \in Nat /\ b.r \in Nat /\ b.w \in Nat /\ Used(b) \in Nat
  BY UsedRange, SMTT(60) DEF ValidRing
<1>b. PICK z \in Nat, r \in Nat, w \in Nat, u \in Nat :
         z = b.size /\ r = b.r /\ w = b.w /\ u = Used(b)
  BY <1>a
<1>d. /\ r < z /\ w < z /\ n <= u
      /\ u = IF w >= r THEN w - r ELSE z - r + w
  <2>1. r < z /\ w < z
    BY <1>a, <1>b, SMT DEF ValidRing
  <2> QED  BY <1>b, <2>1 DEF Used
<1> DEFINE q == Pos(z, r, n)
<1>1. CursorMoved(z, r, w, u, n, q)
  BY <1>d, CursorArithmetic
<1> HIDE DEF q
<1>2. /\ q \in 0 .. z - 1 /\ w \in 0 .. z - 1 /\ z \in Nat \ {0}
      /\ (IF w >= q THEN w - q ELSE z - q + w) = u - n /\ u - n \in Nat
      /\ n + (u - n) = u
      /\ \A i \in 1 .. u : i <= n => i \in 1 .. n
      /\ \A i \in 1 .. u : ~(i <= n) =>
             /\ i - n \in 1 .. u - n
             /\ Pos(z, q, i - n - 1) = Pos(z, r, i - 1)
  BY <1>1, Zenon DEF CursorMoved
<1>3. /\ c = [buf |-> b.buf, size |-> z, r |-> q, w |-> w]
      /\ c.buf = b.buf /\ c.size = z /\ c.r = q /\ c.w = w
      /\ b.buf \in [0 .. z - 1 -> Byte]
  BY <1>b, SMTT(60) DEF ValidRing, q
<1>4. ValidRing(c)
  BY <1>2, <1>3, SMTT(60) DEF ValidRing
<1>5. Used(c) = u - n
  BY <1>2, <1>3, SMTT(60) DEF Used
<1>6. /\ Bytes(b) \in Seq(Byte) /\ Len(Bytes(b)) = u
      /\ Bytes(c) \in Seq(Byte) /\ Len(Bytes(c)) = u - n
  BY <1>b, <1>4, <1>5, BytesAt
<1>7. /\ x \o Bytes(c) \in Seq(Byte) /\ Len(x \o Bytes(c)) = u
      /\ \A i \in 1 .. u : (x \o Bytes(c))[i] =
            IF i <= n THEN x[i] ELSE Bytes(c)[i - n]
  <2>1. Len(x) + Len(Bytes(c)) = u
    BY <1>2, <1>6, SMTT(60)
  <2>2. /\ x \o Bytes(c) \in Seq(Byte)
        /\ Len(x \o Bytes(c)) = Len(x) + Len(Bytes(c))
        /\ \A i \in 1 .. Len(x) + Len(Bytes(c)) : (x \o Bytes(c))[i] =
              IF i <= Len(x) THEN x[i] ELSE Bytes(c)[i - Len(x)]
    BY <1>6, ConcatProperties, SMTT(60)
  <2> QED  BY <2>1, <2>2, Zenon
<1>8. ASSUME NEW i \in 1 .. u PROVE (x \o Bytes(c))[i] = Bytes(b)[i]
  <2>1. CASE i <= n
    BY <1>2, <1>7, <2>1, SMTT(60)
  <2>2. CASE ~(i <= n)
    <3>0. i - n \in 1 .. Used(c)
      BY <1>2, <1>5, <2>2
    <3>1. Bytes(c)[i - n] = c.buf[Pos(z, q, i - n - 1)]
      <4>1. PICK k \in 1 .. Used(c) : k = i - n
        BY <3>0
      <4>2. Bytes(c)[k] = c.buf[Pos(c.size, c.r, k - 1)]
        BY <1>4, BytesIndex, ZenonT(60)
      <4> QED  BY <1>3, <4>1, <4>2, SMTT(60)
    <3>2. Bytes(b)[i] = b.buf[Pos(z, r, i - 1)]
      BY <1>b, <1>8, BytesAt DEF At
    <3> QED  BY <1>2, <1>3, <1>7, <2>2, <3>1, <3>2, Zenon
  <2> QED  BY <2>1, <2>2, Zenon
<1> QED  BY <1>4, <1>6, <1>7, <1>8, SeqEqual, ZenonT(60)

(* Read moves the cursor by n positions and copies the first n bytes out. *)
LEMMA ReadTakes ==
  ASSUME NEW b, ValidRing(b), NEW n \in Nat, n <= Used(b), ~IsEmpty(b)
  PROVE  /\ ReadCursor(b, n) = Pos(b.size, b.r, n)
         /\ ReadBytes(b, n) \in Seq(Byte) /\ Len(ReadBytes(b, n)) = n
         /\ \A i \in 1 .. n : ReadBytes(b, n)[i] = Bytes(b)[i]
<1>a. /\ b.size \in Nat /\ b.r \in Nat /\ b.w \in Nat
      /\ Used(b) \in Nat /\ Used(b) < b.size
  BY UsedRange, SMT DEF ValidRing
<1>b. PICK z \in Nat, r \in Nat, w \in Nat, u \in Nat :
         z = b.size /\ r = b.r /\ w = b.w /\ u = Used(b)
  BY <1>a
<1>d. /\ r < z /\ w < z /\ n <= u /\ u < z /\ r # w
      /\ u = IF w >= r THEN w - r ELSE z - r + w
  <2>1. r < z /\ w < z
    BY <1>a, <1>b, SMT DEF ValidRing
  <2> QED  BY <1>a, <1>b, <2>1 DEF Used, IsEmpty
<1>1. ReadCursor(b, n) = Pos(b.size, b.r, n)
  <2>1. (IF w > r \/ n < z - r THEN r + n
         ELSE IF n = z - r THEN 0 ELSE n - (z - r)) = Pos(z, r, n)
    BY <1>d, SMT DEF Pos
  <2> QED  BY <1>b, <2>1 DEF ReadCursor
<1>2. ReadBytes(b, n) = [i \in 1 .. n |-> b.buf[At(b, i - 1)]]
  <2>1. \A i \in 1 .. n : IF w > r \/ i <= z - r THEN r + i - 1 = Pos(z, r, i - 1)
                          ELSE i - (z - r) - 1 = Pos(z, r, i - 1)
    BY <1>d, SMT DEF Pos
  <2> QED  BY <1>b, <2>1 DEF ReadBytes, At
<1>3. \A i \in 1 .. n : i \in 1 .. Used(b) /\ i - 1 \in 0 .. b.size - 1
  <2>1. \A i \in 1 .. n : i \in 1 .. u /\ i - 1 \in 0 .. z - 1
    BY <1>d, SMT
  <2> QED  BY <1>b, <2>1
<1>4. ReadBytes(b, n) \in [1 .. n -> Byte]
  <2>1. \A i \in 1 .. n : b.buf[At(b, i - 1)] \in Byte
    BY <1>3, AtRange
  <2> QED  BY <1>2, <2>1
<1>5. \A i \in 1 .. n : ReadBytes(b, n)[i] = Bytes(b)[i]
  BY <1>2, <1>3, BytesAt
<1> QED  BY <1>1, <1>4, <1>5, IsSequence

(* The drain loop always shows the parser all the readable bytes. *)
LEMMA PeekOrBytes ==
  ASSUME NEW b, ValidRing(b)
  PROVE  (IF Used(b) > Len(Peek(b)) THEN Bytes(b) ELSE Peek(b)) = Bytes(b)
<1>1. CASE IsEmpty(b)
  BY <1>1, SMT DEF Peek, Bytes, Used, IsEmpty, ValidRing
<1>2. CASE ~IsEmpty(b) /\ b.w > b.r
  <2>1. Used(b) # 0
    BY <1>2, SMT DEF Used, ValidRing
  <2>2. Peek(b) = Bytes(b)
    BY <1>2, <2>1 DEF Peek, Bytes
  <2> QED  BY <2>2
<1>3. CASE ~IsEmpty(b) /\ ~(b.w > b.r)
  <2>a. b.size \in Nat /\ b.r \in Nat /\ b.w \in Nat
    BY SMT DEF ValidRing
  <2>b. PICK z \in Nat, r \in Nat, w \in Nat : z = b.size /\ r = b.r /\ w = b.w
    BY <2>a
  <2>d. r < z /\ w < r /\ z - r \in Nat
    BY <1>3, <2>b, SMT DEF ValidRing, IsEmpty
  <2>1. Peek(b) = [i \in 1 .. z - r |-> b.buf[r + i - 1]]
    BY <1>3, <2>b DEF Peek, Slice
  <2>2. Len(Peek(b)) = z - r
    BY <2>1, <2>d, SMT
  <2>3. Used(b) = z - r + w
    BY <2>b, <2>d, SMT DEF Used
  <2>4. CASE w = 0
    <3>1. Bytes(b) = [i \in 1 .. z - r + w |->
                        IF i <= z - r THEN b.buf[r + i - 1] ELSE b.buf[i - (z - r) - 1]]
      <4>1. z - r + w # 0
        BY <2>d, SMT
      <4> QED  BY <1>3, <2>3, <2>b, <4>1 DEF Bytes
    <3>2. z - r + w = z - r /\ \A i \in 1 .. z - r : i <= z - r
      BY <2>d, <2>4, SMT
    <3>3. Bytes(b) = Peek(b)
      BY <2>1, <3>1, <3>2
    <3> QED  BY <3>3
  <2>5. CASE w # 0
    <3>1. z - r + w > z - r
      BY <2>d, <2>5, SMT
    <3> QED  BY <2>2, <2>3, <3>1
  <2> QED  BY <2>4, <2>5
<1> QED  BY <1>1, <1>2, <1>3
-----------------------------------------------------------------------------
(* NoByteLost with the typing is inductive: it is the invariant all the      *)
(* theorems below rest on.                                                   *)
Inv == TypeInv /\ NoByteLost

(* A fresh buffer is valid and empty. *)
LEMMA InitInv == Init => Inv
<1> SUFFICES ASSUME Init PROVE Inv
  OBVIOUS
<1> DEFINE cap == IF Capacity <= 0 THEN DefaultCap ELSE Capacity
<1>1. cap \in Nat \ {0} /\ 0 \in 0 .. cap - 1
  BY CapacityAssumption, SMT
<1> HIDE DEF cap
<1>2. ring = [buf |-> [i \in 0 .. cap - 1 |-> Zero], size |-> cap,
              r |-> 0, w |-> 0]
  BY DEF Init, NewRingBuffer, cap
<1>3. ValidRing(ring)
  BY <1>1, <1>2, ByteAssumption DEF ValidRing
<1>4. Used(ring) = 0
  BY <1>2, SMT DEF Used
<1>5. sent = << >> /\ got = << >> /\ Bytes(ring) = << >>
  BY <1>4 DEF Init, Bytes
<1>6. << >> \in Seq(Byte) /\ << >> \o << >> = << >>
  BY EmptySeq, ConcatEmptySeq
<1> QED  BY <1>3, <1>5, <1>6 DEF Inv, TypeInv, NoByteLost

(* A step that appends p to both the readable bytes and sent keeps Inv. *)
LEMMA AppendKeepsInv ==
  ASSUME Inv, NEW p \in Seq(Byte), ValidRing(ring'),
         Bytes(ring)' = Bytes(ring) \o p, sent' = sent \o p, got' = got
  PROVE  Inv'
<1>1. got \in Seq(Byte) /\ sent \in Seq(Byte) /\ got \o Bytes(ring) = sent
  BY DEF Inv, TypeInv, NoByteLost
<1>2. Bytes(ring) \in Seq(Byte)
  BY BytesAt DEF Inv, TypeInv
<1>3. got \o (Bytes(ring) \o p) = sent \o p
  <2>1. (got \o Bytes(ring)) \o p = got \o (Bytes(ring) \o p)
    BY <1>1, <1>2, Associative, ZenonT(60)
  <2> QED  BY <1>1, <2>1
<1>4. sent \o p \in Seq(Byte)
  BY <1>1, ConcatProperties
<1> QED  BY <1>1, <1>3, <1>4 DEF Inv, TypeInv, NoByteLost

(* A step that moves the bytes x from the readable part to got keeps Inv. *)
LEMMA TakeKeepsInv ==
  ASSUME Inv, NEW x \in Seq(Byte), ValidRing(ring'),
         x \o Bytes(ring)' = Bytes(ring), got' = got \o x, sent' = sent
  PROVE  Inv'
<1>1. got \in Seq(Byte) /\ sent \in Seq(Byte) /\ got \o Bytes(ring) = sent
  BY DEF Inv, TypeInv, NoByteLost
<1>2. Bytes(ring)' \in Seq(Byte)
  <2>1. Bytes(ring') \in Seq(Byte)
    BY BytesAt
  <2> QED  BY <2>1
<1>3. (got \o x) \o Bytes(ring)' = got \o (x \o Bytes(ring)')
  BY <1>1, <1>2, Associative, ZenonT(60)
<1>4. got \o x \in Seq(Byte)
  BY <1>1, ConcatProperties
<1> QED  BY <1>1, <1>3, <1>4 DEF Inv, TypeInv, NoByteLost

(* The pieces written are sequences of bytes. *)
LEMMA PieceIsSeq ==
  ASSUME NEW p \in Piece
  PROVE  p \in Seq(Byte)
<1>1. PICK n \in 1 .. MaxPiece : p \in [1 .. n -> Byte]
  BY DEF Piece
<1>2. n \in Nat
  BY BoundAssumption, SMT
<1> QED  BY <1>1, <1>2, IsSequence

(* Every method keeps Inv. *)
LEMMA NextInv == Inv /\ [Next]_vars => Inv'
<1> SUFFICES ASSUME Inv, [Next]_vars PROVE Inv'
  OBVIOUS
<1>v. ValidRing(ring)
  BY DEF Inv, TypeInv
<1>u. Used(ring) \in Nat
  <2>1. ring.size \in Nat /\ Used(ring) \in 0 .. ring.size - 1
    BY <1>v, UsedRange DEF ValidRing
  <2> QED  BY <2>1, SMT
<1>p. ASSUME NEW p \in Piece PROVE p \in Seq(Byte)
  BY PieceIsSeq
<1>1. ASSUME NEW p \in Piece, Write(p) PROVE Inv'
  <2>1. p \in Seq(Byte) /\ Len(p) \in Nat
    BY <1>p, LenProperties
  <2> DEFINE b == Fit(ring, Len(p))
  <2>2. ValidRing(b) /\ Bytes(b) = Bytes(ring) /\ Len(p) <= Free(b)
    <3>1. CASE Len(p) > Free(ring)
      BY <1>v, <2>1, <3>1, GrowKeepsBytes DEF Fit
    <3>2. CASE ~(Len(p) > Free(ring))
      <4>1. Free(ring) \in Int
        <5>1. ring.size \in Nat
          BY <1>v DEF ValidRing
        <5> QED  BY <1>u, <5>1, SMT DEF Free
      <4>2. Len(p) <= Free(ring)
        BY <2>1, <3>2, <4>1, SMT
      <4> QED  BY <1>v, <3>2, <4>2 DEF Fit
    <3> QED  BY <3>1, <3>2
  <2> HIDE DEF b
  <2>3. ValidRing(Put(b, p)) /\ Bytes(Put(b, p)) = Bytes(ring) \o p
    BY <2>1, <2>2, PutAppends
  <2>4. ring' = Put(b, p) /\ sent' = sent \o p /\ got' = got
    BY <1>1 DEF Write, b
  <2>5. ValidRing(ring') /\ Bytes(ring)' = Bytes(ring) \o p
    BY <2>3, <2>4
  <2> QED  BY <2>1, <2>4, <2>5, AppendKeepsInv, Zenon
<1>2. ASSUME NEW p \in Piece, SocketRead(p) PROVE Inv'
  <2>1. p \in Seq(Byte)
    BY <1>p
  <2>2. ring' = Put(ring, p) /\ sent' = sent \o p /\ got' = got
    BY <1>v, <1>2, <2>1, SocketReadIsPut DEF SocketRead
  <2>3. ValidRing(Put(ring, p)) /\ Bytes(Put(ring, p)) = Bytes(ring) \o p
    BY <1>v, <1>2, <2>1, SocketReadIsPut, PutAppends DEF SocketRead
  <2>4. ValidRing(ring') /\ Bytes(ring)' = Bytes(ring) \o p
    BY <2>2, <2>3
  <2> QED  BY <2>1, <2>2, <2>4, AppendKeepsInv, SMTT(60)
<1>3. ASSUME NEW len \in 1 .. MaxPiece, Read(len) PROVE Inv'
  <2> DEFINE n == IF len > Used(ring) THEN Used(ring) ELSE len
  <2>1. n \in Nat /\ n <= Used(ring)
    BY <1>u, BoundAssumption, SMT
  <2>2. /\ ring' = [ring EXCEPT !.r = ReadCursor(ring, n)]
        /\ got' = got \o ReadBytes(ring, n) /\ sent' = sent /\ ~IsEmpty(ring)
    BY <1>3 DEF Read
  <2> HIDE DEF n
  <2>3. /\ ReadCursor(ring, n) = Pos(ring.size, ring.r, n)
        /\ ReadBytes(ring, n) \in Seq(Byte) /\ Len(ReadBytes(ring, n)) = n
        /\ \A i \in 1 .. n : ReadBytes(ring, n)[i] = Bytes(ring)[i]
    BY <1>v, <2>1, <2>2, ReadTakes
  <2>4. ring' = [ring EXCEPT !.r = Pos(ring.size, ring.r, n)]
    BY <2>2, <2>3
  <2>5. ValidRing(ring') /\ ReadBytes(ring, n) \o Bytes(ring') = Bytes(ring)
    BY <1>v, <2>1, <2>3, <2>4, TakeBytes, Zenon
  <2> QED  BY <2>2, <2>3, <2>5, TakeKeepsInv, Zenon
<1>4. ASSUME NEW n \in 1 .. MaxPiece, Parse(n) PROVE Inv'
  <2> DEFINE x == SubSeq(Bytes(ring), 1, n)
  <2>0. n \in Nat /\ n \in Int /\ 1 <= n
    BY BoundAssumption, SMT
  <2>1. /\ n <= Len(Bytes(ring)) /\ got' = got \o x
        /\ ring' = AdvanceRead(ring, n) /\ sent' = sent
    BY <1>v, <1>4, PeekOrBytes DEF Parse
  <2>2. /\ Bytes(ring) \in Seq(Byte) /\ Len(Bytes(ring)) = Used(ring)
        /\ n <= Used(ring)
    BY <1>v, <2>1, BytesAt
  <2>3. \A i \in 1 .. n : i \in 1 .. Len(Bytes(ring)) /\ 1 + i - 1 = i
    BY <1>u, <2>0, <2>2, SMT
  <2>4. \A i \in 1 .. n : Bytes(ring)[i] \in Byte
    BY <2>2, <2>3, ElementOfSeq
  <2>5. /\ x \in Seq(Byte) /\ Len(x) = IF 1 <= n THEN n - 1 + 1 ELSE 0
        /\ \A i \in 1 .. n - 1 + 1 : x[i] = Bytes(ring)[1 + i - 1]
    BY <2>0, <2>4, SubSeqProperties
  <2> HIDE DEF x
  <2>6. Len(x) = n /\ \A i \in 1 .. n : x[i] = Bytes(ring)[i]
    <3>1. n - 1 + 1 = n
      BY <2>0, SMT
    <3> QED  BY <2>0, <2>3, <2>5, <3>1
  <2>7. ring' = [ring EXCEPT !.r = Pos(ring.size, ring.r, n)]
    <3>1. ~(n > Used(ring))
      BY <1>u, <2>0, <2>2, SMT
    <3>2. ring' = [ring EXCEPT !.r = (ring.r + n) % ring.size]
      BY <2>1, <3>1 DEF AdvanceRead
    <3>3. (ring.r + n) % ring.size = Pos(ring.size, ring.r, n)
      <4>1. /\ ring.size \in Nat \ {0} /\ ring.r \in Nat
            /\ ring.r < ring.size /\ Used(ring) < ring.size
        BY <1>v, UsedRange, SMT DEF ValidRing
      <4>2. n < ring.size
        BY <1>u, <2>0, <2>2, <4>1, SMT
      <4> QED  BY <2>0, <4>1, <4>2, PosIsMod
    <3> QED  BY <3>2, <3>3
  <2>8. ValidRing(ring') /\ x \o Bytes(ring') = Bytes(ring)
    <3>1. x \in Seq(Byte)
      BY <2>5
    <3>2. n \in Nat /\ n <= Used(ring)
      BY <2>0, <2>2
    <3>3. PICK m \in Nat, y \in Seq(Byte) : m = n /\ y = x
      BY <3>1, <3>2
    <3>4. /\ m <= Used(ring) /\ Len(y) = m
          /\ \A i \in 1 .. m : y[i] = Bytes(ring)[i]
          /\ ring' = [ring EXCEPT !.r = Pos(ring.size, ring.r, m)]
      BY <2>6, <2>7, <3>2, <3>3
    <3>5. ValidRing(ring') /\ y \o Bytes(ring') = Bytes(ring)
      BY <1>v, <3>4, TakeBytes, SMTT(60)
    <3> QED  BY <3>3, <3>5
  <2> QED  BY <2>1, <2>5, <2>8, TakeKeepsInv, Zenon
<1>5. CASE Reset
  <2>1. /\ ring' = [ring EXCEPT !.r = 0, !.w = 0] /\ IsEmpty(ring)
        /\ sent' = sent /\ got' = got
    BY <1>5 DEF Reset
  <2>2. ValidRing(ring') /\ ring'.r = 0 /\ ring'.w = 0
    <3>1. 0 \in 0 .. ring.size - 1
      BY <1>v, SMT DEF ValidRing
    <3>2. ring' = [buf |-> ring.buf, size |-> ring.size, r |-> 0, w |-> 0]
      BY <1>v, <2>1, Zenon DEF ValidRing
    <3> QED  BY <1>v, <3>1, <3>2 DEF ValidRing
  <2>3. Used(ring) = 0 /\ Used(ring') = 0
    <3>1. ring.w \in Nat /\ ring.r \in Nat /\ ring.r = ring.w
      BY <1>v, <2>1, SMT DEF ValidRing, IsEmpty
    <3> QED  BY <2>2, <3>1, SMT DEF Used
  <2>4. Bytes(ring) = << >> /\ Bytes(ring') = << >>
    BY <2>3 DEF Bytes
  <2> QED  BY <2>1, <2>2, <2>4 DEF Inv, TypeInv, NoByteLost
<1>6. CASE UNCHANGED vars
  BY <1>6 DEF vars, Inv, TypeInv, NoByteLost
<1> QED  BY <1>1, <1>2, <1>3, <1>4, <1>5, <1>6 DEF Next

(* The cursors of a connection's buffer never leave its array, whatever the  *)
(* capacity and the sizes of the pieces written and read.                    *)
THEOREM TypeCorrect == Spec => []TypeInv
<1>1. Inv => TypeInv
  BY DEF Inv
<1> QED  BY InitInv, NextInv, <1>1, PTL DEF Spec

(* No byte of the input stream is lost, repeated or reordered by the ring    *)
(* buffer, whatever its capacity and the sizes of the pieces.                *)
THEOREM NothingLost == Spec => []NoByteLost
<1>1. Inv => NoByteLost
  BY DEF Inv
<1> QED  BY InitInv, NextInv, <1>1, PTL DEF Spec

(* What Prefix says of a concatenation. *)
LEMMA PrefixOfConcat ==
  ASSUME NEW s \in Seq(Byte), NEW t \in Seq(Byte)
  PROVE  Stream!Prefix(s, s \o t)
<1>1. /\ Len(s) \in Nat /\ Len(t) \in Nat
      /\ Len(s \o t) = Len(s) + Len(t)
      /\ \A i \in 1 .. Len(s) + Len(t) : (s \o t)[i] =
            IF i <= Len(s) THEN s[i] ELSE t[i - Len(s)]
  BY ConcatProperties, LenProperties
<1>2. PICK m \in Nat, n \in Nat : m = Len(s) /\ n = Len(t)
  BY <1>1
<1>3. m <= m + n /\ \A i \in 1 .. m : i \in 1 .. m + n /\ i <= m
  BY SMT
<1> QED  BY <1>1, <1>2, <1>3 DEF Stream!Prefix

(* Each method of the ring buffer is a step of the byte stream, or none. *)
LEMMA StepRefines == Inv /\ Inv' /\ [Next]_vars => [Stream!Next]_(Stream!vars)
<1> SUFFICES ASSUME Inv, Inv', [Next]_vars PROVE [Stream!Next]_(Stream!vars)
  OBVIOUS
<1>1. /\ got \in Seq(Byte) /\ sent \in Seq(Byte) /\ got \o Bytes(ring) = sent
      /\ ValidRing(ring)
  BY DEF Inv, TypeInv, NoByteLost
<1>2. /\ got' \in Seq(Byte) /\ sent' \in Seq(Byte)
      /\ got' \o Bytes(ring') = sent' /\ ValidRing(ring')
  BY DEF Inv, TypeInv, NoByteLost
<1>3. Bytes(ring') \in Seq(Byte)
  BY <1>2, BytesAt
<1>4. Stream!Prefix(got', sent')
  BY <1>2, <1>3, PrefixOfConcat, Zenon
<1>5. ASSUME NEW p \in Seq(Byte), sent' = sent \o p, got' = got
      PROVE  Stream!Put
  <2>1. Stream!Prefix(sent, sent \o p)
    BY <1>1, PrefixOfConcat
  <2> QED  BY <1>5, <2>1 DEF Stream!Put
<1>6. ASSUME NEW x \in Seq(Byte), got' = got \o x, sent' = sent
      PROVE  Stream!Take
  <2>1. Stream!Prefix(got, got \o x)
    BY <1>1, PrefixOfConcat
  <2> QED  BY <1>4, <1>6, <2>1 DEF Stream!Take
<1>7. ASSUME NEW p \in Piece, Write(p) \/ SocketRead(p) PROVE Stream!Put
  BY <1>5, <1>7, PieceIsSeq DEF Write, SocketRead
<1>u. Used(ring) \in Nat
  <2>1. ring.size \in Nat /\ Used(ring) \in 0 .. ring.size - 1
    BY <1>1, UsedRange, Zenon DEF ValidRing
  <2> QED  BY <2>1, SMT
<1>8. ASSUME NEW len \in 1 .. MaxPiece, Read(len) PROVE Stream!Take
  <2> DEFINE n == IF len > Used(ring) THEN Used(ring) ELSE len
  <2>1. n \in Nat /\ n <= Used(ring)
    BY <1>u, BoundAssumption, SMT
  <2>2. got' = got \o ReadBytes(ring, n) /\ sent' = sent /\ ~IsEmpty(ring)
    BY <1>8 DEF Read
  <2> HIDE DEF n
  <2>3. ReadBytes(ring, n) \in Seq(Byte)
    BY <1>1, <2>1, <2>2, ReadTakes
  <2> QED  BY <1>6, <2>2, <2>3
<1>9. ASSUME NEW n \in 1 .. MaxPiece, Parse(n) PROVE Stream!Take
  <2> DEFINE x == SubSeq(Bytes(ring), 1, n)
  <2>1. n <= Len(Bytes(ring)) /\ got' = got \o x /\ sent' = sent
    BY <1>1, <1>9, PeekOrBytes, SMTT(60) DEF Parse
  <2>2. Bytes(ring) \in Seq(Byte) /\ Len(Bytes(ring)) \in Nat
    BY <1>1, BytesAt, LenProperties
  <2>3. n \in Int /\ \A i \in 1 .. n : i \in 1 .. Len(Bytes(ring))
    BY <2>1, <2>2, BoundAssumption, SMT
  <2>4. x \in Seq(Byte)
    BY <2>2, <2>3, ElementOfSeq, SubSeqProperties
  <2> HIDE DEF x
  <2> QED  BY <1>6, <2>1, <2>4, SMTT(60)
<1>10. CASE Reset \/ UNCHANGED vars
  BY <1>10 DEF Reset, vars, Stream!vars
<1> QED  BY <1>7, <1>8, <1>9, <1>10 DEF Next, Stream!Next

(* The ring buffer implements the byte stream, for every capacity: the       *)
(* parser of a connection reads exactly what the client sent.                *)
THEOREM Refinement == Spec => IsByteStream
<1>1. Init => Stream!Init
  BY DEF Init, Stream!Init
<1> QED  BY <1>1, InitInv, NextInv, StepRefines, PTL
         DEF Spec, IsByteStream, Stream!Spec
=============================================================================
