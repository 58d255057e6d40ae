--------------------------- MODULE MessagesProofs ---------------------------
(***************************************************************************)
(* Proofs about Messages: FieldsFit, StructTrue, RouteSound, ConnsAgree    *)
(* and RejectionReported, for every set of threads, calls, structures and  *)
(* connections and every value of the limits.                              *)
(*                                                                         *)
(* First what the bytes of each request and reply are, and that the one    *)
(* who takes them apart gets what was put in; then one lemma per action on *)
(* the record of the thread that moves; then the record of rejections and  *)
(* the connections, one lemma per kind of step; last the invariant and the *)
(* theorems.  Strings of bytes are handled through At, Width and Part: a   *)
(* part of a message is at a place, has a width and is cut out again.      *)
(***************************************************************************)
EXTENDS Messages, FiniteSetTheorems, TLAPS

-----------------------------------------------------------------------------
(* Strings of bytes *)

\* A byte is a number of at most 255.
LEMMA ByteRange == \A x : x \in Byte <=> x \in Nat /\ x <= 255
  BY DEF Byte

\* The bytes b are in m after the first k.
At(m, k, b) == k + Len(b) <= Len(m) /\ \A i \in 1 .. Len(b) : m[k + i] = b[i]

\* The number of bytes of b, a byte of m, and the bytes of m from u to v.
Width(b, n) == Len(b) = n
ByteAt(m, i, x) == m[i] = x
Part(m, u, v, b) == SubSeq(m, u, v) = b

\* Lengths are numbers.
LEMMA LenNat == ASSUME NEW b \in Bytes PROVE Len(b) \in Nat
  BY DEF Bytes

\* Concatenation, as an operator the provers take as a whole.
Join(a, b) == a \o b

\* Each part of a concatenation is where it was put.
LEMMA Cat ==
  ASSUME NEW a \in Bytes, NEW b \in Bytes
  PROVE  /\ Join(a, b) \in Bytes /\ Len(Join(a, b)) = Len(a) + Len(b)
         /\ At(Join(a, b), 0, a) /\ At(Join(a, b), Len(a), b)
<1>1. Join(a, b) \in Bytes /\ Len(Join(a, b)) = Len(a) + Len(b)
  BY DEF Bytes, Join
<1>2. At(Join(a, b), 0, a)
  BY <1>1 DEF At, Bytes, Join
<1>3. At(Join(a, b), Len(a), b)
  BY <1>1 DEF At, Bytes, Join
<1>4. QED
  BY <1>1, <1>2, <1>3

\* The same, with the widths of the parts named.
LEMMA CatAt ==
  ASSUME NEW a \in Bytes, NEW b \in Bytes, NEW k \in Nat, NEW l \in Nat,
         Width(a, k), Width(b, l)
  PROVE  /\ Join(a, b) \in Bytes /\ Width(Join(a, b), k + l)
         /\ At(Join(a, b), 0, a) /\ At(Join(a, b), k, b)
  BY Cat DEF Width

\* What a string has, it still has when more bytes follow it.
LEMMA AtLeft ==
  ASSUME NEW a \in Bytes, NEW c \in Bytes, NEW b \in Bytes, NEW k \in Nat, At(a, k, b)
  PROVE  At(Join(a, c), k, b)
  BY DEF At, Bytes, Join

\* Bytes that are at a place are what SubSeq cuts out there.
LEMMA AtPart ==
  ASSUME NEW m \in Bytes, NEW b \in Bytes, NEW k \in Nat, NEW n \in Nat, Width(b, n), At(m, k, b)
  PROVE  Part(m, k + 1, k + n, b)
<1>1. Len(b) = n
  BY DEF Width
<1>2. k + n <= Len(m) /\ \A i \in 1 .. n : m[k + i] = b[i]
  BY <1>1 DEF At
<1>3. SubSeq(m, k + 1, k + n) = b
  BY <1>1, <1>2 DEF Bytes
<1>4. QED
  BY <1>3 DEF Part

\* Byte i of a part is byte k + i of the whole.
LEMMA AtIndex ==
  ASSUME NEW m \in Bytes, NEW b \in Bytes, NEW k \in Nat, NEW n \in Nat, Width(b, n), At(m, k, b),
         NEW i \in 1 .. n
  PROVE  ByteAt(m, k + i, b[i])
  BY DEF At, ByteAt, Width

\* A part of a part is a part of the whole.
LEMMA AtWithin ==
  ASSUME NEW m \in Bytes, NEW p \in Bytes, NEW b \in Bytes, NEW k \in Nat, NEW j \in Nat,
         At(m, k, p), At(p, j, b)
  PROVE  At(m, k + j, b)
<1>1. PICK n \in Nat, l \in Nat : n = Len(b) /\ l = Len(p)
  BY LenNat
<1>2. k + l <= Len(m) /\ j + n <= l /\ Len(m) \in Nat
  BY <1>1, LenNat DEF At
<1>3. ASSUME NEW i \in 1 .. n PROVE m[k + j + i] = b[i]
  <2>1. j + i \in 1 .. l
    BY <1>2
  <2>2. m[k + (j + i)] = p[j + i]
    BY <1>1, <2>1 DEF At
  <2>3. p[j + i] = b[i]
    BY <1>1 DEF At
  <2>4. k + (j + i) = k + j + i
    OBVIOUS
  <2>5. QED
    BY <2>2, <2>3, <2>4
<1>4. QED
  BY <1>1, <1>2, <1>3 DEF At

\* What follows the first k bytes has what m has after them.
LEMMA AtRest ==
  ASSUME NEW m \in Bytes, NEW k \in Nat, k <= Len(m)
  PROVE  /\ SubSeq(m, k + 1, Len(m)) \in Bytes /\ Len(SubSeq(m, k + 1, Len(m))) = Len(m) - k
         /\ \A b \in Bytes : \A j \in Nat :
              At(m, k + j, b) => At(SubSeq(m, k + 1, Len(m)), j, b)
<1>1. PICK n \in Nat : n = Len(m)
  BY LenNat
<1>2. PICK r : r = SubSeq(m, k + 1, n)
  OBVIOUS
<1>3. r \in Bytes /\ Len(r) = n - k /\ \A i \in 1 .. n - k : r[i] = m[k + i]
  <2>1. m \in Seq(Byte) /\ k + 1 \in 1 .. n + 1 /\ n \in k .. n
    BY <1>1 DEF Bytes
  <2>2. r \in Seq(Byte) /\ Len(r) = n - k
    BY <1>1, <1>2, <2>1
  <2>3. \A i \in 1 .. n - k : r[i] = m[k + 1 + i - 1]
    BY <1>1, <1>2, <2>1
  <2>4. \A i \in 1 .. n - k : m[k + 1 + i - 1] = m[k + i]
    OBVIOUS
  <2>5. QED
    BY <2>2, <2>3, <2>4 DEF Bytes
<1>4. ASSUME NEW b \in Bytes, NEW j \in Nat, At(m, k + j, b) PROVE At(r, j, b)
  <2>1. PICK l \in Nat : l = Len(b)
    BY LenNat
  <2>2. k + j + l <= n /\ \A i \in 1 .. l : m[k + j + i] = b[i]
    BY <1>1, <1>4, <2>1 DEF At
  <2>3. j + l <= n - k
    BY <2>2
  <2>4. ASSUME NEW i \in 1 .. l PROVE r[j + i] = b[i]
    <3>1. j + i \in 1 .. n - k
      BY <2>3
    <3>2. r[j + i] = m[k + (j + i)]
      BY <1>3, <3>1
    <3>3. k + (j + i) = k + j + i
      OBVIOUS
    <3>4. QED
      BY <2>2, <3>2, <3>3
  <2>5. QED
    BY <1>3, <2>1, <2>3, <2>4 DEF At
<1>5. QED
  BY <1>1, <1>2, <1>3, <1>4

\* The bytes of m after the first k.
Rest(m, k) == SubSeq(m, k + 1, Len(m))

\* A part after the first k bytes is a part of the rest.
LEMMA AtLater ==
  ASSUME NEW m \in Bytes, NEW k \in Nat, NEW j \in Nat, NEW b \in Bytes, At(m, k + j, b)
  PROVE  Rest(m, k) \in Bytes /\ At(Rest(m, k), j, b)
<1>1. k <= Len(m)
  <2>1. PICK n \in Nat, l \in Nat : n = Len(b) /\ l = Len(m)
    BY LenNat
  <2>2. k + j + n <= l
    BY <2>1 DEF At
  <2>3. QED
    BY <2>1, <2>2
<1>2. QED
  BY <1>1, AtRest DEF Rest

\* The length of the rest.
LEMMA RestWidth ==
  ASSUME NEW m \in Bytes, NEW k \in Nat, NEW n \in Nat, Width(m, k + n)
  PROVE  Rest(m, k) \in Bytes /\ Width(Rest(m, k), n)
<1>1. Len(m) = k + n /\ k <= Len(m)
  BY DEF Width
<1>2. Rest(m, k) \in Bytes /\ Len(Rest(m, k)) = Len(m) - k
  BY <1>1, AtRest DEF Rest
<1>3. QED
  BY <1>1, <1>2 DEF Width

\* Six strings of bytes one after the other.
Six(a1, a2, a3, a4, a5, a6) == Join(Join(Join(Join(Join(a1, a2), a3), a4), a5), a6)

\* Where each of six parts is.
LEMMA SixParts ==
  ASSUME NEW a1 \in Bytes, NEW a2 \in Bytes, NEW a3 \in Bytes, NEW a4 \in Bytes,
         NEW a5 \in Bytes, NEW a6 \in Bytes,
         NEW l1 \in Nat, NEW l2 \in Nat, NEW l3 \in Nat, NEW l4 \in Nat, NEW l5 \in Nat,
         NEW l6 \in Nat,
         Width(a1, l1), Width(a2, l2), Width(a3, l3), Width(a4, l4), Width(a5, l5), Width(a6, l6)
  PROVE  LET m == Six(a1, a2, a3, a4, a5, a6)
         IN  /\ m \in Bytes /\ Width(m, l1 + l2 + l3 + l4 + l5 + l6)
             /\ At(m, 0, a1) /\ At(m, l1, a2) /\ At(m, l1 + l2, a3) /\ At(m, l1 + l2 + l3, a4)
             /\ At(m, l1 + l2 + l3 + l4, a5) /\ At(m, l1 + l2 + l3 + l4 + l5, a6)
<1>1. PICK k2 \in Nat, k3 \in Nat, k4 \in Nat, k5 \in Nat :
          k2 = l1 + l2 /\ k3 = k2 + l3 /\ k4 = k3 + l4 /\ k5 = k4 + l5
  OBVIOUS
<1>2. PICK x2 : x2 = Join(a1, a2)
  OBVIOUS
<1>3. x2 \in Bytes /\ Width(x2, k2) /\ At(x2, 0, a1) /\ At(x2, l1, a2)
  BY <1>1, <1>2, CatAt
<1>4. PICK x3 : x3 = Join(x2, a3)
  OBVIOUS
<1>5. x3 \in Bytes /\ Width(x3, k3) /\ At(x3, k2, a3)
  BY <1>1, <1>3, <1>4, CatAt
<1>6. At(x3, 0, a1) /\ At(x3, l1, a2)
  BY <1>3, <1>4, AtLeft
<1>7. PICK x4 : x4 = Join(x3, a4)
  OBVIOUS
<1>8. x4 \in Bytes /\ Width(x4, k4) /\ At(x4, k3, a4)
  BY <1>1, <1>5, <1>7, CatAt
<1>9. At(x4, 0, a1) /\ At(x4, l1, a2) /\ At(x4, k2, a3)
  BY <1>5, <1>6, <1>7, AtLeft
<1>10. PICK x5 : x5 = Join(x4, a5)
  OBVIOUS
<1>11. x5 \in Bytes /\ Width(x5, k5) /\ At(x5, k4, a5)
  BY <1>1, <1>8, <1>10, CatAt
<1>12. At(x5, 0, a1) /\ At(x5, l1, a2) /\ At(x5, k2, a3) /\ At(x5, k3, a4)
  BY <1>8, <1>9, <1>10, AtLeft
<1>13. PICK m : m = Join(x5, a6)
  OBVIOUS
<1>14. m \in Bytes /\ Width(m, k5 + l6) /\ At(m, k5, a6)
  BY <1>11, <1>13, CatAt
<1>15. At(m, 0, a1) /\ At(m, l1, a2) /\ At(m, k2, a3) /\ At(m, k3, a4) /\ At(m, k4, a5)
  BY <1>11, <1>12, <1>13, AtLeft
<1>16. m = Six(a1, a2, a3, a4, a5, a6)
  BY <1>2, <1>4, <1>7, <1>10, <1>13 DEF Six
<1>17. /\ k2 = l1 + l2 /\ k3 = l1 + l2 + l3 /\ k4 = l1 + l2 + l3 + l4
       /\ k5 = l1 + l2 + l3 + l4 + l5 /\ k5 + l6 = l1 + l2 + l3 + l4 + l5 + l6
  BY <1>1
<1>18. QED
  BY <1>14, <1>15, <1>16, <1>17

\* Halving an even length, and padding an odd one.
LEMMA Even == \A n \in Nat : n % 2 = 0 => 2 * (n \div 2) = n /\ n \div 2 \in Nat
  OBVIOUS

\* One byte of padding makes an odd path even.
LEMMA OddNext == \A n \in Nat : (2 + n) % 2 # 0 => (3 + n) % 2 = 0
  OBVIOUS

\* A 16-bit field is two bytes and reads back as what was stored.
LEMMA U16Bytes ==
  ASSUME NEW v \in Nat, v <= 65535
  PROVE  /\ U16(v) \in Bytes /\ Len(U16(v)) = 2
         /\ U16(v)[1] + 256 * U16(v)[2] = v
<1>1. v % 256 \in Byte /\ v \div 256 \in Byte
  BY ByteRange
<1>2. (v % 256) + 256 * (v \div 256) = v
  OBVIOUS
<1>3. QED
  BY <1>1, <1>2 DEF U16, Bytes

\* symbolic_ioi_path gives whole words: 0x91, the length, the name, and a pad byte if need be.
LEMMA IoiPathBytes ==
  ASSUME NEW tag \in Bytes, Len(tag) <= 250
  PROVE  /\ IoiPath(tag) \in Bytes
         /\ IoiPath(tag)[1] = 145 /\ IoiPath(tag)[2] = Len(tag)
         /\ Len(IoiPath(tag)) \in 2 + Len(tag) .. 3 + Len(tag)
         /\ Len(IoiPath(tag)) % 2 = 0
         /\ \A i \in 1 .. Len(tag) : IoiPath(tag)[2 + i] = tag[i]
<1> DEFINE seg == <<145, Len(tag)>> \o tag
<1>1. /\ seg \in Seq(Byte) /\ Len(seg) = 2 + Len(tag)
      /\ seg[1] = 145 /\ seg[2] = Len(tag)
      /\ \A i \in 1 .. Len(tag) : seg[2 + i] = tag[i]
  BY ByteRange DEF Bytes
<1>2. IoiPath(tag) = IF Len(seg) % 2 = 0 THEN seg ELSE Append(seg, 0)
  BY DEF IoiPath
<1> HIDE DEF seg
<1>3. Len(tag) \in Nat
  BY DEF Bytes
<1>4. CASE Len(seg) % 2 = 0
  <2>1. IoiPath(tag) = seg
    BY <1>2, <1>4
  <2>2. Len(IoiPath(tag)) = 2 + Len(tag) /\ Len(IoiPath(tag)) % 2 = 0
    BY <1>1, <1>4, <2>1
  <2>3. Len(IoiPath(tag)) \in 2 + Len(tag) .. 3 + Len(tag)
    BY <1>3, <2>2
  <2>4. QED
    BY <1>1, <2>1, <2>2, <2>3 DEF Bytes
<1>5. CASE Len(seg) % 2 # 0
  <2>1. IoiPath(tag) = Append(seg, 0)
    BY <1>2, <1>5
  <2>2. Append(seg, 0) \in Seq(Byte) /\ Len(Append(seg, 0)) = 3 + Len(tag)
    BY <1>1, <1>3, ByteRange
  <2>3. (3 + Len(tag)) % 2 = 0
    BY <1>1, <1>3, <1>5, OddNext
  <2>4. \A i \in 1 .. 2 + Len(tag) : Append(seg, 0)[i] = seg[i]
    BY <1>1, <1>3
  <2>5. Len(IoiPath(tag)) = 3 + Len(tag) /\ IoiPath(tag) \in Bytes
    BY <2>1, <2>2 DEF Bytes
  <2>6. \A i \in 1 .. 2 + Len(tag) : IoiPath(tag)[i] = seg[i]
    BY <2>1, <2>4
  <2> HIDE DEF IoiPath
  <2>7. Len(IoiPath(tag)) % 2 = 0
    BY <2>3, <2>5
  <2>8. QED
    BY <1>1, <1>3, <2>5, <2>6, <2>7
<1>6. QED
  BY <1>4, <1>5

\* Short tuples of bytes are strings of their length.
LEMMA Tuples ==
  /\ \A a \in Byte : <<a>> \in Bytes /\ Width(<<a>>, 1)
  /\ \A a, b \in Byte : <<a, b>> \in Bytes /\ Width(<<a, b>>, 2)
  /\ \A a, b, c, d \in Byte : <<a, b, c, d>> \in Bytes /\ Width(<<a, b, c, d>>, 4)
  /\ \A a, b, c, d, e \in Byte :
       <<a, b, c, d, e>> \in Bytes /\ Width(<<a, b, c, d, e>>, 5)
  /\ \A a, b, c, d, e, f \in Byte :
       <<a, b, c, d, e, f>> \in Bytes /\ Width(<<a, b, c, d, e, f>>, 6)
  BY DEF Bytes, Width

\* The first two bytes.
LEMMA FirstByte ==
  ASSUME NEW m \in Bytes, NEW x \in Byte, At(m, 0, <<x>>)
  PROVE  m[1] = x
<1>1. m[0 + 1] = x
  BY DEF At
<1>2. QED
  BY <1>1

\* Two bytes at a place.
LEMMA PairAt ==
  ASSUME NEW m \in Bytes, NEW k \in Nat, NEW x \in Byte, NEW y \in Byte, At(m, k, <<x, y>>)
  PROVE  ByteAt(m, k + 1, x) /\ ByteAt(m, k + 2, y)
  BY DEF At, ByteAt

\* Two bytes at the start.
LEMMA FirstPair ==
  ASSUME NEW m \in Bytes, NEW x \in Byte, NEW y \in Byte, At(m, 0, <<x, y>>)
  PROVE  m[1] = x /\ m[2] = y
<1>1. m[0 + 1] = x /\ m[0 + 2] = y
  BY DEF At
<1>2. QED
  BY <1>1

\* A path p of n bytes, and h its number of words, for the name tag of k bytes.
IsPath(p, h, n, tag, k) ==
  /\ p = IoiPath(tag) /\ h = Len(IoiPath(tag)) \div 2 /\ 2 * h = n
  /\ Width(p, n) /\ Width(tag, k)
  /\ ByteAt(p, 1, 145) /\ ByteAt(p, 2, k) /\ At(p, 2, tag)
  /\ 2 + k <= n /\ n <= 3 + k

\* The path of every name of at most 250 bytes has this shape.
LEMMA PathShape ==
  ASSUME NEW tag \in Bytes, Len(tag) <= 250
  PROVE  \E p \in Bytes, h \in Byte, n \in Nat, k \in Nat : IsPath(p, h, n, tag, k)
<1>1. PICK p \in Bytes : p = IoiPath(tag)
  BY IoiPathBytes
<1>2. PICK n \in Nat, k \in Nat : n = Len(p) /\ k = Len(tag)
  BY LenNat
<1>3. n \in 2 + k .. 3 + k /\ n % 2 = 0 /\ k <= 250
  BY <1>1, <1>2, IoiPathBytes
<1>4. 2 * (n \div 2) = n /\ n \div 2 \in Nat
  BY <1>3, Even
<1>5. 2 + k <= n /\ n <= 3 + k /\ n \div 2 \in Byte
  BY <1>3, <1>4, ByteRange
<1>6. p[1] = 145 /\ p[2] = Len(tag) /\ \A i \in 1 .. Len(tag) : p[2 + i] = tag[i]
  BY <1>1, IoiPathBytes
<1>7. At(p, 2, tag)
  BY <1>2, <1>5, <1>6 DEF At
<1>8. IsPath(p, n \div 2, n, tag, k)
  BY <1>1, <1>2, <1>4, <1>5, <1>6, <1>7 DEF IsPath, ByteAt, Width
<1>9. QED
  BY <1>5, <1>8

\* A read request is bytes, with service 0x4C, and short.
LEMMA ReadRequest ==
  ASSUME NEW tag \in Bytes, Len(tag) <= 250
  PROVE  /\ ReadTagRequest(tag) \in Bytes
         /\ Len(ReadTagRequest(tag)) >= 6 /\ Len(ReadTagRequest(tag)) <= 300
         /\ ReadTagRequest(tag)[1] = 76
<1>1. PICK p \in Bytes, h \in Byte, n \in Nat, k \in Nat : IsPath(p, h, n, tag, k)
  BY PathShape
<1>2. 2 <= n /\ n <= 253
  BY <1>1 DEF IsPath, Width
<1>3. 76 \in Byte /\ 1 \in Nat /\ 1 < 65536
  BY ByteRange
<1>4. PICK hd \in Bytes : hd = <<76, h>> /\ Width(hd, 2)
  <2>1. <<76, h>> \in Bytes /\ Width(<<76, h>>, 2)
    BY <1>3, Tuples
  <2>2. QED
    BY <2>1
<1>5. PICK e \in Bytes : e = U16(1) /\ Width(e, 2)
  BY <1>3, U16Bytes DEF Width
<1>6. Join(hd, p) \in Bytes /\ Width(Join(hd, p), 2 + n) /\ At(Join(hd, p), 0, hd)
  BY <1>1, <1>4, CatAt DEF IsPath
<1>7. PICK x \in Bytes : x = Join(hd, p)
  BY <1>6
<1>8. PICK k2 \in Nat : k2 = 2 + n
  OBVIOUS
<1>9. Width(x, k2) /\ At(x, 0, hd)
  BY <1>6, <1>7, <1>8
<1>10. Join(x, e) \in Bytes /\ Width(Join(x, e), k2 + 2) /\ At(Join(x, e), 0, hd)
  <2>1. Width(e, 2)
    BY <1>5
  <2>2. QED
    BY <1>9, <2>1, CatAt, AtLeft
<1>11. PICK m \in Bytes : m = Join(x, e)
  BY <1>10
<1>12. m = ReadTagRequest(tag)
  BY <1>1, <1>4, <1>5, <1>7, <1>11 DEF ReadTagRequest, Join, IsPath
<1>13. m[1] = 76
  <2>1. At(m, 0, <<76, h>>)
    BY <1>4, <1>10, <1>11
  <2>2. QED
    BY <1>3, <2>1, FirstPair
<1>14. Len(m) >= 6 /\ Len(m) <= 300
  BY <1>2, <1>8, <1>10, <1>11 DEF Width
<1>15. QED
  BY <1>12, <1>13, <1>14

\* The name in a tag request.
LEMMA NamedIs ==
  ASSUME NEW m \in Bytes, NEW p \in Bytes, NEW h \in Byte, NEW n \in Nat, NEW tag \in Bytes,
         NEW k \in Nat, At(m, 2, p), IsPath(p, h, n, tag, k)
  PROVE  Len(m) >= 4 /\ Named(m) = tag
<1>1. /\ Width(p, n) /\ Width(tag, k) /\ ByteAt(p, 1, 145) /\ ByteAt(p, 2, k) /\ At(p, 2, tag)
      /\ 1 \in 1 .. n /\ 2 \in 1 .. n
  BY DEF IsPath
<1>2. ByteAt(m, 2 + 1, p[1]) /\ ByteAt(m, 2 + 2, p[2])
  BY <1>1, AtIndex
<1>3. m[3] = 145 /\ m[4] = k
  BY <1>1, <1>2 DEF ByteAt
<1>4. At(m, 2 + 2, tag)
  BY <1>1, AtWithin
<1>5. At(m, 4, tag)
  BY <1>4
<1>6. Part(m, 4 + 1, 4 + k, tag)
  BY <1>1, <1>5, AtPart
<1>7. SubSeq(m, 5, 4 + k) = tag
  BY <1>6 DEF Part
<1>8. Len(m) >= 4 + k /\ Len(m) >= 4
  BY <1>1, <1>5, LenNat DEF At, Width
<1>9. QED
  BY <1>3, <1>7, <1>8 DEF Named

\* The bytes of a write request, and those of its body.
LEMMA WriteParts ==
  ASSUME NEW p \in Bytes, NEW h \in Byte, NEW n \in Nat, NEW l \in Nat,
         NEW hd \in Bytes, NEW ty \in Bytes, NEW hn \in Bytes, NEW on \in Bytes, NEW data \in Bytes,
         Width(hd, 2), Width(p, n), Width(ty, 2), Width(hn, 2), Width(on, 2), Width(data, l)
  PROVE  LET m == Six(hd, p, ty, hn, on, data)
             b == Rest(m, 2 + n)
         IN  /\ m \in Bytes /\ At(m, 0, hd) /\ At(m, 2, p) /\ Width(m, 8 + n + l)
             /\ b \in Bytes /\ Width(b, 6 + l)
             /\ At(b, 0, ty) /\ At(b, 2, hn) /\ At(b, 4, on) /\ At(b, 6, data)
<1>1. PICK w \in Nat : w = 2
  OBVIOUS
<1>2. Width(hd, w) /\ Width(ty, w) /\ Width(hn, w) /\ Width(on, w)
  BY <1>1
<1>3. PICK m : m = Six(hd, p, ty, hn, on, data)
  OBVIOUS
<1>4. /\ m \in Bytes /\ Width(m, w + n + w + w + w + l)
      /\ At(m, 0, hd) /\ At(m, w, p) /\ At(m, w + n, ty) /\ At(m, w + n + w, hn)
      /\ At(m, w + n + w + w, on) /\ At(m, w + n + w + w + w, data)
  <2>1. LET x == Six(hd, p, ty, hn, on, data)
        IN  /\ x \in Bytes /\ Width(x, w + n + w + w + w + l)
            /\ At(x, 0, hd) /\ At(x, w, p) /\ At(x, w + n, ty) /\ At(x, w + n + w, hn)
            /\ At(x, w + n + w + w, on) /\ At(x, w + n + w + w + w, data)
    BY ZenonT(60), <1>2, SixParts
  <2>2. QED
    BY <1>3, <2>1
<1>5. PICK c \in Nat : c = 2 + n
  OBVIOUS
<1>6. PICK j0 \in Nat, j2 \in Nat, j4 \in Nat, j6 \in Nat, e \in Nat :
          j0 = 0 /\ j2 = 2 /\ j4 = 4 /\ j6 = 6 /\ e = 6 + l
  OBVIOUS
<1>7. /\ w + n = c + j0 /\ w + n + w = c + j2 /\ w + n + w + w = c + j4
      /\ w + n + w + w + w = c + j6 /\ w + n + w + w + w + l = c + e
  BY <1>1, <1>5, <1>6
<1>8. /\ Width(m, c + e)
      /\ At(m, c + j0, ty) /\ At(m, c + j2, hn) /\ At(m, c + j4, on) /\ At(m, c + j6, data)
  BY <1>4, <1>7
<1>9. Rest(m, c) \in Bytes /\ Width(Rest(m, c), e)
  BY <1>4, <1>8, RestWidth
<1>10. /\ At(Rest(m, c), j0, ty) /\ At(Rest(m, c), j2, hn)
       /\ At(Rest(m, c), j4, on) /\ At(Rest(m, c), j6, data)
  BY <1>4, <1>8, AtLater
<1>11. Width(m, 8 + n + l) /\ At(m, 2, p)
  <2>1. w + n + w + w + w + l = 8 + n + l
    BY <1>1
  <2>2. QED
    BY <1>1, <1>4, <2>1
<1>12. QED
  BY <1>3, <1>4, <1>5, <1>6, <1>9, <1>10, <1>11

\* The fields the controller cuts out of a write's body.
LEMMA BodyFields ==
  ASSUME NEW b \in Bytes, NEW ty \in Bytes, NEW hn \in Bytes, NEW on \in Bytes, NEW data \in Bytes,
         NEW l \in Nat, Width(ty, 2), Width(hn, 2), Width(on, 2), Width(data, l), Width(b, 6 + l),
         At(b, 0, ty), At(b, 2, hn), At(b, 4, on), At(b, 6, data)
  PROVE  /\ Part(b, 1, 2, ty) /\ Part(b, 5, 6, on) /\ Part(b, 7, Len(b), data)
         /\ ByteAt(b, 3, hn[1]) /\ ByteAt(b, 4, hn[2])
<1>1. Part(b, 0 + 1, 0 + 2, ty) /\ Part(b, 4 + 1, 4 + 2, on)
  BY AtPart
<1>2. Part(b, 6 + 1, 6 + l, data)
  BY AtPart
<1>3. 1 \in 1 .. 2 /\ 2 \in 1 .. 2
  OBVIOUS
<1>4. ByteAt(b, 2 + 1, hn[1]) /\ ByteAt(b, 2 + 2, hn[2])
  BY <1>3, AtIndex
<1>5. Len(b) = 6 + l
  BY DEF Width
<1>6. QED
  BY <1>1, <1>2, <1>4, <1>5

\* The controller takes a write request apart into the name, the handle and the data.
LEMMA WriteRequest ==
  ASSUME NEW tag \in Bytes, Len(tag) <= 250, NEW handle \in Word, NEW data \in Bytes
  PROVE  LET m == WriteTagRequest(tag, handle, data)
             b == Body(m)
         IN  /\ m \in Bytes /\ Len(m) >= 4 /\ m[1] = 77 /\ Named(m) = tag
             /\ b \in Bytes /\ Len(b) = 6 + Len(data)
             /\ SubSeq(b, 1, 2) = <<160, 2>> /\ SubSeq(b, 5, 6) = U16(1)
             /\ LdU16(b, 3) = handle /\ SubSeq(b, 7, Len(b)) = data
<1>1. PICK p \in Bytes, h \in Byte, n \in Nat, k \in Nat : IsPath(p, h, n, tag, k)
  BY PathShape
<1>2. PICK l \in Nat : Width(data, l)
  BY LenNat DEF Width
<1>3. /\ 77 \in Byte /\ 160 \in Byte /\ 2 \in Byte
      /\ U16(handle) \in Bytes /\ Width(U16(handle), 2)
      /\ U16(handle)[1] + 256 * U16(handle)[2] = handle
      /\ U16(1) \in Bytes /\ Width(U16(1), 2)
  BY U16Bytes, ByteRange DEF Word, Width
<1>4. PICK hd \in Bytes : hd = <<77, h>> /\ Width(hd, 2)
  <2>1. <<77, h>> \in Bytes /\ Width(<<77, h>>, 2)
    BY <1>3, Tuples
  <2>2. QED
    BY <2>1
<1>5. PICK ty \in Bytes : ty = <<160, 2>> /\ Width(ty, 2)
  <2>1. <<160, 2>> \in Bytes /\ Width(<<160, 2>>, 2)
    BY <1>3, Tuples
  <2>2. QED
    BY <2>1
<1>6. PICK hn \in Bytes, on \in Bytes :
          hn = U16(handle) /\ Width(hn, 2) /\ on = U16(1) /\ Width(on, 2)
  BY <1>3
<1>7. PICK m : m = Six(hd, p, ty, hn, on, data)
  OBVIOUS
<1>8. /\ m \in Bytes /\ At(m, 0, hd) /\ At(m, 2, p) /\ Width(m, 8 + n + l)
      /\ Rest(m, 2 + n) \in Bytes /\ Width(Rest(m, 2 + n), 6 + l)
      /\ At(Rest(m, 2 + n), 0, ty) /\ At(Rest(m, 2 + n), 2, hn)
      /\ At(Rest(m, 2 + n), 4, on) /\ At(Rest(m, 2 + n), 6, data)
  <2>1. Width(hd, 2) /\ Width(p, n) /\ Width(ty, 2) /\ Width(hn, 2) /\ Width(on, 2)
    BY <1>1, <1>4, <1>5, <1>6 DEF IsPath
  <2>2. QED
    BY <1>2, <1>7, <2>1, WriteParts
<1>9. WriteTagRequest(tag, handle, data) = m
  BY <1>1, <1>4, <1>5, <1>6, <1>7 DEF WriteTagRequest, Six, Join, IsPath
<1>10. m[1] = 77 /\ m[2] = h
  <2>1. At(m, 0, <<77, h>>)
    BY <1>4, <1>8
  <2>2. QED
    BY <1>3, <1>8, <2>1, FirstPair
<1>11. Len(m) >= 4 /\ Named(m) = tag
  BY <1>1, <1>8, NamedIs
<1>12. PICK b \in Bytes : b = Rest(m, 2 + n)
  BY <1>8
<1>13. Body(m) = b
  <2>1. 3 + 2 * m[2] = 2 + n + 1
    BY <1>1, <1>10 DEF IsPath
  <2>2. QED
    BY <1>12, <2>1 DEF Body, Rest
<1>14. /\ Width(b, 6 + l)
       /\ At(b, 0, ty) /\ At(b, 2, hn) /\ At(b, 4, on) /\ At(b, 6, data)
  BY <1>8, <1>12
<1>15. /\ Part(b, 1, 2, ty) /\ Part(b, 5, 6, on) /\ Part(b, 7, Len(b), data)
       /\ ByteAt(b, 3, hn[1]) /\ ByteAt(b, 4, hn[2])
  <2>1. Width(ty, 2) /\ Width(hn, 2) /\ Width(on, 2)
    BY <1>5, <1>6
  <2>2. QED
    BY <1>2, <1>14, <2>1, BodyFields
<1>16. LdU16(b, 3) = handle
  <2>1. b[3] = U16(handle)[1] /\ b[4] = U16(handle)[2]
    BY <1>6, <1>15 DEF ByteAt
  <2>2. LdU16(b, 3) = b[3] + 256 * b[4]
    BY DEF LdU16
  <2>3. QED
    BY <1>3, <2>1, <2>2
<1>17. SubSeq(b, 1, 2) = <<160, 2>> /\ SubSeq(b, 5, 6) = U16(1) /\ SubSeq(b, 7, Len(b)) = data
  BY <1>5, <1>6, <1>15 DEF Part
<1>18. Len(b) = 6 + Len(data)
  BY <1>2, <1>14 DEF Width
<1>19. QED
  BY <1>8, <1>9, <1>10, <1>11, <1>13, <1>16, <1>17, <1>18

\* Bytes that are written as constants.
LEMMA Constant ==
  /\ ConnManager \in Bytes /\ Width(ConnManager, 5)
  /\ <<78>> \in Bytes /\ Width(<<78>>, 1) /\ <<82>> \in Bytes /\ Width(<<82>>, 1)
  /\ <<91>> \in Bytes /\ Width(<<91>>, 1)
  /\ <<5, 247>> \in Bytes /\ Width(<<5, 247>>, 2) /\ <<10, 14>> \in Bytes /\ Width(<<10, 14>>, 2)
  /\ <<0, 66>> \in Bytes /\ Width(<<0, 66>>, 2)
  /\ <<0, 0, 1, 128>> \in Bytes /\ Width(<<0, 0, 1, 128>>, 4)
  /\ <<1, 0, 0, 128>> \in Bytes /\ Width(<<1, 0, 0, 128>>, 4)
  /\ <<3, 0, 0, 0>> \in Bytes /\ Width(<<3, 0, 0, 0>>, 4)
  /\ <<128, 150, 152, 0>> \in Bytes /\ Width(<<128, 150, 152, 0>>, 4)
  /\ <<2, 0, 32, 2, 36, 1>> \in Bytes /\ Width(<<2, 0, 32, 2, 36, 1>>, 6)
  /\ <<163, 2, 32, 2, 36, 1>> \in Bytes /\ Width(<<163, 2, 32, 2, 36, 1>>, 6)
<1>1. \A x \in {0, 1, 2, 3, 5, 6, 10, 14, 32, 36, 66, 78, 82, 91, 128, 150, 152, 163, 247} : x \in Byte
  BY ByteRange
<1>2. ConnManager \in Bytes /\ Width(ConnManager, 5)
  BY ZenonT(40), <1>1, Tuples DEF ConnManager
<1>3. /\ <<78>> \in Bytes /\ Width(<<78>>, 1) /\ <<82>> \in Bytes /\ Width(<<82>>, 1)
      /\ <<91>> \in Bytes /\ Width(<<91>>, 1)
  BY <1>1, Tuples
<1>4. /\ <<5, 247>> \in Bytes /\ Width(<<5, 247>>, 2) /\ <<10, 14>> \in Bytes /\ Width(<<10, 14>>, 2)
      /\ <<0, 66>> \in Bytes /\ Width(<<0, 66>>, 2)
  BY <1>1, Tuples
<1>5. /\ <<0, 0, 1, 128>> \in Bytes /\ Width(<<0, 0, 1, 128>>, 4)
      /\ <<1, 0, 0, 128>> \in Bytes /\ Width(<<1, 0, 0, 128>>, 4)
  <2>1. <<0, 0, 1, 128>> \in Bytes /\ Width(<<0, 0, 1, 128>>, 4)
    BY ZenonT(40), <1>1, Tuples
  <2>2. <<1, 0, 0, 128>> \in Bytes /\ Width(<<1, 0, 0, 128>>, 4)
    BY ZenonT(40), <1>1, Tuples
  <2>3. QED
    BY <2>1, <2>2
<1>6. /\ <<3, 0, 0, 0>> \in Bytes /\ Width(<<3, 0, 0, 0>>, 4)
      /\ <<128, 150, 152, 0>> \in Bytes /\ Width(<<128, 150, 152, 0>>, 4)
  <2>1. <<3, 0, 0, 0>> \in Bytes /\ Width(<<3, 0, 0, 0>>, 4)
    BY <1>1, Tuples
  <2>2. <<128, 150, 152, 0>> \in Bytes /\ Width(<<128, 150, 152, 0>>, 4)
    BY ZenonT(40), <1>1, Tuples
  <2>3. QED
    BY <2>1, <2>2
<1>7. <<2, 0, 32, 2, 36, 1>> \in Bytes /\ Width(<<2, 0, 32, 2, 36, 1>>, 6)
  BY ZenonT(40), <1>1, Tuples
<1>8. <<163, 2, 32, 2, 36, 1>> \in Bytes /\ Width(<<163, 2, 32, 2, 36, 1>>, 6)
  BY ZenonT(40), <1>1, Tuples
<1>9. QED
  BY <1>2, <1>3, <1>4, <1>5, <1>6, <1>7, <1>8

\* The identity of a connection is eight bytes.
LEMMA IdentityBytes ==
  ASSUME NEW conn \in ConnIds
  PROVE  Identity(conn) \in Bytes /\ Width(Identity(conn), 8)
<1>1. /\ conn.serial \in Bytes /\ Width(conn.serial, 2)
      /\ conn.orig \in Bytes /\ Width(conn.orig, 4)
  BY DEF ConnIds, Width
<1>2. U16(1) \in Bytes /\ Width(U16(1), 2)
  BY U16Bytes DEF Width
<1>3. PICK x : x = Join(conn.serial, U16(1))
  OBVIOUS
<1>4. x \in Bytes /\ Width(x, 2 + 2)
  BY <1>1, <1>2, <1>3, CatAt
<1>5. Width(x, 4)
  BY <1>4
<1>6. Join(x, conn.orig) \in Bytes /\ Width(Join(x, conn.orig), 4 + 4)
  BY <1>1, <1>4, <1>5, CatAt
<1>7. Identity(conn) = Join(x, conn.orig)
  BY <1>3 DEF Identity, Join
<1>8. QED
  BY <1>6, <1>7

\* A string of k bytes and l more after it.
LEMMA Extend ==
  ASSUME NEW x \in Bytes, NEW b \in Bytes, NEW k \in Nat, NEW l \in Nat, NEW n \in Nat,
         Width(x, k), Width(b, l), k + l = n
  PROVE  /\ Join(x, b) \in Bytes /\ Width(Join(x, b), n) /\ At(Join(x, b), k, b)
         /\ \A p \in Bytes : \A j \in Nat : At(x, j, p) => At(Join(x, b), j, p)
  BY CatAt, AtLeft

\* The first k bytes of a Large_Forward_Open: service a, and the identity id.
Opens(x, k, a, id) == x \in Bytes /\ Width(x, k) /\ At(x, 0, a) /\ At(x, 16, id)

\* More bytes leave them in place.
LEMMA OpensMore ==
  ASSUME NEW x, NEW b \in Bytes, NEW k \in Nat, NEW l \in Nat, NEW n \in Nat,
         NEW a \in Bytes, NEW id \in Bytes, Opens(x, k, a, id), Width(b, l), k + l = n
  PROVE  Opens(Join(x, b), n, a, id)
  BY Extend DEF Opens

\* Large_Forward_Open carries the identity in its bytes 17 to 24.
LEMMA LfoRequest ==
  ASSUME NEW conn \in ConnIds, NEW params \in Nat
  PROVE  LET m == BuildLfo(conn, params)
         IN  /\ m \in Bytes /\ Len(m) = 50 /\ m[1] = 91
             /\ SubSeq(m, 17, 24) = Identity(conn)
<1>1. PICK w0 \in Nat, w1 \in Nat, w2 \in Nat, w4 \in Nat, w5 \in Nat, w6 \in Nat, w8 \in Nat,
           w12 \in Nat, w16 \in Nat, w24 \in Nat, w28 \in Nat, w32 \in Nat, w36 \in Nat, w40 \in Nat,
           w44 \in Nat, w50 \in Nat :
          /\ w0 = 0 /\ w1 = 1 /\ w2 = 2 /\ w4 = 4 /\ w5 = 5 /\ w6 = 6 /\ w8 = 8 /\ w12 = 12 /\ w16 = 16
          /\ w24 = 24 /\ w28 = 28 /\ w32 = 32 /\ w36 = 36 /\ w40 = 40 /\ w44 = 44 /\ w50 = 50
  OBVIOUS
<1>2. PICK a1 \in Bytes, a2 \in Bytes, a3 \in Bytes, a4 \in Bytes, a5 \in Bytes :
          /\ a1 = <<91>> /\ a2 = ConnManager /\ a3 = <<5, 247>> /\ a4 = <<0, 0, 1, 128>>
          /\ a5 = <<1, 0, 0, 128>>
  BY Constant
<1>3. /\ Width(a1, w1) /\ Width(a2, w5) /\ Width(a3, w2) /\ Width(a4, w4) /\ Width(a5, w4)
  BY <1>1, <1>2, Constant
<1>4. PICK id \in Bytes : id = Identity(conn) /\ Width(id, w8)
  BY <1>1, IdentityBytes
<1>5. OtSize(params) \in Nat /\ OtSize(params) <= 65535
  BY DEF OtSize, Min2
<1>6. PICK size \in Bytes : size = U16(OtSize(params)) \o <<0, 66>> /\ Width(size, w4)
  <2>1. U16(OtSize(params)) \in Bytes /\ Width(U16(OtSize(params)), 2)
    BY <1>5, U16Bytes DEF Width
  <2>2. PICK u \in Bytes, v \in Bytes : u = U16(OtSize(params)) /\ v = <<0, 66>>
    BY <2>1, Constant
  <2>3. Width(u, w2) /\ Width(v, w2)
    BY <1>1, <2>1, <2>2, Constant
  <2>4. Join(u, v) \in Bytes /\ Width(Join(u, v), w2 + w2)
    BY <2>3, CatAt
  <2>5. w2 + w2 = w4
    BY <1>1
  <2>6. QED
    BY <2>2, <2>4, <2>5 DEF Join
<1>7. PICK b1 \in Bytes, rpi \in Bytes, tail \in Bytes :
          b1 = <<3, 0, 0, 0>> /\ rpi = <<128, 150, 152, 0>> /\ tail = <<163, 2, 32, 2, 36, 1>>
  BY Constant
<1>8. Width(b1, w4) /\ Width(rpi, w4) /\ Width(tail, w6)
  BY <1>1, <1>7, Constant
<1>9. At(a1, w0, a1)
  BY <1>1, LenNat DEF At
<1>10. PICK x2 \in Bytes : x2 = Join(a1, a2) /\ Width(x2, w6) /\ At(x2, w0, a1)
  <2>1. w1 + w5 = w6
    BY <1>1
  <2>2. Width(a1, w1) /\ Width(a2, w5) /\ At(a1, w0, a1)
    BY <1>3, <1>9
  <2>3. QED
    BY <2>1, <2>2, Extend
<1>11. PICK x3 \in Bytes : x3 = Join(x2, a3) /\ Width(x3, w8) /\ At(x3, w0, a1)
  <2>1. w6 + w2 = w8
    BY <1>1
  <2>2. Width(x2, w6) /\ Width(a3, w2) /\ At(x2, w0, a1)
    BY <1>10, <1>3
  <2>3. QED
    BY <2>1, <2>2, Extend
<1>12. PICK x4 \in Bytes : x4 = Join(x3, a4) /\ Width(x4, w12) /\ At(x4, w0, a1)
  <2>1. w8 + w4 = w12
    BY <1>1
  <2>2. Width(x3, w8) /\ Width(a4, w4) /\ At(x3, w0, a1)
    BY <1>11, <1>3
  <2>3. QED
    BY <2>1, <2>2, Extend
<1>13. PICK x5 \in Bytes : x5 = Join(x4, a5) /\ Width(x5, w16) /\ At(x5, w0, a1)
  <2>1. w12 + w4 = w16
    BY <1>1
  <2>2. Width(x4, w12) /\ Width(a5, w4) /\ At(x4, w0, a1)
    BY <1>12, <1>3
  <2>3. QED
    BY <2>1, <2>2, Extend
<1>14. PICK x6 \in Bytes : x6 = Join(x5, id) /\ Width(x6, w24) /\ At(x6, w0, a1) /\ At(x6, w16, id)
  <2>1. w16 + w8 = w24
    BY <1>1
  <2>2. Width(x5, w16) /\ Width(id, w8) /\ At(x5, w0, a1)
    BY <1>13, <1>4
  <2>3. QED
    BY <2>1, <2>2, Extend
<1>15. PICK x7 : x7 = Join(x6, b1) /\ Opens(x7, w28, a1, id)
  <2>1. w24 + w4 = w28
    BY <1>1
  <2>2. Opens(x6, w24, a1, id) /\ Width(b1, w4)
    BY <1>1, <1>14, <1>8 DEF Opens
  <2>3. QED
    BY <2>1, <2>2, OpensMore
<1>16. PICK x8 : x8 = Join(x7, rpi) /\ Opens(x8, w32, a1, id)
  <2>1. w28 + w4 = w32
    BY <1>1
  <2>2. Opens(x7, w28, a1, id) /\ Width(rpi, w4)
    BY <1>15, <1>8
  <2>3. QED
    BY <2>1, <2>2, OpensMore
<1>17. PICK x9 : x9 = Join(x8, size) /\ Opens(x9, w36, a1, id)
  <2>1. w32 + w4 = w36
    BY <1>1
  <2>2. Opens(x8, w32, a1, id) /\ Width(size, w4)
    BY <1>16, <1>6
  <2>3. QED
    BY <2>1, <2>2, OpensMore
<1>18. PICK x10 : x10 = Join(x9, rpi) /\ Opens(x10, w40, a1, id)
  <2>1. w36 + w4 = w40
    BY <1>1
  <2>2. Opens(x9, w36, a1, id) /\ Width(rpi, w4)
    BY <1>17, <1>8
  <2>3. QED
    BY <2>1, <2>2, OpensMore
<1>19. PICK x11 : x11 = Join(x10, size) /\ Opens(x11, w44, a1, id)
  <2>1. w40 + w4 = w44
    BY <1>1
  <2>2. Opens(x10, w40, a1, id) /\ Width(size, w4)
    BY <1>18, <1>6
  <2>3. QED
    BY <2>1, <2>2, OpensMore
<1>20. PICK m : m = Join(x11, tail) /\ Opens(m, w50, a1, id)
  <2>1. w44 + w6 = w50
    BY <1>1
  <2>2. Opens(x11, w44, a1, id) /\ Width(tail, w6)
    BY <1>8, <1>19
  <2>3. QED
    BY <2>1, <2>2, OpensMore
<1>21. m \in Bytes /\ Width(m, w50) /\ At(m, 0, a1) /\ At(m, 16, id)
  BY <1>20 DEF Opens
<1>22. Part(m, 16 + 1, 16 + w8, id)
  BY <1>4, <1>21, AtPart
<1>23. m[1] = 91
  <2>1. 91 \in Byte /\ At(m, 0, <<91>>)
    BY <1>2, <1>21, ByteRange
  <2>2. QED
    BY <1>21, <2>1, FirstByte
<1>24. BuildLfo(conn, params) = m
  BY SMTT(40), <1>2, <1>4, <1>6, <1>7, <1>10, <1>11, <1>12,
     <1>13, <1>14, <1>15, <1>16, <1>17, <1>18, <1>19, <1>20 DEF BuildLfo, Join
<1>25. SubSeq(m, 17, 24) = Identity(conn) /\ Len(m) = 50
  BY <1>1, <1>4, <1>21, <1>22 DEF Part, Width
<1>26. QED
  BY <1>21, <1>23, <1>24, <1>25

\* Forward_Close carries it in its bytes 9 to 16.
LEMMA FcRequest ==
  ASSUME NEW conn \in ConnIds
  PROVE  LET m == BuildFc(conn)
         IN  m \in Bytes /\ Len(m) = 22 /\ m[1] = 78 /\ SubSeq(m, 9, 16) = Identity(conn)
<1>1. PICK w1 \in Nat, w2 \in Nat, w5 \in Nat, w6 \in Nat, w8 \in Nat, w16 \in Nat :
          w1 = 1 /\ w2 = 2 /\ w5 = 5 /\ w6 = 6 /\ w8 = 8 /\ w16 = 16
  OBVIOUS
<1>2. PICK a1 \in Bytes, a2 \in Bytes, a3 \in Bytes, a5 \in Bytes :
          a1 = <<78>> /\ a2 = ConnManager /\ a3 = <<10, 14>> /\ a5 = <<2, 0, 32, 2, 36, 1>>
  BY Constant
<1>3. Width(a1, w1) /\ Width(a2, w5) /\ Width(a3, w2) /\ Width(a5, w6)
  BY <1>1, <1>2, Constant
<1>4. PICK id \in Bytes : id = Identity(conn) /\ Width(id, w8)
  BY <1>1, IdentityBytes
<1>5. PICK x2 \in Bytes : x2 = Join(a1, a2) /\ Width(x2, w6) /\ At(x2, 0, a1)
  <2>1. Join(a1, a2) \in Bytes /\ Width(Join(a1, a2), w1 + w5) /\ At(Join(a1, a2), 0, a1)
    BY <1>3, CatAt
  <2>2. w1 + w5 = w6
    BY <1>1
  <2>3. QED
    BY <2>1, <2>2
<1>6. PICK x3 \in Bytes : x3 = Join(x2, a3) /\ Width(x3, w8) /\ At(x3, 0, a1)
  <2>1. Join(x2, a3) \in Bytes /\ Width(Join(x2, a3), w6 + w2) /\ At(Join(x2, a3), 0, a1)
    BY <1>3, <1>5, CatAt, AtLeft
  <2>2. w6 + w2 = w8
    BY <1>1
  <2>3. QED
    BY <2>1, <2>2
<1>7. PICK x4 \in Bytes : x4 = Join(x3, id) /\ Width(x4, w16) /\ At(x4, 0, a1) /\ At(x4, w8, id)
  <2>1. /\ Join(x3, id) \in Bytes /\ Width(Join(x3, id), w8 + w8)
        /\ At(Join(x3, id), 0, a1) /\ At(Join(x3, id), w8, id)
    BY <1>4, <1>6, CatAt, AtLeft
  <2>2. w8 + w8 = w16
    BY <1>1
  <2>3. QED
    BY <2>1, <2>2
<1>8. PICK m \in Bytes : m = Join(x4, a5) /\ Width(m, w16 + w6)
  BY <1>3, <1>7, CatAt
<1>9. At(m, 0, a1) /\ At(m, w8, id)
  BY <1>7, <1>8, AtLeft
<1>10. Part(m, w8 + 1, w8 + w8, id)
  BY <1>4, <1>9, AtPart
<1>11. m[1] = 78
  <2>1. 78 \in Byte /\ At(m, 0, <<78>>)
    BY <1>2, <1>9, ByteRange
  <2>2. QED
    BY <2>1, FirstByte
<1>12. BuildFc(conn) = m
  BY <1>2, <1>4, <1>5, <1>6, <1>7, <1>8 DEF BuildFc, Join
<1>13. SubSeq(m, 9, 16) = Identity(conn) /\ Len(m) = 22
  BY <1>1, <1>4, <1>8, <1>10 DEF Part, Width
<1>14. QED
  BY <1>11, <1>12, <1>13

\* What x has at its start, a string that starts with x has too.
LEMMA Under ==
  ASSUME NEW m \in Bytes, NEW x \in Bytes, NEW p \in Bytes, NEW j \in Nat, At(m, 0, x), At(x, j, p)
  PROVE  At(m, j, p)
<1>1. At(m, 0 + j, p)
  BY AtWithin
<1>2. QED
  BY <1>1

\* A string of k bytes, l more, and where both are.
LEMMA Grow ==
  ASSUME NEW x \in Bytes, NEW b \in Bytes, NEW k \in Nat, NEW l \in Nat, NEW n \in Nat,
         Width(x, k), Width(b, l), k + l = n
  PROVE  /\ Join(x, b) \in Bytes /\ Width(Join(x, b), n)
         /\ At(Join(x, b), 0, x) /\ At(Join(x, b), k, b)
  BY CatAt

\* Padding is bytes.
LEMMA ZerosBytes ==
  ASSUME NEW n \in Nat
  PROVE  Zeros(n) \in Bytes /\ Width(Zeros(n), n)
  BY ByteRange DEF Zeros, Bytes, Width

\* The timeout in ticks of 32 ms is a byte, at least as long as asked and less than a
\* tick longer.
LEMMA TicksRound ==
  ASSUME NEW ms \in Nat
  PROVE  /\ Ticks(ms) \in Byte
         /\ Min2(ms, 8160) <= 32 * Ticks(ms)
         /\ 32 * Ticks(ms) < ms + 32 \/ 32 * Ticks(ms) = 32
<1>1. PICK q : q = (ms + 31) \div 32
  OBVIOUS
<1>2. q \in Nat /\ 32 * q <= ms + 31 /\ ms + 31 < 32 * q + 32
  BY <1>1
<1>3. Ticks(ms) = Min2(IF ms = 0 THEN 1 ELSE q, 255)
  BY <1>1 DEF Ticks
<1>4. QED
  BY <1>2, <1>3, ByteRange DEF Min2

\* A request and a route an Unconnected_Send has room for.
Routable(msg, route) == Len(msg) <= 65535 /\ Len(route) <= 510 /\ Len(route) % 2 = 0

\* An Unconnected_Send comes apart into the request, the route and the timeout it was
\* put together from.
LEMMA RoutedRequest ==
  ASSUME NEW msg \in Bytes, NEW route \in Bytes, NEW ms \in Nat, Routable(msg, route)
  PROVE  LET m == UnconnectedSend(msg, route, ms)
             u == Unwrap(m)
         IN  /\ m \in Bytes /\ m[1] = 82 /\ Len(m) = 12 + Len(msg) + (Len(msg) % 2) + Len(route)
             /\ u.req = msg /\ u.route = route /\ u.end = Len(m) /\ u.wait = 32 * Ticks(ms)
<1>1. PICK n \in Nat, z \in Nat, r \in Nat, h \in Byte :
          n = Len(msg) /\ z = n % 2 /\ r = Len(route) /\ h = r \div 2 /\ 2 * h = r
  <2>1. Len(msg) \in Nat /\ Len(route) \in Nat
    BY LenNat
  <2>2. Len(msg) % 2 \in Nat
    BY <2>1
  <2>3. 2 * (Len(route) \div 2) = Len(route) /\ Len(route) \div 2 \in Nat
    BY <2>1, Even DEF Routable
  <2>4. Len(route) \div 2 \in Byte
    BY <2>1, <2>3, ByteRange DEF Routable
  <2>5. QED
    BY <2>1, <2>2, <2>3, <2>4
<1>2. Width(msg, n) /\ Width(route, r)
  BY <1>1 DEF Width
<1>3. PICK k1 \in Nat, k2 \in Nat, k3 \in Nat, k4 \in Nat, k5 \in Nat, k6 \in Nat, k7 \in Nat,
           k8 \in Nat, w2 \in Nat, w5 \in Nat :
          /\ k1 = 1 /\ k2 = 6 /\ k3 = 8 /\ k4 = 10 /\ k5 = 10 + n /\ k6 = 10 + n + z
          /\ k7 = 12 + n + z /\ k8 = 12 + n + z + r /\ w2 = 2 /\ w5 = 5
  OBVIOUS
<1>4. /\ k1 + w5 = k2 /\ k2 + w2 = k3 /\ k3 + w2 = k4 /\ k4 + n = k5 /\ k5 + z = k6
      /\ k6 + w2 = k7 /\ k7 + r = k8
  BY <1>3
<1>5. PICK a1 \in Bytes, a2 \in Bytes : a1 = <<82>> /\ a2 = ConnManager
  BY Constant
<1>6. Width(a1, k1) /\ Width(a2, w5)
  BY <1>3, <1>5, Constant
<1>7. PICK a3 \in Bytes : a3 = <<5, Ticks(ms)>> /\ Width(a3, w2)
  <2>1. 5 \in Byte /\ Ticks(ms) \in Byte
    <3>1. 5 \in Byte
      BY ByteRange
    <3>2. Ticks(ms) \in Byte
      BY TicksRound
    <3>3. QED
      BY <3>1, <3>2
  <2>2. <<5, Ticks(ms)>> \in Bytes /\ Width(<<5, Ticks(ms)>>, 2)
    BY <2>1, Tuples
  <2>3. QED
    BY <1>3, <2>2
<1>8. PICK a4 \in Bytes : a4 = U16(Len(msg)) /\ Width(a4, w2) /\ a4[1] + 256 * a4[2] = n
  <2>1. Len(msg) \in Nat
    BY LenNat
  <2>2. U16(Len(msg)) \in Bytes /\ Len(U16(Len(msg))) = 2 /\ U16(Len(msg))[1] + 256 * U16(Len(msg))[2] = Len(msg)
    BY <2>1, U16Bytes DEF Routable
  <2>3. QED
    BY <1>1, <1>3, <2>2 DEF Width
<1>9. PICK a6 \in Bytes : a6 = Zeros(Len(msg) % 2) /\ Width(a6, z)
  BY <1>1, ZerosBytes
<1>10. PICK a7 \in Bytes : a7 = <<Len(route) \div 2, 0>> /\ Width(a7, w2) /\ a7 = <<h, 0>>
  <2>1. 0 \in Byte /\ <<h, 0>> \in Bytes /\ Width(<<h, 0>>, 2)
    BY ByteRange, Tuples
  <2>2. QED
    BY <1>1, <1>3, <2>1
<1>11. PICK x2 \in Bytes : x2 = Join(a1, a2) /\ Width(x2, k2) /\ At(x2, 0, a1)
  <2>1. k1 + w5 = k2
    BY <1>4
  <2>2. Width(a1, k1) /\ Width(a2, w5)
    BY <1>6
  <2>3. QED
    BY <2>1, <2>2, Grow
<1>12. PICK x3 \in Bytes : x3 = Join(x2, a3) /\ Width(x3, k3) /\ At(x3, 0, x2) /\ At(x3, k2, a3)
  <2>1. k2 + w2 = k3
    BY <1>4
  <2>2. Width(x2, k2) /\ Width(a3, w2)
    BY <1>7, <1>11
  <2>3. QED
    BY <2>1, <2>2, Grow
<1>13. PICK x4 \in Bytes : x4 = Join(x3, a4) /\ Width(x4, k4) /\ At(x4, 0, x3) /\ At(x4, k3, a4)
  <2>1. k3 + w2 = k4
    BY <1>4
  <2>2. Width(x3, k3) /\ Width(a4, w2)
    BY <1>8, <1>12
  <2>3. QED
    BY <2>1, <2>2, Grow
<1>14. PICK x5 \in Bytes : x5 = Join(x4, msg) /\ Width(x5, k5) /\ At(x5, 0, x4) /\ At(x5, k4, msg)
  <2>1. k4 + n = k5
    BY <1>4
  <2>2. Width(x4, k4) /\ Width(msg, n)
    BY <1>2, <1>13
  <2>3. QED
    BY <2>1, <2>2, Grow
<1>15. PICK x6 \in Bytes : x6 = Join(x5, a6) /\ Width(x6, k6) /\ At(x6, 0, x5)
  <2>1. k5 + z = k6
    BY <1>4
  <2>2. Width(x5, k5) /\ Width(a6, z)
    BY <1>9, <1>14
  <2>3. QED
    BY <2>1, <2>2, Grow
<1>16. PICK x7 \in Bytes : x7 = Join(x6, a7) /\ Width(x7, k7) /\ At(x7, 0, x6) /\ At(x7, k6, a7)
  <2>1. k6 + w2 = k7
    BY <1>4
  <2>2. Width(x6, k6) /\ Width(a7, w2)
    BY <1>10, <1>15
  <2>3. QED
    BY <2>1, <2>2, Grow
<1>17. PICK m \in Bytes : m = Join(x7, route) /\ Width(m, k8) /\ At(m, 0, x7) /\ At(m, k7, route)
  <2>1. k7 + r = k8
    BY <1>4
  <2>2. Width(x7, k7) /\ Width(route, r)
    BY <1>2, <1>16
  <2>3. QED
    BY <2>1, <2>2, Grow
<1>18. m = UnconnectedSend(msg, route, ms)
  <2>1. m = Join(Join(Join(Join(Join(Join(Join(a1, a2), a3), a4), msg), a6), a7), route)
    BY <1>11, <1>12, <1>13, <1>14, <1>15, <1>16, <1>17
  <2>2. UnconnectedSend(msg, route, ms) =
          Join(Join(Join(Join(Join(Join(Join(<<82>>, ConnManager), <<5, Ticks(ms)>>), U16(Len(msg))),
            msg), Zeros(Len(msg) % 2)), <<Len(route) \div 2, 0>>), route)
    BY Zenon DEF UnconnectedSend, Join
  <2>3. QED
    BY <1>5, <1>7, <1>8, <1>9, <1>10, <2>1, <2>2
<1>19. At(m, k6, a7) /\ At(m, 0, x6)
  BY <1>16, <1>17, Under
<1>20. At(m, 0, x5)
  BY <1>15, <1>19, Under
<1>21. At(m, k4, msg) /\ At(m, 0, x4)
  BY <1>14, <1>20, Under
<1>22. At(m, k3, a4) /\ At(m, 0, x3)
  BY <1>13, <1>21, Under
<1>23. At(m, k2, a3) /\ At(m, 0, x2)
  BY <1>12, <1>22, Under
<1>24. At(m, 0, a1)
  BY <1>11, <1>23, Under
<1>25. m[1] = 82
  <2>1. 82 \in Byte /\ At(m, 0, <<82>>)
    BY <1>5, <1>24, ByteRange
  <2>2. QED
    BY <2>1, FirstByte
<1>26. m[8] = Ticks(ms)
  <2>1. 5 \in Byte /\ Ticks(ms) \in Byte /\ At(m, k2, <<5, Ticks(ms)>>)
    <3>1. 5 \in Byte
      BY ByteRange
    <3>2. Ticks(ms) \in Byte
      BY TicksRound
    <3>3. QED
      BY <1>7, <1>23, <3>1, <3>2
  <2>2. ByteAt(m, k2 + 2, Ticks(ms))
    BY <2>1, PairAt
  <2>3. QED
    BY <1>3, <2>2 DEF ByteAt
<1>27. LdU16(m, 9) = n
  <2>1. Width(a4, w2) /\ 1 \in 1 .. w2 /\ 2 \in 1 .. w2
    BY <1>3, <1>8
  <2>2. ByteAt(m, k3 + 1, a4[1]) /\ ByteAt(m, k3 + 2, a4[2])
    BY <1>22, <2>1, AtIndex
  <2>3. m[9] = a4[1] /\ m[10] = a4[2]
    BY <1>3, <2>2 DEF ByteAt
  <2>4. LdU16(m, 9) = m[9] + 256 * m[10]
    BY DEF LdU16
  <2>5. QED
    BY <1>8, <2>3, <2>4
<1>28. SubSeq(m, 11, 10 + n) = msg
  <2>1. Part(m, k4 + 1, k4 + n, msg)
    BY <1>2, <1>21, AtPart
  <2>2. QED
    BY <1>3, <2>1 DEF Part
<1>29. PICK at \in Nat : at = 11 + n + (n % 2) /\ at = k6 + 1
  <2>1. PICK at \in Nat : at = 11 + n + z
    OBVIOUS
  <2>2. at = k6 + 1
    BY <1>3, <2>1
  <2>3. z = n % 2
    BY <1>1
  <2>4. QED
    BY <2>1, <2>2, <2>3
<1>30. m[at] = h
  <2>1. 0 \in Byte /\ At(m, k6, <<h, 0>>)
    BY <1>10, <1>19, ByteRange
  <2>2. ByteAt(m, k6 + 1, h)
    BY <2>1, PairAt
  <2>3. QED
    BY <1>29, <2>2 DEF ByteAt
<1>31. at + 1 + 2 * m[at] = k8 /\ at + 2 = k7 + 1
  <2>1. k6 + 2 = k7 /\ k7 + r = k8
    BY <1>3
  <2>2. at = k6 + 1
    BY <1>29
  <2>3. 2 * m[at] = r
    BY <1>1, <1>30
  <2>4. QED
    BY <2>1, <2>2, <2>3
<1>32. SubSeq(m, at + 2, at + 1 + 2 * m[at]) = route
  <2>1. Part(m, k7 + 1, k7 + r, route)
    BY <1>2, <1>17, AtPart
  <2>2. QED
    BY <1>4, <1>31, <2>1 DEF Part
<1>33. Len(m) = k8
  BY <1>17 DEF Width
<1>34. Unwrap(m) = [req |-> msg, route |-> route, end |-> k8, wait |-> 32 * Ticks(ms)]
  <2>1. Unwrap(m) =
          [req |-> SubSeq(m, 11, 10 + n), route |-> SubSeq(m, at + 2, at + 1 + 2 * m[at]),
           end |-> at + 1 + 2 * m[at], wait |-> 32 * m[8]]
    BY <1>27, <1>29 DEF Unwrap
  <2>2. QED
    BY <1>26, <1>28, <1>31, <1>32, <2>1
<1>35. k8 = 12 + Len(msg) + (Len(msg) % 2) + Len(route)
  <2>1. z = Len(msg) % 2 /\ n = Len(msg) /\ r = Len(route)
    BY <1>1
  <2>2. k8 = 12 + n + z + r
    BY <1>3
  <2>3. QED
    BY <2>1, <2>2
<1>36. QED
  BY <1>18, <1>25, <1>33, <1>34, <1>35

-----------------------------------------------------------------------------
(* Replies *)

\* What a whole reply r says of an extended status: e, or there is none and e is 0.
Extended(r, e) ==
    \/ Len(r) >= 4 /\ r[4] = 0 /\ e = 0
    \/ Len(r) >= 6 /\ r[4] = 1 /\ LdU16(r, 5) = e

\* A reply r that tells the status and extended status of the outcome p.
Tells(r, p) == r \in Seq(Nat) /\ Len(r) >= 3 /\ r[3] = p.status /\ Extended(r, p.ext)

\* A whole reply with the structure of the outcome p.
Carries(r, p) ==
    /\ Len(r) = 8 + Len(p.data) /\ r[4] = 0 /\ LdU16(r, 7) = p.handle
    /\ \A i \in 1 .. Len(p.data) : r[8 + i] = p.data[i]

\* What the controller did, when a reply tells of it.
Outcomes ==
    [status : Nat, ext : Nat, handle : Nat, data : Bytes, answer : {"whole", "cut"}]

\* Both outcomes of the controller, field by field.
LEMMA OutcomeTypes ==
  /\ \A h \in Nat, d \in Bytes : Done(h, d) \in Outcomes /\ Done(h, d).status = 0
       /\ Done(h, d).ext = 0 /\ Done(h, d).handle = h /\ Done(h, d).data = d
  /\ \A s, e \in Nat : Refused(s, e) \in Outcomes /\ Refused(s, e).status = s /\ Refused(s, e).ext = e
<1>1. <<>> \in Bytes
  BY DEF Bytes
<1>2. QED
  BY <1>1 DEF Done, Refused, Outcomes

\* Bytes are numbers; a reply, whose service code is the request plus 128, is numbers.
LEMMA ByteNat == \A b \in Bytes : b \in Seq(Nat)
  BY ByteRange DEF Bytes

\* Each part of a concatenation of numbers is where it was put.
LEMMA CatNat ==
  ASSUME NEW a \in Seq(Nat), NEW b \in Seq(Nat)
  PROVE  /\ a \o b \in Seq(Nat) /\ Len(a \o b) = Len(a) + Len(b)
         /\ \A i \in 1 .. Len(a) : (a \o b)[i] = a[i]
         /\ \A i \in 1 .. Len(b) : (a \o b)[Len(a) + i] = b[i]
  OBVIOUS

\* The bytes of a reply with extended status e and body b.
IsReply(r, m, s, e, b) ==
    /\ r \in Seq(Nat) /\ Len(r) = 4 + Len(e) + Len(b)
    /\ r[1] = m[1] + 128 /\ r[3] = s /\ r[4] = Len(e) \div 2
    /\ \A i \in 1 .. Len(e) : r[4 + i] = e[i]
    /\ \A i \in 1 .. Len(b) : r[4 + Len(e) + i] = b[i]

\* Reply puts them there.
LEMMA ReplyBytes ==
  ASSUME NEW m \in Bytes, m # <<>>, NEW s \in Nat, NEW e \in Seq(Nat), NEW b \in Seq(Nat)
  PROVE  IsReply(Reply(m, s, e, b), m, s, e, b)
<1>1. m[1] \in Nat
  BY ByteRange DEF Bytes
<1>2. PICK l \in Nat, w \in Nat : l = Len(e) /\ w = Len(e) \div 2
  <2>1. Len(e) \in Nat
    OBVIOUS
  <2>2. Len(e) \div 2 \in Nat
    BY <2>1
  <2>3. QED
    BY <2>1, <2>2
<1>3. PICK h \in Seq(Nat) : h = <<m[1] + 128, 0, s, w>> /\ Len(h) = 4
  <2>1. <<m[1] + 128, 0, s, w>> \in Seq(Nat) /\ Len(<<m[1] + 128, 0, s, w>>) = 4
    BY <1>1
  <2>2. QED
    BY <2>1
<1>4. h[1] = m[1] + 128 /\ h[3] = s /\ h[4] = w
  BY <1>3
<1>5. PICK x : x = h \o e
  OBVIOUS
<1>6. /\ x \in Seq(Nat) /\ Len(x) = 4 + l
      /\ \A i \in 1 .. 4 : x[i] = h[i]
      /\ \A i \in 1 .. l : x[4 + i] = e[i]
  BY <1>2, <1>3, <1>5, CatNat
<1>7. PICK r : r = x \o b
  OBVIOUS
<1>8. /\ r \in Seq(Nat) /\ Len(r) = 4 + l + Len(b)
      /\ \A i \in 1 .. 4 + l : r[i] = x[i]
      /\ \A i \in 1 .. Len(b) : r[4 + l + i] = b[i]
  <2>1. /\ r \in Seq(Nat) /\ Len(r) = Len(x) + Len(b)
        /\ \A i \in 1 .. Len(x) : r[i] = x[i]
        /\ \A i \in 1 .. Len(b) : r[Len(x) + i] = b[i]
    BY ZenonT(40), <1>6, <1>7, CatNat
  <2>2. Len(x) = 4 + l
    BY <1>6
  <2>3. QED
    BY <2>1, <2>2
<1>9. 1 \in 1 .. 4 + l /\ 3 \in 1 .. 4 + l /\ 4 \in 1 .. 4 + l /\ 1 \in 1 .. 4 /\ 3 \in 1 .. 4 /\ 4 \in 1 .. 4
  OBVIOUS
<1>10. r[1] = h[1] /\ r[3] = h[3] /\ r[4] = h[4]
  <2>1. x[1] = h[1] /\ x[3] = h[3] /\ x[4] = h[4]
    BY <1>6, <1>9
  <2>2. r[1] = x[1] /\ r[3] = x[3] /\ r[4] = x[4]
    BY <1>8, <1>9
  <2>3. QED
    BY <2>1, <2>2
<1>11. \A i \in 1 .. l : r[4 + i] = e[i]
  <2>1. \A i \in 1 .. l : 4 + i \in 1 .. 4 + l
    OBVIOUS
  <2>2. QED
    BY <1>6, <1>8, <2>1
<1>12. r = Reply(m, s, e, b)
  BY <1>2, <1>3, <1>5, <1>7 DEF Reply
<1>13. QED
  BY <1>2, <1>4, <1>8, <1>10, <1>11, <1>12 DEF IsReply

\* The empty string.
LEMMA Empty == <<>> \in Seq(Nat) /\ Len(<<>>) = 0
  OBVIOUS

\* A reply with nothing but a status.
LEMMA ReplyPlain ==
  ASSUME NEW m \in Bytes, m # <<>>, NEW s \in Nat
  PROVE  LET r == Reply(m, s, <<>>, <<>>)
         IN  r \in Seq(Nat) /\ Len(r) = 4 /\ r[1] = m[1] + 128 /\ r[3] = s /\ r[4] = 0
<1>1. PICK e \in Seq(Nat) : e = <<>> /\ Len(e) = 0
  BY Empty
<1>2. PICK r : r = Reply(m, s, e, e)
  OBVIOUS
<1>3. /\ r \in Seq(Nat) /\ Len(r) = 4 + Len(e) + Len(e) /\ r[1] = m[1] + 128 /\ r[3] = s
      /\ r[4] = Len(e) \div 2
  <2>1. IsReply(r, m, s, e, e)
    BY <1>2, ReplyBytes
  <2>2. QED
    BY <2>1 DEF IsReply
<1>4. Len(r) = 4 /\ r[4] = 0
  BY <1>1, <1>3
<1>5. QED
  BY <1>1, <1>2, <1>3, <1>4

\* A reply with one word of extended status, which reads back as what was stored.
LEMMA ReplyExt ==
  ASSUME NEW m \in Bytes, m # <<>>, NEW s \in Nat, NEW v \in Word
  PROVE  LET r == Reply(m, s, U16(v), <<>>)
         IN  r \in Seq(Nat) /\ Len(r) = 6 /\ r[3] = s /\ r[4] = 1 /\ LdU16(r, 5) = v
<1>1. PICK b \in Seq(Nat) : b = <<>> /\ Len(b) = 0
  BY Empty
<1>2. PICK u \in Seq(Nat) : u = U16(v) /\ Len(u) = 2 /\ u[1] + 256 * u[2] = v
  <2>1. U16(v) \in Bytes /\ Len(U16(v)) = 2 /\ U16(v)[1] + 256 * U16(v)[2] = v
    BY U16Bytes DEF Word
  <2>2. U16(v) \in Seq(Nat)
    BY <2>1, ByteNat
  <2>3. QED
    BY <2>1, <2>2
<1>3. PICK r : r = Reply(m, s, u, b)
  OBVIOUS
<1>4. /\ r \in Seq(Nat) /\ Len(r) = 4 + Len(u) + Len(b) /\ r[3] = s
      /\ r[4] = Len(u) \div 2 /\ \A i \in 1 .. Len(u) : r[4 + i] = u[i]
  <2>1. IsReply(r, m, s, u, b)
    BY <1>3, ReplyBytes
  <2>2. QED
    BY <2>1 DEF IsReply
<1>5. Len(r) = 6 /\ r[4] = 1
  BY <1>1, <1>2, <1>4
<1>6. r[5] = u[1] /\ r[6] = u[2]
  <2>1. 1 \in 1 .. 2 /\ 2 \in 1 .. 2
    OBVIOUS
  <2>2. r[4 + 1] = u[1] /\ r[4 + 2] = u[2]
    BY <1>2, <1>4, <2>1
  <2>3. QED
    BY <2>2
<1>7. LdU16(r, 5) = r[5] + 256 * r[6]
  BY DEF LdU16
<1>8. QED
  BY <1>1, <1>2, <1>3, <1>4, <1>5, <1>6, <1>7

\* The reply to a Large_Forward_Open that succeeds has the 12 bytes the client asks for.
LEMMA ReplyOpen ==
  ASSUME NEW m \in Bytes, m # <<>>
  PROVE  LET r == Reply(m, 0, <<>>, Zeros(8))
         IN  r \in Seq(Nat) /\ Len(r) = 12 /\ r[1] = m[1] + 128 /\ r[3] = 0 /\ r[4] = 0
<1>1. PICK e \in Seq(Nat) : e = <<>> /\ Len(e) = 0
  BY Empty
<1>2. PICK z \in Seq(Nat) : z = Zeros(8) /\ Len(z) = 8
  BY ZerosBytes, ByteNat DEF Width
<1>3. PICK r : r = Reply(m, 0, e, z)
  OBVIOUS
<1>4. /\ r \in Seq(Nat) /\ Len(r) = 4 + Len(e) + Len(z) /\ r[1] = m[1] + 128 /\ r[3] = 0
      /\ r[4] = Len(e) \div 2
  <2>1. IsReply(r, m, 0, e, z)
    BY <1>3, ReplyBytes
  <2>2. QED
    BY <2>1 DEF IsReply
<1>5. Len(r) = 12 /\ r[4] = 0
  BY <1>1, <1>2, <1>4
<1>6. QED
  BY <1>1, <1>2, <1>3, <1>4, <1>5

\* A whole reply with the structure's handle h and data d.
StructReply(r, h, d) ==
    /\ r \in Seq(Nat) /\ Len(r) = 8 + Len(d) /\ r[3] = 0 /\ r[4] = 0 /\ LdU16(r, 7) = h
    /\ \A i \in 1 .. Len(d) : r[8 + i] = d[i]

\* The reply to a read that succeeds is one.
LEMMA ReplyStruct ==
  ASSUME NEW m \in Bytes, m # <<>>, NEW h \in Word, NEW d \in Bytes
  PROVE  StructReply(Reply(m, 0, <<>>, <<160, 2>> \o U16(h) \o d), h, d)
<1>1. PICK e \in Seq(Nat) : e = <<>> /\ Len(e) = 0
  BY Empty
<1>2. PICK b \in Seq(Nat) : b = <<160, 2>> /\ Len(b) = 2
  <2>1. <<160, 2>> \in Seq(Nat) /\ Len(<<160, 2>>) = 2
    OBVIOUS
  <2>2. QED
    BY <2>1
<1>3. h \in Nat /\ h <= 65535
  BY DEF Word
<1>4. PICK u \in Seq(Nat) : u = U16(h) /\ Len(u) = 2 /\ u[1] + 256 * u[2] = h
  BY <1>3, U16Bytes, ByteNat
<1>5. d \in Seq(Nat) /\ Len(d) \in Nat
  BY ByteNat, LenNat
<1>6. PICK x : x = b \o u
  OBVIOUS
<1>7. x \in Seq(Nat) /\ Len(x) = 4 /\ x[3] = u[1] /\ x[4] = u[2]
  <2>1. /\ x \in Seq(Nat) /\ Len(x) = Len(b) + Len(u)
        /\ \A i \in 1 .. Len(u) : x[Len(b) + i] = u[i]
    BY <1>6, CatNat
  <2>2. 1 \in 1 .. 2 /\ 2 \in 1 .. 2
    OBVIOUS
  <2>3. x[2 + 1] = u[1] /\ x[2 + 2] = u[2]
    BY <1>2, <1>4, <2>1, <2>2
  <2>4. Len(x) = 4
    BY <1>2, <1>4, <2>1
  <2>5. x[3] = u[1] /\ x[4] = u[2]
    BY <2>3
  <2>6. QED
    BY <2>1, <2>4, <2>5
<1>8. PICK c : c = x \o d
  OBVIOUS
<1>9. /\ c \in Seq(Nat) /\ Len(c) = 4 + Len(d) /\ c[3] = u[1] /\ c[4] = u[2]
      /\ \A i \in 1 .. Len(d) : c[4 + i] = d[i]
  <2>1. /\ c \in Seq(Nat) /\ Len(c) = Len(x) + Len(d)
        /\ \A i \in 1 .. Len(x) : c[i] = x[i]
        /\ \A i \in 1 .. Len(d) : c[Len(x) + i] = d[i]
    BY <1>5, <1>7, <1>8, CatNat
  <2>2. 3 \in 1 .. 4 /\ 4 \in 1 .. 4 /\ Len(x) = 4
    BY <1>7
  <2>3. c[3] = x[3] /\ c[4] = x[4]
    BY <2>1, <2>2
  <2>4. QED
    BY <1>7, <2>1, <2>2, <2>3
<1>10. PICK r : r = Reply(m, 0, e, c)
  OBVIOUS
<1>11. /\ r \in Seq(Nat) /\ Len(r) = 4 + Len(e) + Len(c) /\ r[3] = 0 /\ r[4] = Len(e) \div 2
      /\ \A i \in 1 .. Len(c) : r[4 + Len(e) + i] = c[i]
  <2>1. IsReply(r, m, 0, e, c)
    BY <1>9, <1>10, ReplyBytes
  <2>2. QED
    BY <2>1 DEF IsReply
<1>12. Len(r) = 8 + Len(d) /\ r[4] = 0 /\ \A i \in 1 .. Len(c) : r[4 + i] = c[i]
  <2>1. 4 + Len(e) = 4 /\ Len(e) \div 2 = 0
    BY <1>1
  <2>2. \A i \in 1 .. Len(c) : r[4 + i] = c[i]
    BY <1>11, <2>1
  <2>3. Len(r) = 8 + Len(d)
    BY <1>5, <1>9, <1>11, <2>1
  <2>4. QED
    BY <1>11, <2>1, <2>2, <2>3
<1>13. r[7] = u[1] /\ r[8] = u[2]
  <2>1. 3 \in 1 .. Len(c) /\ 4 \in 1 .. Len(c)
    BY <1>5, <1>9
  <2>2. r[4 + 3] = c[3] /\ r[4 + 4] = c[4]
    BY <1>12, <2>1
  <2>3. QED
    BY <1>9, <2>2
<1>14. ASSUME NEW i \in 1 .. Len(d) PROVE r[8 + i] = d[i]
  <2>1. 4 + i \in 1 .. Len(c) /\ 4 + (4 + i) = 8 + i
    BY <1>5, <1>9
  <2>2. r[4 + (4 + i)] = c[4 + i]
    BY <1>12, <2>1
  <2>3. QED
    BY <1>9, <2>1, <2>2
<1>15. Reply(m, 0, <<>>, <<160, 2>> \o U16(h) \o d) = r
  BY <1>1, <1>2, <1>4, <1>6, <1>8, <1>10
<1>16. LdU16(r, 7) = h
  <2>1. LdU16(r, 7) = r[7] + 256 * r[8]
    BY DEF LdU16
  <2>2. QED
    BY <1>4, <1>13, <2>1
<1>17. QED
  BY <1>11, <1>12, <1>14, <1>15, <1>16 DEF StructReply

\* The first bytes of a reply: as many as are asked for, in their places.
LEMMA FirstBytes ==
  ASSUME NEW r \in Seq(Nat), NEW m \in 0 .. Len(r)
  PROVE  /\ SubSeq(r, 1, m) \in Seq(Nat) /\ Len(SubSeq(r, 1, m)) = m
         /\ \A i \in 1 .. m : SubSeq(r, 1, m)[i] = r[i]
  OBVIOUS

\* The first bytes of the first bytes; all the bytes.
LEMMA FirstOfFirst ==
  ASSUME NEW r \in Seq(Nat), NEW m \in 0 .. Len(r), NEW n \in 0 .. m
  PROVE  SubSeq(SubSeq(r, 1, m), 1, n) = SubSeq(r, 1, n) /\ SubSeq(r, 1, Len(r)) = r
<1>1. PICK q \in Seq(Nat) : q = SubSeq(r, 1, m) /\ Len(q) = m /\ \A i \in 1 .. m : q[i] = r[i]
  BY FirstBytes
<1>2. SubSeq(q, 1, n) = [i \in 1 .. n |-> q[i]] /\ SubSeq(r, 1, n) = [i \in 1 .. n |-> r[i]]
  BY <1>1
<1>3. \A i \in 1 .. n : q[i] = r[i]
  BY <1>1
<1>4. SubSeq(r, 1, Len(r)) = r
  OBVIOUS
<1>5. QED
  BY <1>1, <1>2, <1>3, <1>4

\* The extended status e, as an answer tells it: only a cut one says 0 instead.
Told(e, p) == e = p.ext \/ (p.answer = "cut" /\ e = 0)

\* The extended status as bp_client_txrx_open and bp_client_txrx_close take it.
ConnExt(q) == IF Len(q) >= 6 /\ q[4] # 0 THEN LdU16(q, 5) ELSE 0

\* The status and the extended status come through when they arrive.
LEMMA HeardStatus ==
  ASSUME NEW r, NEW p \in Outcomes, Tells(r, p), NEW m \in 0 .. Len(r)
  PROVE  LET q == SubSeq(r, 1, m)
         IN  /\ m >= 3 => q[3] = p.status
             /\ ExtOf(q) \in {p.ext, 0} /\ ConnExt(q) \in {p.ext, 0}
             /\ m = Len(r) \/ m >= 8 => m >= 3 /\ ExtOf(q) = p.ext /\ ConnExt(q) = p.ext
<1>1. r \in Seq(Nat) /\ Len(r) \in Nat /\ Len(r) >= 3 /\ r[3] = p.status /\ Extended(r, p.ext)
  BY DEF Tells
<1>2. PICK q \in Seq(Nat) : q = SubSeq(r, 1, m) /\ Len(q) = m /\ \A i \in 1 .. m : q[i] = r[i]
  BY <1>1, FirstBytes
<1>3. m >= 3 => q[3] = p.status
  BY <1>1, <1>2
<1>4. CASE m < 4
  <2>1. ExtOf(q) = 0 /\ ConnExt(q) = 0
    BY <1>2, <1>4 DEF ExtOf, ConnExt
  <2>2. m = Len(r) => p.ext = 0
    BY <1>1, <1>4 DEF Extended
  <2>3. QED
    BY <1>1, <1>2, <1>3, <1>4, <2>1, <2>2
<1>5. CASE m >= 4 /\ r[4] = 0 /\ p.ext = 0
  <2>1. q[4] = 0
    BY <1>2, <1>5
  <2>2. ExtOf(q) = 0 /\ ConnExt(q) = 0
    BY <1>2, <1>5, <2>1 DEF ExtOf, ConnExt
  <2>3. QED
    BY <1>1, <1>2, <1>3, <1>5, <2>2
<1>6. CASE m >= 4 /\ m < 6 /\ Len(r) >= 6 /\ r[4] = 1
  <2>1. q[4] = 1
    BY <1>2, <1>6
  <2>2. ExtOf(q) = 0 /\ ConnExt(q) = 0
    BY <1>2, <1>6, <2>1 DEF ExtOf, ConnExt
  <2>3. QED
    BY <1>1, <1>2, <1>3, <1>6, <2>2
<1>7. CASE m >= 6 /\ r[4] = 1 /\ LdU16(r, 5) = p.ext
  <2>1. q[4] = 1 /\ q[5] = r[5] /\ q[6] = r[6]
    BY <1>2, <1>7
  <2>2. LdU16(q, 5) = p.ext
    BY <1>7, <2>1 DEF LdU16
  <2>3. ExtOf(q) = p.ext /\ ConnExt(q) = p.ext
    BY <1>2, <1>7, <2>1, <2>2 DEF ExtOf, ConnExt
  <2>4. QED
    BY <1>1, <1>2, <1>3, <1>7, <2>3
<1>8. QED
  BY <1>1, <1>4, <1>5, <1>6, <1>7 DEF Extended

\* A structure is read as far as it arrives.
LEMMA HeardStruct ==
  ASSUME NEW r, NEW p \in Outcomes, Tells(r, p), Carries(r, p), NEW m \in 8 .. Len(r)
  PROVE  LET q == SubSeq(r, 1, m)
         IN  /\ StructOf(q).handle = p.handle
             /\ StructOf(q).data = SubSeq(p.data, 1, m - 8)
<1>1. /\ r \in Seq(Nat) /\ Len(r) = 8 + Len(p.data) /\ r[4] = 0
      /\ r[7] + 256 * r[8] = p.handle /\ \A i \in 1 .. Len(p.data) : r[8 + i] = p.data[i]
  <2>1. r \in Seq(Nat)
    BY DEF Tells
  <2>2. /\ Len(r) = 8 + Len(p.data) /\ r[4] = 0 /\ LdU16(r, 7) = p.handle
        /\ \A i \in 1 .. Len(p.data) : r[8 + i] = p.data[i]
    BY Zenon DEF Carries
  <2>3. LdU16(r, 7) = r[7] + 256 * r[8]
    BY DEF LdU16
  <2>4. QED
    BY <2>1, <2>2, <2>3
<1>2. p.data \in Bytes /\ Len(p.data) \in Nat
  BY DEF Outcomes, Bytes
<1>3. PICK l \in Nat, n \in Nat : l = Len(p.data) /\ n = m - 8 /\ m = 8 + n /\ n <= l
  BY <1>1, <1>2
<1>4. PICK q \in Seq(Nat) : q = SubSeq(r, 1, m) /\ Len(q) = 8 + n /\ \A i \in 1 .. 8 + n : q[i] = r[i]
  <2>1. m \in 0 .. Len(r)
    BY <1>1, <1>2
  <2>2. SubSeq(r, 1, m) \in Seq(Nat) /\ Len(SubSeq(r, 1, m)) = m
        /\ \A i \in 1 .. m : SubSeq(r, 1, m)[i] = r[i]
    BY <1>1, <2>1, FirstBytes
  <2>3. QED
    BY <1>3, <2>2
<1>5. q[4] = 0 /\ q[7] = r[7] /\ q[8] = r[8]
  <2>1. 4 \in 1 .. 8 + n /\ 7 \in 1 .. 8 + n /\ 8 \in 1 .. 8 + n
    OBVIOUS
  <2>2. QED
    BY <1>1, <1>4, <2>1
<1>6. StructOf(q) = [handle |-> q[7] + 256 * q[8], data |-> SubSeq(q, 9, 8 + n)]
  <2>1. StructOf(q) = [handle |-> LdU16(q, 4 + 2 * q[4] + 3), data |-> SubSeq(q, 4 + 2 * q[4] + 5, Len(q))]
    BY DEF StructOf
  <2>2. 4 + 2 * q[4] + 3 = 7 /\ 4 + 2 * q[4] + 5 = 9
    BY <1>5
  <2>3. LdU16(q, 7) = q[7] + 256 * q[8]
    BY DEF LdU16
  <2>4. QED
    BY <1>4, <2>1, <2>2, <2>3
<1>7. SubSeq(q, 9, 8 + n) = SubSeq(p.data, 1, n)
  <2>1. ASSUME NEW i \in 1 .. n PROVE q[8 + i] = p.data[i]
    <3>1. 8 + i \in 1 .. 8 + n /\ i \in 1 .. l
      BY <1>3
    <3>2. q[8 + i] = r[8 + i]
      BY <1>4, <3>1
    <3>3. r[8 + i] = p.data[i]
      BY <1>1, <1>3, <3>1
    <3>4. QED
      BY <3>2, <3>3
  <2>2. SubSeq(q, 9, 8 + n) = [i \in 1 .. n |-> q[8 + i]]
    BY <1>4
  <2>3. SubSeq(p.data, 1, n) = [i \in 1 .. n |-> p.data[i]]
    BY <1>2, <1>3 DEF Bytes
  <2>4. QED
    BY <2>1, <2>2, <2>3
<1>8. StructOf(q).handle = p.handle /\ StructOf(q).data = SubSeq(p.data, 1, n)
  BY <1>1, <1>5, <1>6, <1>7
<1>9. QED
  BY <1>3, <1>4, <1>8

-----------------------------------------------------------------------------
(* The record of a thread *)

\* A thread with a message on its way, one that waits for the engine or for ever, and
\* one whose call is over.
Sent(c, m, k) ==
    [pc |-> "sent", call |-> c, msg |-> m, cap |-> k, reply |-> <<>>, plc |-> None,
     out |-> [rc |-> None, val |-> None], id |-> 0]
Waits(w, c) ==
    [pc |-> w, call |-> c, msg |-> <<>>, cap |-> 0, reply |-> <<>>, plc |-> None,
     out |-> [rc |-> None, val |-> None], id |-> 0]
Over(c, p, rc, val, i) ==
    [pc |-> "idle", call |-> c, msg |-> <<>>, cap |-> 0, reply |-> <<>>, plc |-> p,
     out |-> [rc |-> rc, val |-> val], id |-> i]

\* What Becomes makes of a thread.
Rec(c, rest) ==
    [f \in DOMAIN Idle |-> IF f = "call" THEN c ELSE IF f \in DOMAIN rest THEN rest[f] ELSE Idle[f]]

\* Becomes gives one of these three.
LEMMA RecIs ==
  /\ Idle = Over(None, None, None, None, 0)
  /\ \A c, m, k : Rec(c, [pc |-> "sent", msg |-> m, cap |-> k]) = Sent(c, m, k)
  /\ \A c, w : Rec(c, [pc |-> w]) = Waits(w, c)
  /\ \A c, r, v : Rec(c, [out |-> [rc |-> r, val |-> v]]) = Over(c, None, r, v, 0)
  /\ \A c, r, v, p, i :
       Rec(c, [out |-> [rc |-> r, val |-> v], plc |-> p, id |-> i]) = Over(c, p, r, v, i)
  BY DEF Rec, Idle, Sent, Waits, Over

\* Becomes, as an assignment of one of the three records.
LEMMA BecomesIs ==
  ASSUME NEW t
  PROVE  /\ \A c, m, k : Becomes(t, c, [pc |-> "sent", msg |-> m, cap |-> k])
              => thr' = [thr EXCEPT ![t] = Sent(c, m, k)]
         /\ \A c, w : Becomes(t, c, [pc |-> w]) => thr' = [thr EXCEPT ![t] = Waits(w, c)]
         /\ \A c, r, v : Becomes(t, c, [out |-> [rc |-> r, val |-> v]])
              => thr' = [thr EXCEPT ![t] = Over(c, None, r, v, 0)]
         /\ \A c, r, v, p, i : Becomes(t, c, [out |-> [rc |-> r, val |-> v], plc |-> p, id |-> i])
              => thr' = [thr EXCEPT ![t] = Over(c, p, r, v, i)]
<1>1. \A c, rest : Becomes(t, c, rest) => thr' = [thr EXCEPT ![t] = Rec(c, rest)]
  BY DEF Becomes, Rec
<1>2. QED
  BY <1>1, RecIs

\* The message of a call: what the caller asked for, in bytes.
Built(c, m, k) ==
    /\ c.op \in {"read_struct", "write_struct", "routed", "open", "close"}
    /\ c.op = "read_struct" =>
          m = ReadTagRequest(c.tag) /\ Len(c.tag) <= MaxTag /\ k = Min2(c.cap, RespBuf)
    /\ c.op = "write_struct" =>
          m = WriteTagRequest(c.tag, c.handle, c.data) /\ Len(c.tag) <= MaxTag /\ c.data # <<>>
    /\ c.op = "routed" =>
          /\ m = UnconnectedSend(c.req, c.route \o c.hop, c.ms)
          /\ Routable(c.req, c.route \o c.hop) /\ Len(m) <= c.cap
    /\ c.op = "open" => m = BuildLfo(c.conn, c.params) /\ k = 64
    /\ c.op = "close" => m = BuildFc(c.conn)

\* Types, of the fields that have one.
Typed(x) ==
    /\ x = [pc |-> x.pc, call |-> x.call, msg |-> x.msg, cap |-> x.cap, reply |-> x.reply,
            plc |-> x.plc, out |-> x.out, id |-> x.id]
    /\ x.pc \in {"idle", "engine", "sent", "back", "overrun"}
    /\ x.msg \in Bytes /\ Len(x.msg) <= MaxReq

\* A call to the engine is one of the operations of the layout.
Asks(x) == x.pc = "engine" => x.call.fn \in Layouts

\* A buffer that a reply's status fits, and that fits the slot.
Room(k) == k \in Nat /\ 8 <= k /\ k <= 102400

\* A message is the one of its call, and its reply has a buffer.
InFlight(x) ==
    x.pc \in {"sent", "back"} =>
        /\ x.call \in Calls /\ Built(x.call, x.msg, x.cap)
        /\ x.msg # <<>> /\ Room(x.cap)

\* A write that names a structure, its handle and its size.
Matches(c) ==
    /\ c.tag \in DOMAIN Structs /\ c.handle = Structs[c.tag].handle
    /\ Len(c.data) = Len(Structs[c.tag].data)

\* A write that succeeded wrote the caller's bytes; before the first of n faults one
\* that failed did not match.
Wrote(c, p, n) ==
    /\ p.status = 0 => p.data = c.data
    /\ p.status # 0 /\ n = 0 => ~Matches(c)

\* The whole answer to the call c tells what the controller did.
Whole(r, c, p) ==
    /\ Tells(r, p)
    /\ c.op = "read_struct" /\ Len(r) >= 8 => Carries(r, p)

\* The reply y is the whole answer r, or the beginning of it that was left.
LeftOf(y, r, p) ==
    /\ \E m \in 0 .. Len(r) : y = SubSeq(r, 1, m)
    /\ p.answer = "whole" => y = r

\* The reply is left of an answer that tells what the controller did.
Answered(x, n) ==
    x.pc = "back" /\ x.call.op # "routed" =>
        /\ x.plc \in Outcomes
        /\ \E r : Whole(r, x.call, x.plc) /\ LeftOf(x.reply, r, x.plc)
        /\ x.call.op = "write_struct" => Wrote(x.call, x.plc, n)

\* The outcome of a call that is over: of a rejection, of a read, of a write.
Rejects(got, was) ==
    /\ got.status = was.status \/ (was.answer = "cut" /\ got.status = 255)
    /\ Told(got.ext, was)
MostOf(c, was) == Min2(Len(was.data), Min2(c.cap, RespBuf) - 8)
ReadGives(c, got, was) ==
    /\ got.handle = was.handle
    /\ Len(got.data) <= MostOf(c, was) /\ got.data = SubSeq(was.data, 1, Len(got.data))
    /\ was.answer = "whole" => Len(got.data) = MostOf(c, was)
Settled(x, n) ==
    x.pc = "idle" =>
        /\ x.out.rc = "CIP_STATUS" => Rejects(x.out.val, x.plc)
        /\ x.call # None /\ x.call.op = "read_struct" /\ x.out.rc = "OK" =>
              ReadGives(x.call, x.out.val, x.plc)
        /\ x.call # None /\ x.call.op = "write_struct" =>
              /\ x.out.rc = "OK" => x.plc.data = x.call.data
              /\ x.out.rc = "CIP_STATUS" /\ n = 0 => ~Matches(x.call)

\* All of it.
Good(x, n) == Typed(x) /\ Asks(x) /\ InFlight(x) /\ Answered(x, n) /\ Settled(x, n)

\* A fault weakens what is promised of a write, and nothing else.
LEMMA GoodLater ==
  ASSUME NEW x, NEW n \in Nat, NEW m \in Nat, n <= m, Good(x, n)
  PROVE  Good(x, m)
<1>1. Typed(x) /\ Asks(x) /\ InFlight(x) /\ Answered(x, n) /\ Settled(x, n) /\ (m = 0 => n = 0)
  BY DEF Good
<1>2. Answered(x, m)
  BY <1>1 DEF Answered, Wrote
<1>3. Settled(x, m)
  BY <1>1 DEF Settled
<1>4. QED
  BY <1>1, <1>2, <1>3 DEF Good

\* No bytes fit a message.
LEMMA NoBytes == <<>> \in Bytes /\ Len(<<>>) <= MaxReq
  BY MessagesAssumption DEF Bytes

\* A message that was built from the arguments of its call is a good one.
LEMMA SentGood ==
  ASSUME NEW c \in Calls, NEW m \in Bytes, NEW k, NEW n, Room(k),
         Built(c, m, k), m # <<>>, Len(m) <= MaxReq
  PROVE  Good(Sent(c, m, k), n)
<1>1. PICK x : x = Sent(c, m, k)
  OBVIOUS
<1>2. x.pc = "sent" /\ x.call = c /\ x.msg = m /\ x.cap = k
  BY <1>1 DEF Sent
<1>3. Typed(x)
  BY <1>1 DEF Sent, Typed
<1>4. InFlight(x)
  BY <1>2 DEF InFlight
<1>5. QED
  BY <1>1, <1>2, <1>3, <1>4 DEF Good, Asks, Answered, Settled

\* So is a wait for an operation of the layout, or for ever,
LEMMA WaitsGood ==
  ASSUME NEW c, NEW n, NEW w, w = "overrun" \/ (w = "engine" /\ c.fn \in Layouts)
  PROVE  Good(Waits(w, c), n)
  BY NoBytes DEF Good, Waits, Typed, Asks, InFlight, Answered, Settled

\* and the end of a call whose outcome is what the controller did.
LEMMA OverGood ==
  ASSUME NEW c, NEW p, NEW r, NEW v, NEW i, NEW n,
         r = "CIP_STATUS" => Rejects(v, p),
         c # None /\ c.op = "read_struct" /\ r = "OK" => ReadGives(c, v, p),
         c # None /\ c.op = "write_struct" /\ r = "OK" => p.data = c.data,
         c # None /\ c.op = "write_struct" /\ r = "CIP_STATUS" /\ n = 0 => ~Matches(c)
  PROVE  Good(Over(c, p, r, v, i), n)
<1>1. PICK x : x = Over(c, p, r, v, i)
  OBVIOUS
<1>2. /\ x.pc = "idle" /\ x.call = c /\ x.plc = p /\ x.out.rc = r /\ x.out.val = v
      /\ Typed(x)
  BY <1>1, NoBytes DEF Over, Typed
<1>3. Settled(x, n)
  BY <1>2 DEF Settled
<1>4. QED
  BY <1>1, <1>2, <1>3 DEF Good, Asks, InFlight, Answered

\* A call that made nothing of the controller and was not rejected.
LEMMA FailedGood ==
  ASSUME NEW r, NEW n, r # "CIP_STATUS"
  PROVE  Good(Over(None, None, r, None, 0), n)
  BY OverGood

\* Every thread is good.
Threading == thr = [t \in Threads |-> thr[t]] /\ \A t \in Threads : Good(thr[t], faults)
\* The bounds.
Counters == calls \in Nat /\ calls <= MaxCalls /\ faults \in Nat /\ faults <= MaxFaults
\* The controller's structures keep handle and size.
Structures ==
    /\ structs \in [DOMAIN Structs -> [handle : Word, data : Bytes]]
    /\ \A x \in DOMAIN Structs :
          structs[x].handle = Structs[x].handle /\ Len(structs[x].data) = Len(Structs[x].data)

\* Only thread t moves.
Only(t) == thr' = [thr EXCEPT ![t] = thr'[t]]

\* An assignment to one thread.
LEMMA Moves ==
  ASSUME Threading, NEW t \in Threads
  PROVE  \A y : thr' = [thr EXCEPT ![t] = y] => Only(t) /\ thr'[t] = y
  BY DEF Threading, Only

\* The invariant of the threads, from that of the one that moves.
LEMMA Others ==
  ASSUME Threading, Counters, Counters', faults <= faults', NEW t \in Threads, Only(t), Good(thr'[t], faults')
  PROVE  Threading'
<1>1. thr' = [u \in Threads |-> thr'[u]]
  BY DEF Threading, Only
<1>2. ASSUME NEW u \in Threads PROVE Good(thr'[u], faults')
  <2>1. CASE u = t
    BY <2>1
  <2>2. CASE u # t
    <3>1. thr'[u] = thr[u]
      BY <2>2 DEF Threading, Only
    <3>2. Good(thr[u], faults) /\ faults \in Nat /\ faults' \in Nat
      BY DEF Threading, Counters
    <3>3. Good(thr[u], faults')
      BY <3>2, GoodLater
    <3>4. QED
      BY <3>1, <3>3
  <2>3. QED
    BY <2>1, <2>2
<1>3. QED
  BY <1>1, <1>2 DEF Threading

\* The assumptions on the arguments, by operation.
LEMMA Arguments ==
  ASSUME NEW c \in Calls
  PROVE  /\ c.op = "wrap" => c.fn \in Layouts
         /\ c.op \in {"read_struct", "write_struct"} => c.tag \in Bytes
         /\ c.op = "read_struct" => c.cap \in Nat
         /\ c.op = "write_struct" => c.handle \in Word /\ c.data \in Bytes
         /\ c.op = "routed" => c.req \in Bytes /\ c.ms \in Nat /\ c.route \in Bytes /\ c.hop \in Bytes
         /\ c.op = "routed" => Len(c.hop) = 2 /\ c.cap \in Nat
         /\ c.op = "open" => c.params \in Nat
         /\ c.op \in {"open", "close"} => c.conn \in ConnIds
  BY CallTypes

\* A message starts with the service code of its call.
LEMMA Services ==
  ASSUME NEW c \in Calls, NEW m, NEW k, Built(c, m, k)
  PROVE  /\ m \in Bytes /\ m # <<>>
         /\ c.op = "read_struct" => m[1] = 76
         /\ c.op = "write_struct" => m[1] = 77
         /\ c.op = "routed" => m[1] = 82
         /\ c.op = "open" => m[1] = 91
         /\ c.op = "close" => m[1] = 78
<1>1. MaxTag \in Nat /\ MaxTag <= 250
  BY MessagesAssumption
<1>2. CASE c.op = "read_struct"
  <2>1. c.tag \in Bytes /\ Len(c.tag) <= 250 /\ m = ReadTagRequest(c.tag)
    BY <1>1, <1>2, Arguments, LenNat DEF Built
  <2>2. m \in Bytes /\ Len(m) >= 6 /\ m[1] = 76
    BY <2>1, ReadRequest
  <2>3. QED
    BY <1>2, <2>2
<1>3. CASE c.op = "write_struct"
  <2>1. /\ c.tag \in Bytes /\ Len(c.tag) <= 250 /\ c.handle \in Word /\ c.data \in Bytes
        /\ m = WriteTagRequest(c.tag, c.handle, c.data)
    BY <1>1, <1>3, Arguments, LenNat DEF Built
  <2>2. m \in Bytes /\ Len(m) >= 4 /\ m[1] = 77
    BY <2>1, WriteRequest
  <2>3. QED
    BY <1>3, <2>2
<1>4. CASE c.op = "routed"
  <2>1. c.req \in Bytes /\ c.ms \in Nat /\ c.route \in Bytes /\ c.hop \in Bytes
    BY <1>4, Arguments
  <2>2. PICK r : r = c.route \o c.hop
    OBVIOUS
  <2>3. PICK q : q = c.req
    OBVIOUS
  <2>4. r \in Bytes /\ q \in Bytes
    BY <2>1, <2>2, <2>3, Cat DEF Join
  <2>5. m = UnconnectedSend(q, r, c.ms) /\ Routable(q, r)
    BY <1>4, <2>2, <2>3 DEF Built
  <2>6. m \in Bytes /\ m[1] = 82 /\ Len(m) = 12 + Len(q) + (Len(q) % 2) + Len(r)
    BY <2>1, <2>4, <2>5, RoutedRequest
  <2>7. Len(q) \in Nat /\ Len(q) % 2 \in Nat /\ Len(r) \in Nat
    <3>1. Len(q) \in Nat /\ Len(r) \in Nat
      BY <2>4, LenNat
    <3>2. QED
      BY <3>1
  <2>8. Len(m) > 0
    BY <2>6, <2>7
  <2>9. QED
    BY <1>4, <2>6, <2>8
<1>5. CASE c.op = "open"
  <2>1. c.conn \in ConnIds /\ c.params \in Nat /\ m = BuildLfo(c.conn, c.params)
    BY <1>5, Arguments DEF Built
  <2>2. m \in Bytes /\ Len(m) = 50 /\ m[1] = 91
    BY <2>1, LfoRequest
  <2>3. QED
    BY <1>5, <2>2
<1>6. CASE c.op = "close"
  <2>1. c.conn \in ConnIds /\ m = BuildFc(c.conn)
    BY <1>6, Arguments DEF Built
  <2>2. m \in Bytes /\ Len(m) = 22 /\ m[1] = 78
    BY <2>1, FcRequest
  <2>3. QED
    BY <1>6, <2>2
<1>7. QED
  BY <1>2, <1>3, <1>4, <1>5, <1>6 DEF Built

\* The service code tells the call.
LEMMA OpOf ==
  ASSUME NEW c \in Calls, NEW m, NEW k, Built(c, m, k)
  PROVE  /\ m[1] = 76 => c.op = "read_struct"
         /\ m[1] = 77 => c.op = "write_struct"
         /\ m[1] = 82 => c.op = "routed"
         /\ m[1] = 91 => c.op = "open"
         /\ m[1] = 78 => c.op = "close"
<1>1. c.op \in {"read_struct", "write_struct", "routed", "open", "close"}
  BY DEF Built
<1>2. QED
  BY <1>1, Services

\* Thread t starts the call c, which fails at once or waits for an answer.
Starts(t, c) ==
    /\ Only(t) /\ Good(thr'[t], faults')
    /\ thr'[t].id = 0 /\ thr'[t].pc # "back" /\ (thr'[t].pc = "sent" => thr'[t].call = c)

\* A call that fails at once sends nothing.
LEMMA FailsMoves ==
  ASSUME Threading, NEW t \in Threads, NEW c, NEW rc, Fails(t, c, rc), rc # "CIP_STATUS"
  PROVE  Starts(t, c) /\ thr'[t] = Over(None, None, rc, None, 0)
<1>1. thr' = [thr EXCEPT ![t] = Over(None, None, rc, None, 0)]
  BY BecomesIs DEF Fails
<1>2. Only(t) /\ thr'[t] = Over(None, None, rc, None, 0) /\ Good(thr'[t], faults')
  BY <1>1, Moves, FailedGood
<1>3. thr'[t].id = 0 /\ thr'[t].pc = "idle"
  BY <1>2 DEF Over
<1>4. QED
  BY <1>2, <1>3 DEF Starts

\* bp_client_message_send rejects the message or sends it as it is.
LEMMA SendMoves ==
  ASSUME Threading, NEW t \in Threads, NEW c \in Calls, NEW m, NEW k, NEW s,
         SendMessage(t, c, m, k, s), Built(c, m, k), Room(k)
  PROVE  Starts(t, c)
<1>1. CASE MessageRc(m, k, s) # "OK"
  <2>1. Fails(t, c, MessageRc(m, k, s))
    BY <1>1 DEF SendMessage
  <2>2. MessageRc(m, k, s) # "CIP_STATUS"
    BY DEF MessageRc
  <2>3. QED
    BY <2>1, <2>2, FailsMoves
<1>2. CASE MessageRc(m, k, s) = "OK"
  <2>1. thr' = [thr EXCEPT ![t] = Sent(c, m, k)]
    <3>1. Becomes(t, c, [pc |-> "sent", msg |-> m, cap |-> k])
      BY <1>2 DEF SendMessage
    <3>2. QED
      BY <3>1, BecomesIs
  <2>2. m \in Bytes /\ m # <<>>
    BY Services
  <2>3. Len(m) <= MaxReq
    <3>1. ~(m = <<>> \/ Len(m) > MaxReq)
      BY <1>2 DEF MessageRc
    <3>2. Len(m) \in Nat /\ MaxReq \in Nat
      BY <2>2, LenNat, MessagesAssumption
    <3>3. QED
      BY <3>1, <3>2
  <2>4. Good(Sent(c, m, k), faults')
    BY <2>2, <2>3, SentGood
  <2>5. Only(t) /\ thr'[t] = Sent(c, m, k)
    BY <2>1, Moves
  <2>6. thr'[t].id = 0 /\ thr'[t].pc = "sent" /\ thr'[t].call = c
    BY <2>5 DEF Sent
  <2>7. QED
    BY <2>4, <2>5, <2>6 DEF Starts
<1>3. QED
  BY <1>1, <1>2

\* The reply buffers of the calls.
LEMMA Rooms == Room(64) /\ Room(RespBuf) /\ \A n \in Nat : n >= MinCap => Room(Min2(n, RespBuf))
<1>1. /\ MinCap \in Nat /\ RespBuf \in Nat
      /\ 8 <= MinCap /\ MinCap <= RespBuf /\ RespBuf <= 102400
  BY MessagesAssumption
<1>2. Room(64) /\ Room(RespBuf)
  BY <1>1 DEF Room
<1>3. ASSUME NEW n \in Nat, n >= MinCap PROVE Room(Min2(n, RespBuf))
  BY <1>1, <1>3 DEF Room, Min2
<1>4. QED
  BY <1>2, <1>3

\* A wrapper.
LEMMA WrapperMoves ==
  ASSUME Threading, NEW t \in Threads, NEW c \in Calls, Wrapper(t, c)
  PROVE  Starts(t, c)
<1>1. c.fn \in Layouts
  BY Arguments DEF Wrapper, Begin
<1>2. CASE Fails(t, c, "PARAM_RANGE")
  BY <1>2, FailsMoves
<1>3. CASE Becomes(t, c, [pc |-> "engine"])
  <2>1. thr' = [thr EXCEPT ![t] = Waits("engine", c)]
    BY <1>3, BecomesIs
  <2>2. Good(Waits("engine", c), faults')
    BY <1>1, WaitsGood
  <2>3. Only(t) /\ thr'[t] = Waits("engine", c)
    BY <2>1, Moves
  <2>4. thr'[t].id = 0 /\ thr'[t].pc = "engine"
    BY <2>3 DEF Waits
  <2>5. QED
    BY <2>2, <2>3, <2>4 DEF Starts
<1>4. QED
  BY <1>2, <1>3 DEF Wrapper

\* bp_client_read_struct.
LEMMA ReadStructMoves ==
  ASSUME Threading, NEW t \in Threads, NEW c \in Calls, ReadStruct(t, c)
  PROVE  Starts(t, c)
<1>1. c.op = "read_struct"
  BY DEF ReadStruct, Begin
<1>2. CASE c.tag = <<>> \/ Len(c.tag) > MaxTag \/ c.cap < MinCap
  <2>1. Fails(t, c, "PARAM_RANGE")
    BY <1>2 DEF ReadStruct
  <2>2. QED
    BY <2>1, FailsMoves
<1>3. CASE ~(c.tag = <<>> \/ Len(c.tag) > MaxTag \/ c.cap < MinCap)
  <2>1. SendMessage(t, c, ReadTagRequest(c.tag), Min2(c.cap, RespBuf), c.slot)
    BY <1>3 DEF ReadStruct
  <2>2. c.tag \in Bytes /\ c.cap \in Nat /\ MaxTag \in Nat /\ MinCap \in Nat
    BY <1>1, Arguments, MessagesAssumption
  <2>3. Len(c.tag) <= MaxTag /\ c.cap >= MinCap
    BY <1>3, <2>2, LenNat
  <2>4. Room(Min2(c.cap, RespBuf))
    BY <2>2, <2>3, Rooms
  <2>5. Built(c, ReadTagRequest(c.tag), Min2(c.cap, RespBuf))
    BY <1>1, <2>3 DEF Built
  <2>6. QED
    BY <2>1, <2>4, <2>5, SendMoves
<1>4. QED
  BY <1>2, <1>3

\* bp_client_write_struct.
LEMMA WriteStructMoves ==
  ASSUME Threading, NEW t \in Threads, NEW c \in Calls, WriteStruct(t, c)
  PROVE  Starts(t, c)
<1>1. c.op = "write_struct"
  BY DEF WriteStruct, Begin
<1> DEFINE req == WriteTagRequest(c.tag, c.handle, c.data)
           wrong == c.tag = <<>> \/ Len(c.tag) > MaxTag \/ c.data = <<>>
<1>2. /\ c.tag \in Bytes /\ Len(c.tag) \in Nat /\ MaxTag \in Nat
      /\ (c.tag # <<>> /\ Len(c.tag) <= MaxTag /\ c.data # <<>>) <=> ~wrong
  <2>1. c.tag \in Bytes /\ Len(c.tag) \in Nat /\ MaxTag \in Nat
    BY <1>1, Arguments, LenNat, MessagesAssumption
  <2>2. QED
    BY <2>1
<1>3. CASE Fails(t, c, "PARAM_RANGE")
  BY <1>3, FailsMoves
<1>4. CASE Becomes(t, c, [pc |-> "overrun"])
  <2>1. thr' = [thr EXCEPT ![t] = Waits("overrun", c)]
    BY <1>4, BecomesIs
  <2>2. Good(Waits("overrun", c), faults')
    BY WaitsGood
  <2>3. Only(t) /\ thr'[t] = Waits("overrun", c)
    BY <2>1, Moves
  <2>4. thr'[t].id = 0 /\ thr'[t].pc = "overrun"
    BY <2>3 DEF Waits
  <2>5. QED
    BY <2>2, <2>3, <2>4 DEF Starts
<1>5. CASE ~wrong /\ SendMessage(t, c, req, 64, c.slot)
  <2>1. Built(c, req, 64)
    BY <1>1, <1>2, <1>5 DEF Built
  <2> HIDE DEF req
  <2>2. QED
    BY <1>5, <2>1, Rooms, SendMoves
<1>6. QED
  <2>1. CASE wrong
    <3>1. /\ c.tag = <<>> \/ Len(c.tag) > MaxTag \/ c.data = <<>>
          /\ ~(c.tag # <<>> /\ Len(c.tag) <= MaxTag /\ c.data # <<>>)
      BY <1>2, <2>1
    <3>2. Fails(t, c, "PARAM_RANGE")
      BY ZenonT(40), <3>1 DEF WriteStruct
    <3>3. QED
      BY <1>3, <3>2
  <2>2. CASE ~wrong /\ Len(req) > MaxReq
    <3>1. c.tag # <<>> /\ Len(c.tag) <= MaxTag /\ c.data # <<>> /\ ~(c.tag = <<>> \/ Len(c.tag) > MaxTag \/ c.data = <<>>)
      BY <1>2, <2>2
    <3>2. Fails(t, c, "PARAM_RANGE") \/ Becomes(t, c, [pc |-> "overrun"])
      BY ZenonT(40), <2>2, <3>1 DEF WriteStruct
    <3>3. QED
      BY <1>3, <1>4, <3>2
  <2>3. CASE ~wrong /\ ~(Len(req) > MaxReq)
    <3>1. SendMessage(t, c, req, 64, c.slot)
      BY ZenonT(40), <2>3 DEF WriteStruct
    <3>2. QED
      BY <1>5, <2>3, <3>1
  <2>4. QED
    BY <2>1, <2>2, <2>3

\* A routed request: what bp_build_unconnected_send accepts is routable.
LEMMA RoutedSendMoves ==
  ASSUME Threading, NEW t \in Threads, NEW c \in Calls, RoutedSend(t, c)
  PROVE  Starts(t, c)
<1>1. c.op = "routed"
  BY DEF RoutedSend, Begin
<1> DEFINE hop == AppendPort(c.route, c.routeCap, c.hop)
           rc == UnconnectedSendRc(c.req, hop.route, c.cap)
           m == UnconnectedSend(c.req, hop.route, c.ms)
<1>2. CASE hop.rc # "OK"
  <2>1. Fails(t, c, hop.rc)
    BY <1>2 DEF RoutedSend
  <2>2. hop.rc # "CIP_STATUS"
    BY DEF AppendPort
  <2> HIDE DEF hop
  <2>3. QED
    BY <2>1, <2>2, FailsMoves
<1>3. CASE hop.rc = "OK" /\ rc # "OK"
  <2>1. Fails(t, c, rc)
    BY <1>3 DEF RoutedSend
  <2>2. rc # "CIP_STATUS"
    BY DEF UnconnectedSendRc
  <2> HIDE DEF rc
  <2>3. QED
    BY <2>1, <2>2, FailsMoves
<1>4. CASE hop.rc = "OK" /\ rc = "OK"
  <2>1. SendMessage(t, c, m, RespBuf, 0)
    BY <1>4 DEF RoutedSend
  <2>2. hop.route = c.route \o c.hop
    BY <1>4 DEF AppendPort
  <2>3. /\ c.req \in Bytes /\ c.ms \in Nat /\ c.cap \in Nat
        /\ c.route \in Bytes /\ c.hop \in Bytes
    BY <1>1, Arguments
  <2>4. PICK r \in Bytes : r = c.route \o c.hop
    BY <2>3, Cat DEF Join
  <2>5. PICK q \in Bytes : q = c.req
    BY <2>3
  <2>6. UnconnectedSendRc(q, r, c.cap) = "OK"
    BY <1>4, <2>2, <2>4, <2>5
  <2>7. /\ ~(Len(r) % 2 # 0 \/ q = <<>> \/ Len(q) > 65535) /\ ~(r = <<>> \/ Len(r) > MaxRoute)
        /\ ~(12 + Len(q) + (Len(q) % 2) + Len(r) > c.cap)
    BY <2>6 DEF UnconnectedSendRc
  <2>8. Len(r) % 2 = 0 /\ Len(q) <= 65535 /\ Len(r) <= 510
    <3>1. Len(r) \in Nat /\ Len(q) \in Nat /\ MaxRoute \in Nat /\ MaxRoute <= 510
      BY LenNat, MessagesAssumption
    <3>2. QED
      BY <2>7, <3>1
  <2>9. Routable(q, r)
    BY <2>8 DEF Routable
  <2>10. Len(UnconnectedSend(q, r, c.ms)) = 12 + Len(q) + (Len(q) % 2) + Len(r)
    BY <2>3, <2>9, RoutedRequest
  <2>11. Len(UnconnectedSend(q, r, c.ms)) <= c.cap
    <3>1. Len(r) \in Nat /\ Len(q) \in Nat /\ Len(q) % 2 \in Nat /\ c.cap \in Nat
      <4>1. Len(r) \in Nat /\ Len(q) \in Nat
        BY LenNat
      <4>2. QED
        BY <2>3, <4>1
    <3>2. QED
      BY <2>7, <2>10, <3>1
  <2>12. Built(c, UnconnectedSend(q, r, c.ms), RespBuf)
    BY <1>1, <2>4, <2>5, <2>9, <2>11 DEF Built
  <2>13. SendMessage(t, c, UnconnectedSend(q, r, c.ms), RespBuf, 0)
    BY <2>1, <2>2, <2>4, <2>5
  <2>14. QED
    BY <2>12, <2>13, Rooms, SendMoves
<1>5. QED
  BY <1>2, <1>3, <1>4

\* bp_client_txrx_open.
LEMMA OpenConnMoves ==
  ASSUME Threading, NEW t \in Threads, NEW c \in Calls, OpenConn(t, c)
  PROVE  /\ Starts(t, c)
         /\ thr'[t].pc = "sent" => Identity(c.conn) \notin Tabled \cup Moving
<1>1. c.op = "open"
  BY DEF OpenConn, Begin
<1>2. CASE ExtractSlot(c.path) # "OK"
  <2>1. Fails(t, c, ExtractSlot(c.path)) /\ ExtractSlot(c.path) # "CIP_STATUS"
    BY <1>2 DEF OpenConn, ExtractSlot
  <2>2. Starts(t, c) /\ thr'[t] = Over(None, None, ExtractSlot(c.path), None, 0)
    BY <2>1, FailsMoves
  <2>3. thr'[t].pc = "idle"
    BY <2>2 DEF Over
  <2>4. QED
    BY <2>2, <2>3
<1>3. CASE ExtractSlot(c.path) = "OK"
  <2>1. /\ SendMessage(t, c, BuildLfo(c.conn, c.params), 64, c.path[2])
        /\ Identity(c.conn) \notin Tabled \cup Moving
    BY <1>3 DEF OpenConn
  <2>2. Built(c, BuildLfo(c.conn, c.params), 64)
    BY <1>1 DEF Built
  <2>3. QED
    BY <2>1, <2>2, Rooms, SendMoves
<1>4. QED
  BY <1>2, <1>3

\* A Forward_Close always fits a message.
LEMMA CloseConnMoves ==
  ASSUME Threading, NEW t \in Threads, NEW c \in Calls, CloseConn(t, c)
  PROVE  /\ Starts(t, c)
         /\ c.conn \notin opened => opened' = opened /\ thr'[t] = Over(None, None, "NOT_OPEN", None, 0)
         /\ c.conn \in opened => opened' = opened \ {c.conn} /\ thr'[t] = Sent(c, BuildFc(c.conn), 64)
<1>1. c.op = "close" /\ c.conn \in ConnIds
  BY Arguments DEF CloseConn, Begin
<1>2. CASE c.conn \notin opened
  <2>1. Fails(t, c, "NOT_OPEN") /\ opened' = opened
    BY <1>2 DEF CloseConn
  <2>2. QED
    BY <1>2, <2>1, FailsMoves
<1>3. CASE c.conn \in opened
  <2>1. SendMessage(t, c, BuildFc(c.conn), 64, 0) /\ opened' = opened \ {c.conn}
    BY <1>3 DEF CloseConn
  <2>2. PICK m \in Bytes : m = BuildFc(c.conn) /\ Len(m) = 22
    BY <1>1, FcRequest
  <2>3. MessageRc(m, 64, 0) = "OK"
    <3>1. m # <<>> /\ ~(Len(m) > MaxReq) /\ ~(64 = 0) /\ ~(0 > MaxSlot)
      <4>1. MaxReq \in Nat /\ 50 <= MaxReq /\ MaxSlot \in Nat
        BY MessagesAssumption
      <4>2. m # <<>>
        BY Services, <1>1, <2>2 DEF Built
      <4>3. QED
        BY <2>2, <4>1, <4>2
    <3>2. QED
      BY <3>1 DEF MessageRc
  <2>4. Becomes(t, c, [pc |-> "sent", msg |-> m, cap |-> 64])
    BY <2>1, <2>2, <2>3 DEF SendMessage
  <2>5. thr' = [thr EXCEPT ![t] = Sent(c, m, 64)]
    BY <2>4, BecomesIs
  <2>6. thr'[t] = Sent(c, m, 64)
    BY <2>5, Moves
  <2>7. Built(c, m, 64)
    BY <1>1, <2>2 DEF Built
  <2>8. Starts(t, c)
    BY <2>1, <2>2, <2>7, Rooms, SendMoves
  <2>9. QED
    BY <1>3, <2>1, <2>2, <2>6, <2>8
<1>4. QED
  BY <1>2, <1>3

\* bp_client_last_cip_error sends nothing.
LEMMA TakeCipErrorMoves ==
  ASSUME Threading, NEW t \in Threads, NEW c \in Calls, TakeCipError(t, c)
  PROVE  /\ Starts(t, c)
         /\ \/ cipErr = None /\ thr'[t] = Over(None, None, "GENERIC", None, 0)
            \/ cipErr # None /\ thr'[t] = Over(c, thr[t].plc, "OK", cipErr, 0)
<1>1. c.op = "last_error"
  BY DEF TakeCipError, Begin
<1>2. CASE cipErr = None
  <2>1. Fails(t, c, "GENERIC")
    BY <1>2 DEF TakeCipError
  <2>2. QED
    BY <1>2, <2>1, FailsMoves
<1>3. CASE cipErr # None
  <2>1. Becomes(t, c, [out |-> [rc |-> "OK", val |-> cipErr], plc |-> thr[t].plc, id |-> 0])
    BY <1>3 DEF TakeCipError, Returns
  <2>2. thr' = [thr EXCEPT ![t] = Over(c, thr[t].plc, "OK", cipErr, 0)]
    BY <2>1, BecomesIs
  <2>3. Good(Over(c, thr[t].plc, "OK", cipErr, 0), faults')
    BY <1>1, OverGood
  <2>4. Only(t) /\ thr'[t] = Over(c, thr[t].plc, "OK", cipErr, 0)
    BY <2>2, Moves
  <2>5. thr'[t].id = 0 /\ thr'[t].pc = "idle"
    BY <2>4 DEF Over
  <2>6. QED
    BY <1>3, <2>3, <2>4, <2>5 DEF Starts
<1>4. QED
  BY <1>2, <1>3

\* Every call starts this way.
LEMMA StartMoves ==
  ASSUME Threading, NEW t \in Threads, NEW c \in Calls, Start(t, c)
  PROVE  Starts(t, c)
  BY WrapperMoves, ReadStructMoves, WriteStructMoves, RoutedSendMoves, OpenConnMoves,
     CloseConnMoves, TakeCipErrorMoves DEF Start

-----------------------------------------------------------------------------
(* The controller *)

\* The thread x with the controller's answer r, which tells of p.
Backs(x, p, r) == [x EXCEPT !.pc = "back", !.plc = p, !.reply = r]

\* The fields of a thread whose answer is back.
LEMMA BacksIs ==
  ASSUME NEW x, NEW p, NEW r, Typed(x)
  PROVE  LET y == Backs(x, p, r)
         IN  /\ Typed(y) /\ y.pc = "back" /\ y.plc = p /\ y.reply = r
             /\ y.call = x.call /\ y.msg = x.msg /\ y.cap = x.cap
<1>1. PICK y : y = Backs(x, p, r)
  OBVIOUS
<1>2. y = [pc |-> "back", call |-> x.call, msg |-> x.msg, cap |-> x.cap, reply |-> r,
           plc |-> p, out |-> x.out, id |-> x.id]
  BY <1>1 DEF Typed, Backs
<1>3. /\ y.pc = "back" /\ y.plc = p /\ y.reply = r
      /\ y.call = x.call /\ y.msg = x.msg /\ y.cap = x.cap /\ y.out = x.out /\ y.id = x.id
  BY <1>2
<1>4. Typed(y)
  BY <1>2, <1>3 DEF Typed
<1>5. QED
  BY <1>1, <1>3, <1>4

\* An answer that tells what the controller did leaves the thread good.
LEMMA BackGood ==
  ASSUME NEW x, NEW n, NEW p, NEW r, Good(x, n), x.pc = "sent",
         x.call.op # "routed" =>
            /\ p \in Outcomes /\ Tells(r, p)
            /\ x.call.op = "read_struct" /\ Len(r) >= 8 => Carries(r, p)
            /\ x.call.op = "write_struct" => Wrote(x.call, p, n)
  PROVE  Good(Backs(x, p, r), n)
<1>1. Typed(x) /\ InFlight(x)
  BY DEF Good
<1>2. PICK y : y = Backs(x, p, r)
  OBVIOUS
<1>3. /\ Typed(y) /\ y.pc = "back" /\ y.plc = p /\ y.reply = r
      /\ y.call = x.call /\ y.msg = x.msg /\ y.cap = x.cap
  BY <1>1, <1>2, BacksIs
<1>4. InFlight(y)
  BY <1>1, <1>3 DEF InFlight
<1>5. Answered(y, n)
  <2>1. ASSUME x.call.op # "routed" PROVE Whole(r, x.call, p) /\ LeftOf(r, r, p)
    <3>1. Whole(r, x.call, p) /\ r \in Seq(Nat) /\ Len(r) \in Nat
      BY <2>1 DEF Whole, Tells
    <3>2. SubSeq(r, 1, Len(r)) = r /\ Len(r) \in 0 .. Len(r)
      BY <3>1, FirstOfFirst
    <3>3. QED
      BY <3>1, <3>2 DEF LeftOf
  <2>2. QED
    BY <1>3, <2>1 DEF Answered
<1>6. QED
  BY <1>2, <1>3, <1>4, <1>5 DEF Good, Asks, Settled

\* The short answers: a success with nothing more, and a rejection.
LEMMA PlainTells ==
  ASSUME NEW m \in Bytes, m # <<>>, NEW s \in Nat, NEW p \in Outcomes, p.status = s, p.ext = 0
  PROVE  Tells(Reply(m, s, <<>>, <<>>), p) /\ Len(Reply(m, s, <<>>, <<>>)) = 4
<1>1. PICK r : r = Reply(m, s, <<>>, <<>>)
  OBVIOUS
<1>2. r \in Seq(Nat) /\ Len(r) = 4 /\ r[3] = s /\ r[4] = 0
  BY <1>1, ReplyPlain
<1>3. QED
  BY <1>1, <1>2 DEF Tells, Extended

\* A rejection with an extended status.
LEMMA ExtTells ==
  ASSUME NEW m \in Bytes, m # <<>>, NEW s \in Nat, NEW e \in Word
  PROVE  /\ Refused(s, e) \in Outcomes /\ Tells(Reply(m, s, U16(e), <<>>), Refused(s, e))
         /\ Len(Reply(m, s, U16(e), <<>>)) = 6
<1>1. PICK r : r = Reply(m, s, U16(e), <<>>)
  OBVIOUS
<1>2. r \in Seq(Nat) /\ Len(r) = 6 /\ r[3] = s /\ r[4] = 1 /\ LdU16(r, 5) = e
  BY <1>1, ReplyExt
<1>3. e \in Nat
  BY DEF Word
<1>4. Refused(s, e) \in Outcomes /\ Refused(s, e).status = s /\ Refused(s, e).ext = e
  BY <1>3, OutcomeTypes
<1>5. PICK p : p = Refused(s, e)
  OBVIOUS
<1>6. Extended(r, p.ext)
  BY <1>2, <1>4, <1>5 DEF Extended
<1>7. Tells(r, p)
  BY <1>2, <1>4, <1>5, <1>6 DEF Tells
<1>8. QED
  BY <1>1, <1>2, <1>4, <1>5, <1>7

\* What is known of a thread whose message the controller has.
LEMMA SentIs ==
  ASSUME Threading, NEW t \in Threads, thr[t].pc = "sent"
  PROVE  /\ Good(thr[t], faults) /\ thr[t].call \in Calls
         /\ Built(thr[t].call, thr[t].msg, thr[t].cap)
         /\ thr[t].msg \in Bytes /\ thr[t].msg # <<>>
  BY DEF Threading, Good, InFlight, Typed

\* The controller answers a read of a structure.
LEMMA PlcReadMoves ==
  ASSUME Threading, Structures, NEW t \in Threads, thr[t].pc = "sent", thr[t].msg[1] = 76,
         PlcRead(t, thr[t].msg)
  PROVE  /\ Only(t) /\ Good(thr'[t], faults) /\ thr[t].call.op = "read_struct"
         /\ thr'[t].pc = "back" /\ thr'[t].call = thr[t].call
<1>1. PICK x : x = thr[t]
  OBVIOUS
<1>2. PICK m : m = x.msg
  OBVIOUS
<1>3. Good(x, faults) /\ x.pc = "sent" /\ x.call \in Calls /\ Built(x.call, m, x.cap) /\ m \in Bytes /\ m # <<>>
  BY <1>1, <1>2, SentIs
<1>4. x.call.op = "read_struct"
  <2>1. m[1] = 76
    BY <1>1, <1>2
  <2>2. QED
    BY <1>3, <2>1, OpOf
<1> DEFINE known == Named(m) \in DOMAIN structs /\ Body(m) = <<1, 0>>
           s == structs[Named(m)]
           p == IF known THEN Done(s.handle, s.data) ELSE Refused(4, 0)
           r == IF known THEN Reply(m, 0, <<>>, <<160, 2>> \o U16(s.handle) \o s.data)
                ELSE Reply(m, 4, <<>>, <<>>)
<1>5. thr' = [thr EXCEPT ![t].pc = "back", ![t].plc = p, ![t].reply = r]
  BY <1>1, <1>2 DEF PlcRead
<1>6. p \in Outcomes /\ Tells(r, p) /\ (Len(r) >= 8 => Carries(r, p))
  <2>1. CASE known
    <3>1. s.handle \in Word /\ s.handle \in Nat /\ s.data \in Bytes
      BY <2>1 DEF Structures, Word
    <3>2. PICK h \in Word, d \in Bytes : h = s.handle /\ d = s.data /\ h \in Nat
      BY <3>1
    <3>3. p = Done(h, d) /\ r = Reply(m, 0, <<>>, <<160, 2>> \o U16(h) \o d)
      BY <2>1, <3>2
    <3> HIDE DEF p, r, s, known
    <3>4. p \in Outcomes /\ p.status = 0 /\ p.ext = 0 /\ p.handle = h /\ p.data = d
      BY <3>2, <3>3, OutcomeTypes
    <3>5. /\ r \in Seq(Nat) /\ Len(r) = 8 + Len(d) /\ r[3] = 0 /\ r[4] = 0 /\ LdU16(r, 7) = h
          /\ \A i \in 1 .. Len(d) : r[8 + i] = d[i]
      <4>1. StructReply(r, h, d)
        BY <1>3, <3>3, ReplyStruct
      <4>2. QED
        BY <4>1 DEF StructReply
    <3>6. Len(d) \in Nat
      BY LenNat
    <3>7. Tells(r, p)
      BY <3>4, <3>5, <3>6 DEF Tells, Extended
    <3>8. Carries(r, p)
      BY <3>4, <3>5 DEF Carries
    <3>9. QED
      BY <3>4, <3>7, <3>8
  <2>2. CASE ~known
    <3>1. p = Refused(4, 0) /\ r = Reply(m, 4, <<>>, <<>>)
      BY <2>2
    <3> HIDE DEF p, r, s, known
    <3>2. p \in Outcomes /\ p.status = 4 /\ p.ext = 0
      BY <3>1, OutcomeTypes
    <3>3. Tells(r, p) /\ Len(r) = 4
      BY <1>3, <3>1, <3>2, PlainTells
    <3>4. QED
      BY <3>2, <3>3
  <2> HIDE DEF known
  <2>3. QED
    BY <2>1, <2>2
<1> HIDE DEF p, r, s, known
<1>7. Only(t) /\ thr'[t] = Backs(x, p, r)
  BY <1>1, <1>5 DEF Threading, Only, Backs
<1>8. Good(Backs(x, p, r), faults)
  BY <1>3, <1>4, <1>6, BackGood
<1>9. thr'[t].pc = "back" /\ thr'[t].call = x.call
  <2>1. Typed(x)
    BY <1>3 DEF Good
  <2>2. QED
    BY <1>7, <2>1, BacksIs
<1>10. QED
  BY <1>1, <1>4, <1>7, <1>8, <1>9

\* The device at the end of a route answers.
LEMMA PlcRoutedMoves ==
  ASSUME Threading, NEW t \in Threads, thr[t].pc = "sent", thr[t].msg[1] = 82,
         PlcRouted(t, Unwrap(thr[t].msg).req)
  PROVE  /\ Only(t) /\ Good(thr'[t], faults) /\ thr[t].call.op = "routed"
         /\ thr'[t].pc = "back" /\ thr'[t].call = thr[t].call
<1>1. PICK x : x = thr[t]
  OBVIOUS
<1>2. Good(x, faults) /\ x.pc = "sent" /\ x.call \in Calls /\ Built(x.call, x.msg, x.cap)
  BY <1>1, SentIs
<1>3. x.call.op = "routed"
  <2>1. x.msg[1] = 82
    BY <1>1
  <2>2. QED
    BY <1>2, <2>1, OpOf
<1>4. PICK p, r : thr' = [thr EXCEPT ![t].pc = "back", ![t].plc = p, ![t].reply = r]
  BY DEF PlcRouted
<1>5. Only(t) /\ thr'[t] = Backs(x, p, r)
  BY <1>1, <1>4 DEF Threading, Only, Backs
<1>6. Good(Backs(x, p, r), faults)
  BY <1>2, <1>3, BackGood
<1>7. thr'[t].pc = "back" /\ thr'[t].call = x.call
  <2>1. Typed(x)
    BY <1>2 DEF Good
  <2>2. QED
    BY <1>5, <2>1, BacksIs
<1>8. QED
  BY <1>1, <1>3, <1>5, <1>6, <1>7

\* The controller answers a write: it takes out of the request what the caller put in.
LEMMA PlcWriteMoves ==
  ASSUME Threading, Structures, NEW t \in Threads, thr[t].pc = "sent", thr[t].msg[1] = 77,
         PlcWrite(t, thr[t].msg)
  PROVE  /\ Only(t) /\ Good(thr'[t], faults) /\ Structures' /\ thr[t].call.op = "write_struct"
         /\ thr'[t].pc = "back" /\ thr'[t].call = thr[t].call
<1>1. PICK x : x = thr[t]
  OBVIOUS
<1>2. PICK m : m = x.msg
  OBVIOUS
<1>3. /\ Good(x, faults) /\ x.pc = "sent" /\ x.call \in Calls /\ Built(x.call, m, x.cap)
      /\ m \in Bytes /\ m # <<>>
  BY <1>1, <1>2, SentIs
<1>4. x.call.op = "write_struct"
  <2>1. m[1] = 77
    BY <1>1, <1>2
  <2>2. QED
    BY <1>3, <2>1, OpOf
<1>5. PICK c : c = x.call
  OBVIOUS
<1>6. /\ c.tag \in Bytes /\ Len(c.tag) <= 250 /\ c.handle \in Word /\ c.data \in Bytes /\ c.data # <<>>
      /\ m = WriteTagRequest(c.tag, c.handle, c.data)
  <2>1. MaxTag \in Nat /\ MaxTag <= 250
    BY MessagesAssumption
  <2>2. Len(c.tag) <= MaxTag /\ c.tag \in Bytes
    BY <1>3, <1>4, <1>5, Arguments DEF Built
  <2>3. Len(c.tag) <= 250
    BY <2>1, <2>2, LenNat
  <2>4. QED
    BY <1>3, <1>4, <1>5, <2>2, <2>3, Arguments DEF Built
<1>7. PICK b \in Bytes : b = Body(m)
  BY <1>6, WriteRequest
<1>8. /\ Named(m) = c.tag /\ Len(b) = 6 + Len(c.data) /\ SubSeq(b, 1, 2) = <<160, 2>>
      /\ SubSeq(b, 5, 6) = U16(1) /\ LdU16(b, 3) = c.handle /\ SubSeq(b, 7, Len(b)) = c.data
  BY SMTT(60), <1>6, <1>7, WriteRequest
<1> DEFINE s == structs[c.tag]
           fits == /\ c.tag \in DOMAIN structs /\ Len(b) > 6
                   /\ SubSeq(b, 1, 2) = <<160, 2>> /\ SubSeq(b, 5, 6) = U16(1)
                   /\ LdU16(b, 3) = s.handle /\ Len(b) - 6 = Len(s.data)
           p == IF fits THEN Done(s.handle, SubSeq(b, 7, Len(b))) ELSE Refused(19, 515)
           r == IF fits THEN Reply(m, 0, <<>>, <<>>) ELSE Reply(m, 19, U16(515), <<>>)
<1>9. /\ thr' = [thr EXCEPT ![t].pc = "back", ![t].plc = p, ![t].reply = r]
      /\ IF fits THEN structs' = [structs EXCEPT ![c.tag].data = SubSeq(b, 7, Len(b))]
         ELSE structs' = structs
  BY <1>1, <1>2, <1>7, <1>8 DEF PlcWrite
<1>10. Len(c.data) \in Nat /\ Len(c.data) > 0
  BY <1>6 DEF Bytes
<1>11. fits <=> Matches(c)
  <2>1. Len(b) > 6 /\ Len(b) - 6 = Len(c.data)
    BY <1>8, <1>10
  <2>2. fits <=> (c.tag \in DOMAIN structs /\ c.handle = s.handle /\ Len(c.data) = Len(s.data))
    BY <1>8, <2>1
  <2>3. DOMAIN structs = DOMAIN Structs
    BY DEF Structures
  <2>4. c.tag \in DOMAIN Structs => s.handle = Structs[c.tag].handle /\ Len(s.data) = Len(Structs[c.tag].data)
    BY DEF Structures
  <2> HIDE DEF fits, s
  <2>5. QED
    BY <2>2, <2>3, <2>4 DEF Matches
<1>12. p \in Outcomes /\ Tells(r, p) /\ Wrote(c, p, faults)
  <2>1. CASE fits
    <3>1. s.handle \in Nat
      BY <2>1 DEF Structures, Word
    <3>2. p = Done(s.handle, c.data) /\ r = Reply(m, 0, <<>>, <<>>)
      BY <1>8, <2>1
    <3>3. PICK h \in Nat : h = s.handle
      BY <3>1
    <3> HIDE DEF p, r, s, fits
    <3>4. p \in Outcomes /\ p.status = 0 /\ p.ext = 0 /\ p.data = c.data
      BY <1>6, <3>2, <3>3, OutcomeTypes
    <3>5. Tells(r, p)
      BY <1>3, <3>2, <3>4, PlainTells
    <3>6. QED
      BY <3>4, <3>5 DEF Wrote
  <2>2. CASE ~fits
    <3>1. p = Refused(19, 515) /\ r = Reply(m, 19, U16(515), <<>>)
      BY <2>2
    <3> HIDE DEF p, r, s, fits
    <3>2. 515 \in Word /\ 515 \in Nat
      BY DEF Word
    <3>3. p \in Outcomes /\ Tells(r, p)
      BY <1>3, <3>1, <3>2, ExtTells
    <3>4. p.status = 19
      BY <3>1, <3>2, OutcomeTypes
    <3>5. QED
      BY <1>11, <2>2, <3>3, <3>4 DEF Wrote
  <2> HIDE DEF fits, p, r
  <2>3. QED
    BY <2>1, <2>2
<1>13. Structures'
  <2>1. CASE fits
    <3>1. structs' = [structs EXCEPT ![c.tag].data = c.data]
      BY <1>8, <1>9, <2>1
    <3>2. c.tag \in DOMAIN Structs /\ Len(c.data) = Len(Structs[c.tag].data)
      BY <1>11, <2>1 DEF Matches
    <3> HIDE DEF fits, p, r, s
    <3>3. structs' \in [DOMAIN Structs -> [handle : Word, data : Bytes]]
      BY ZenonT(40), <1>6, <3>1 DEF Structures
    <3>4. \A y \in DOMAIN Structs :
            structs'[y].handle = Structs[y].handle /\ Len(structs'[y].data) = Len(Structs[y].data)
      BY <3>1, <3>2 DEF Structures
    <3>5. QED
      BY <3>3, <3>4 DEF Structures
  <2>2. CASE ~fits
    <3>1. structs' = structs
      BY <1>9, <2>2
    <3> HIDE DEF fits, p, r, s
    <3>2. QED
      BY <3>1 DEF Structures
  <2> HIDE DEF fits, p, r
  <2>3. QED
    BY <2>1, <2>2
<1> HIDE DEF p, r, s, fits
<1>14. Only(t) /\ thr'[t] = Backs(x, p, r)
  BY <1>1, <1>9 DEF Threading, Only, Backs
<1>15. Good(Backs(x, p, r), faults)
  BY <1>3, <1>4, <1>5, <1>12, BackGood
<1>16. Typed(x)
  BY <1>3 DEF Good
<1>17. thr'[t].pc = "back" /\ thr'[t].call = x.call
  BY <1>14, <1>16, BacksIs
<1>18. QED
  BY <1>1, <1>4, <1>13, <1>14, <1>15, <1>17

\* A connection the controller has opened for x and x has not seen yet, and one that
\* x has given up and the controller has not closed yet.
Accepted(x) ==
    /\ x.pc = "back" /\ x.call.op = "open"
    /\ Len(x.reply) >= 12 /\ x.reply[1] \in {219, 212} /\ x.reply[3] = 0
Closing(x) == x.pc = "sent" /\ x.call.op = "close"

\* The controller answers a Large_Forward_Open: it finds the identity of the connection.
LEMMA PlcOpenMoves ==
  ASSUME Threading, NEW t \in Threads, thr[t].pc = "sent", thr[t].msg[1] = 91,
         PlcOpen(t, thr[t].msg)
  PROVE  LET id == Identity(thr[t].call.conn)
         IN  /\ Only(t) /\ Good(thr'[t], faults) /\ thr[t].call.op = "open"
             /\ conns' = conns \cup {id} /\ expired' = expired \ {id}
             /\ thr'[t].call = thr[t].call /\ thr'[t].pc = "back"
             /\ Accepted(thr'[t]) <=> id \notin conns
<1>1. PICK x : x = thr[t]
  OBVIOUS
<1>2. PICK m : m = x.msg
  OBVIOUS
<1>3. /\ Good(x, faults) /\ x.pc = "sent" /\ x.call \in Calls /\ Built(x.call, m, x.cap)
      /\ m \in Bytes /\ m # <<>> /\ m[1] = 91
  BY <1>1, <1>2, SentIs
<1>4. x.call.op = "open"
  BY <1>3, OpOf
<1>5. SubSeq(m, 17, 24) = Identity(x.call.conn)
  BY SMTT(40), <1>3, <1>4, Arguments, LfoRequest DEF Built
<1>6. PICK id : id = Identity(x.call.conn)
  OBVIOUS
<1> DEFINE free == id \notin conns
           p == IF free THEN Done(0, id) ELSE Refused(1, 256)
           r == IF free THEN Reply(m, 0, <<>>, Zeros(8)) ELSE Reply(m, 1, U16(256), <<>>)
<1>7. /\ thr' = [thr EXCEPT ![t].pc = "back", ![t].plc = p, ![t].reply = r]
      /\ conns' = conns \cup {id} /\ expired' = expired \ {id}
  BY ZenonT(40), <1>1, <1>2, <1>5, <1>6 DEF PlcOpen
<1>8. /\ p \in Outcomes /\ Tells(r, p)
      /\ (Len(r) >= 12 /\ r[1] \in {219, 212} /\ r[3] = 0) <=> free
  <2>1. CASE free
    <3>1. p = Done(0, id) /\ r = Reply(m, 0, <<>>, Zeros(8))
      BY <2>1
    <3>2. id \in Bytes
      BY <1>3, <1>4, <1>6, Arguments, IdentityBytes
    <3> HIDE DEF p, r, free
    <3>3. p \in Outcomes /\ p.status = 0 /\ p.ext = 0
      BY <3>1, <3>2, OutcomeTypes
    <3>4. r \in Seq(Nat) /\ Len(r) = 12 /\ r[1] = 219 /\ r[3] = 0 /\ r[4] = 0
      <4>1. r \in Seq(Nat) /\ Len(r) = 12 /\ r[1] = m[1] + 128 /\ r[3] = 0 /\ r[4] = 0
        BY <1>3, <3>1, ReplyOpen
      <4>2. QED
        BY <1>3, <4>1
    <3>5. Tells(r, p)
      BY <3>3, <3>4 DEF Tells, Extended
    <3>6. QED
      BY <2>1, <3>3, <3>4, <3>5
  <2>2. CASE ~free
    <3>1. p = Refused(1, 256) /\ r = Reply(m, 1, U16(256), <<>>)
      BY <2>2
    <3> HIDE DEF p, r, free
    <3>2. 256 \in Word
      BY DEF Word
    <3>3. p \in Outcomes /\ Tells(r, p) /\ Len(r) = 6
      BY <1>3, <3>1, <3>2, ExtTells
    <3>4. QED
      BY <2>2, <3>3
  <2> HIDE DEF p, r, free
  <2>3. QED
    BY <2>1, <2>2
<1> HIDE DEF p, r
<1>9. Only(t) /\ thr'[t] = Backs(x, p, r)
  BY <1>1, <1>7 DEF Threading, Only, Backs
<1>10. Good(Backs(x, p, r), faults)
  BY <1>3, <1>4, <1>8, BackGood
<1>11. Typed(x)
  BY <1>3 DEF Good
<1>12. thr'[t].pc = "back" /\ thr'[t].call = x.call /\ thr'[t].reply = r
  BY <1>9, <1>11, BacksIs
<1>13. Accepted(thr'[t]) <=> id \notin conns
  BY <1>4, <1>8, <1>12 DEF Accepted
<1>14. QED
  BY <1>1, <1>4, <1>6, <1>7, <1>9, <1>10, <1>12, <1>13

\* The controller answers a Forward_Close: it finds the same identity.
LEMMA PlcCloseMoves ==
  ASSUME Threading, NEW t \in Threads, thr[t].pc = "sent", thr[t].msg[1] = 78,
         PlcClose(t, thr[t].msg)
  PROVE  LET id == Identity(thr[t].call.conn)
         IN  /\ Only(t) /\ Good(thr'[t], faults) /\ thr[t].call.op = "close"
             /\ conns' = conns \ {id} /\ expired' = expired \ {id}
             /\ thr'[t].call = thr[t].call /\ thr'[t].pc = "back"
<1>1. PICK x : x = thr[t]
  OBVIOUS
<1>2. PICK m : m = x.msg
  OBVIOUS
<1>3. /\ Good(x, faults) /\ x.pc = "sent" /\ x.call \in Calls /\ Built(x.call, m, x.cap)
      /\ m \in Bytes /\ m # <<>> /\ m[1] = 78
  BY <1>1, <1>2, SentIs
<1>4. x.call.op = "close"
  BY <1>3, OpOf
<1>5. SubSeq(m, 9, 16) = Identity(x.call.conn)
  BY <1>3, <1>4, Arguments, FcRequest DEF Built
<1>6. PICK id : id = Identity(x.call.conn)
  OBVIOUS
<1> DEFINE known == id \in conns
           p == IF known THEN Done(0, id) ELSE Refused(1, 263)
           r == IF known THEN Reply(m, 0, <<>>, <<>>) ELSE Reply(m, 1, U16(263), <<>>)
<1>7. /\ thr' = [thr EXCEPT ![t].pc = "back", ![t].plc = p, ![t].reply = r]
      /\ conns' = conns \ {id} /\ expired' = expired \ {id}
  BY ZenonT(40), <1>1, <1>2, <1>5, <1>6 DEF PlcClose
<1>8. p \in Outcomes /\ Tells(r, p)
  <2>1. CASE known
    <3>1. p = Done(0, id) /\ r = Reply(m, 0, <<>>, <<>>)
      BY <2>1
    <3>2. id \in Bytes
      BY <1>3, <1>4, <1>6, Arguments, IdentityBytes
    <3> HIDE DEF p, r, known
    <3>3. p \in Outcomes /\ p.status = 0 /\ p.ext = 0
      BY <3>1, <3>2, OutcomeTypes
    <3>4. QED
      BY <1>3, <3>1, <3>3, PlainTells
  <2>2. CASE ~known
    <3>1. p = Refused(1, 263) /\ r = Reply(m, 1, U16(263), <<>>)
      BY <2>2
    <3> HIDE DEF p, r, known
    <3>2. 263 \in Word
      BY DEF Word
    <3>3. QED
      BY <1>3, <3>1, <3>2, ExtTells
  <2> HIDE DEF p, r, known
  <2>3. QED
    BY <2>1, <2>2
<1> HIDE DEF p, r, known
<1>9. Only(t) /\ thr'[t] = Backs(x, p, r)
  BY <1>1, <1>7 DEF Threading, Only, Backs
<1>10. Good(Backs(x, p, r), faults)
  BY <1>3, <1>4, <1>8, BackGood
<1>11. Typed(x)
  BY <1>3 DEF Good
<1>12. thr'[t].pc = "back" /\ thr'[t].call = x.call
  BY <1>9, <1>11, BacksIs
<1>13. QED
  BY <1>1, <1>4, <1>6, <1>7, <1>9, <1>10, <1>12

\* A refusal accepts nothing.
LEMMA PlcRefusesMoves ==
  ASSUME Threading, Counters, NEW t \in Threads, PlcRefuses(t)
  PROVE  /\ Only(t) /\ Good(thr'[t], faults') /\ faults' = faults + 1 /\ thr[t].pc = "sent"
         /\ thr'[t].pc = "back" /\ thr'[t].call = thr[t].call /\ ~Accepted(thr'[t])
<1>1. PICK x : x = thr[t]
  OBVIOUS
<1>2. PICK m : m = x.msg
  OBVIOUS
<1>3. thr[t].pc = "sent" /\ faults' = faults + 1 /\ faults \in Nat /\ faults' \in Nat /\ faults <= faults'
  BY DEF PlcRefuses, Fault, Counters
<1>4. /\ Good(x, faults) /\ x.pc = "sent" /\ x.call \in Calls /\ Built(x.call, m, x.cap)
      /\ m \in Bytes /\ m # <<>>
  BY <1>1, <1>2, <1>3, SentIs
<1>5. Good(x, faults') /\ Typed(x)
  BY <1>3, <1>4, GoodLater DEF Good
<1>6. PICK p, r : p = Refused(2, 0) /\ r = Reply(m, 2, <<>>, <<>>)
  OBVIOUS
<1>7. p \in Outcomes /\ p.status = 2 /\ p.ext = 0
  BY <1>6, OutcomeTypes
<1>8. Tells(r, p) /\ Len(r) = 4
  BY <1>4, <1>6, <1>7, PlainTells
<1>9. Wrote(x.call, p, faults') /\ ~(Len(r) >= 8) /\ ~(Len(r) >= 12)
  BY <1>3, <1>7, <1>8 DEF Wrote
<1>10. thr' = [thr EXCEPT ![t].pc = "back", ![t].plc = p, ![t].reply = r]
  BY <1>1, <1>2, <1>6 DEF PlcRefuses
<1>11. Only(t) /\ thr'[t] = Backs(x, p, r)
  BY <1>1, <1>10 DEF Threading, Only, Backs
<1>12. Good(Backs(x, p, r), faults')
  BY <1>4, <1>5, <1>7, <1>8, <1>9, BackGood
<1>13. thr'[t].pc = "back" /\ thr'[t].call = x.call /\ thr'[t].reply = r
  BY <1>5, <1>11, BacksIs
<1>14. ~Accepted(thr'[t])
  BY <1>9, <1>13 DEF Accepted
<1>15. QED
  BY <1>1, <1>3, <1>11, <1>12, <1>13, <1>14

\* What is known of a thread whose answer is back.
LEMMA BackIs ==
  ASSUME Threading, NEW t \in Threads, thr[t].pc = "back"
  PROVE  LET x == thr[t]
         IN  /\ Good(x, faults) /\ Typed(x) /\ x.call \in Calls /\ Built(x.call, x.msg, x.cap)
             /\ Room(x.cap) /\ Answered(x, faults)
  BY DEF Threading, Good, InFlight

\* The thread x with its answer cut to q, which is left of what the controller did, p.
Cuts(x, q, p) == [x EXCEPT !.reply = q, !.plc = p]

\* A cut answer leaves the thread good.
LEMMA CutsGood ==
  ASSUME NEW x, NEW n, NEW q, NEW p, Good(x, n), x.pc = "back",
         x.call.op # "routed" =>
            /\ p \in Outcomes /\ \E r : Whole(r, x.call, p) /\ LeftOf(q, r, p)
            /\ x.call.op = "write_struct" => Wrote(x.call, p, n)
  PROVE  LET y == Cuts(x, q, p)
         IN  Good(y, n) /\ y.pc = "back" /\ y.call = x.call /\ y.reply = q
<1>1. Typed(x) /\ InFlight(x)
  BY DEF Good
<1>2. PICK y : y = Cuts(x, q, p)
  OBVIOUS
<1>3. y = [pc |-> x.pc, call |-> x.call, msg |-> x.msg, cap |-> x.cap, reply |-> q,
           plc |-> p, out |-> x.out, id |-> x.id]
  BY <1>1, <1>2 DEF Typed, Cuts
<1>4. /\ y.pc = "back" /\ y.plc = p /\ y.reply = q
      /\ y.call = x.call /\ y.msg = x.msg /\ y.cap = x.cap /\ y.out = x.out /\ y.id = x.id
  BY <1>3
<1>5. Typed(y)
  BY <1>1, <1>3, <1>4 DEF Typed
<1>6. InFlight(y)
  BY <1>1, <1>4 DEF InFlight
<1>7. Answered(y, n)
  BY <1>4 DEF Answered
<1>8. QED
  BY <1>2, <1>4, <1>5, <1>6, <1>7 DEF Good, Asks, Settled

\* The reply y, left of the answer r to the call c with the outcome p, is cut to q, of n
\* bytes; the outcome w says so.
CutTo(y, r, c, p, n, q, w) ==
    /\ Whole(r, c, p) /\ LeftOf(y, r, p) /\ n \in 0 .. Len(y) - 1 /\ q = SubSeq(y, 1, n)
    /\ w.status = p.status /\ w.ext = p.ext /\ w.handle = p.handle /\ w.data = p.data
    /\ w.answer = "cut"

\* What is left of an answer, cut again, is left of it.
LEMMA LeftOfLeft ==
  ASSUME NEW y, NEW r, NEW c, NEW p, NEW n, NEW q, NEW w, CutTo(y, r, c, p, n, q, w)
  PROVE  /\ y \in Seq(Nat) /\ Len(q) = n /\ \A i \in 1 .. n : q[i] = y[i]
         /\ Whole(r, c, w) /\ LeftOf(q, r, w)
<1> USE DEF CutTo
<1>1. r \in Seq(Nat)
  BY DEF Whole, Tells
<1>2. PICK m \in 0 .. Len(r) : y = SubSeq(r, 1, m)
  BY DEF LeftOf
<1>3. y \in Seq(Nat) /\ Len(y) = m
  BY <1>1, <1>2, FirstBytes
<1>4. m \in Nat /\ n \in 0 .. m /\ n \in 0 .. Len(r) /\ n \in 0 .. Len(y)
  BY <1>1, <1>2, <1>3
<1>5. q = SubSeq(r, 1, n) /\ Len(q) = n /\ \A i \in 1 .. n : q[i] = y[i]
  <2>1. SubSeq(SubSeq(r, 1, m), 1, n) = SubSeq(r, 1, n)
    BY <1>1, <1>2, <1>4, FirstOfFirst
  <2>2. Len(SubSeq(y, 1, n)) = n /\ \A i \in 1 .. n : SubSeq(y, 1, n)[i] = y[i]
    BY <1>3, <1>4, FirstBytes
  <2>3. QED
    BY <1>2, <2>1, <2>2
<1>6. Whole(r, c, w)
  BY DEF Whole, Tells, Carries
<1>7. LeftOf(q, r, w)
  BY <1>4, <1>5 DEF LeftOf
<1>8. QED
  BY <1>3, <1>5, <1>6, <1>7

\* An answer that is cut accepts nothing it did not accept before.
LEMMA CutMoves ==
  ASSUME Threading, Counters, NEW t \in Threads, Cut(t)
  PROVE  /\ Only(t) /\ Good(thr'[t], faults') /\ faults' = faults + 1 /\ thr[t].pc = "back"
         /\ thr'[t].pc = "back" /\ thr'[t].call = thr[t].call
         /\ Accepted(thr'[t]) => Accepted(thr[t])
<1>1. PICK x : x = thr[t]
  OBVIOUS
<1>2. thr[t].pc = "back" /\ faults' = faults + 1 /\ faults \in Nat /\ faults' \in Nat /\ faults <= faults'
  BY DEF Cut, Fault, Counters
<1>3. Good(x, faults) /\ Typed(x) /\ Answered(x, faults) /\ x.pc = "back"
  BY <1>1, <1>2, BackIs
<1>4. Good(x, faults')
  BY <1>2, <1>3, GoodLater
<1>5. PICK n \in 0 .. Len(x.reply) - 1 :
          thr' = [thr EXCEPT ![t].reply = SubSeq(@, 1, n), ![t].plc.answer = "cut"]
  BY <1>1 DEF Cut
<1>6. PICK q, p : q = SubSeq(x.reply, 1, n) /\ p = [x.plc EXCEPT !.answer = "cut"]
  OBVIOUS
<1>7. thr' = [thr EXCEPT ![t] = Cuts(x, q, p)]
  BY <1>1, <1>3, <1>5, <1>6 DEF Threading, Typed, Cuts
<1>8. ASSUME x.call.op # "routed"
      PROVE  /\ p \in Outcomes /\ \E r : Whole(r, x.call, p) /\ LeftOf(q, r, p)
             /\ x.call.op = "write_struct" => Wrote(x.call, p, faults')
             /\ x.reply \in Seq(Nat) /\ Len(q) = n /\ \A i \in 1 .. n : q[i] = x.reply[i]
  <2>1. x.plc \in Outcomes /\ (x.call.op = "write_struct" => Wrote(x.call, x.plc, faults))
    BY <1>3, <1>8 DEF Answered
  <2>2. PICK r : Whole(r, x.call, x.plc) /\ LeftOf(x.reply, r, x.plc)
    BY <1>3, <1>8 DEF Answered
  <2>3. /\ x.reply \in Seq(Nat) /\ p \in Outcomes /\ p.status = x.plc.status /\ p.data = x.plc.data
        /\ Whole(r, x.call, p) /\ LeftOf(q, r, p)
        /\ Len(q) = n /\ \A i \in 1 .. n : q[i] = x.reply[i]
    <3>1. PICK y, c, w : y = x.reply /\ c = x.call /\ w = x.plc
      OBVIOUS
    <3>2. /\ w \in Outcomes /\ Whole(r, c, w) /\ LeftOf(y, r, w) /\ n \in 0 .. Len(y) - 1
          /\ q = SubSeq(y, 1, n)
      BY <1>5, <1>6, <2>1, <2>2, <3>1
    <3>3. /\ p \in Outcomes /\ p.status = w.status /\ p.ext = w.ext /\ p.handle = w.handle
          /\ p.data = w.data /\ p.answer = "cut"
      BY <1>6, <3>1, <3>2 DEF Outcomes
    <3>4. CutTo(y, r, c, w, n, q, p)
      BY <3>2, <3>3 DEF CutTo
    <3>5. /\ y \in Seq(Nat) /\ Len(q) = n /\ \A i \in 1 .. n : q[i] = y[i]
          /\ Whole(r, c, p) /\ LeftOf(q, r, p)
      BY <3>4, LeftOfLeft
    <3>6. QED
      BY Zenon, <3>1, <3>3, <3>5
  <2>4. x.call.op = "write_struct" => Wrote(x.call, p, faults')
    BY <1>2, <2>1, <2>3 DEF Wrote
  <2>5. QED
    BY <2>3, <2>4
<1>9. Only(t) /\ thr'[t] = Cuts(x, q, p)
  BY <1>7, Moves
<1>10. Good(thr'[t], faults') /\ thr'[t].pc = "back" /\ thr'[t].call = x.call /\ thr'[t].reply = q
  <2>1. PICK n2 : n2 = faults'
    OBVIOUS
  <2>2. LET y == Cuts(x, q, p) IN Good(y, n2) /\ y.pc = "back" /\ y.call = x.call /\ y.reply = q
    <3>1. x.call.op # "routed" =>
              /\ p \in Outcomes /\ \E r : Whole(r, x.call, p) /\ LeftOf(q, r, p)
              /\ x.call.op = "write_struct" => Wrote(x.call, p, n2)
      BY <1>8, <2>1
    <3>2. Good(x, n2) /\ x.pc = "back"
      BY <1>3, <1>4, <2>1
    <3>3. QED
      BY SMTT(40), <3>1, <3>2, CutsGood
  <2>3. QED
    BY <1>9, <2>1, <2>2
<1>11. Accepted(thr'[t]) => Accepted(x)
  <2>1. SUFFICES ASSUME Accepted(thr'[t]) PROVE Accepted(x)
    OBVIOUS
  <2>2. x.call.op = "open" /\ Len(q) >= 12 /\ q[1] \in {219, 212} /\ q[3] = 0
    BY <1>10, <2>1 DEF Accepted
  <2>3. x.reply \in Seq(Nat) /\ Len(q) = n /\ \A i \in 1 .. n : q[i] = x.reply[i]
    BY <1>8, <2>2
  <2>4. n \in Nat /\ n >= 12 /\ Len(x.reply) >= 12 /\ q[1] = x.reply[1] /\ q[3] = x.reply[3]
    <3>1. PICK l \in Nat : l = Len(x.reply)
      BY <2>3
    <3>2. n \in 0 .. l - 1 /\ n >= 12
      BY <1>5, <2>2, <2>3, <3>1
    <3>3. n \in Nat /\ l >= 12 /\ 1 \in 1 .. n /\ 3 \in 1 .. n
      BY <3>1, <3>2
    <3>4. QED
      BY <2>3, <3>1, <3>2, <3>3
  <2>5. QED
    BY <1>3, <2>2, <2>4 DEF Accepted
<1>12. QED
  BY <1>1, <1>2, <1>9, <1>10, <1>11

\* A call that gives up.
LEMMA LostMoves ==
  ASSUME Threading, Counters, NEW t \in Threads, Lost(t)
  PROVE  /\ Only(t) /\ Good(thr'[t], faults') /\ faults' = faults + 1
         /\ thr'[t] = Over(None, None, "RECV_ANSWER", None, 0)
<1>1. Fails(t, thr[t].call, "RECV_ANSWER") /\ faults' = faults + 1
  BY DEF Lost, Fault
<1>2. QED
  BY <1>1, FailsMoves DEF Starts

\* The answer to a wrapper.
LEMMA WrapperAnswerMoves ==
  ASSUME Threading, NEW t \in Threads, WrapperAnswer(t)
  PROVE  /\ Only(t) /\ Good(thr'[t], faults') /\ thr[t].pc = "engine"
         /\ thr'[t] = Over(None, None, "OK", None, 0) \/ thr'[t] = Over(None, None, "RECV_ANSWER", None, 0)
<1>1. CASE Becomes(t, None, [out |-> [rc |-> "OK", val |-> None]])
  <2>1. thr' = [thr EXCEPT ![t] = Over(None, None, "OK", None, 0)]
    BY <1>1, BecomesIs
  <2>2. Only(t) /\ thr'[t] = Over(None, None, "OK", None, 0)
    BY <2>1, Moves
  <2>3. Good(Over(None, None, "OK", None, 0), faults')
    BY FailedGood
  <2>4. QED
    BY <2>2, <2>3 DEF WrapperAnswer
<1>2. CASE Fails(t, thr[t].call, "RECV_ANSWER")
  BY <1>2, FailsMoves DEF WrapperAnswer, Starts
<1>3. QED
  BY <1>1, <1>2 DEF WrapperAnswer

-----------------------------------------------------------------------------
(* Answers *)

\* A call ends without a rejection, or with one that is now the latest.
Noted(t) ==
    \/ UNCHANGED <<cipErr, rejected>> /\ thr'[t].out.rc # "CIP_STATUS"
    \/ \E s, e \in Nat :
          /\ rejected' = rejected + 1 /\ cipErr' = [status |-> s, ext |-> e, id |-> rejected + 1]
          /\ thr'[t].id = rejected + 1

\* The call of thread t is over and what became of it is noted.
Ends(t) == Only(t) /\ Good(thr'[t], faults) /\ thr'[t].pc = "idle" /\ Noted(t)

\* What msg_read has: the status the controller gave, unless it was cut off.
Hears(q, p) ==
    /\ p \in Outcomes /\ Len(q) \in Nat
    /\ IF Len(q) >= 3 THEN q[3] = p.status ELSE p.answer = "cut"
    /\ Told(ExtOf(q), p) /\ Told(ConnExt(q), p)

\* msg_read of an answer to a call that takes it apart.
LEMMA ReceivedIs ==
  ASSUME Threading, NEW t \in Threads, thr[t].pc = "back", thr[t].call.op # "routed"
  PROVE  LET x == thr[t]
             q == Received(t)
         IN  /\ Hears(q, x.plc)
             /\ x.call.op = "read_struct" /\ Len(q) >= 4 /\ ~(Len(q) < 8 + 2 * q[4]) =>
                   ReadGives(x.call, StructOf(q), x.plc)
             /\ x.call.op = "write_struct" => Wrote(x.call, x.plc, faults)
<1>1. PICK x : x = thr[t]
  OBVIOUS
<1>2. PICK q, k, y, p : k = x.cap /\ y = x.reply /\ p = x.plc /\ q = Received(t)
  OBVIOUS
<1>3. Good(x, faults) /\ Room(k) /\ Answered(x, faults) /\ Built(x.call, x.msg, k)
  BY <1>1, <1>2, BackIs
<1>4. k \in Nat /\ 8 <= k
  BY <1>3 DEF Room
<1>5. p \in Outcomes /\ (x.call.op = "write_struct" => Wrote(x.call, p, faults))
  BY <1>1, <1>2, <1>3 DEF Answered
<1>6. PICK r : Whole(r, x.call, p) /\ LeftOf(y, r, p)
  BY <1>1, <1>2, <1>3 DEF Answered
<1>7. r \in Seq(Nat) /\ Len(r) \in Nat /\ Tells(r, p)
  BY <1>6 DEF Whole, Tells
<1>8. PICK m \in 0 .. Len(r) :
          q = SubSeq(r, 1, m) /\ m <= k /\ (p.answer = "whole" => m = Min2(Len(r), k))
  <2>1. PICK l \in 0 .. Len(r) : y = SubSeq(r, 1, l) /\ Len(y) = l
    BY <1>6, <1>7, FirstBytes DEF LeftOf
  <2>2. PICK m \in Nat : m = Min2(l, k) /\ m <= k /\ m <= l
    BY <1>4, <1>7, <2>1 DEF Min2
  <2>3. q = SubSeq(y, 1, m)
    BY <1>1, <1>2, <2>1, <2>2 DEF Received
  <2>4. q = SubSeq(r, 1, m)
    <3>1. m \in 0 .. l
      BY <1>7, <2>1, <2>2
    <3>2. SubSeq(SubSeq(r, 1, l), 1, m) = SubSeq(r, 1, m)
      BY <1>7, <2>1, <3>1, FirstOfFirst
    <3>3. QED
      BY <2>1, <2>3, <3>2
  <2>5. p.answer = "whole" => l = Len(r)
    BY <1>6, <2>1 DEF LeftOf
  <2>6. m \in 0 .. Len(r) /\ (p.answer = "whole" => m = Min2(Len(r), k))
    BY <1>7, <2>1, <2>2, <2>5
  <2>7. QED
    BY <2>2, <2>4, <2>6
<1>9. q \in Seq(Nat) /\ Len(q) = m /\ \A i \in 1 .. m : q[i] = r[i]
  BY <1>7, <1>8, FirstBytes
<1>10. p.answer = "cut" \/ (p.answer = "whole" /\ (m = Len(r) \/ m >= 8))
  <2>1. p.answer \in {"whole", "cut"}
    BY <1>5 DEF Outcomes
  <2>2. QED
    BY <1>4, <1>7, <1>8, <2>1 DEF Min2
<1>11. Hears(q, p)
  <2>1. /\ m >= 3 => q[3] = p.status
        /\ ExtOf(q) \in {p.ext, 0} /\ ConnExt(q) \in {p.ext, 0}
        /\ m = Len(r) \/ m >= 8 => m >= 3 /\ ExtOf(q) = p.ext /\ ConnExt(q) = p.ext
    BY <1>5, <1>7, <1>8, HeardStatus
  <2>2. Told(ExtOf(q), p) /\ Told(ConnExt(q), p)
    BY <1>10, <2>1 DEF Told
  <2>3. IF m >= 3 THEN q[3] = p.status ELSE p.answer = "cut"
    BY <1>10, <2>1
  <2>4. QED
    BY <1>5, <1>9, <2>2, <2>3 DEF Hears
<1>12. ASSUME x.call.op = "read_struct", Len(q) >= 4, ~(Len(q) < 8 + 2 * q[4])
       PROVE  ReadGives(x.call, StructOf(q), p)
  <2>1. m \in Nat /\ m >= 8 /\ m \in 8 .. Len(r) /\ Len(r) >= 8
    <3>1. m \in Nat /\ m >= 4 /\ q[4] \in Nat
      BY <1>9, <1>12
    <3>2. PICK l, e \in Nat : l = Len(r) /\ e = q[4]
      BY <1>8, <1>5, <3>1 DEF Tells
    <3>3. m \in 0 .. l /\ ~(m < 8 + 2 * e)
      BY <1>8, <1>9, <1>12, <3>2
    <3>4. QED
      BY <3>1, <3>2, <3>3
  <2>2. Carries(r, p)
    BY <1>6, <1>12, <2>1 DEF Whole
  <2>3. StructOf(q).handle = p.handle /\ StructOf(q).data = SubSeq(p.data, 1, m - 8)
    BY <1>5, <1>7, <1>8, <2>1, <2>2, HeardStruct
  <2>4. k = Min2(x.call.cap, RespBuf)
    BY <1>3, <1>12 DEF Built
  <2>5. PICK d, l : d = p.data /\ l = Len(d) /\ d \in Seq(Byte) /\ l \in Nat /\ Len(r) = 8 + l
    BY SMTT(60), <1>5, <2>2 DEF Outcomes, Bytes, Carries
  <2>6. PICK n \in 0 .. l : n = m - 8 /\ n <= k - 8
    BY <1>4, <1>8, <2>1, <2>5
  <2>7. Len(SubSeq(d, 1, n)) = n
    BY <2>5, <2>6
  <2>8. MostOf(x.call, p) = Min2(l, k - 8)
    BY <2>4, <2>5 DEF MostOf
  <2>9. n <= Min2(l, k - 8) /\ (p.answer = "whole" => n = Min2(l, k - 8))
    BY <1>4, <1>8, <2>5, <2>6 DEF Min2
  <2>10. StructOf(q).data = SubSeq(d, 1, n) /\ Len(StructOf(q).data) = n
    BY <2>3, <2>5, <2>6, <2>7
  <2>11. QED
    BY <2>3, <2>5, <2>8, <2>9, <2>10 DEF ReadGives
<1>13. QED
  BY <1>1, <1>2, <1>5, <1>11, <1>12

\* A call ends without a rejection.
LEMMA SettlesMoves ==
  ASSUME Threading, NEW t \in Threads, NEW rc, NEW val, Settles(t, rc, val), rc # "CIP_STATUS",
         Good(Over(thr[t].call, thr[t].plc, rc, val, 0), faults)
  PROVE  Ends(t)
<1>1. Becomes(t, thr[t].call, [out |-> [rc |-> rc, val |-> val], plc |-> thr[t].plc, id |-> 0])
      /\ UNCHANGED <<cipErr, rejected>>
  BY DEF Settles, Returns
<1>2. thr' = [thr EXCEPT ![t] = Over(thr[t].call, thr[t].plc, rc, val, 0)]
  BY <1>1, BecomesIs
<1>3. Only(t) /\ thr'[t] = Over(thr[t].call, thr[t].plc, rc, val, 0)
  BY <1>2, Moves
<1>4. thr'[t].pc = "idle" /\ thr'[t].out.rc = rc
  BY <1>3 DEF Over
<1>5. QED
  BY <1>1, <1>3, <1>4 DEF Ends, Noted

\* A call ends with one, and records it.
LEMMA RejectedMoves ==
  ASSUME Threading, NEW t \in Threads, NEW s \in Nat, NEW e \in Nat, Rejected(t, s, e),
         Good(Over(thr[t].call, thr[t].plc, "CIP_STATUS", [status |-> s, ext |-> e], rejected + 1), faults)
  PROVE  Ends(t)
<1> DEFINE v == [status |-> s, ext |-> e]
<1>1. /\ Becomes(t, thr[t].call, [out |-> [rc |-> "CIP_STATUS", val |-> v], plc |-> thr[t].plc, id |-> rejected + 1])
      /\ rejected' = rejected + 1 /\ cipErr' = [status |-> s, ext |-> e, id |-> rejected + 1]
  BY DEF Rejected, RecordCipError
<1> HIDE DEF v
<1>2. thr' = [thr EXCEPT ![t] = Over(thr[t].call, thr[t].plc, "CIP_STATUS", v, rejected + 1)]
  BY <1>1, BecomesIs
<1>3. Only(t) /\ thr'[t] = Over(thr[t].call, thr[t].plc, "CIP_STATUS", v, rejected + 1)
  BY <1>2, Moves
<1>4. thr'[t].pc = "idle" /\ thr'[t].id = rejected + 1
  BY <1>3 DEF Over
<1>5. Noted(t)
  BY <1>1, <1>4 DEF Noted
<1>6. QED
  BY <1>3, <1>4, <1>5 DEF Ends, v

\* The answer to a routed read goes to the caller as it is.
LEMMA RoutedBackMoves ==
  ASSUME Threading, NEW t \in Threads, RoutedBack(t)
  PROVE  Ends(t) /\ thr[t].call.op = "routed"
<1>1. Settles(t, "OK", None) /\ thr[t].call.op = "routed"
  BY DEF RoutedBack, Back
<1>2. Good(Over(thr[t].call, thr[t].plc, "OK", None, 0), faults)
  BY <1>1, OverGood
<1>3. QED
  BY <1>1, <1>2, SettlesMoves

\* bp_client_read_struct takes the answer apart.
LEMMA ReadStructBackMoves ==
  ASSUME Threading, NEW t \in Threads, ReadStructBack(t)
  PROVE  Ends(t) /\ thr[t].call.op = "read_struct"
<1>1. thr[t].pc = "back" /\ thr[t].call.op = "read_struct"
  BY DEF ReadStructBack, Back
<1>2. PICK c, p, q : c = thr[t].call /\ p = thr[t].plc /\ q = Received(t)
  OBVIOUS
<1>3. /\ Hears(q, p)
      /\ Len(q) >= 4 /\ ~(Len(q) < 8 + 2 * q[4]) => ReadGives(c, StructOf(q), p)
  BY <1>1, <1>2, ReceivedIs
<1>4. CASE Settles(t, "GENERIC", None)
  <2>1. Good(Over(c, p, "GENERIC", None, 0), faults)
    BY <1>1, <1>2, OverGood
  <2>2. QED
    BY <1>1, <1>2, <1>4, <2>1, SettlesMoves
<1>5. CASE Len(q) >= 4 /\ Rejected(t, q[3], ExtOf(q))
  <2>1. q[3] = p.status /\ q[3] \in Nat /\ Told(ExtOf(q), p) /\ ExtOf(q) \in Nat
    BY <1>3, <1>5 DEF Hears, Outcomes, Told
  <2>2. Rejects([status |-> q[3], ext |-> ExtOf(q)], p)
    BY <2>1 DEF Rejects
  <2>3. Good(Over(c, p, "CIP_STATUS", [status |-> q[3], ext |-> ExtOf(q)], rejected + 1), faults)
    BY <1>1, <1>2, <2>2, OverGood
  <2>4. QED
    BY <1>1, <1>2, <1>5, <2>1, <2>3, RejectedMoves
<1>6. CASE Len(q) >= 4 /\ ~(Len(q) < 8 + 2 * q[4]) /\ Settles(t, "OK", StructOf(q))
  <2>1. ReadGives(c, StructOf(q), p)
    BY <1>3, <1>6
  <2>2. Good(Over(c, p, "OK", StructOf(q), 0), faults)
    BY <1>1, <1>2, <2>1, OverGood
  <2>3. QED
    BY <1>1, <1>2, <1>6, <2>2, SettlesMoves
<1>7. QED
  <2>1. Len(q) \in Nat
    BY <1>3 DEF Hears
  <2>2. CASE Len(q) < 4
    BY <1>2, <1>4, <2>2 DEF ReadStructBack
  <2>3. CASE Len(q) >= 4 /\ q[3] # 0
    BY <1>2, <1>5, <2>1, <2>3 DEF ReadStructBack
  <2>4. CASE Len(q) >= 4 /\ q[3] = 0 /\ Len(q) < 8 + 2 * q[4]
    BY <1>2, <1>4, <2>1, <2>4 DEF ReadStructBack
  <2>5. CASE Len(q) >= 4 /\ q[3] = 0 /\ ~(Len(q) < 8 + 2 * q[4])
    BY <1>2, <1>6, <2>1, <2>5 DEF ReadStructBack
  <2>6. QED
    BY <2>1, <2>2, <2>3, <2>4, <2>5

\* bp_client_write_struct looks at the status.
LEMMA WriteStructBackMoves ==
  ASSUME Threading, NEW t \in Threads, WriteStructBack(t)
  PROVE  Ends(t) /\ thr[t].call.op = "write_struct"
<1>1. thr[t].pc = "back" /\ thr[t].call.op = "write_struct"
  BY DEF WriteStructBack, Back
<1>2. PICK c, p, q : c = thr[t].call /\ p = thr[t].plc /\ q = Received(t)
  OBVIOUS
<1>3. Hears(q, p) /\ Wrote(c, p, faults)
  BY <1>1, <1>2, ReceivedIs
<1>4. CASE Settles(t, "GENERIC", None)
  <2>1. Good(Over(c, p, "GENERIC", None, 0), faults)
    BY <1>1, <1>2, OverGood
  <2>2. QED
    BY <1>1, <1>2, <1>4, <2>1, SettlesMoves
<1>5. CASE Len(q) >= 3 /\ q[3] # 0 /\ Rejected(t, q[3], ExtOf(q))
  <2>1. q[3] = p.status /\ q[3] \in Nat /\ Told(ExtOf(q), p) /\ ExtOf(q) \in Nat
    BY <1>3, <1>5 DEF Hears, Outcomes, Told
  <2>2. Rejects([status |-> q[3], ext |-> ExtOf(q)], p)
    BY <2>1 DEF Rejects
  <2>3. faults = 0 => ~Matches(c)
    BY <1>3, <1>5, <2>1 DEF Wrote
  <2>4. Good(Over(c, p, "CIP_STATUS", [status |-> q[3], ext |-> ExtOf(q)], rejected + 1), faults)
    BY <1>1, <1>2, <2>2, <2>3, OverGood
  <2>5. QED
    BY <1>1, <1>2, <1>5, <2>1, <2>4, RejectedMoves
<1>6. CASE Len(q) >= 3 /\ q[3] = 0 /\ Settles(t, "OK", None)
  <2>1. p.data = c.data
    BY <1>3, <1>6 DEF Hears, Wrote
  <2>2. Good(Over(c, p, "OK", None, 0), faults)
    BY <1>1, <1>2, <2>1, OverGood
  <2>3. QED
    BY <1>1, <1>2, <1>6, <2>2, SettlesMoves
<1>7. QED
  <2>1. Len(q) \in Nat
    BY <1>3 DEF Hears
  <2>2. CASE Len(q) < 3
    BY <1>2, <1>4, <2>2 DEF WriteStructBack
  <2>3. CASE Len(q) >= 3 /\ q[3] # 0
    BY <1>2, <1>5, <2>1, <2>3 DEF WriteStructBack
  <2>4. CASE Len(q) >= 3 /\ q[3] = 0
    BY <1>2, <1>6, <2>1, <2>4 DEF WriteStructBack
  <2>5. QED
    BY <2>1, <2>2, <2>3, <2>4

\* A rejection of a connection's open or close, a short answer included.
LEMMA ConnRejected ==
  ASSUME Threading, NEW t \in Threads, thr[t].pc = "back", thr[t].call.op \in {"open", "close"}, NEW q,
         q = Received(t),
         Rejected(t, IF Len(q) >= 3 THEN q[3] ELSE 255, ConnExt(q))
  PROVE  Ends(t)
<1>1. PICK c, p : c = thr[t].call /\ p = thr[t].plc
  OBVIOUS
<1>2. Hears(q, p)
  BY <1>1, ReceivedIs
<1>3. PICK s, e : s = (IF Len(q) >= 3 THEN q[3] ELSE 255) /\ e = ConnExt(q)
  OBVIOUS
<1>4. s \in Nat /\ e \in Nat /\ Told(e, p) /\ (s = p.status \/ (p.answer = "cut" /\ s = 255))
  BY <1>2, <1>3 DEF Hears, Outcomes, Told
<1>5. Rejects([status |-> s, ext |-> e], p)
  BY <1>4 DEF Rejects
<1>6. Good(Over(c, p, "CIP_STATUS", [status |-> s, ext |-> e], rejected + 1), faults)
  BY <1>1, <1>5, OverGood
<1>7. Rejected(t, s, e)
  BY <1>3
<1>8. QED
  BY <1>1, <1>4, <1>6, <1>7, RejectedMoves

\* bp_client_txrx_open takes a connection into the table when the answer accepts it.
LEMMA OpenConnBackMoves ==
  ASSUME Threading, NEW t \in Threads, OpenConnBack(t)
  PROVE  /\ Ends(t) /\ thr[t].call.op = "open" /\ thr[t].pc = "back" /\ thr[t].call \in Calls
         /\ Accepted(thr[t]) => opened' = opened \cup {thr[t].call.conn}
         /\ ~Accepted(thr[t]) => opened' = opened
<1>1. thr[t].pc = "back" /\ thr[t].call.op = "open" /\ thr[t].call \in Calls
  BY BackIs DEF OpenConnBack, Back
<1>2. PICK c, p, q, r : c = thr[t].call /\ p = thr[t].plc /\ q = Received(t) /\ r = thr[t].reply
  OBVIOUS
<1>3. Accepted(thr[t]) <=> ~(Len(q) < 12 \/ q[1] \notin {219, 212} \/ q[3] # 0)
  <2>1. thr[t].cap = 64
    BY <1>1, BackIs DEF Built
  <2>2. q = SubSeq(r, 1, Min2(Len(r), 64))
    BY <1>2, <2>1 DEF Received
  <2>3. PICK w : Whole(w, c, p) /\ LeftOf(r, w, p)
    BY <1>1, <1>2, BackIs DEF Answered
  <2>4. r \in Seq(Nat)
    BY <2>3, FirstBytes DEF LeftOf, Whole, Tells
  <2>5. Len(r) \in Nat /\ Len(q) = Min2(Len(r), 64) /\ \A i \in 1 .. Min2(Len(r), 64) : q[i] = r[i]
    <3>1. Len(r) \in Nat /\ Min2(Len(r), 64) \in 0 .. Len(r)
      BY <2>4 DEF Min2
    <3>2. QED
      BY <2>2, <2>4, <3>1, FirstBytes
  <2>6. Len(q) \in Nat /\ (Len(q) >= 12 <=> Len(r) >= 12)
    BY <2>5 DEF Min2
  <2>7. Len(q) >= 12 => q[1] = r[1] /\ q[3] = r[3]
    BY <2>5, <2>6
  <2>8. QED
    BY <1>1, <1>2, <2>5, <2>6, <2>7 DEF Accepted
<1>4. CASE Accepted(thr[t])
  <2>1. Settles(t, "OK", None) /\ opened' = opened \cup {c.conn}
    BY <1>2, <1>3, <1>4 DEF OpenConnBack
  <2>2. Good(Over(c, p, "OK", None, 0), faults)
    BY <1>1, <1>2, OverGood
  <2>3. Ends(t)
    BY <1>2, <2>1, <2>2, SettlesMoves
  <2>4. QED
    BY <1>1, <1>2, <1>4, <2>1, <2>3
<1>5. CASE ~Accepted(thr[t])
  <2>1. Rejected(t, IF Len(q) >= 3 THEN q[3] ELSE 255, ConnExt(q)) /\ opened' = opened
    BY <1>2, <1>3, <1>5 DEF OpenConnBack, ConnExt
  <2>2. Ends(t)
    BY <1>1, <1>2, <2>1, ConnRejected
  <2>3. QED
    BY <1>1, <1>5, <2>1, <2>2
<1>6. QED
  BY <1>4, <1>5

\* bp_client_txrx_close has given the entry up already.
LEMMA CloseConnBackMoves ==
  ASSUME Threading, NEW t \in Threads, CloseConnBack(t)
  PROVE  Ends(t) /\ thr[t].call.op = "close" /\ thr[t].pc = "back"
<1>1. thr[t].pc = "back" /\ thr[t].call.op = "close"
  BY DEF CloseConnBack, Back
<1>2. PICK c, p, q : c = thr[t].call /\ p = thr[t].plc /\ q = Received(t)
  OBVIOUS
<1>3. CASE Rejected(t, IF Len(q) >= 3 THEN q[3] ELSE 255, ConnExt(q))
  BY <1>1, <1>2, <1>3, ConnRejected
<1>4. CASE Settles(t, "OK", None)
  <2>1. Good(Over(c, p, "OK", None, 0), faults)
    BY <1>1, <1>2, OverGood
  <2>2. QED
    BY <1>1, <1>2, <1>4, <2>1, SettlesMoves
<1>5. QED
  BY <1>2, <1>3, <1>4 DEF CloseConnBack, ConnExt

-----------------------------------------------------------------------------
(* The record of rejections *)

\* The record is of a rejection that nobody has read.
Recording ==
    /\ rejected \in Nat /\ taken \in Nat /\ taken <= rejected
    /\ cipErr # None =>
          cipErr \in [status : Nat, ext : Nat, id : Nat] /\ taken < cipErr.id /\ cipErr.id <= rejected

\* The rejection of thread t was read, or is recorded, or a later one is.
Reported(t) ==
    thr[t].pc = "idle" /\ thr[t].out.rc = "CIP_STATUS" =>
        thr[t].id \in Nat /\ (thr[t].id <= taken \/ (cipErr # None /\ thr[t].id <= cipErr.id))
\* So of every thread.
Reporting == \A t \in Threads : Reported(t)

\* A step that rejects nothing.
LEMMA RecordKept ==
  ASSUME Threading, Recording, Reporting, NEW t \in Threads, Only(t), UNCHANGED recordVars,
         thr'[t].pc = "idle" => thr'[t].id = 0 \/ thr'[t].out.rc # "CIP_STATUS"
  PROVE  Recording' /\ Reporting'
<1>1. cipErr' = cipErr /\ rejected' = rejected /\ taken' = taken
  BY DEF recordVars
<1>2. Recording'
  BY <1>1 DEF Recording
<1>3. ASSUME NEW u \in Threads PROVE Reported(u)'
  <2>1. CASE u = t
    BY <1>1, <2>1 DEF Reported, Recording
  <2>2. CASE u # t
    <3>1. thr'[u] = thr[u]
      BY <2>2 DEF Threading, Only
    <3>2. QED
      BY <1>1, <3>1 DEF Reporting, Reported
  <2>3. QED
    BY <2>1, <2>2
<1>4. QED
  BY <1>2, <1>3 DEF Reporting

\* The end of a call.
LEMMA RecordNoted ==
  ASSUME Threading, Recording, Reporting, NEW t \in Threads, Only(t), Noted(t), UNCHANGED taken
  PROVE  Recording' /\ Reporting'
<1>1. CASE UNCHANGED <<cipErr, rejected>> /\ thr'[t].out.rc # "CIP_STATUS"
  BY <1>1, RecordKept DEF recordVars
<1>2. CASE \E s, e \in Nat :
              /\ rejected' = rejected + 1 /\ cipErr' = [status |-> s, ext |-> e, id |-> rejected + 1]
              /\ thr'[t].id = rejected + 1
  <2>1. PICK s \in Nat, e \in Nat :
              /\ rejected' = rejected + 1 /\ cipErr' = [status |-> s, ext |-> e, id |-> rejected + 1]
              /\ thr'[t].id = rejected + 1
    BY <1>2
  <2>2. rejected \in Nat /\ taken \in Nat /\ taken <= rejected /\ rejected + 1 \in Nat /\ taken' = taken
    BY DEF Recording
  <2>3. cipErr' \in [status : Nat, ext : Nat, id : Nat] /\ cipErr'.id = rejected + 1
    BY <2>1, <2>2
  <2>4. cipErr' # None
    BY <2>3, CallTypes
  <2>5. Recording'
    BY <2>1, <2>2, <2>3 DEF Recording
  <2>6. ASSUME NEW u \in Threads PROVE Reported(u)'
    <3>1. CASE u = t
      BY <2>1, <2>2, <2>3, <2>4, <3>1 DEF Reported
    <3>2. CASE u # t
      <4>1. thr'[u] = thr[u] /\ Reported(u)
        BY <3>2 DEF Threading, Only, Reporting
      <4>2. cipErr # None => cipErr.id \in Nat /\ cipErr.id <= rejected
        BY DEF Recording
      <4>3. QED
        BY <2>2, <2>3, <2>4, <4>1, <4>2 DEF Reported
    <3>3. QED
      BY <3>1, <3>2
  <2>7. QED
    BY <2>5, <2>6 DEF Reporting
<1>3. QED
  BY <1>1, <1>2 DEF Noted

\* Reading the record clears it.
LEMMA RecordTaken ==
  ASSUME Threading, Recording, Reporting, NEW t \in Threads, NEW c \in Calls, TakeCipError(t, c)
  PROVE  Recording' /\ Reporting'
<1>1. Starts(t, c)
  BY TakeCipErrorMoves
<1>2. CASE cipErr = None
  <2>1. UNCHANGED recordVars
    BY <1>2 DEF TakeCipError, recordVars
  <2>2. QED
    BY <1>1, <2>1, RecordKept DEF Starts
<1>3. CASE cipErr # None
  <2>1. taken' = cipErr.id /\ cipErr' = None /\ rejected' = rejected
    BY <1>3 DEF TakeCipError
  <2>2. cipErr.id \in Nat /\ taken < cipErr.id /\ cipErr.id <= rejected /\ rejected \in Nat /\ taken \in Nat
    BY <1>3 DEF Recording
  <2>3. Recording'
    BY <2>1, <2>2 DEF Recording
  <2>4. ASSUME NEW u \in Threads PROVE Reported(u)'
    <3>1. CASE u = t
      BY <1>1, <2>1, <2>2, <3>1 DEF Reported, Starts
    <3>2. CASE u # t
      <4>1. thr'[u] = thr[u] /\ Reported(u)
        BY <1>1, <3>2 DEF Threading, Only, Reporting, Starts
      <4>2. QED
        BY <2>1, <2>2, <4>1 DEF Reported
    <3>3. QED
      BY <3>1, <3>2
  <2>5. QED
    BY <2>3, <2>4 DEF Reporting
<1>4. QED
  BY <1>2, <1>3

-----------------------------------------------------------------------------
(* Connections *)

\* Thread x has asked for a connection and has no answer yet.
Opening(x) == x.pc = "sent" /\ x.call.op = "open"
\* Thread t has the connection with identity i in hand; or asked for it.
Holds(x) == Accepted(x) \/ Closing(x)
HoldsId(t, i) == Holds(thr[t]) /\ Identity(thr[t].call.conn) = i
Answers(x) == Opening(x) \/ Holds(x)
AnswersId(t, i) == Answers(thr[t]) /\ Identity(thr[t].call.conn) = i
\* The table has a connection with identity i,
Known(i) == \E c \in opened : Identity(c) = i
\* and the connections of the controller that nobody has in hand.
Stray == {i \in conns : ~Known(i) /\ \A t \in Threads : ~HoldsId(t, i)}

\* Every identity has at most one that answers for it, the table or a thread; the ones in
\* the table and in hand are the controller's, or were until its idle timeout.
Single ==
    /\ \A c, d \in opened : Identity(c) = Identity(d) => c = d
    /\ \A i : \A t \in Threads : AnswersId(t, i) => ~Known(i)
    /\ \A i : \A t, u \in Threads : AnswersId(t, i) /\ AnswersId(u, i) => t = u
    /\ \A i : \A t \in Threads : HoldsId(t, i) => i \in conns \cup expired
    /\ \A c \in opened : Identity(c) \in conns \cup expired
\* The connections, and what the stray ones cost.
Connections == Single /\ IsFiniteSet(conns) /\ Cardinality(Stray) <= faults

\* Who has a connection in hand answers for it,
LEMMA HoldersAnswer == \A t, i : HoldsId(t, i) => AnswersId(t, i)
  BY DEF HoldsId, AnswersId, Answers

\* by a call that is under way.
LEMMA AnswersMove == \A t \in Threads : \A i : AnswersId(t, i) => i \in Moving
  BY DEF AnswersId, Answers, Opening, Holds, Accepted, Closing, Moving

\* The stray connections can be counted,
LEMMA StrayFinite ==
  ASSUME IsFiniteSet(conns)
  PROVE  IsFiniteSet(Stray) /\ Cardinality(Stray) \in Nat
  BY FS_Subset, FS_CardinalityType DEF Stray

\* a part of a set is no more than the set,
LEMMA FewerStray ==
  ASSUME NEW S, NEW T, IsFiniteSet(S), T \subseteq S, NEW n \in Nat, Cardinality(S) <= n
  PROVE  Cardinality(T) <= n
<1>1. IsFiniteSet(T) /\ Cardinality(T) <= Cardinality(S)
  BY FS_Subset
<1>2. Cardinality(T) \in Nat /\ Cardinality(S) \in Nat
  BY <1>1, FS_CardinalityType
<1>3. QED
  BY <1>1, <1>2

\* and one more element is at most one more.
LEMMA OneMoreStray ==
  ASSUME NEW S, NEW T, NEW i, IsFiniteSet(S), T \subseteq S \cup {i}, NEW n \in Nat, Cardinality(S) <= n
  PROVE  Cardinality(T) <= n + 1
<1>1. /\ IsFiniteSet(S \cup {i})
      /\ Cardinality(S \cup {i}) = Cardinality(S) \/ Cardinality(S \cup {i}) = Cardinality(S) + 1
  BY FS_AddElement
<1>2. Cardinality(S) \in Nat
  BY FS_CardinalityType
<1>3. Cardinality(S \cup {i}) <= n + 1
  BY <1>1, <1>2
<1>4. QED
  BY <1>1, <1>3, FewerStray

\* What the other threads hold stays theirs,
LEMMA OthersHold ==
  ASSUME Threading, NEW t \in Threads, Only(t)
  PROVE  \A u \in Threads : u # t =>
            \A i : (HoldsId(u, i)' <=> HoldsId(u, i)) /\ (AnswersId(u, i)' <=> AnswersId(u, i))
<1>1. \A u \in Threads : u # t => thr'[u] = thr[u]
  BY DEF Threading, Only
<1>2. QED
  BY SMTT(40), <1>1 DEF HoldsId, Holds, AnswersId, Answers, Opening, Accepted, Closing

\* and what everyone holds when no thread moves.
LEMMA SameThreads ==
  ASSUME thr' = thr
  PROVE  \A t, i : (HoldsId(t, i)' <=> HoldsId(t, i)) /\ (AnswersId(t, i)' <=> AnswersId(t, i))
  BY DEF HoldsId, Holds, AnswersId, Answers, Opening, Accepted, Closing

\* The parts of Single, to be shown of the next state.
LEMMA SingleNext ==
  ASSUME \A c, d \in opened' : Identity(c) = Identity(d) => c = d,
         \A i : \A t \in Threads : AnswersId(t, i)' => ~Known(i)',
         \A i : \A t, u \in Threads : AnswersId(t, i)' /\ AnswersId(u, i)' => t = u,
         \A i : \A t \in Threads : HoldsId(t, i)' => i \in conns' \cup expired',
         \A c \in opened' : Identity(c) \in conns' \cup expired'
  PROVE  Single'
  BY DEF Single

\* A step of thread t that leaves what it has in hand.
LEMMA HoldingKept ==
  ASSUME Threading, Connections, Counters, NEW t \in Threads, Only(t), opened' = opened,
         conns' = conns, conns \cup expired \subseteq conns' \cup expired', faults' = faults,
         \A i : (HoldsId(t, i)' <=> HoldsId(t, i)) /\ (AnswersId(t, i)' => AnswersId(t, i))
  PROVE  Connections'
<1>1. \A u \in Threads : \A i : (HoldsId(u, i)' <=> HoldsId(u, i)) /\ (AnswersId(u, i)' => AnswersId(u, i))
  BY OthersHold
<1>2. \A i : Known(i)' <=> Known(i)
  BY DEF Known
<1>3. Single
  BY DEF Connections
<1>4. Single'
  <2>1. \A c, d \in opened' : Identity(c) = Identity(d) => c = d
    BY <1>3 DEF Single
  <2>2. \A i : \A u \in Threads : AnswersId(u, i)' => ~Known(i)'
    BY <1>1, <1>2, <1>3 DEF Single
  <2>3. \A i : \A u, v \in Threads : AnswersId(u, i)' /\ AnswersId(v, i)' => u = v
    BY <1>1, <1>3 DEF Single
  <2>4. \A i : \A u \in Threads : HoldsId(u, i)' => i \in conns' \cup expired'
    BY <1>1, <1>3 DEF Single
  <2>5. \A c \in opened' : Identity(c) \in conns' \cup expired'
    BY <1>3 DEF Single
  <2>6. QED
    BY <2>1, <2>2, <2>3, <2>4, <2>5, SingleNext
<1>5. Stray' = Stray
  BY <1>1, <1>2 DEF Stray
<1>6. QED
  BY <1>4, <1>5 DEF Connections

\* What thread t drops is one stray connection more, and one fault more.
LEMMA HoldingDropped ==
  ASSUME Threading, Connections, Counters, NEW t \in Threads, Only(t), opened' = opened,
         conns' = conns, expired' = expired, faults' = faults + 1,
         \A i : (HoldsId(t, i)' => HoldsId(t, i)) /\ (AnswersId(t, i)' => AnswersId(t, i))
  PROVE  Connections'
<1>1. \A u \in Threads : \A i : (HoldsId(u, i)' => HoldsId(u, i)) /\ (AnswersId(u, i)' => AnswersId(u, i))
  BY OthersHold
<1>2. \A i : Known(i)' <=> Known(i)
  BY DEF Known
<1>3. Single
  BY DEF Connections
<1>4. Single'
  <2>1. \A c, d \in opened' : Identity(c) = Identity(d) => c = d
    BY <1>3 DEF Single
  <2>2. \A i : \A u \in Threads : AnswersId(u, i)' => ~Known(i)'
    BY <1>1, <1>2, <1>3 DEF Single
  <2>3. \A i : \A u, v \in Threads : AnswersId(u, i)' /\ AnswersId(v, i)' => u = v
    BY <1>1, <1>3 DEF Single
  <2>4. \A i : \A u \in Threads : HoldsId(u, i)' => i \in conns' \cup expired'
    BY <1>1, <1>3 DEF Single
  <2>5. \A c \in opened' : Identity(c) \in conns' \cup expired'
    BY <1>3 DEF Single
  <2>6. QED
    BY <2>1, <2>2, <2>3, <2>4, <2>5, SingleNext
<1>5. PICK j : j = Identity(thr[t].call.conn)
  OBVIOUS
<1>6. Stray' \subseteq Stray \cup {j}
  <2>1. ASSUME NEW i \in Stray', i # j PROVE i \in Stray
    <3>1. i \in conns /\ ~Known(i) /\ \A u \in Threads : ~HoldsId(u, i)'
      BY <1>2 DEF Stray
    <3>2. ~HoldsId(t, i)
      BY <1>5, <2>1 DEF HoldsId
    <3>3. \A u \in Threads : ~HoldsId(u, i)
      BY <3>1, <3>2, OthersHold
    <3>4. QED
      BY <3>1, <3>3 DEF Stray
  <2>2. QED
    BY <2>1
<1>7. Cardinality(Stray') <= faults + 1
  <2>1. IsFiniteSet(Stray) /\ faults \in Nat /\ Cardinality(Stray) <= faults
    BY StrayFinite DEF Connections, Counters
  <2>2. QED
    BY <1>6, <2>1, OneMoreStray
<1>8. QED
  BY <1>4, <1>7 DEF Connections

\* Thread t asks for a connection nobody answers for.
LEMMA HoldingStarted ==
  ASSUME Threading, Connections, Counters, NEW t \in Threads, Only(t), opened' = opened,
         conns' = conns, expired' = expired, faults' = faults,
         NEW j, ~Known(j), \A u \in Threads : ~AnswersId(u, j), \A i : ~HoldsId(t, i),
         \A i : ~HoldsId(t, i)' /\ (AnswersId(t, i)' <=> i = j)
  PROVE  Connections'
<1>1. \A u \in Threads : \A i : HoldsId(u, i)' <=> HoldsId(u, i)
  BY OthersHold
<1>2. \A u \in Threads : \A i : AnswersId(u, i)' <=> (IF u = t THEN i = j ELSE AnswersId(u, i))
  BY OthersHold
<1>3. \A i : Known(i)' <=> Known(i)
  BY DEF Known
<1>4. Single
  BY DEF Connections
<1>5. Single'
  <2>1. \A c, d \in opened' : Identity(c) = Identity(d) => c = d
    BY <1>4 DEF Single
  <2>2. \A i : \A u \in Threads : AnswersId(u, i)' => ~Known(i)'
    BY <1>2, <1>3, <1>4 DEF Single
  <2>3. \A i : \A u, v \in Threads : AnswersId(u, i)' /\ AnswersId(v, i)' => u = v
    BY <1>2, <1>4 DEF Single
  <2>4. \A i : \A u \in Threads : HoldsId(u, i)' => i \in conns' \cup expired'
    BY <1>1, <1>4 DEF Single
  <2>5. \A c \in opened' : Identity(c) \in conns' \cup expired'
    BY <1>4 DEF Single
  <2>6. QED
    BY <2>1, <2>2, <2>3, <2>4, <2>5, SingleNext
<1>6. Stray' = Stray
  BY <1>1, <1>3 DEF Stray
<1>7. QED
  BY <1>5, <1>6 DEF Connections

\* A connection of the table is given up to thread t, which will close it.
LEMMA HoldingTaken ==
  ASSUME Threading, Connections, Counters, NEW t \in Threads, Only(t), NEW c \in opened,
         conns' = conns, expired' = expired, opened' = opened \ {c}, faults' = faults,
         \A i : (HoldsId(t, i)' <=> i = Identity(c)) /\ (AnswersId(t, i)' <=> i = Identity(c)),
         \A i : ~HoldsId(t, i)
  PROVE  Connections'
<1>1. PICK j : j = Identity(c)
  OBVIOUS
<1>2. Single
  BY DEF Connections
<1>3. j \in conns \cup expired /\ Known(j)
  BY <1>1, <1>2 DEF Known, Single
<1>4. \A i : Known(i)' <=> (Known(i) /\ i # j)
  BY <1>1, <1>2 DEF Known, Single
<1>5. \A u \in Threads : \A i :
          /\ HoldsId(u, i)' <=> (IF u = t THEN i = j ELSE HoldsId(u, i))
          /\ AnswersId(u, i)' <=> (IF u = t THEN i = j ELSE AnswersId(u, i))
  BY <1>1, OthersHold
<1>6. Single'
  <2>1. \A a, b \in opened' : Identity(a) = Identity(b) => a = b
    BY <1>2 DEF Single
  <2>2. \A i : \A u \in Threads : AnswersId(u, i)' => ~Known(i)'
    BY <1>2, <1>4, <1>5 DEF Single
  <2>3. \A i : \A u, v \in Threads : AnswersId(u, i)' /\ AnswersId(v, i)' => u = v
    BY <1>2, <1>3, <1>5 DEF Single
  <2>4. \A i : \A u \in Threads : HoldsId(u, i)' => i \in conns' \cup expired'
    BY <1>2, <1>3, <1>5 DEF Single
  <2>5. \A a \in opened' : Identity(a) \in conns' \cup expired'
    BY <1>2 DEF Single
  <2>6. QED
    BY <2>1, <2>2, <2>3, <2>4, <2>5, SingleNext
<1>7. Stray' \subseteq Stray
  <2>1. ASSUME NEW i \in Stray' PROVE i \in Stray
    <3>1. i \in conns /\ ~Known(i)' /\ \A u \in Threads : ~HoldsId(u, i)'
      BY DEF Stray
    <3>2. i # j
      BY <1>5, <3>1
    <3>3. ~Known(i) /\ \A u \in Threads : ~HoldsId(u, i)
      BY <1>4, <1>5, <3>1, <3>2
    <3>4. QED
      BY <3>1, <3>3 DEF Stray
  <2>2. QED
    BY <2>1
<1>8. Cardinality(Stray') <= faults
  BY <1>7, StrayFinite, FewerStray DEF Connections, Counters
<1>9. QED
  BY <1>6, <1>8 DEF Connections

\* The controller opens the connection thread t asked for.
LEMMA HoldingAccepted ==
  ASSUME Threading, Connections, Counters, NEW t \in Threads, Only(t), NEW j, j \notin conns,
         conns' = conns \cup {j}, expired' = expired \ {j}, opened' = opened, faults' = faults,
         \A i : ~HoldsId(t, i) /\ (AnswersId(t, i) <=> i = j),
         \A i : (HoldsId(t, i)' <=> i = j) /\ (AnswersId(t, i)' <=> i = j)
  PROVE  Connections'
<1>1. Single
  BY DEF Connections
<1>2. \A i : Known(i)' <=> Known(i)
  BY DEF Known
<1>3. \A u \in Threads : \A i :
          /\ HoldsId(u, i)' <=> (IF u = t THEN i = j ELSE HoldsId(u, i))
          /\ AnswersId(u, i)' <=> AnswersId(u, i)
  BY OthersHold
<1>4. conns \cup expired \subseteq conns' \cup expired' /\ j \in conns'
  OBVIOUS
<1>5. Single'
  <2>1. \A a, b \in opened' : Identity(a) = Identity(b) => a = b
    BY <1>1 DEF Single
  <2>2. \A i : \A u \in Threads : AnswersId(u, i)' => ~Known(i)'
    BY <1>1, <1>2, <1>3 DEF Single
  <2>3. \A i : \A u, v \in Threads : AnswersId(u, i)' /\ AnswersId(v, i)' => u = v
    BY <1>1, <1>3 DEF Single
  <2>4. \A i : \A u \in Threads : HoldsId(u, i)' => i \in conns' \cup expired'
    BY <1>1, <1>3, <1>4 DEF Single
  <2>5. \A a \in opened' : Identity(a) \in conns' \cup expired'
    BY <1>1, <1>4 DEF Single
  <2>6. QED
    BY <2>1, <2>2, <2>3, <2>4, <2>5, SingleNext
<1>6. Stray' \subseteq Stray
  <2>1. ASSUME NEW i \in Stray' PROVE i \in Stray
    <3>1. i \in conns' /\ ~Known(i)' /\ \A u \in Threads : ~HoldsId(u, i)'
      BY DEF Stray
    <3>2. i # j
      BY <1>3, <3>1
    <3>3. i \in conns /\ ~Known(i) /\ \A u \in Threads : ~HoldsId(u, i)
      BY <1>2, <1>3, <3>1, <3>2
    <3>4. QED
      BY <3>3 DEF Stray
  <2>2. QED
    BY <2>1
<1>7. Cardinality(Stray') <= faults
  BY <1>6, StrayFinite, FewerStray DEF Connections, Counters
<1>8. IsFiniteSet(conns')
  BY FS_AddElement DEF Connections
<1>9. QED
  BY <1>5, <1>7, <1>8 DEF Connections

\* The controller closes the connection thread t has given up.
LEMMA HoldingClosed ==
  ASSUME Threading, Connections, Counters, NEW t \in Threads, Only(t), NEW j, HoldsId(t, j),
         conns' = conns \ {j}, expired' = expired \ {j}, opened' = opened, faults' = faults,
         \A i : ~HoldsId(t, i)' /\ ~AnswersId(t, i)'
  PROVE  Connections'
<1>1. Single
  BY DEF Connections
<1>2. \A i : Known(i)' <=> Known(i)
  BY DEF Known
<1>3. ~Known(j) /\ \A u \in Threads : AnswersId(u, j) => u = t
  BY <1>1, HoldersAnswer DEF Single
<1>4. \A u \in Threads : \A i :
          /\ HoldsId(u, i)' => u # t /\ HoldsId(u, i) /\ AnswersId(u, i)
          /\ AnswersId(u, i)' => u # t /\ AnswersId(u, i)
  BY OthersHold, HoldersAnswer
<1>5. Single'
  <2>1. \A a, b \in opened' : Identity(a) = Identity(b) => a = b
    BY <1>1 DEF Single
  <2>2. \A i : \A u \in Threads : AnswersId(u, i)' => ~Known(i)'
    BY <1>1, <1>2, <1>4 DEF Single
  <2>3. \A i : \A u, v \in Threads : AnswersId(u, i)' /\ AnswersId(v, i)' => u = v
    BY <1>1, <1>4 DEF Single
  <2>4. \A i : \A u \in Threads : HoldsId(u, i)' => i \in conns' \cup expired'
    BY <1>1, <1>3, <1>4 DEF Single
  <2>5. \A a \in opened' : Identity(a) \in conns' \cup expired'
    BY <1>1, <1>3 DEF Known, Single
  <2>6. QED
    BY <2>1, <2>2, <2>3, <2>4, <2>5, SingleNext
<1>6. Stray' \subseteq Stray
  <2>1. ASSUME NEW i \in Stray' PROVE i \in Stray
    <3>1. i \in conns /\ i # j /\ ~Known(i)' /\ \A u \in Threads : ~HoldsId(u, i)'
      BY DEF Stray
    <3>2. ~HoldsId(t, i)
      BY <3>1 DEF HoldsId
    <3>3. ~Known(i) /\ \A u \in Threads : ~HoldsId(u, i)
      BY <1>2, <3>1, <3>2, OthersHold
    <3>4. QED
      BY <3>1, <3>3 DEF Stray
  <2>2. QED
    BY <2>1
<1>7. Cardinality(Stray') <= faults
  BY <1>6, StrayFinite, FewerStray DEF Connections, Counters
<1>8. IsFiniteSet(conns')
  BY FS_Subset DEF Connections
<1>9. QED
  BY <1>5, <1>7, <1>8 DEF Connections

\* A connection that was opened for thread t enters the table.
LEMMA HoldingOpened ==
  ASSUME Threading, Connections, Counters, NEW t \in Threads, Only(t), NEW c, HoldsId(t, Identity(c)),
         conns' = conns, expired' = expired, opened' = opened \cup {c}, faults' = faults,
         \A i : ~HoldsId(t, i)' /\ ~AnswersId(t, i)'
  PROVE  Connections'
<1>1. PICK j : j = Identity(c)
  OBVIOUS
<1>2. Single
  BY DEF Connections
<1>3. HoldsId(t, j) /\ AnswersId(t, j)
  BY <1>1, HoldersAnswer
<1>4. ~Known(j) /\ j \in conns \cup expired /\ \A u \in Threads : AnswersId(u, j) => u = t
  BY <1>2, <1>3 DEF Single
<1>5. \A i : Known(i)' <=> (Known(i) \/ i = j)
  BY <1>1 DEF Known
<1>6. \A u \in Threads : \A i :
          /\ HoldsId(u, i)' => u # t /\ HoldsId(u, i)
          /\ AnswersId(u, i)' => u # t /\ AnswersId(u, i)
  BY OthersHold
<1>7. Single'
  <2>1. \A a \in opened : Identity(a) # j
    BY <1>4 DEF Known
  <2>2. \A a, b \in opened' : Identity(a) = Identity(b) => a = b
    BY <1>1, <1>2, <2>1 DEF Single
  <2>3. \A i : \A u \in Threads : AnswersId(u, i)' => ~Known(i)'
    BY <1>2, <1>4, <1>5, <1>6 DEF Single
  <2>4. \A i : \A u, v \in Threads : AnswersId(u, i)' /\ AnswersId(v, i)' => u = v
    BY <1>2, <1>6 DEF Single
  <2>5. \A i : \A u \in Threads : HoldsId(u, i)' => i \in conns' \cup expired'
    BY <1>2, <1>6 DEF Single
  <2>6. \A a \in opened' : Identity(a) \in conns' \cup expired'
    BY <1>1, <1>2, <1>4 DEF Single
  <2>7. QED
    BY <2>2, <2>3, <2>4, <2>5, <2>6, SingleNext
<1>8. Stray' \subseteq Stray
  <2>1. ASSUME NEW i \in Stray' PROVE i \in Stray
    <3>1. i \in conns /\ ~Known(i)' /\ \A u \in Threads : ~HoldsId(u, i)'
      BY DEF Stray
    <3>2. ~Known(i) /\ i # j
      BY <1>5, <3>1
    <3>3. ~HoldsId(t, i)
      BY <1>3, <3>2 DEF HoldsId
    <3>4. \A u \in Threads : ~HoldsId(u, i)
      BY <3>1, <3>3, OthersHold
    <3>5. QED
      BY <3>1, <3>2, <3>4 DEF Stray
  <2>2. QED
    BY <2>1
<1>9. Cardinality(Stray') <= faults
  BY <1>8, StrayFinite, FewerStray DEF Connections, Counters
<1>10. QED
  BY <1>7, <1>9 DEF Connections

\* The controller drops a connection, whoever has it.
LEMMA HoldingExpired ==
  ASSUME Connections, Counters, thr' = thr, opened' = opened, faults' = faults,
         NEW j, conns' = conns \ {j}, expired' = expired \cup {j}
  PROVE  Connections'
<1>1. \A u, i : (HoldsId(u, i)' <=> HoldsId(u, i)) /\ (AnswersId(u, i)' <=> AnswersId(u, i))
  BY SameThreads
<1>2. \A i : Known(i)' <=> Known(i)
  BY DEF Known
<1>3. Single /\ conns \cup expired \subseteq conns' \cup expired'
  BY DEF Connections
<1>4. Single'
  <2>1. \A c, d \in opened' : Identity(c) = Identity(d) => c = d
    BY <1>3 DEF Single
  <2>2. \A i : \A u \in Threads : AnswersId(u, i)' => ~Known(i)'
    BY <1>1, <1>2, <1>3 DEF Single
  <2>3. \A i : \A u, v \in Threads : AnswersId(u, i)' /\ AnswersId(v, i)' => u = v
    BY <1>1, <1>3 DEF Single
  <2>4. \A i : \A u \in Threads : HoldsId(u, i)' => i \in conns' \cup expired'
    BY <1>1, <1>3 DEF Single
  <2>5. \A c \in opened' : Identity(c) \in conns' \cup expired'
    BY <1>3 DEF Single
  <2>6. QED
    BY <2>1, <2>2, <2>3, <2>4, <2>5, SingleNext
<1>5. Stray' \subseteq Stray
  BY <1>1, <1>2 DEF Stray
<1>6. Cardinality(Stray') <= faults
  BY <1>5, StrayFinite, FewerStray DEF Connections, Counters
<1>7. IsFiniteSet(conns')
  BY FS_Subset DEF Connections
<1>8. QED
  BY <1>4, <1>6, <1>7 DEF Connections

-----------------------------------------------------------------------------
(* The inductive invariant *)

\* The invariant.
Inv == Threading /\ Counters /\ Structures /\ Recording /\ Reporting /\ Connections

\* The invariant holds initially.
LEMMA InitInv == Init => Inv
<1> SUFFICES ASSUME Init PROVE Inv
  OBVIOUS
<1>1. \A t \in Threads : thr[t] = Over(None, None, None, None, 0)
  BY RecIs DEF Init
<1>2. Threading
  BY <1>1, FailedGood, CallTypes DEF Init, Threading
<1>3. Counters
  BY MessagesAssumption DEF Init, Counters
<1>4. Structures
  BY CallTypes DEF Init, Structures
<1>5. Recording
  BY DEF Init, Recording
<1>6. Reporting
  <2>1. \A t \in Threads : thr[t].id = 0
    BY <1>1 DEF Over
  <2>2. QED
    BY <2>1 DEF Init, Reporting, Reported
<1>7. Connections
  <2>1. \A t \in Threads : thr[t].pc = "idle"
    BY <1>1 DEF Over
  <2>2. Single
    BY <2>1 DEF Init, Single, AnswersId, Answers, Opening, HoldsId, Holds, Accepted, Closing
  <2>3. IsFiniteSet(conns) /\ Stray = {} /\ faults = 0
    BY FS_EmptySet DEF Init, Stray
  <2>4. QED
    BY <2>2, <2>3, FS_EmptySet DEF Connections
<1>8. QED
  BY <1>2, <1>3, <1>4, <1>5, <1>6, <1>7 DEF Inv

\* A thread that is in no call of a connection, or has its answer to a close, holds none.
LEMMA HoldsNone ==
  ASSUME NEW t, thr[t].pc \notin {"sent", "back"}
                \/ (thr[t].pc = "sent" /\ thr[t].call.op \notin {"open", "close"})
                \/ (thr[t].pc = "back" /\ ~Accepted(thr[t]))
  PROVE  \A i : ~HoldsId(t, i) /\ ~AnswersId(t, i)
  BY DEF HoldsId, Holds, AnswersId, Answers, Opening, Accepted, Closing

\* The same of the next state.
LEMMA HoldsNoneNext ==
  ASSUME NEW t, thr'[t].pc \notin {"sent", "back"}
                \/ (thr'[t].pc = "sent" /\ thr'[t].call.op \notin {"open", "close"})
                \/ (thr'[t].pc = "back" /\ ~Accepted(thr'[t]))
  PROVE  \A i : ~HoldsId(t, i)' /\ ~AnswersId(t, i)'
  BY DEF HoldsId, Holds, AnswersId, Answers, Opening, Accepted, Closing

\* A call that is over.
LEMMA OverIdle == \A c, p, r, v, i : Over(c, p, r, v, i).pc = "idle" /\ Over(c, p, r, v, i).id = i
  BY DEF Over

\* A close takes the connection out of the table, and answers for it.
LEMMA CloseConnHolds ==
  ASSUME Threading, Connections, Counters, NEW t \in Threads, NEW c \in Calls, CloseConn(t, c)
  PROVE  Connections'
<1>1. /\ Only(t)
      /\ c.conn \notin opened => opened' = opened /\ thr'[t] = Over(None, None, "NOT_OPEN", None, 0)
      /\ c.conn \in opened => opened' = opened \ {c.conn} /\ thr'[t] = Sent(c, BuildFc(c.conn), 64)
  BY CloseConnMoves DEF Starts
<1>2. /\ thr[t].pc = "idle" /\ c.op = "close" /\ conns' = conns /\ expired' = expired
      /\ faults' = faults
  BY DEF CloseConn, Begin, plcVars
<1>3. \A i : ~HoldsId(t, i) /\ ~AnswersId(t, i)
  BY <1>2, HoldsNone
<1>4. CASE c.conn \notin opened
  <2>1. \A i : ~HoldsId(t, i)' /\ ~AnswersId(t, i)'
    BY <1>1, <1>4, OverIdle, HoldsNoneNext
  <2>2. QED
    BY <1>1, <1>2, <1>3, <1>4, <2>1, HoldingKept
<1>5. CASE c.conn \in opened
  <2>1. thr'[t].pc = "sent" /\ thr'[t].call = c
    BY <1>1, <1>5 DEF Sent
  <2>2. \A i : (HoldsId(t, i)' <=> i = Identity(c.conn)) /\ (AnswersId(t, i)' <=> i = Identity(c.conn))
    BY <1>2, <2>1 DEF HoldsId, Holds, Closing, AnswersId, Answers
  <2>3. PICK d \in opened : d = c.conn
    BY <1>5
  <2>4. \A i : (HoldsId(t, i)' <=> i = Identity(d)) /\ (AnswersId(t, i)' <=> i = Identity(d))
    BY <2>2, <2>3
  <2>5. opened' = opened \ {d}
    BY <1>1, <1>5, <2>3
  <2>6. QED
    BY <1>1, <1>2, <1>3, <2>3, <2>4, <2>5, HoldingTaken
<1>6. QED
  BY <1>4, <1>5

\* An open answers for its connection, which nobody else does.
LEMMA OpenConnHolds ==
  ASSUME Threading, Connections, Counters, NEW t \in Threads, NEW c \in Calls, OpenConn(t, c)
  PROVE  Connections'
<1>1. /\ Starts(t, c) /\ Only(t) /\ thr'[t].pc # "back" /\ (thr'[t].pc = "sent" => thr'[t].call = c)
      /\ thr'[t].pc = "sent" => Identity(c.conn) \notin Tabled \cup Moving
  BY OpenConnMoves DEF Starts
<1>2. /\ thr[t].pc = "idle" /\ c.op = "open" /\ conns' = conns /\ expired' = expired
      /\ faults' = faults /\ opened' = opened
  BY DEF OpenConn, Begin, plcVars
<1>3. \A i : ~HoldsId(t, i) /\ ~AnswersId(t, i)
  BY <1>2, HoldsNone
<1>4. CASE thr'[t].pc = "sent"
  <2>1. thr'[t].call = c
    BY <1>1, <1>4
  <2>2. \A i : ~HoldsId(t, i)' /\ (AnswersId(t, i)' <=> i = Identity(c.conn))
    BY <1>2, <1>4, <2>1 DEF HoldsId, Holds, Closing, Accepted, AnswersId, Answers, Opening
  <2>3. Identity(c.conn) \notin Tabled /\ Identity(c.conn) \notin Moving
    BY <1>1, <1>4
  <2>4. ~Known(Identity(c.conn))
    BY <2>3 DEF Known, Tabled
  <2>5. \A u \in Threads : ~AnswersId(u, Identity(c.conn))
    BY <2>3, AnswersMove
  <2>6. QED
    BY <1>1, <1>2, <1>3, <2>2, <2>4, <2>5, HoldingStarted
<1>5. CASE thr'[t].pc # "sent"
  <2>1. \A i : ~HoldsId(t, i)' /\ ~AnswersId(t, i)'
    BY <1>1, <1>5, HoldsNoneNext
  <2>2. QED
    BY <1>1, <1>2, <1>3, <2>1, HoldingKept
<1>6. QED
  BY <1>4, <1>5

\* A call starts.
LEMMA StartInv ==
  ASSUME Inv, NEW t \in Threads, NEW c \in Calls, Start(t, c)
  PROVE  Inv'
<1> USE DEF Inv
<1>1. Starts(t, c) /\ Only(t) /\ Good(thr'[t], faults')
  BY StartMoves DEF Starts
<1>2. thr[t].pc = "idle" /\ calls < MaxCalls /\ calls' = calls + 1 /\ faults' = faults /\ UNCHANGED plcVars
  BY DEF Start, Wrapper, ReadStruct, WriteStruct, RoutedSend, OpenConn, CloseConn, TakeCipError, Begin
<1>3. Counters' /\ faults <= faults'
  BY <1>2, MessagesAssumption DEF Counters
<1>4. Threading'
  BY <1>1, <1>3, Others
<1>5. Structures'
  BY <1>2 DEF Structures, plcVars
<1>6. Recording' /\ Reporting'
  <2>1. CASE TakeCipError(t, c)
    BY <2>1, RecordTaken
  <2>2. CASE ~TakeCipError(t, c)
    <3>1. UNCHANGED recordVars
      BY <2>2 DEF Start, Wrapper, ReadStruct, WriteStruct, RoutedSend, OpenConn, CloseConn
    <3>2. QED
      BY <1>1, <3>1, RecordKept DEF Starts
  <2>3. QED
    BY <2>1, <2>2
<1>7. Connections'
  <2>1. CASE CloseConn(t, c)
    BY <2>1, CloseConnHolds
  <2>2. CASE OpenConn(t, c)
    BY <2>2, OpenConnHolds
  <2>3. CASE ~CloseConn(t, c) /\ ~OpenConn(t, c)
    <3>1. opened' = opened /\ c.op \notin {"open", "close"}
      BY <2>3 DEF Start, Wrapper, ReadStruct, WriteStruct, RoutedSend, TakeCipError, Begin
    <3>2. \A i : ~HoldsId(t, i) /\ ~AnswersId(t, i)
      BY <1>2, HoldsNone
    <3>3. thr'[t].pc # "back" /\ (thr'[t].pc = "sent" => thr'[t].call = c)
      BY <1>1 DEF Starts
    <3>4. \A i : ~HoldsId(t, i)' /\ ~AnswersId(t, i)'
      BY <3>1, <3>3, HoldsNoneNext
    <3>5. conns' = conns /\ expired' = expired
      BY <1>2 DEF plcVars
    <3>6. QED
      BY <1>1, <1>2, <3>1, <3>2, <3>4, <3>5, HoldingKept
  <2>4. QED
    BY <2>1, <2>2, <2>3
<1>8. QED
  BY <1>3, <1>4, <1>5, <1>6, <1>7

\* The controller answers.
LEMMA PlcInv ==
  ASSUME Inv, NEW t \in Threads, Plc(t)
  PROVE  Inv'
<1>1. /\ thr[t].pc = "sent" /\ opened' = opened /\ calls' = calls /\ faults' = faults
      /\ UNCHANGED recordVars
      /\ \/ thr[t].msg[1] = 76 /\ PlcRead(t, thr[t].msg)
         \/ thr[t].msg[1] = 77 /\ PlcWrite(t, thr[t].msg)
         \/ thr[t].msg[1] = 91 /\ PlcOpen(t, thr[t].msg)
         \/ thr[t].msg[1] = 78 /\ PlcClose(t, thr[t].msg)
         \/ thr[t].msg[1] = 82 /\ PlcRouted(t, Unwrap(thr[t].msg).req)
  BY DEF Plc
<1>2. Threading /\ Counters /\ Structures /\ Recording /\ Reporting /\ Connections
  BY DEF Inv
<1>3. Counters' /\ faults <= faults'
  BY <1>1, <1>2 DEF Counters
<1>4. ASSUME Only(t), Good(thr'[t], faults), thr'[t].pc = "back", Structures', Connections'
      PROVE  Inv'
  <2>1. Threading'
    BY <1>1, <1>2, <1>3, <1>4, Others
  <2>2. Recording' /\ Reporting'
    BY <1>1, <1>2, <1>4, RecordKept
  <2>3. QED
    BY <1>3, <1>4, <2>1, <2>2 DEF Inv
<1>5. ASSUME Only(t), thr'[t].pc = "back", thr'[t].call = thr[t].call, conns' = conns, expired' = expired,
             thr[t].call.op \notin {"open", "close"}
      PROVE  Connections'
  <2>1. \A i : ~HoldsId(t, i) /\ ~AnswersId(t, i)
    BY <1>1, <1>5, HoldsNone
  <2>2. \A i : ~HoldsId(t, i)' /\ ~AnswersId(t, i)'
    BY <1>5, HoldsNoneNext DEF Accepted
  <2>3. QED
    BY <1>1, <1>2, <1>5, <2>1, <2>2, HoldingKept
<1>6. CASE thr[t].msg[1] = 76 /\ PlcRead(t, thr[t].msg)
  <2>1. /\ Only(t) /\ Good(thr'[t], faults) /\ thr[t].call.op = "read_struct"
        /\ thr'[t].pc = "back" /\ thr'[t].call = thr[t].call
    BY <1>1, <1>2, <1>6, PlcReadMoves
  <2>2. structs' = structs /\ conns' = conns /\ expired' = expired
    BY <1>6 DEF PlcRead, plcVars
  <2>3. Structures'
    BY <1>2, <2>2 DEF Structures
  <2>4. QED
    BY <1>4, <1>5, <2>1, <2>2, <2>3
<1>7. CASE thr[t].msg[1] = 77 /\ PlcWrite(t, thr[t].msg)
  <2>1. /\ Only(t) /\ Good(thr'[t], faults) /\ Structures' /\ thr[t].call.op = "write_struct"
        /\ thr'[t].pc = "back" /\ thr'[t].call = thr[t].call
    BY <1>1, <1>2, <1>7, PlcWriteMoves
  <2>2. conns' = conns /\ expired' = expired
    BY <1>7 DEF PlcWrite
  <2>3. QED
    BY <1>4, <1>5, <2>1, <2>2
<1>8. CASE thr[t].msg[1] = 91 /\ PlcOpen(t, thr[t].msg)
  <2>1. PICK j : j = Identity(thr[t].call.conn)
    OBVIOUS
  <2>2. /\ Only(t) /\ Good(thr'[t], faults) /\ thr[t].call.op = "open"
        /\ conns' = conns \cup {j} /\ expired' = expired \ {j}
        /\ thr'[t].call = thr[t].call /\ thr'[t].pc = "back"
        /\ Accepted(thr'[t]) <=> j \notin conns
    BY <1>1, <1>2, <1>8, <2>1, PlcOpenMoves
  <2>3. Structures'
    BY <1>2, <1>8 DEF Structures, PlcOpen
  <2>4. \A i : ~HoldsId(t, i) /\ (AnswersId(t, i) <=> i = j)
    BY <1>1, <2>1, <2>2 DEF HoldsId, Holds, Accepted, Closing, AnswersId, Answers, Opening
  <2>5. CASE j \in conns
    <3>1. \A i : ~HoldsId(t, i)' /\ ~AnswersId(t, i)'
      BY <2>2, <2>5, HoldsNoneNext
    <3>2. conns' = conns /\ conns \cup expired \subseteq conns' \cup expired'
      BY <2>2, <2>5
    <3>3. Connections'
      BY <1>1, <1>2, <2>2, <2>4, <3>1, <3>2, HoldingKept
    <3>4. QED
      BY <1>4, <2>2, <2>3, <3>3
  <2>6. CASE j \notin conns
    <3>1. \A i : (HoldsId(t, i)' <=> i = j) /\ (AnswersId(t, i)' <=> i = j)
      BY <2>1, <2>2, <2>6 DEF HoldsId, Holds, AnswersId, Answers, Opening, Closing
    <3>2. Connections'
      BY <1>1, <1>2, <2>2, <2>4, <2>6, <3>1, HoldingAccepted
    <3>3. QED
      BY <1>4, <2>2, <2>3, <3>2
  <2>7. QED
    BY <2>5, <2>6
<1>9. CASE thr[t].msg[1] = 78 /\ PlcClose(t, thr[t].msg)
  <2>1. PICK j : j = Identity(thr[t].call.conn)
    OBVIOUS
  <2>2. /\ Only(t) /\ Good(thr'[t], faults) /\ thr[t].call.op = "close"
        /\ conns' = conns \ {j} /\ expired' = expired \ {j}
        /\ thr'[t].call = thr[t].call /\ thr'[t].pc = "back"
    BY <1>1, <1>2, <1>9, <2>1, PlcCloseMoves
  <2>3. Structures'
    BY <1>2, <1>9 DEF Structures, PlcClose
  <2>4. HoldsId(t, j)
    BY <1>1, <2>1, <2>2 DEF HoldsId, Holds, Closing
  <2>5. \A i : ~HoldsId(t, i)' /\ ~AnswersId(t, i)'
    BY <2>2, HoldsNoneNext DEF Accepted
  <2>6. Connections'
    BY <1>1, <1>2, <2>2, <2>4, <2>5, HoldingClosed
  <2>7. QED
    BY <1>4, <2>2, <2>3, <2>6
<1>10. CASE thr[t].msg[1] = 82 /\ PlcRouted(t, Unwrap(thr[t].msg).req)
  <2>1. /\ Only(t) /\ Good(thr'[t], faults) /\ thr[t].call.op = "routed"
        /\ thr'[t].pc = "back" /\ thr'[t].call = thr[t].call
    BY <1>1, <1>2, <1>10, PlcRoutedMoves
  <2>2. structs' = structs /\ conns' = conns /\ expired' = expired
    BY <1>10 DEF PlcRouted, plcVars
  <2>3. Structures'
    BY <1>2, <2>2 DEF Structures
  <2>4. QED
    BY <1>4, <1>5, <2>1, <2>2, <2>3
<1>11. QED
  BY <1>1, <1>6, <1>7, <1>8, <1>9, <1>10

\* A fault: what the thread held is lost with it.
LEMMA FaultInv ==
  ASSUME Inv, NEW t \in Threads, Only(t), Good(thr'[t], faults'), faults' = faults + 1, faults < MaxFaults,
         calls' = calls, UNCHANGED plcVars, UNCHANGED recordVars, opened' = opened,
         thr'[t].pc = "idle" => thr'[t].id = 0,
         thr'[t].pc = "idle"
         \/ (thr'[t].pc = "back" /\ thr'[t].call = thr[t].call /\ (Accepted(thr'[t]) => Accepted(thr[t])))
  PROVE  Inv'
<1>1. Threading /\ Counters /\ Structures /\ Recording /\ Reporting /\ Connections
  BY DEF Inv
<1>2. Counters' /\ faults <= faults'
  BY <1>1, MessagesAssumption DEF Counters
<1>3. Threading'
  BY <1>1, <1>2, Others
<1>4. Structures' /\ conns' = conns /\ expired' = expired
  BY <1>1 DEF Structures, plcVars
<1>5. Recording' /\ Reporting'
  BY <1>1, RecordKept
<1>6. \A i : (HoldsId(t, i)' => HoldsId(t, i)) /\ (AnswersId(t, i)' => AnswersId(t, i))
  BY DEF HoldsId, Holds, AnswersId, Answers, Opening, Closing, Accepted
<1>7. Connections'
  BY <1>1, <1>4, <1>6, HoldingDropped
<1>8. QED
  BY <1>2, <1>3, <1>4, <1>5, <1>7 DEF Inv

\* The controller refuses.
LEMMA PlcRefusesInv == ASSUME Inv, NEW t \in Threads, PlcRefuses(t) PROVE Inv'
<1>1. /\ Only(t) /\ Good(thr'[t], faults') /\ faults' = faults + 1
      /\ thr'[t].pc = "back" /\ thr'[t].call = thr[t].call /\ ~Accepted(thr'[t])
  BY PlcRefusesMoves DEF Inv
<1>2. faults < MaxFaults /\ UNCHANGED plcVars /\ UNCHANGED recordVars /\ opened' = opened /\ calls' = calls
  BY DEF PlcRefuses, Fault
<1>3. QED
  BY <1>1, <1>2, FaultInv

\* An answer is cut.
LEMMA CutInv == ASSUME Inv, NEW t \in Threads, Cut(t) PROVE Inv'
<1>1. /\ Only(t) /\ Good(thr'[t], faults') /\ faults' = faults + 1
      /\ thr'[t].pc = "back" /\ thr'[t].call = thr[t].call
      /\ Accepted(thr'[t]) => Accepted(thr[t])
  BY CutMoves DEF Inv
<1>2. faults < MaxFaults /\ UNCHANGED plcVars /\ UNCHANGED recordVars /\ opened' = opened /\ calls' = calls
  BY DEF Cut, Fault
<1>3. QED
  BY <1>1, <1>2, FaultInv

\* A call gives up.
LEMMA LostInv == ASSUME Inv, NEW t \in Threads, Lost(t) PROVE Inv'
<1>1. /\ Only(t) /\ Good(thr'[t], faults') /\ faults' = faults + 1
      /\ thr'[t] = Over(None, None, "RECV_ANSWER", None, 0)
  BY LostMoves DEF Inv
<1>2. thr'[t].pc = "idle" /\ thr'[t].id = 0
  BY <1>1, OverIdle
<1>3. faults < MaxFaults /\ UNCHANGED plcVars /\ UNCHANGED recordVars /\ opened' = opened /\ calls' = calls
  BY DEF Lost, Fault
<1>4. QED
  BY <1>1, <1>2, <1>3, FaultInv

\* The end of a call that cost no fault and in which thread t held nothing, or of an open.
LEMMA EndInv ==
  ASSUME Inv, NEW t \in Threads, Only(t), Good(thr'[t], faults), faults' = faults, calls' = calls,
         UNCHANGED plcVars, Recording', Reporting', Connections'
  PROVE  Inv'
<1>1. Threading /\ Counters /\ Structures
  BY DEF Inv
<1>2. Counters' /\ faults <= faults'
  BY <1>1 DEF Counters
<1>3. Threading'
  BY <1>1, <1>2, Others
<1>4. Structures'
  BY <1>1 DEF Structures, plcVars
<1>5. QED
  BY <1>2, <1>3, <1>4 DEF Inv

\* The answer to a wrapper.
LEMMA WrapperAnswerInv == ASSUME Inv, NEW t \in Threads, WrapperAnswer(t) PROVE Inv'
<1>1. /\ Only(t) /\ Good(thr'[t], faults') /\ thr[t].pc = "engine"
      /\ thr'[t].pc = "idle" /\ thr'[t].id = 0
  BY WrapperAnswerMoves, OverIdle DEF Inv
<1>2. UNCHANGED plcVars /\ UNCHANGED recordVars /\ opened' = opened /\ calls' = calls
  BY DEF WrapperAnswer
<1>3. CASE faults' = faults
  <2>1. Recording' /\ Reporting'
    BY <1>1, <1>2, RecordKept DEF Inv
  <2>2. \A i : ~HoldsId(t, i) /\ ~HoldsId(t, i)' /\ ~AnswersId(t, i) /\ ~AnswersId(t, i)'
    BY <1>1, HoldsNone, HoldsNoneNext
  <2>3. conns' = conns /\ expired' = expired
    BY <1>2 DEF plcVars
  <2>4. Connections'
    BY <1>1, <1>2, <1>3, <2>2, <2>3, HoldingKept DEF Inv
  <2>5. QED
    BY <1>1, <1>2, <1>3, <2>1, <2>4, EndInv
<1>4. CASE faults < MaxFaults /\ faults' = faults + 1
  BY <1>1, <1>2, <1>4, FaultInv
<1>5. QED
  BY <1>3, <1>4 DEF WrapperAnswer, Fault

\* A call ends.
LEMMA EndsInv ==
  ASSUME Inv, NEW t \in Threads, Ends(t), UNCHANGED plcVars, taken' = taken, calls' = calls,
         faults' = faults, Connections'
  PROVE  Inv'
<1>1. Recording' /\ Reporting'
  BY RecordNoted DEF Inv, Ends
<1>2. QED
  BY <1>1, EndInv DEF Ends

\* A call other than an open ends: its thread held no connection.
LEMMA OtherEndsInv ==
  ASSUME Inv, NEW t \in Threads, Ends(t), NEW op, Back(t, op), op # "open", opened' = opened
  PROVE  Inv'
<1>1. /\ thr[t].pc = "back" /\ thr[t].call.op = op /\ UNCHANGED plcVars /\ taken' = taken
      /\ calls' = calls /\ faults' = faults
  BY DEF Back
<1>2. Only(t) /\ thr'[t].pc = "idle"
  BY DEF Ends
<1>3. \A i : ~HoldsId(t, i) /\ ~AnswersId(t, i)
  BY <1>1, HoldsNone DEF Accepted
<1>4. \A i : ~HoldsId(t, i)' /\ ~AnswersId(t, i)'
  BY <1>2, HoldsNoneNext
<1>5. conns' = conns /\ expired' = expired
  BY <1>1 DEF plcVars
<1>6. Connections'
  BY <1>1, <1>2, <1>3, <1>4, <1>5, HoldingKept DEF Inv
<1>7. QED
  BY <1>1, <1>6, EndsInv

\* An open ends: what its thread held is in the table.
LEMMA OpenConnBackInv == ASSUME Inv, NEW t \in Threads, OpenConnBack(t) PROVE Inv'
<1>1. /\ Ends(t) /\ thr[t].call.op = "open" /\ thr[t].pc = "back"
      /\ Accepted(thr[t]) => opened' = opened \cup {thr[t].call.conn}
      /\ ~Accepted(thr[t]) => opened' = opened
  BY OpenConnBackMoves DEF Inv
<1>2. /\ UNCHANGED plcVars /\ taken' = taken /\ calls' = calls /\ faults' = faults
      /\ conns' = conns /\ expired' = expired
  BY DEF OpenConnBack, Back, plcVars
<1>3. Only(t) /\ thr'[t].pc = "idle"
  BY <1>1 DEF Ends
<1>4. \A i : ~HoldsId(t, i)' /\ ~AnswersId(t, i)'
  BY <1>3, HoldsNoneNext
<1>5. Threading /\ Counters /\ Connections
  BY DEF Inv
<1>6. CASE Accepted(thr[t])
  <2>1. HoldsId(t, Identity(thr[t].call.conn))
    BY <1>6 DEF HoldsId, Holds
  <2>2. Connections'
    BY <1>1, <1>2, <1>3, <1>4, <1>5, <1>6, <2>1, HoldingOpened
  <2>3. QED
    BY <1>1, <1>2, <2>2, EndsInv
<1>7. CASE ~Accepted(thr[t])
  <2>1. \A i : ~HoldsId(t, i) /\ ~AnswersId(t, i)
    BY <1>1, <1>7, HoldsNone
  <2>2. Connections'
    BY <1>1, <1>2, <1>3, <1>4, <1>5, <1>7, <2>1, HoldingKept
  <2>3. QED
    BY <1>1, <1>2, <2>2, EndsInv
<1>8. QED
  BY <1>6, <1>7

\* Every answer.
LEMMA AnswerInv == ASSUME Inv, NEW t \in Threads, Answer(t) PROVE Inv'
<1>1. CASE WrapperAnswer(t)
  BY <1>1, WrapperAnswerInv
<1>2. CASE RoutedBack(t)
  <2>1. Ends(t)
    BY <1>2, RoutedBackMoves DEF Inv
  <2>2. QED
    BY <1>2, <2>1, OtherEndsInv DEF RoutedBack
<1>3. CASE ReadStructBack(t)
  <2>1. Ends(t)
    BY <1>3, ReadStructBackMoves DEF Inv
  <2>2. Back(t, "read_struct") /\ opened' = opened
    BY <1>3 DEF ReadStructBack
  <2>3. QED
    BY <2>1, <2>2, OtherEndsInv
<1>4. CASE WriteStructBack(t)
  <2>1. Ends(t)
    BY <1>4, WriteStructBackMoves DEF Inv
  <2>2. Back(t, "write_struct") /\ opened' = opened
    BY <1>4 DEF WriteStructBack
  <2>3. QED
    BY <2>1, <2>2, OtherEndsInv
<1>5. CASE OpenConnBack(t)
  BY <1>5, OpenConnBackInv
<1>6. CASE CloseConnBack(t)
  <2>1. Ends(t)
    BY <1>6, CloseConnBackMoves DEF Inv
  <2>2. Back(t, "close") /\ opened' = opened
    BY <1>6 DEF CloseConnBack
  <2>3. QED
    BY <2>1, <2>2, OtherEndsInv
<1>7. QED
  BY <1>1, <1>2, <1>3, <1>4, <1>5, <1>6 DEF Answer

\* The controller drops a connection.
LEMMA PlcTimeoutInv == ASSUME Inv, NEW j, PlcTimeout(j) PROVE Inv'
<1>1. /\ thr' = thr /\ structs' = structs /\ opened' = opened /\ calls' = calls /\ faults' = faults
      /\ cipErr' = cipErr /\ rejected' = rejected /\ taken' = taken
      /\ conns' = conns \ {j} /\ expired' = expired \cup {j}
  BY DEF PlcTimeout, recordVars
<1>2. Threading' /\ Counters' /\ Structures'
  BY <1>1 DEF Inv, Threading, Counters, Structures
<1>3. Recording' /\ Reporting'
  BY <1>1 DEF Inv, Recording, Reporting, Reported
<1>4. Connections'
  BY <1>1, HoldingExpired DEF Inv
<1>5. QED
  BY <1>2, <1>3, <1>4 DEF Inv

\* The invariant is inductive.
LEMMA NextInv == Inv /\ [Next]_vars => Inv'
<1>1. ASSUME Inv, Next PROVE Inv'
  <2>1. CASE \E j \in conns : PlcTimeout(j)
    BY <1>1, <2>1, PlcTimeoutInv
  <2>2. ASSUME NEW t \in Threads,
               (Free(t) /\ \E c \in Calls : Start(t, c)) \/ Plc(t) \/ PlcRefuses(t) \/ Cut(t) \/ Lost(t) \/ Answer(t)
        PROVE  Inv'
    BY <1>1, <2>2, StartInv, PlcInv, PlcRefusesInv, CutInv, LostInv, AnswerInv
  <2>3. QED
    BY <1>1, <2>1, <2>2 DEF Next
<1>2. ASSUME Inv, UNCHANGED vars PROVE Inv'
  <2>1. /\ thr' = thr /\ structs' = structs /\ conns' = conns /\ expired' = expired /\ opened' = opened
        /\ cipErr' = cipErr /\ rejected' = rejected /\ taken' = taken /\ calls' = calls /\ faults' = faults
    BY <1>2 DEF vars
  <2>2. Threading' /\ Counters' /\ Structures'
    BY <1>2, <2>1 DEF Inv, Threading, Counters, Structures
  <2>3. Recording' /\ Reporting'
    BY <1>2, <2>1 DEF Inv, Recording, Reporting, Reported
  <2>4. \A t, i : (HoldsId(t, i)' <=> HoldsId(t, i)) /\ (AnswersId(t, i)' <=> AnswersId(t, i))
    BY <2>1, SameThreads
  <2>5. \A i : Known(i)' <=> Known(i)
    BY <2>1 DEF Known
  <2>6. Stray' = Stray
    BY <2>1, <2>4, <2>5 DEF Stray
  <2>7. Connections'
    BY <1>2, <2>1, <2>4, <2>5, <2>6 DEF Inv, Connections, Single
  <2>8. QED
    BY <2>2, <2>3, <2>7 DEF Inv
<1>3. QED
  BY <1>1, <1>2

\* Every operation of the layout keeps its fields in its payload, apart from each other.
LEMMA LayoutsFit == \A l \in Layouts : Fits(l)
<1> USE DEF Fits, Disjoint, Op, Field, PayloadStart, SlotStride, PathText, MaxPathText
<1>1. \A l \in SessionLayout \cup TagDbLayout \cup SymbolLayout : Fits(l)
  BY DEF SessionLayout, TagDbLayout, SymbolLayout
<1>2. \A l \in StructLayout \cup ModuleLayout : Fits(l)
  BY DEF StructLayout, ModuleLayout
<1>3. \A l \in IdentityLayout : Fits(l)
  BY DEF IdentityLayout
<1>4. \A l \in DeviceLayout \cup ErrorLayout : Fits(l)
  BY DEF DeviceLayout, ErrorLayout
<1>5. \A l \in PathLayout : Fits(l)
  BY DEF PathLayout
<1>6. \A l \in ClockLayout : Fits(l)
  BY DEF ClockLayout, ClockFields
<1>7. QED
  BY <1>1, <1>2, <1>3, <1>4, <1>5, <1>6 DEF Layouts

\* So does a message and its reply, up to the size of the two buffers.
LEMMA MessageFits ==
  ASSUME NEW n \in Nat, n <= 102400, NEW k \in Nat, k <= 102400
  PROVE  Fits(MessageLayout(n, k))
<1> DEFINE op == MessageLayout(n, k)
<1>1. /\ op.size = \h32088
      /\ op.fill = {Field(\h78, n), Field(\h19078, 2), Field(\h3207A, 2), Field(\h32080, 1),
                    Field(\h32082, 2)}
      /\ op.read = {Field(\h1907A, k), Field(\h3207A, 2), Field(\h3207C, 4)}
  BY DEF MessageLayout, Op
<1> HIDE DEF op
<1>2. Disjoint(op.fill)
  BY <1>1 DEF Disjoint, Field
<1>3. Disjoint(op.read)
  BY <1>1 DEF Disjoint, Field
<1>4. \A f \in op.fill \cup op.read : PayloadStart <= f.off /\ f.off + f.len <= op.size
  BY <1>1 DEF Field, PayloadStart
<1>5. PayloadStart <= op.size /\ op.size <= SlotStride
  BY <1>1 DEF PayloadStart, SlotStride
<1>6. QED
  BY <1>2, <1>3, <1>4, <1>5 DEF Fits, op

-----------------------------------------------------------------------------
(* Theorems *)

\* The inductive invariant of Messages: each message in flight is built from the arguments of
\* its call, each outcome is what the controller did, each connection has one that answers for it.
THEOREM Invariant == Spec => []Inv
  BY InitInv, NextInv, PTL DEF Spec

\* The invariant gives the types.
LEMMA TypesHold == Inv => TypeOK
<1> SUFFICES ASSUME Inv PROVE TypeOK
  OBVIOUS
<1>1. Threading /\ Counters /\ Structures /\ Recording
  BY DEF Inv
<1>2. calls \in 0 .. MaxCalls /\ faults \in 0 .. MaxFaults
  BY <1>1, MessagesAssumption DEF Counters
<1>3. taken \in 0 .. rejected /\ rejected \in Nat /\ (cipErr = None \/ cipErr.id \in 1 .. rejected)
  BY <1>1 DEF Recording
<1>4. \A x \in DOMAIN structs : Len(structs[x].data) = Len(Structs[x].data)
  BY <1>1 DEF Structures
<1>5. ASSUME NEW t \in Threads
      PROVE  /\ thr[t].pc \in {"idle", "engine", "sent", "back", "overrun"}
             /\ Len(thr[t].msg) <= MaxReq
             /\ \A i \in DOMAIN thr[t].msg : thr[t].msg[i] \in 0 .. 255
  <2>1. Typed(thr[t])
    BY <1>1 DEF Threading, Good
  <2>2. \A m \in Bytes : \A i \in DOMAIN m : m[i] \in Byte
    BY DEF Bytes
  <2>3. QED
    BY <2>1, <2>2 DEF Typed, Byte
<1>6. QED
  BY <1>2, <1>3, <1>4, <1>5 DEF TypeOK

\* FieldsFit: the fields of every request lie in the payload it announces, and none overlap,
\* for any set of wrappers and any message up to BP_MSG_MAX_REQ.
THEOREM FieldsAlwaysFit == Spec => []FieldsFit
<1>1. ASSUME Inv PROVE FieldsFit
  <2>1. ASSUME NEW t \in Threads, thr[t].pc = "engine" PROVE Fits(thr[t].call.fn)
    <3>1. thr[t].call.fn \in Layouts
      BY <1>1, <2>1 DEF Inv, Threading, Good, Asks
    <3>2. QED
      BY <3>1, LayoutsFit
  <2>2. ASSUME NEW t \in Threads, thr[t].pc = "sent"
        PROVE  Fits(MessageLayout(Len(thr[t].msg), thr[t].cap))
    <3>1. Typed(thr[t]) /\ InFlight(thr[t])
      BY <1>1 DEF Inv, Threading, Good
    <3>2. thr[t].msg \in Bytes /\ Len(thr[t].msg) <= MaxReq /\ Room(thr[t].cap)
      BY <2>2, <3>1 DEF Typed, InFlight
    <3>3. Len(thr[t].msg) \in Nat
      BY <3>2, LenNat
    <3>4. Len(thr[t].msg) <= 102400
      BY SMTT(60), <3>2, <3>3, MessagesAssumption
    <3>5. QED
      BY <3>2, <3>3, <3>4, MessageFits DEF Room
  <2>3. QED
    BY <1>1, <2>1, <2>2, TypesHold DEF FieldsFit
<1>2. QED
  BY <1>1, Invariant, PTL

\* StructTrue: bp_client_read_struct returns the controller's handle and the beginning of its data,
\* all that the buffer holds unless the answer was cut short; a bp_client_write_struct that succeeds
\* has written the caller's bytes, for any names, sizes and cuts, and beside writes that overran
\* their buffer.
THEOREM StructsAreTrue == Spec => []StructTrue
<1>1. ASSUME Inv PROVE StructTrue
  <2>1. \A t \in Threads : Settled(thr[t], faults)
    BY <1>1 DEF Inv, Threading, Good
  <2>2. ASSUME NEW t \in Threads, Ended(t, "read_struct"), thr[t].out.rc = "OK"
        PROVE  ReadGives(thr[t].call, thr[t].out.val, thr[t].plc)
    BY <2>1, <2>2 DEF Settled, Ended
  <2>3. ASSUME NEW t \in Threads, Ended(t, "write_struct")
        PROVE  /\ thr[t].out.rc = "OK" => thr[t].plc.data = thr[t].call.data
               /\ thr[t].out.rc = "CIP_STATUS" /\ faults = 0 => ~Matches(thr[t].call)
    BY <2>1, <2>3 DEF Settled, Ended
  <2>4. QED
    BY <2>2, <2>3 DEF StructTrue, ReadGives, MostOf, Matches
<1>2. QED
  BY <1>1, Invariant, PTL

\* RouteSound: bp_build_unconnected_send is undone by the gateway, for any request, any route
\* and any timeout.
THEOREM RoutesAreSound == Spec => []RouteSound
<1>1. ASSUME Inv PROVE RouteSound
  <2> SUFFICES ASSUME NEW t \in Threads, thr[t].pc = "sent", thr[t].call.op = "routed"
               PROVE  ComesApart(thr[t].call, thr[t].msg, Unwrap(thr[t].msg))
    BY DEF RouteSound
  <2>1. PICK c : c = thr[t].call
    OBVIOUS
  <2>2. PICK m : m = thr[t].msg
    OBVIOUS
  <2>3. c \in Calls /\ Built(c, m, thr[t].cap) /\ c.op = "routed"
    BY <1>1, <2>1, <2>2, SentIs DEF Inv
  <2>4. c.req \in Bytes /\ c.ms \in Nat /\ c.route \in Bytes /\ c.hop \in Bytes
    BY <2>3, Arguments
  <2>5. PICK r : r = c.route \o c.hop
    OBVIOUS
  <2>6. PICK q : q = c.req
    OBVIOUS
  <2>7. r \in Bytes /\ q \in Bytes
    BY <2>4, <2>5, <2>6, Cat DEF Join
  <2>8. m = UnconnectedSend(q, r, c.ms) /\ Routable(q, r) /\ Len(m) <= c.cap
    BY <2>3, <2>5, <2>6 DEF Built
  <2>9. /\ Unwrap(m).req = q /\ Unwrap(m).route = r /\ Unwrap(m).end = Len(m)
        /\ Unwrap(m).wait = 32 * Ticks(c.ms)
    BY <2>4, <2>7, <2>8, RoutedRequest
  <2>10. /\ Min2(c.ms, 8160) <= 32 * Ticks(c.ms)
         /\ 32 * Ticks(c.ms) < c.ms + 32 \/ 32 * Ticks(c.ms) = 32
    BY <2>4, TicksRound
  <2>11. ComesApart(c, m, Unwrap(m))
    BY <2>5, <2>6, <2>8, <2>9, <2>10 DEF ComesApart
  <2>12. QED
    BY <2>1, <2>2, <2>11
<1>2. QED
  BY <1>1, Invariant, PTL

\* ConnsAgree: every connection in the client's table, and every one a Forward_Close on the wire
\* names, is one the controller has or dropped by its idle timeout, and the controller has none the
\* client has forgotten without a fault, for any connections and any threads.
THEOREM ConnectionsAgree == Spec => []ConnsAgree
<1>1. ASSUME Inv PROVE ConnsAgree
  <2>1. \A t \in Threads : \A i : HoldsId(t, i) => i \in Moving
    BY HoldersAnswer, AnswersMove
  <2>2. \A i : Known(i) => i \in Tabled
    BY DEF Known, Tabled
  <2>3. conns \ (Tabled \cup Moving) \subseteq Stray
    BY <2>1, <2>2 DEF Stray
  <2>4. Tabled \subseteq conns \cup expired
    BY <1>1 DEF Inv, Connections, Single, Tabled
  <2>5. IsFiniteSet(Stray) /\ Cardinality(Stray) <= faults /\ faults \in Nat
    BY <1>1, StrayFinite DEF Inv, Connections, Counters
  <2>6. Cardinality(conns \ (Tabled \cup Moving)) <= faults
    BY <2>3, <2>5, FewerStray
  <2>7. ASSUME NEW t \in Threads, thr[t].pc = "sent", thr[t].call.op = "close"
        PROVE  SubSeq(thr[t].msg, 9, 16) \in conns \cup expired
    <3>1. PICK c, m : c = thr[t].call /\ m = thr[t].msg
      OBVIOUS
    <3>2. c \in Calls /\ Built(c, m, thr[t].cap)
      BY <1>1, <2>7, <3>1, SentIs DEF Inv
    <3>3. SubSeq(m, 9, 16) = Identity(c.conn)
      BY <2>7, <3>1, <3>2, Arguments, FcRequest DEF Built
    <3>4. HoldsId(t, Identity(c.conn))
      BY <2>7, <3>1 DEF HoldsId, Holds, Closing
    <3>5. QED
      BY <1>1, <3>1, <3>3, <3>4 DEF Inv, Connections, Single
  <2>8. ClosedOnWire \subseteq conns \cup expired
    BY <2>7 DEF ClosedOnWire
  <2>9. QED
    BY <2>4, <2>6, <2>8 DEF ConnsAgree
<1>2. QED
  BY <1>1, Invariant, PTL

\* RejectionReported: every BP_ERR_CIP_STATUS has its record, or a later one, until it is read,
\* and carries the controller's status, or 0xFF and 0 for what was cut off.
THEOREM RejectionsAreReported == Spec => []RejectionReported
<1>1. ASSUME Inv PROVE RejectionReported
  <2>1. cipErr # None => cipErr.id > taken
    BY <1>1 DEF Inv, Recording
  <2>2. ASSUME NEW t \in Threads, thr[t].pc = "idle", thr[t].out.rc = "CIP_STATUS"
        PROVE  /\ taken >= thr[t].id \/ (cipErr # None /\ cipErr.id >= thr[t].id)
               /\ Rejects(thr[t].out.val, thr[t].plc)
    <3>1. Reported(t) /\ Settled(thr[t], faults)
      BY <1>1 DEF Inv, Reporting, Threading, Good
    <3>2. taken >= thr[t].id \/ (cipErr # None /\ cipErr.id >= thr[t].id)
      BY <1>1, <2>2, <3>1 DEF Reported, Inv, Recording
    <3>3. QED
      BY <2>2, <3>1, <3>2 DEF Settled
  <2>3. QED
    BY <2>1, <2>2 DEF RejectionReported, Rejects, Told
<1>2. QED
  BY <1>1, Invariant, PTL
=============================================================================
