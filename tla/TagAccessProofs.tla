-------------------------- MODULE TagAccessProofs --------------------------
(***************************************************************************)
(* Proofs about tag access, for any number of threads, any calls of the    *)
(* types of bpclient.h, any controller memory and any width of a byte.     *)
(*                                                                         *)
(* The encodings come first: sums, powers and the byte order are proved by *)
(* induction on sets of numbers (Induct, from the least element of a set), *)
(* so that decoding and encoding agree with the controller for every value *)
(* of every type.  Then two inductive invariants.  BInv: every thread at   *)
(* the engine has the requests its call asks for, each with its own bytes  *)
(* in the data area, and a request with result 0 has bytes there that its  *)
(* tag has held during the call.  SInv: the first LEN bytes of a string    *)
(* are never NUL, for the LEN in the controller, for one a reader has in   *)
(* hand and for one that is still to be written, and a string that was     *)
(* written undisturbed is there, whole, until the next write begins.       *)
(***************************************************************************)
EXTENDS TagAccess, WellFoundedInduction, TLAPS

-----------------------------------------------------------------------------
(* Induction, sums and powers *)

\* A set of numbers that has elements has a least one.
LEMMA LeastNat ==
  ASSUME NEW S \in SUBSET Nat, S # {}
  PROVE  \E x \in S : \A y \in S : x <= y
<1>1. PICK x \in S : \A y \in S : ~(<<y, x>> \in OpToRel(<, Nat))
  BY WFMin, NatLessThanWellFounded
<1>2. \A y \in S : <<y, x>> \in OpToRel(<, Nat) <=> y < x
  BY DEF OpToRel
<1>3. \A y \in S : ~(y < x)
  BY <1>1, <1>2
<1>4. \A y \in S : x <= y
  BY <1>3
<1>5. QED
  BY <1>4

\* Induction on Nat, with the set of numbers the claim holds for.
LEMMA Induct ==
  ASSUME NEW S, 0 \in S, \A n \in Nat : n \in S => n + 1 \in S
  PROVE  \A n \in Nat : n \in S
<1>1. SUFFICES ASSUME Nat \ S # {} PROVE FALSE
  OBVIOUS
<1>2. PICK x \in Nat \ S : \A y \in Nat \ S : x <= y
  BY <1>1, LeastNat
<1>3. x # 0 /\ x - 1 \in Nat /\ x - 1 \notin Nat \ S
  BY <1>2
<1>4. x - 1 + 1 \in S
  BY <1>3
<1>5. QED
  BY <1>2, <1>4

\* The same up to a bound.
LEMMA InductTo ==
  ASSUME NEW N \in Nat, NEW S, 0 \in S, \A n \in 0 .. N - 1 : n \in S => n + 1 \in S
  PROVE  \A n \in 0 .. N : n \in S
<1> DEFINE T == {n \in Nat : n <= N => n \in S}
<1>1. 0 \in T
  OBVIOUS
<1>2. \A n \in Nat : n \in T => n + 1 \in T
  OBVIOUS
<1> HIDE DEF T
<1>3. \A n \in Nat : n \in T
  BY <1>1, <1>2, Induct
<1>4. QED
  BY <1>3 DEF T

IsSums(g, s) == s = [i \in 0 .. Len(g) |-> IF i = 0 THEN 0 ELSE s[i - 1] + g[i]]
IsSumsTo(g, n, s) == s \in [0 .. n -> Int] /\ s[0] = 0 /\ \A i \in 1 .. n : s[i] = s[i - 1] + g[i]

\* Partial sums exist: the recursive definition of Sums has a solution.
LEMMA SumsExist ==
  ASSUME NEW g \in Seq(Int)
  PROVE  \E s \in [0 .. Len(g) -> Int] : IsSums(g, s)
<1>0. PICK N \in Nat : N = Len(g)
  OBVIOUS
<1> DEFINE S == {n \in Nat : n <= N => \E s : IsSumsTo(g, n, s)}
<1>1. 0 \in S
  <2> DEFINE z == [i \in 0 .. 0 |-> 0]
  <2>1. IsSumsTo(g, 0, z)
    BY DEF IsSumsTo
  <2>2. QED
    BY <2>1
<1>2. ASSUME NEW n \in 0 .. N - 1, n \in S PROVE n + 1 \in S
  <2>1. PICK s : IsSumsTo(g, n, s)
    BY <1>0, <1>2
  <2> DEFINE z == [i \in 0 .. n + 1 |-> IF i = n + 1 THEN s[n] + g[n + 1] ELSE s[i]]
  <2>2. g[n + 1] \in Int /\ s[n] \in Int
    BY <1>0, <2>1 DEF IsSumsTo
  <2>3. z \in [0 .. n + 1 -> Int] /\ z[0] = 0
    BY <1>0, <2>1, <2>2 DEF IsSumsTo
  <2>4. \A i \in 1 .. n + 1 : z[i] = z[i - 1] + g[i]
    <3>1. \A i \in 1 .. n : z[i] = s[i] /\ z[i - 1] = s[i - 1] /\ s[i] = s[i - 1] + g[i]
      BY SMTT(40), <2>1 DEF IsSumsTo
    <3>2. z[n + 1] = s[n] + g[n + 1] /\ z[n] = s[n]
      OBVIOUS
    <3>3. \A i \in 1 .. n + 1 : i \in 1 .. n \/ i = n + 1
      OBVIOUS
    <3> HIDE DEF z
    <3>4. n + 1 - 1 = n
      OBVIOUS
    <3>5. QED
      BY <3>1, <3>2, <3>3, <3>4
  <2>5. IsSumsTo(g, n + 1, z)
    BY <2>3, <2>4 DEF IsSumsTo
  <2>6. QED
    BY <1>0, <2>5
<1> HIDE DEF S
<1>2a. \A n \in 0 .. N - 1 : n \in S => n + 1 \in S
  BY <1>2
<1>2b. \A n \in 0 .. N : n \in S
  BY <1>1, <1>2a, InductTo
<1>3. N \in S
  BY <1>2b
<1>4. PICK s : IsSumsTo(g, N, s)
  BY <1>0, <1>3 DEF S
<1>5. s = [i \in 0 .. Len(g) |-> IF i = 0 THEN 0 ELSE s[i - 1] + g[i]]
  BY <1>0, <1>4 DEF IsSumsTo
<1>6. QED
  BY <1>4, <1>5 DEF IsSums, IsSumsTo

\* Sums(g) starts at 0 and adds one element at a time.
LEMMA SumsStep ==
  ASSUME NEW g \in Seq(Int)
  PROVE  /\ Sums(g) \in [0 .. Len(g) -> Int] /\ Sums(g)[0] = 0
         /\ \A i \in 1 .. Len(g) : Sums(g)[i] = Sums(g)[i - 1] + g[i]
<1>0. PICK N \in Nat : N = Len(g)
  OBVIOUS
<1>1. PICK s \in [0 .. Len(g) -> Int] : IsSums(g, s)
  BY SumsExist
<1>2. IsSums(g, Sums(g))
  BY <1>1 DEF IsSums, Sums
<1>3. PICK z : z = Sums(g)
  OBVIOUS
<1>4. z = [i \in 0 .. N |-> IF i = 0 THEN 0 ELSE z[i - 1] + g[i]]
  BY <1>0, <1>2, <1>3 DEF IsSums
<1>5. z[0] = 0 /\ \A i \in 1 .. N : g[i] \in Int /\ z[i] = z[i - 1] + g[i]
  <2>1. \A i \in 1 .. N : g[i] \in Int
    BY <1>0
  <2>2. \A i \in 0 .. N : z[i] = IF i = 0 THEN 0 ELSE z[i - 1] + g[i]
    BY <1>4
  <2>3. QED
    BY <2>1, <2>2
<1> DEFINE S == {n \in Nat : z[n] \in Int}
<1>6. 0 \in S
  BY <1>5
<1>7. \A n \in 0 .. N - 1 : n \in S => n + 1 \in S
  BY SMTT(40), <1>5
<1> HIDE DEF S
<1>8. \A n \in 0 .. N : n \in S
  BY <1>6, <1>7, InductTo
<1>9. z \in [0 .. N -> Int]
  BY <1>4, <1>8 DEF S
<1>10. QED
  BY <1>0, <1>3, <1>5, <1>9

IsPow(f, n) == f \in [0 .. n -> Nat] /\ f[0] = 1 /\ \A i \in 1 .. n : f[i] = 2 * f[i - 1]
PowTo(n) == CHOOSE f : IsPow(f, n)

\* The powers of 2 up to n exist, for every n.
LEMMA PowToIs == \A n \in Nat : IsPow(PowTo(n), n)
<1> DEFINE S == {n \in Nat : \E f : IsPow(f, n)}
<1>1. 0 \in S
  <2> DEFINE z == [i \in 0 .. 0 |-> 1]
  <2>1. IsPow(z, 0)
    BY DEF IsPow
  <2>2. QED
    BY <2>1
<1>2. ASSUME NEW n \in Nat, n \in S PROVE n + 1 \in S
  <2>1. PICK f : IsPow(f, n)
    BY <1>2
  <2> DEFINE z == [i \in 0 .. n + 1 |-> IF i = n + 1 THEN 2 * f[n] ELSE f[i]]
  <2>3. z \in [0 .. n + 1 -> Nat] /\ z[0] = 1
    BY <2>1 DEF IsPow
  <2>4. \A i \in 1 .. n + 1 : z[i] = 2 * z[i - 1]
    BY <2>1 DEF IsPow
  <2>5. IsPow(z, n + 1)
    BY <2>3, <2>4 DEF IsPow
  <2>6. QED
    BY <2>5
<1> HIDE DEF S
<1>3. \A n \in Nat : n \in S
  BY <1>1, <1>2, Induct
<1>4. \A n \in Nat : \E f : IsPow(f, n)
  BY <1>3 DEF S
<1>5. QED
  BY <1>4 DEF PowTo

\* Longer tables of powers agree with shorter ones.
LEMMA PowToSame ==
  ASSUME NEW n \in Nat
  PROVE  PowTo(n + 1)[n] = PowTo(n)[n]
<1>1. PICK f : f = PowTo(n)
  OBVIOUS
<1>2. PICK g : g = PowTo(n + 1)
  OBVIOUS
<1>3. IsPow(f, n) /\ IsPow(g, n + 1)
  BY <1>1, <1>2, PowToIs
<1> DEFINE S == {i \in Nat : f[i] = g[i]}
<1>4. 0 \in S
  BY <1>3 DEF IsPow
<1>5. \A i \in 0 .. n - 1 : i \in S => i + 1 \in S
  BY <1>3 DEF IsPow
<1> HIDE DEF S
<1>6. n \in S
  BY <1>4, <1>5, InductTo
<1>7. QED
  BY <1>1, <1>2, <1>6 DEF S

IsPow2(p) == p = [n \in Nat |-> IF n = 0 THEN 1 ELSE 2 * p[n - 1]]

\* Pow2 doubles at every step and is never 0.
LEMMA Pow2Step == Pow2 \in [Nat -> Nat \ {0}] /\ Pow2[0] = 1 /\ \A n \in Nat : Pow2[n + 1] = 2 * Pow2[n]
<1> DEFINE q == [n \in Nat |-> PowTo(n)[n]]
<1>1. q[0] = 1
  BY PowToIs DEF IsPow
<1>2. \A n \in Nat : q[n + 1] = 2 * q[n]
  <2>1. SUFFICES ASSUME NEW n \in Nat PROVE PowTo(n + 1)[n + 1] = 2 * PowTo(n)[n]
    OBVIOUS
  <2>2. PowTo(n + 1)[n + 1] = 2 * PowTo(n + 1)[n]
    BY PowToIs DEF IsPow
  <2>3. QED
    BY <2>2, PowToSame
<1>3. PICK r : r = q
  OBVIOUS
<1>4. DOMAIN r = Nat /\ r[0] = 1 /\ r = [n \in Nat |-> r[n]]
  BY <1>1, <1>3
<1>5. \A n \in Nat : r[n + 1] = 2 * r[n]
  BY <1>2, <1>3
<1>6. \A n \in Nat : n # 0 => r[n] = 2 * r[n - 1]
  <2>1. TAKE n \in Nat
  <2>2. CASE n # 0
    <3>1. n - 1 \in Nat /\ (n - 1) + 1 = n
      BY <2>2
    <3>2. QED
      BY <3>1, <1>5
  <2>3. QED
    BY <2>2
<1>7. IsPow2(r)
  BY <1>4, <1>6 DEF IsPow2
<1>8. IsPow2(Pow2)
  BY <1>7 DEF IsPow2, Pow2
<1>9. PICK p : p = Pow2
  OBVIOUS
<1>10. p = [n \in Nat |-> IF n = 0 THEN 1 ELSE 2 * p[n - 1]]
  BY <1>8, <1>9 DEF IsPow2
<1>11. p[0] = 1 /\ \A n \in Nat : p[n + 1] = 2 * p[n]
  BY <1>10
<1> DEFINE S == {n \in Nat : p[n] \in Nat \ {0}}
<1>12. 0 \in S
  BY <1>11
<1>13. \A n \in Nat : n \in S => n + 1 \in S
  BY <1>11
<1> HIDE DEF S
<1>14. \A n \in Nat : n \in S
  BY <1>12, <1>13, Induct
<1>15. p \in [Nat -> Nat \ {0}]
  BY <1>10, <1>14 DEF S
<1>16. QED
  BY <1>9, <1>11, <1>15

-----------------------------------------------------------------------------
(* Bytes and numbers *)

\* Division with remainder.
LEMMA DivMod ==
  ASSUME NEW a \in Int, NEW n \in Nat \ {0}
  PROVE  a = n * (a \div n) + (a % n) /\ a % n \in 0 .. n - 1 /\ a \div n \in Int
  OBVIOUS

\* Quotient and remainder are determined.
LEMMA DivIs ==
  ASSUME NEW a \in Int, NEW n \in Nat \ {0}, NEW q \in Int, NEW r \in 0 .. n - 1, a = n * q + r
  PROVE  a \div n = q /\ a % n = r
  OBVIOUS

\* Multiplying by a number keeps the order.
LEMMA MulLe ==
  ASSUME NEW c \in Nat, NEW d \in Nat, NEW p \in Nat, c <= d
  PROVE  c * p \in Nat /\ d * p \in Nat /\ c * p <= d * p
  OBVIOUS

\* Powers multiply when exponents add.
LEMMA Pow2Add == \A a, b \in Nat : Pow2[a + b] = Pow2[a] * Pow2[b]
<1>1. TAKE a \in Nat
<1> DEFINE S == {b \in Nat : Pow2[a + b] = Pow2[a] * Pow2[b]}
<1>2. 0 \in S
  <2>1. Pow2[a] \in Nat /\ Pow2[0] = 1 /\ a + 0 = a
    BY Pow2Step
  <2>2. QED
    BY <2>1
<1>3. ASSUME NEW b \in Nat, b \in S PROVE b + 1 \in S
  <2>0. a + b \in Nat /\ Pow2[a + b] \in Nat /\ Pow2[a] \in Nat /\ Pow2[b] \in Nat
    BY Pow2Step
  <2>1. PICK x \in Nat, y \in Nat, z \in Nat : x = Pow2[a + b] /\ y = Pow2[a] /\ z = Pow2[b]
    BY <2>0
  <2>2. x = y * z
    BY <1>3, <2>1
  <2>3. Pow2[(a + b) + 1] = 2 * x /\ Pow2[b + 1] = 2 * z
    BY <2>1, Pow2Step
  <2>4. a + (b + 1) = (a + b) + 1
    OBVIOUS
  <2>5. 2 * x = y * (2 * z)
    BY <2>2
  <2>6. QED
    BY <2>1, <2>3, <2>4, <2>5
<1> HIDE DEF S
<1>4. \A n \in Nat : n \in S => n + 1 \in S
  BY <1>3
<1>5. \A b \in Nat : b \in S
  BY <1>2, <1>4, Induct
<1>6. QED
  BY <1>5 DEF S

\* What i bytes can count to.
Span(i) == Pow2[ByteBits * i]

\* A byte counts to an even number that is not 0.
LEMMA ByteIs ==
  /\ ByteBits \in Nat \ {0} /\ WordBits \in Nat \ {0}
  /\ Byte \in Nat /\ Byte \div 2 \in Nat \ {0} /\ Byte = 2 * (Byte \div 2)
<1>1. ByteBits \in Nat \ {0}
  BY TagAccessAssumption
<1>2. PICK k \in Nat : ByteBits = k + 1
  <2>1. ByteBits - 1 \in Nat /\ ByteBits = (ByteBits - 1) + 1
    BY <1>1
  <2>2. QED
    BY <2>1
<1>3. Byte = 2 * Pow2[k] /\ Pow2[k] \in Nat \ {0}
  BY <1>2, Pow2Step DEF Byte
<1>4. PICK y \in Nat \ {0} : y = Pow2[k]
  BY <1>3
<1>5. Byte = 2 * y
  BY <1>3, <1>4
<1>6. Byte \in Nat /\ Byte \div 2 = y
  BY <1>5
<1>7. WordBits \in Nat \ {0}
  BY <1>1 DEF WordBits
<1>8. QED
  BY <1>1, <1>5, <1>6, <1>7

\* Every byte more multiplies what can be counted.
LEMMA SpanStep ==
  /\ Span(0) = 1 /\ Span(1) = Byte
  /\ \A i \in Nat : Span(i) \in Nat \ {0} /\ Span(i + 1) = Span(i) * Byte
<1>1. \A i \in Nat : ByteBits * i \in Nat /\ ByteBits * (i + 1) = ByteBits * i + ByteBits
  BY ByteIs
<1>2. ByteBits * 0 = 0 /\ ByteBits * 1 = ByteBits
  BY ByteIs
<1>3. \A i \in Nat : Span(i) \in Nat \ {0}
  BY <1>1, Pow2Step DEF Span
<1>4. \A i \in Nat : Span(i + 1) = Span(i) * Byte
  BY <1>1, Pow2Add, ByteIs DEF Span, Byte
<1>5. QED
  BY <1>2, <1>3, <1>4, Pow2Step DEF Span, Byte

\* u[i] is the value of the first i bytes of b.
IsUnsigned(b, u) ==
    /\ u \in [0 .. Len(b) -> Nat] /\ u[0] = 0
    /\ \A i \in 1 .. Len(b) : u[i] = u[i - 1] + b[i] * Span(i - 1)
    /\ \A i \in 0 .. Len(b) : u[i] < Span(i)

\* Unsigned adds the bytes up, least significant first.
LEMMA UnsignedIs ==
  ASSUME NEW b \in Seq(0 .. Byte - 1)
  PROVE  \E u : IsUnsigned(b, u) /\ Unsigned(b) = u[Len(b)]
<1>0. PICK n \in Nat : n = Len(b)
  OBVIOUS
<1>1. \A i \in 1 .. n : b[i] \in Nat /\ b[i] <= Byte - 1
  BY <1>0, ByteIs
<1>2. \A i \in 1 .. n : i - 1 \in Nat /\ Span(i - 1) \in Nat \ {0}
  <2>1. \A i \in 1 .. n : i - 1 \in Nat
    OBVIOUS
  <2>2. QED
    BY <2>1, SpanStep
<1> DEFINE g == [i \in 1 .. Len(b) |-> b[i] * Pow2[ByteBits * (i - 1)]]
<1>3. \A i \in 1 .. n : b[i] * Span(i - 1) \in Int
  BY <1>1, <1>2
<1>4. g \in Seq(Int) /\ Len(g) = n /\ \A i \in 1 .. n : g[i] = b[i] * Span(i - 1)
  <2>1. g = [i \in 1 .. n |-> b[i] * Span(i - 1)]
    BY <1>0 DEF Span
  <2> HIDE DEF g
  <2>2. g \in Seq(Int)
    BY <1>3, <2>1
  <2>3. Len(g) = n
    BY <2>1
  <2>4. QED
    BY <2>1, <2>2, <2>3
<1>5. Unsigned(b) = Sums(g)[n]
  BY <1>0 DEF Unsigned
<1> HIDE DEF g
<1>6. PICK u : u = Sums(g)
  OBVIOUS
<1>7. u \in [0 .. n -> Int] /\ u[0] = 0 /\ \A i \in 1 .. n : u[i] = u[i - 1] + g[i]
  BY <1>4, <1>6, SumsStep
<1>8. \A i \in 1 .. n : u[i] = u[i - 1] + b[i] * Span(i - 1)
  BY <1>4, <1>7
<1> DEFINE S == {i \in 0 .. n : u[i] \in Nat /\ u[i] < Span(i)}
<1>9. 0 \in S
  <2>1. Span(0) = 1 /\ u[0] = 0 /\ 0 \in 0 .. n
    BY <1>7, SpanStep
  <2>2. QED
    BY <2>1
<1>10. ASSUME NEW i \in 0 .. n - 1, i \in S PROVE i + 1 \in S
  <2>1. PICK x \in Nat : x = u[i]
    BY <1>10
  <2>2. PICK p \in Nat \ {0} : p = Span(i)
    BY SpanStep
  <2>3. PICK c \in Nat : c = b[i + 1] /\ c <= Byte - 1
    BY <1>1
  <2>4. PICK B \in Nat : B = Byte
    BY ByteIs
  <2>5. u[i + 1] = x + c * p
    BY <1>8, <2>1, <2>2, <2>3
  <2>6. Span(i + 1) = p * B
    BY <2>2, <2>4, SpanStep
  <2>7. x < p
    BY <1>10, <2>1, <2>2
  <2>8. c * p \in Nat /\ c * p <= (B - 1) * p
    <3>1. c <= B - 1 /\ B - 1 \in Nat
      BY <2>3, <2>4
    <3>2. QED
      BY <3>1, MulLe
  <2>9. (B - 1) * p = p * B - p
    OBVIOUS
  <2>10. x + c * p \in Nat /\ x + c * p < p * B
    BY <2>7, <2>8, <2>9
  <2>11. i + 1 \in 0 .. n
    OBVIOUS
  <2>12. QED
    BY <2>5, <2>6, <2>10, <2>11
<1> HIDE DEF S
<1>11. \A i \in 0 .. n - 1 : i \in S => i + 1 \in S
  BY <1>10
<1>12. \A i \in 0 .. n : i \in S
  BY <1>9, <1>11, InductTo
<1>13. \A i \in 0 .. n : u[i] \in Nat /\ u[i] < Span(i)
  BY <1>12 DEF S
<1>14. u \in [0 .. n -> Nat]
  BY <1>7, <1>13
<1>15. IsUnsigned(b, u)
  BY <1>0, <1>7, <1>8, <1>13, <1>14 DEF IsUnsigned
<1>16. QED
  BY <1>0, <1>5, <1>6, <1>15

\* h[k] is the value of the last k bytes of b, when the last one counts for top.
IsHorner(b, top, n, h) ==
    /\ h \in [1 .. n -> Int] /\ h[1] = top
    /\ \A i \in 2 .. n : h[i] = h[i - 1] * Byte + b[Len(b) + 1 - i]

TopOf(type, b) ==
    IF type \in SignedTypes /\ b[Len(b)] >= Byte \div 2 THEN b[Len(b)] - Byte ELSE b[Len(b)]

HornerFn(b, top, h) ==
    h = [i \in 1 .. Len(b) |-> IF i = 1 THEN top ELSE h[i - 1] * Byte + b[Len(b) + 1 - i]]

\* The recursive function inside PlcValue has a solution.
LEMMA HornerExists ==
  ASSUME NEW b \in Seq(0 .. Byte - 1), NEW top \in Int, Len(b) # 0
  PROVE  \E h : HornerFn(b, top, h) /\ IsHorner(b, top, Len(b), h)
<1>0. PICK n \in Nat \ {0} : n = Len(b)
  OBVIOUS
<1>1. PICK B \in Nat : B = Byte
  BY ByteIs
<1>2. \A i \in 1 .. n : b[i] \in Int
  BY <1>0, ByteIs
<1> DEFINE S == {k \in Nat : \E h : IsHorner(b, top, k + 1, h)}
<1>3. 0 \in S
  <2> DEFINE z == [i \in 1 .. 1 |-> top]
  <2>1. z \in [1 .. 1 -> Int] /\ z[1] = top /\ \A i \in 2 .. 1 : z[i] = z[i - 1] * Byte + b[Len(b) + 1 - i]
    OBVIOUS
  <2>2. IsHorner(b, top, 0 + 1, z)
    BY <2>1 DEF IsHorner
  <2>3. QED
    BY <2>2
<1>4. ASSUME NEW k \in 0 .. (n - 1) - 1, k \in S PROVE k + 1 \in S
  <2>1. PICK h : IsHorner(b, top, k + 1, h)
    BY <1>4
  <2>2. PICK m \in Nat : m = k + 1 /\ m >= 1 /\ m < n
    OBVIOUS
  <2>3. h \in [1 .. m -> Int] /\ h[1] = top /\ \A i \in 2 .. m : h[i] = h[i - 1] * B + b[n + 1 - i]
    BY <1>0, <1>1, <2>1, <2>2 DEF IsHorner
  <2>4. PICK v \in Int : v = h[m] * B + b[n - m]
    <3>1. h[m] \in Int /\ b[n - m] \in Int
      BY <1>2, <2>2, <2>3
    <3>2. QED
      BY <3>1
  <2> DEFINE z == [i \in 1 .. m + 1 |-> IF i = m + 1 THEN v ELSE h[i]]
  <2>5. z \in [1 .. m + 1 -> Int] /\ z[1] = top
    BY <2>2, <2>3
  <2>6. \A i \in 2 .. m : z[i] = h[i] /\ z[i - 1] = h[i - 1]
    OBVIOUS
  <2>7. z[m + 1] = v /\ z[m] = h[m]
    BY <2>2
  <2> HIDE DEF z
  <2>8. \A i \in 2 .. m + 1 : z[i] = z[i - 1] * B + b[n + 1 - i]
    <3>1. TAKE i \in 2 .. m + 1
    <3>2. CASE i \in 2 .. m
      BY <2>3, <2>6, <3>2
    <3>3. CASE i = m + 1
      <4>1. i - 1 = m /\ n + 1 - i = n - m
        BY <3>3
      <4>2. QED
        BY <2>4, <2>7, <3>3, <4>1
    <3>4. QED
      BY <3>2, <3>3
  <2>9. IsHorner(b, top, m + 1, z)
    BY <1>0, <1>1, <2>5, <2>8 DEF IsHorner
  <2>10. QED
    BY <2>2, <2>9
<1> HIDE DEF S
<1>5. \A k \in 0 .. (n - 1) - 1 : k \in S => k + 1 \in S
  BY <1>4
<1>6. n - 1 \in Nat
  OBVIOUS
<1>7. \A k \in 0 .. n - 1 : k \in S
  BY <1>3, <1>5, <1>6, InductTo
<1>8. n - 1 \in S /\ (n - 1) + 1 = n
  BY <1>7
<1>9. PICK h : IsHorner(b, top, n, h)
  BY <1>8 DEF S
<1>10. HornerFn(b, top, h)
  BY <1>0, <1>9 DEF HornerFn, IsHorner
<1>11. QED
  BY <1>0, <1>9, <1>10

\* The most significant byte, with its sign, is an integer.
LEMMA TopType ==
  ASSUME NEW b \in Seq(0 .. Byte - 1), Len(b) # 0, NEW type
  PROVE  TopOf(type, b) \in Int /\ b[Len(b)] \in 0 .. Byte - 1
<1>1. b[Len(b)] \in 0 .. Byte - 1
  <2>1. Len(b) \in 1 .. Len(b)
    OBVIOUS
  <2>2. \A i \in 1 .. Len(b) : b[i] \in 0 .. Byte - 1
    BY ByteIs
  <2>3. QED
    BY <2>1, <2>2
<1>2. QED
  BY <1>1, ByteIs DEF TopOf

\* What satisfies the recursion of PlcValue has the values it should.
LEMMA HornerTyped ==
  ASSUME NEW b \in Seq(0 .. Byte - 1), Len(b) # 0, NEW top \in Int, NEW h, HornerFn(b, top, h)
  PROVE  IsHorner(b, top, Len(b), h)
<1>0. PICK n \in Nat \ {0} : n = Len(b)
  OBVIOUS
<1>1. PICK B \in Nat : B = Byte
  BY ByteIs
<1>2. \A i \in 1 .. n : b[i] \in Int
  BY <1>0, ByteIs
<1>3. h = [i \in 1 .. n |-> IF i = 1 THEN top ELSE h[i - 1] * B + b[n + 1 - i]]
  BY <1>0, <1>1 DEF HornerFn
<1>4. h[1] = top /\ \A i \in 2 .. n : h[i] = h[i - 1] * B + b[n + 1 - i]
  <2>1. \A i \in 1 .. n : h[i] = IF i = 1 THEN top ELSE h[i - 1] * B + b[n + 1 - i]
    BY <1>3
  <2>2. QED
    BY <2>1
<1> DEFINE S == {k \in Nat : h[k + 1] \in Int}
<1>5. 0 \in S
  BY <1>4
<1>6. ASSUME NEW k \in 0 .. (n - 1) - 1, k \in S PROVE k + 1 \in S
  <2>1. PICK i \in 2 .. n : i = k + 2
    OBVIOUS
  <2>2. i - 1 = k + 1 /\ n + 1 - i \in 1 .. n /\ (k + 1) + 1 = i
    BY <2>1
  <2>3. h[i - 1] \in Int /\ b[n + 1 - i] \in Int
    BY <1>2, <1>6, <2>2
  <2>4. h[i] \in Int
    BY <1>4, <2>3
  <2>5. QED
    BY <2>2, <2>4
<1> HIDE DEF S
<1>7. \A k \in 0 .. (n - 1) - 1 : k \in S => k + 1 \in S
  BY <1>6
<1>8. n - 1 \in Nat
  OBVIOUS
<1>9. \A k \in 0 .. n - 1 : k \in S
  BY <1>5, <1>7, <1>8, InductTo
<1>10. \A i \in 1 .. n : h[i] \in Int
  <2>1. TAKE i \in 1 .. n
  <2>2. i - 1 \in 0 .. n - 1 /\ (i - 1) + 1 = i
    OBVIOUS
  <2>3. QED
    BY <1>9, <2>2 DEF S
<1>11. h \in [1 .. n -> Int]
  BY <1>3, <1>10
<1>12. QED
  BY <1>0, <1>1, <1>4, <1>11 DEF IsHorner

\* PlcValue is the last step of its recursion.
LEMMA PlcHorner ==
  ASSUME NEW b \in Seq(0 .. Byte - 1), Len(b) # 0, NEW type, type # "BOOL"
  PROVE  \E h : IsHorner(b, TopOf(type, b), Len(b), h) /\ PlcValue(type, b) = h[Len(b)]
<1>1. PICK h : HornerFn(b, TopOf(type, b), h)
  BY TopType, HornerExists
<1>2. PlcValue(type, b) = (CHOOSE g : HornerFn(b, TopOf(type, b), g))[Len(b)]
  BY Zenon DEF PlcValue, HornerFn, TopOf
<1>3. HornerFn(b, TopOf(type, b), CHOOSE g : HornerFn(b, TopOf(type, b), g))
  BY <1>1
<1>4. QED
  BY <1>2, <1>3, TopType, HornerTyped

\* Adding the bytes up from either end gives the same number, less the sign's share.
LEMMA HornerSum ==
  ASSUME NEW b \in Seq(0 .. Byte - 1), Len(b) # 0, NEW top \in Int, NEW h, NEW u, NEW s \in {0, 1},
         IsHorner(b, top, Len(b), h), IsUnsigned(b, u), top = b[Len(b)] - s * Byte
  PROVE  h[Len(b)] = u[Len(b)] - s * Span(Len(b))
<1>0. PICK n \in Nat \ {0} : n = Len(b)
  OBVIOUS
<1>1. PICK B \in Nat : B = Byte
  BY ByteIs
<1>2. \A i \in 1 .. n : b[i] \in Int
  BY <1>0, ByteIs
<1>3. h \in [1 .. n -> Int] /\ h[1] = top /\ \A i \in 2 .. n : h[i] = h[i - 1] * B + b[n + 1 - i]
  BY <1>0, <1>1 DEF IsHorner
<1>4. u \in [0 .. n -> Nat] /\ u[0] = 0 /\ \A i \in 1 .. n : u[i] = u[i - 1] + b[i] * Span(i - 1)
  BY <1>0 DEF IsUnsigned
<1>5. \A i \in 0 .. n : Span(i) \in Nat
  <2>1. \A i \in 0 .. n : i \in Nat
    OBVIOUS
  <2>2. QED
    BY <2>1, SpanStep
<1>6. PICK total \in Int : total = u[n] - s * Span(n)
  <2>1. u[n] \in Int /\ Span(n) \in Int /\ s \in Int
    BY <1>4, <1>5
  <2>2. QED
    BY <2>1
<1> DEFINE S == {k \in 0 .. n - 1 : u[n - (k + 1)] + Span(n - (k + 1)) * h[k + 1] = total}
<1>7. 0 \in S
  <2>1. PICK m \in Nat : n = m + 1
    <3>1. n - 1 \in Nat /\ n = (n - 1) + 1
      OBVIOUS
    <3>2. QED
      BY <3>1
  <2>2. Span(n) = Span(m) * B
    BY <1>1, <2>1, SpanStep
  <2>3. u[n] = u[m] + b[n] * Span(m)
    BY <1>4, <2>1
  <2>4. h[1] = b[n] - s * B
    BY <1>0, <1>1, <1>3
  <2>5. PICK p \in Int, x \in Int, c \in Int : p = Span(m) /\ x = u[m] /\ c = b[n]
    BY SMTT(40), <1>2, <1>4, <1>5, <2>1
  <2>6. s \in Int
    OBVIOUS
  <2>7. x + p * (c - s * B) = x + c * p - s * (p * B)
    BY <2>6
  <2>8. u[m] + Span(m) * h[1] = total
    <3>0. u[n] = x + c * p /\ Span(n) = p * B
      BY <2>2, <2>3, <2>5
    <3>1. total = (x + c * p) - s * (p * B)
      BY <1>6, <3>0
    <3>2. u[m] + Span(m) * h[1] = x + p * (c - s * B)
      BY <2>4, <2>5
    <3>3. QED
      BY <2>7, <3>1, <3>2
  <2>9. n - (0 + 1) = m /\ 0 + 1 = 1 /\ 0 \in 0 .. n - 1
    BY <2>1
  <2>10. QED
    BY <2>8, <2>9
<1>8. ASSUME NEW k \in 0 .. (n - 1) - 1, k \in S PROVE k + 1 \in S
  <2>1. PICK m \in Nat : n = m + k + 2
    <3>1. n - k - 2 \in Nat /\ n = (n - k - 2) + k + 2
      OBVIOUS
    <3>2. QED
      BY <3>1
  <2>2. n - (k + 1) = m + 1 /\ n - ((k + 1) + 1) = m /\ n + 1 - (k + 2) = m + 1 /\ (k + 2) - 1 = k + 1 /\ (k + 1) + 1 = k + 2
    BY <2>1
  <2>3. Span(m + 1) = Span(m) * B
    BY <1>1, SpanStep
  <2>4. u[m + 1] = u[m] + b[m + 1] * Span(m)
    <3>1. m + 1 \in 1 .. n /\ (m + 1) - 1 = m
      BY <2>1
    <3>2. QED
      BY <1>4, <3>1
  <2>5. h[k + 2] = h[k + 1] * B + b[m + 1]
    <3>1. k + 2 \in 2 .. n
      OBVIOUS
    <3>2. QED
      BY <1>3, <2>2, <3>1
  <2>6. PICK p \in Int, x \in Int, c \in Int, y \in Int : p = Span(m) /\ x = u[m] /\ c = b[m + 1] /\ y = h[k + 1]
    <3>1. m \in 0 .. n /\ m + 1 \in 1 .. n /\ k + 1 \in 1 .. n
      BY <2>1
    <3>2. Span(m) \in Int /\ u[m] \in Int /\ b[m + 1] \in Int /\ h[k + 1] \in Int
      <4>1. Span(m) \in Int
        BY SpanStep
      <4>2. u[m] \in Int
        BY <1>4, <3>1
      <4>3. b[m + 1] \in Int
        BY <1>2, <3>1
      <4>4. h[k + 1] \in Int
        BY <1>3, <3>1
      <4>5. QED
        BY <4>1, <4>2, <4>3, <4>4
    <3>3. QED
      BY <3>2
  <2>7. (x + c * p) + (p * B) * y = x + p * (y * B + c)
    OBVIOUS
  <2>8. u[m + 1] + Span(m + 1) * h[k + 1] = total
    BY <1>8, <2>2
  <2>9. u[m] + Span(m) * h[k + 2] = total
    BY <2>3, <2>4, <2>5, <2>6, <2>7, <2>8
  <2>10. k + 1 \in 0 .. n - 1
    OBVIOUS
  <2>11. QED
    BY <2>2, <2>9, <2>10
<1> HIDE DEF S
<1>9. \A k \in 0 .. (n - 1) - 1 : k \in S => k + 1 \in S
  BY <1>8
<1>10. n - 1 \in Nat
  OBVIOUS
<1>11. \A k \in 0 .. n - 1 : k \in S
  BY <1>7, <1>9, <1>10, InductTo
<1>12. n - 1 \in S /\ (n - 1) + 1 = n /\ n - n = 0
  BY <1>11
<1>13. u[n - n] + Span(n - n) * h[n] = total
  BY <1>12 DEF S
<1>14. u[0] + Span(0) * h[n] = total
  BY <1>12, <1>13
<1>15. h[n] \in Int
  BY <1>3
<1>16. h[n] = total
  <2>1. u[0] = 0 /\ Span(0) = 1
    BY <1>4, SpanStep
  <2>2. QED
    BY <1>14, <1>15, <2>1
<1>17. QED
  BY <1>0, <1>6, <1>16

\* The last byte decides whether the number is in the upper half.
LEMMA UpperHalf ==
  ASSUME NEW b \in Seq(0 .. Byte - 1), Len(b) # 0, NEW u, IsUnsigned(b, u)
  PROVE  2 * u[Len(b)] >= Span(Len(b)) <=> b[Len(b)] >= Byte \div 2
<1>0. PICK n \in Nat : Len(b) = n + 1
  <2>1. Len(b) - 1 \in Nat /\ Len(b) = (Len(b) - 1) + 1
    OBVIOUS
  <2>2. QED
    BY <2>1
<1>1. PICK half \in Nat \ {0} : half = Byte \div 2 /\ Byte = 2 * half
  BY ByteIs
<1>2. PICK p \in Nat \ {0} : p = Span(n)
  BY SpanStep
<1>3. Span(n + 1) = p * (2 * half)
  BY <1>1, <1>2, SpanStep
<1>4. PICK c \in Nat : c = b[n + 1]
  BY <1>0, ByteIs
<1>5. PICK x \in Nat : x = u[n] /\ x < p
  BY <1>0, <1>2 DEF IsUnsigned
<1>6. u[n + 1] = x + c * p
  <2>1. n + 1 \in 1 .. Len(b) /\ (n + 1) - 1 = n
    BY <1>0
  <2>2. QED
    BY <1>2, <1>4, <1>5, <2>1 DEF IsUnsigned
<1>7. c >= half => 2 * (x + c * p) >= p * (2 * half)
  <2>1. HAVE c >= half
  <2>2. half * p <= c * p /\ half * p \in Nat /\ c * p \in Nat
    BY <2>1, MulLe
  <2>3. p * (2 * half) = 2 * (half * p)
    OBVIOUS
  <2>4. QED
    BY <2>2, <2>3
<1>8. ~(c >= half) => ~(2 * (x + c * p) >= p * (2 * half))
  <2>1. HAVE ~(c >= half)
  <2>2. c + 1 <= half
    BY <2>1
  <2>3. (c + 1) * p <= half * p /\ half * p \in Nat /\ (c + 1) * p \in Nat
    BY <2>2, MulLe
  <2>4. p * (2 * half) = 2 * (half * p) /\ (c + 1) * p = c * p + p /\ c * p \in Nat
    OBVIOUS
  <2>5. PICK y \in Nat, z \in Nat : y = c * p /\ z = half * p
    BY <2>3, <2>4
  <2>6. y + p <= z
    BY <2>3, <2>4, <2>5
  <2>7. 2 * (x + y) < 2 * z
    BY <1>5, <2>6
  <2>8. QED
    BY <2>4, <2>5, <2>7
<1>9. QED
  BY <1>0, <1>1, <1>3, <1>4, <1>6, <1>7, <1>8

\* The element sizes.
LEMMA WidthIs ==
  /\ \A type \in DOMAIN Width : Width[type] \in {1, 2, 4, 8}
  /\ Width["BOOL"] = 1 /\ Width["SINT"] = 1 /\ Width["DINT"] = 4 /\ Width["BIT_ARRAY"] = 4
  /\ {"BOOL", "SINT", "DINT", "BIT_ARRAY"} \subseteq DOMAIN Width
  BY DEF Width

\* Decoding (decode_scalar) gives the value the controller means by the bytes, for
\* every type, every byte string of its size and every width of a byte.
THEOREM DecodeIsPlc ==
  ASSUME NEW type \in DOMAIN Width, NEW b \in Seq(0 .. Byte - 1), Len(b) = Width[type]
  PROVE  DecodeScalar(type, b) = PlcValue(type, b)
<1>0. PICK n \in {1, 2, 4, 8} : n = Width[type]
  BY WidthIs
<1>1. Len(b) = n /\ Len(b) # 0
  BY <1>0
<1>2. CASE type = "BOOL"
  <2>1. PlcValue(type, b) = IF b[1] = 0 THEN 0 ELSE 1
    BY <1>2 DEF PlcValue
  <2>2. DecodeScalar(type, b) = IF b[1] # 0 THEN 1 ELSE 0
    BY <1>2 DEF DecodeScalar, SignedTypes
  <2>3. QED
    BY <2>1, <2>2
<1>3. CASE type # "BOOL"
  <2>1. PICK u : IsUnsigned(b, u) /\ Unsigned(b) = u[n]
    BY <1>1, UnsignedIs
  <2>2. PICK h : IsHorner(b, TopOf(type, b), n, h) /\ PlcValue(type, b) = h[n]
    BY <1>1, <1>3, PlcHorner
  <2>3. u[n] \in Int /\ Span(n) \in Int /\ b[n] \in Int /\ Byte \in Int
    BY <1>1, <2>1, SpanStep, ByteIs DEF IsUnsigned
  <2>4. DecodeScalar(type, b) =
          IF type \in SignedTypes /\ 2 * u[n] >= Span(n) THEN u[n] - Span(n) ELSE u[n]
    BY <1>0, <1>3, <2>1 DEF DecodeScalar, Span
  <2>5. 2 * u[n] >= Span(n) <=> b[n] >= Byte \div 2
    BY <1>1, <2>1, UpperHalf
  <2>6. CASE type \in SignedTypes /\ b[n] >= Byte \div 2
    <3>1. TopOf(type, b) = b[n] - 1 * Byte
      BY <1>1, <2>3, <2>6 DEF TopOf
    <3>2. h[n] = u[n] - 1 * Span(n)
      BY <1>1, <2>1, <2>2, <3>1, TopType, HornerSum
    <3>3. QED
      BY <2>2, <2>3, <2>4, <2>5, <2>6, <3>2
  <2>7. CASE ~(type \in SignedTypes /\ b[n] >= Byte \div 2)
    <3>1. TopOf(type, b) = b[n] - 0 * Byte
      BY <1>1, <2>3, <2>7 DEF TopOf
    <3>2. h[n] = u[n] - 0 * Span(n)
      BY <1>1, <2>1, <2>2, <3>1, TopType, HornerSum
    <3>3. QED
      BY <2>2, <2>3, <2>4, <2>5, <2>7, <3>2
  <2>8. QED
    BY <2>6, <2>7
<1>4. QED
  BY <1>2, <1>3

\* What the bytes of EncodeScalar are.
LEMMA EncodeIs ==
  ASSUME NEW type \in DOMAIN Width, NEW v \in Int
  PROVE  /\ EncodeScalar(type, v) \in Seq(0 .. Byte - 1) /\ Len(EncodeScalar(type, v)) = Width[type]
         /\ type # "BOOL" =>
              \A i \in 1 .. Width[type] :
                 EncodeScalar(type, v)[i] = ((v % Span(Width[type])) \div Span(i - 1)) % Byte
<1>0. PICK n \in {1, 2, 4, 8} : n = Width[type]
  BY WidthIs
<1>1. CASE type = "BOOL"
  <2>1. n = 1
    BY <1>0, <1>1, WidthIs
  <2>2. 0 \in 0 .. Byte - 1 /\ 1 \in 0 .. Byte - 1
    BY ByteIs
  <2>3. EncodeScalar(type, v) = <<IF v # 0 THEN 1 ELSE 0>>
    BY <1>1 DEF EncodeScalar
  <2>4. PICK c \in 0 .. Byte - 1 : EncodeScalar(type, v) = <<c>>
    BY <2>2, <2>3
  <2>5. <<c>> \in Seq(0 .. Byte - 1) /\ Len(<<c>>) = 1
    OBVIOUS
  <2>6. QED
    BY <1>0, <1>1, <2>1, <2>4, <2>5
<1>2. CASE type # "BOOL"
  <2>1. \A i \in 1 .. n : i - 1 \in Nat /\ Span(i - 1) \in Nat \ {0}
    <3>1. \A i \in 1 .. n : i - 1 \in Nat
      BY <1>0
    <3>2. QED
      BY <3>1, SpanStep
  <2>2. v % Span(n) \in Int
    <3>1. Span(n) \in Nat \ {0}
      BY SpanStep
    <3>2. QED
      BY <3>1, DivMod
  <2>3. \A i \in 1 .. n : (v % Span(n)) \div Span(i - 1) \in Int
    BY <2>1, <2>2, DivMod
  <2>4. Byte \in Nat \ {0}
    BY ByteIs
  <2>5. \A i \in 1 .. n : ((v % Span(n)) \div Span(i - 1)) % Byte \in 0 .. Byte - 1
    BY <2>3, <2>4, DivMod
  <2>6. EncodeScalar(type, v) = [i \in 1 .. n |-> ((v % Span(n)) \div Span(i - 1)) % Byte]
    BY <1>0, <1>2 DEF EncodeScalar, Span
  <2>7. PICK e : e = EncodeScalar(type, v)
    OBVIOUS
  <2>8. n \in Nat /\ e = [i \in 1 .. n |-> e[i]] /\ \A i \in 1 .. n : e[i] \in 0 .. Byte - 1
    BY <2>5, <2>6, <2>7
  <2>9. e \in Seq(0 .. Byte - 1) /\ Len(e) = n
    <3>1. e \in [1 .. n -> 0 .. Byte - 1]
      BY <2>8
    <3>2. QED
      BY <2>8, <3>1
  <2>10. QED
    BY <1>0, <2>6, <2>7, <2>9
<1>3. QED
  BY <1>1, <1>2

\* The bytes of a number add up to it.
LEMMA EncodeUnsigned ==
  ASSUME NEW type \in DOMAIN Width, type # "BOOL", NEW v \in Int, NEW u,
         IsUnsigned(EncodeScalar(type, v), u)
  PROVE  u[Width[type]] = v % Span(Width[type])
<1>0. PICK n \in Nat : n = Width[type]
  BY WidthIs
<1>1. PICK b : b = EncodeScalar(type, v)
  OBVIOUS
<1>2. b \in Seq(0 .. Byte - 1) /\ Len(b) = n
  BY <1>0, <1>1, EncodeIs
<1>3. Span(n) \in Nat \ {0}
  BY SpanStep
<1>4. PICK m \in Nat : m = v % Span(n) /\ m < Span(n)
  <2>1. v % Span(n) \in 0 .. Span(n) - 1
    BY <1>3, DivMod
  <2>2. QED
    BY <1>3, <2>1
<1>5. \A i \in 1 .. n : b[i] = (m \div Span(i - 1)) % Byte
  BY <1>0, <1>1, <1>4, EncodeIs
<1>6. /\ u \in [0 .. n -> Nat] /\ u[0] = 0
      /\ \A i \in 1 .. n : u[i] = u[i - 1] + b[i] * Span(i - 1)
      /\ \A i \in 0 .. n : u[i] < Span(i)
  BY <1>1, <1>2 DEF IsUnsigned
<1> DEFINE S == {i \in 0 .. n : m = u[i] + Span(i) * (m \div Span(i))}
<1>7. 0 \in S
  <2>1. Span(0) = 1 /\ u[0] = 0
    BY <1>6, SpanStep
  <2>2. m \div 1 = m
    OBVIOUS
  <2>3. m = 0 + 1 * (m \div 1)
    BY <2>2
  <2>4. QED
    BY <2>1, <2>3
<1>8. ASSUME NEW i \in 0 .. n - 1, i \in S PROVE i + 1 \in S
  <2>0. i \in Nat /\ i + 1 \in 1 .. n /\ i + 1 \in 0 .. n /\ (i + 1) - 1 = i
    OBVIOUS
  <2>1. PICK p \in Nat \ {0} : p = Span(i)
    BY <2>0, SpanStep
  <2>2. PICK B \in Nat \ {0} : B = Byte
    BY ByteIs
  <2>3. Span(i + 1) = p * B
    BY <2>0, <2>1, <2>2, SpanStep
  <2>4. PICK q \in Int : q = m \div p
    <3>1. m \in Int
      OBVIOUS
    <3>2. m \div p \in Int
      BY <3>1, DivMod
    <3>3. QED
      BY <3>2
  <2>5. PICK d \in Int, c \in 0 .. B - 1 : c = q % B /\ q = B * d + c
    BY DivMod
  <2>6. PICK x \in Nat : x = u[i] /\ m = x + p * q
    BY <1>6, <1>8, <2>1, <2>4
  <2>7. b[i + 1] = c
    BY <1>5, <2>0, <2>1, <2>2, <2>4, <2>5
  <2>8. PICK y \in Nat : y = u[i + 1] /\ y = x + c * p /\ y < p * B
    <3>1. u[i + 1] = x + c * p
      BY <1>6, <2>0, <2>1, <2>6, <2>7
    <3>2. u[i + 1] \in Nat /\ u[i + 1] < Span(i + 1)
      BY <1>6, <2>0
    <3>3. QED
      BY <2>3, <3>1, <3>2
  <2>9. m = (p * B) * d + y
    <3>1. x + p * (B * d + c) = (p * B) * d + (x + c * p)
      OBVIOUS
    <3>2. QED
      BY <2>5, <2>6, <2>8, <3>1
  <2>10. PICK w \in Nat \ {0} : w = p * B
    OBVIOUS
  <2>11. m = w * d + y /\ y \in 0 .. w - 1
    BY <2>8, <2>9, <2>10
  <2>12. m \div w = d
    BY <2>11, DivIs
  <2>13. m = y + w * (m \div w)
    BY <2>11, <2>12
  <2>14. m = u[i + 1] + Span(i + 1) * (m \div Span(i + 1))
    BY <2>3, <2>8, <2>10, <2>13
  <2>15. QED
    BY <2>0, <2>14
<1> HIDE DEF S
<1>9. \A i \in 0 .. n - 1 : i \in S => i + 1 \in S
  BY <1>8
<1>10. \A i \in 0 .. n : i \in S
  BY <1>7, <1>9, InductTo
<1>11. n \in S
  BY <1>10
<1>12. PICK w \in Nat \ {0} : w = Span(n)
  BY <1>3
<1>13. m = u[n] + w * (m \div w)
  BY <1>11, <1>12 DEF S
<1>14. m = w * 0 + m /\ m \in 0 .. w - 1
  BY <1>4, <1>12
<1>15. m \div w = 0
  BY <1>14, DivIs
<1>16. u[n] \in Nat
  BY <1>6
<1>17. u[n] = m
  BY <1>13, <1>15, <1>16
<1>18. QED
  BY <1>0, <1>4, <1>17

\* Half of what n bytes count to.
LEMMA SpanEven ==
  ASSUME NEW n \in Nat \ {0}
  PROVE  \E half \in Nat \ {0} : Span(n) = 2 * half /\ Span(n) \div 2 = half
<1>1. PICK k \in Nat : n = k + 1
  <2>1. n - 1 \in Nat /\ n = (n - 1) + 1
    OBVIOUS
  <2>2. QED
    BY <2>1
<1>2. PICK p \in Nat \ {0} : p = Span(k)
  BY SpanStep
<1>3. PICK y \in Nat \ {0} : Byte = 2 * y
  BY ByteIs
<1>4. Span(n) = p * (2 * y)
  BY <1>1, <1>2, <1>3, SpanStep
<1>5. PICK half \in Nat \ {0} : half = p * y
  OBVIOUS
<1>6. p * (2 * y) = 2 * half
  BY <1>5
<1>7. Span(n) = 2 * half
  BY <1>4, <1>6
<1>8. (2 * half) \div 2 = half
  OBVIOUS
<1>9. QED
  BY <1>7, <1>8

\* Values are integers.
LEMMA ValuesInt ==
  ASSUME NEW type \in DOMAIN Width, NEW v \in Values(type)
  PROVE  v \in Int
<1>1. PICK n \in Nat \ {0} : n = Width[type]
  BY WidthIs
<1>2. PICK half \in Nat \ {0} : Span(n) = 2 * half /\ Span(n) \div 2 = half
  BY SpanEven
<1>3. Values(type) = IF type = "BOOL" THEN {0, 1}
                     ELSE IF type \in SignedTypes THEN -half .. half - 1 ELSE 0 .. 2 * half - 1
  BY <1>1, <1>2 DEF Values, Span, SignedTypes
<1>4. QED
  BY <1>3

\* Encoding (encode_scalar) gives bytes by which the controller means the value, for
\* every value the C type holds.
THEOREM PlcOfEncode ==
  ASSUME NEW type \in DOMAIN Width, NEW v \in Values(type)
  PROVE  PlcValue(type, EncodeScalar(type, v)) = v
<1>0. v \in Int
  BY ValuesInt
<1>1. PICK n \in Nat \ {0} : n = Width[type]
  BY WidthIs
<1>2. PICK half \in Nat \ {0} : Span(n) = 2 * half /\ Span(n) \div 2 = half
  BY SpanEven
<1>3. Values(type) = IF type = "BOOL" THEN {0, 1}
                     ELSE IF type \in SignedTypes THEN -half .. half - 1 ELSE 0 .. 2 * half - 1
  BY <1>1, <1>2 DEF Values, Span, SignedTypes
<1>4. PICK b : b = EncodeScalar(type, v)
  OBVIOUS
<1>5. b \in Seq(0 .. Byte - 1) /\ Len(b) = n
  BY <1>0, <1>1, <1>4, EncodeIs
<1>6. PlcValue(type, b) = DecodeScalar(type, b)
  BY <1>1, <1>5, DecodeIsPlc
<1>7. CASE type = "BOOL"
  <2>1. v \in {0, 1}
    BY <1>3, <1>7
  <2>2. b[1] = IF v # 0 THEN 1 ELSE 0
    BY <1>4, <1>7 DEF EncodeScalar
  <2>3. DecodeScalar(type, b) = IF b[1] # 0 THEN 1 ELSE 0
    BY <1>7 DEF DecodeScalar, SignedTypes
  <2>4. QED
    BY <1>4, <1>6, <2>1, <2>2, <2>3
<1>8. CASE type # "BOOL"
  <2>1. PICK u : IsUnsigned(b, u) /\ Unsigned(b) = u[n]
    BY <1>5, UnsignedIs
  <2>2. PICK m \in Nat : m = u[n]
    BY <1>5, <2>1 DEF IsUnsigned
  <2>3. m = v % Span(n)
    BY <1>0, <1>1, <1>4, <1>8, <2>1, <2>2, EncodeUnsigned
  <2>4. DecodeScalar(type, b) = IF type \in SignedTypes /\ 2 * m >= Span(n) THEN m - Span(n) ELSE m
    BY <1>1, <1>8, <2>1, <2>2 DEF DecodeScalar, Span
  <2>5. PICK w \in Nat \ {0} : w = Span(n)
    BY <1>2
  <2>6. w = 2 * half /\ m = v % w
    BY <1>2, <2>3, <2>5
  <2>7. v >= 0 /\ v < w => m = v
    <3>1. HAVE v >= 0 /\ v < w
    <3>2. v = w * 0 + v /\ v \in 0 .. w - 1
      BY <1>0, <3>1
    <3>3. QED
      BY <1>0, <2>6, <3>2, DivIs
  <2>8. v < 0 /\ v + w >= 0 => m = v + w
    <3>1. HAVE v < 0 /\ v + w >= 0
    <3>2. v = w * (-1) + (v + w) /\ v + w \in 0 .. w - 1
      BY <1>0, <3>1
    <3>3. -1 \in Int
      OBVIOUS
    <3>4. QED
      BY <1>0, <2>6, <3>2, <3>3, DivIs
  <2>9. CASE type \in SignedTypes
    <3>1. v \in -half .. half - 1
      BY <1>3, <1>8, <2>9
    <3>2. DecodeScalar(type, b) = IF 2 * m >= w THEN m - w ELSE m
      BY <2>4, <2>5, <2>9
    <3>3. CASE v >= 0
      <4>1. m = v /\ ~(2 * m >= w)
        BY <2>6, <2>7, <3>1, <3>3
      <4>2. QED
        BY <1>4, <1>6, <3>2, <4>1
    <3>4. CASE v < 0
      <4>1. m = v + w /\ 2 * m >= w
        BY <2>6, <2>8, <3>1, <3>4
      <4>2. m - w = v
        BY <4>1, <1>0
      <4>3. QED
        BY <1>4, <1>6, <3>2, <4>1, <4>2
    <3>5. QED
      BY <1>0, <3>3, <3>4
  <2>10. CASE type \notin SignedTypes
    <3>1. v \in 0 .. 2 * half - 1
      BY <1>3, <1>8, <2>10
    <3>2. m = v
      BY <2>6, <2>7, <3>1
    <3>3. QED
      BY <1>4, <1>6, <2>4, <2>10, <3>2
  <2>11. QED
    BY <2>9, <2>10
<1>9. QED
  BY <1>7, <1>8

-----------------------------------------------------------------------------
(* Arrays and bits *)

ByteSeq == Seq(0 .. Byte - 1)

\* A part of a sequence.
LEMMA SubSeqIs ==
  ASSUME NEW S, NEW s \in Seq(S), NEW from \in Nat \ {0}, NEW upto \in Nat,
         from <= upto + 1, upto <= Len(s)
  PROVE  /\ SubSeq(s, from, upto) \in Seq(S) /\ Len(SubSeq(s, from, upto)) = upto - from + 1
         /\ \A i \in 1 .. upto - from + 1 : SubSeq(s, from, upto)[i] = s[from + i - 1]
  OBVIOUS

\* Sequences with the same elements are equal.
LEMMA SeqEq ==
  ASSUME NEW S, NEW s \in Seq(S), NEW t \in Seq(S), Len(s) = Len(t), \A i \in 1 .. Len(s) : s[i] = t[i]
  PROVE  s = t
  OBVIOUS

\* Functions on 1 .. n are sequences.
LEMMA FunSeq ==
  ASSUME NEW S, NEW n \in Nat, NEW s \in [1 .. n -> S]
  PROVE  s \in Seq(S) /\ Len(s) = n
  OBVIOUS

\* The k-th element of an array of w-byte elements.
LEMMA ElementIs ==
  ASSUME NEW b \in ByteSeq, NEW w \in {1, 2, 4, 8}, NEW k \in Nat \ {0}, k * w <= Len(b)
  PROVE  /\ Element(b, w, k) \in ByteSeq /\ Len(Element(b, w, k)) = w
         /\ \A i \in 1 .. w : Element(b, w, k)[i] = b[(k - 1) * w + i] /\ (k - 1) * w + i \in 1 .. k * w
<1>1. PICK from \in Nat, upto \in Nat : from = (k - 1) * w + 1 /\ upto = k * w
  OBVIOUS
<1>2. from >= 1 /\ upto - from + 1 = w /\ upto <= Len(b) /\ from <= upto
  BY <1>1
<1>3. Element(b, w, k) = SubSeq(b, from, upto)
  BY <1>1 DEF Element
<1>3a. from \in Nat \ {0} /\ from <= upto + 1
  BY <1>2
<1>4. /\ SubSeq(b, from, upto) \in ByteSeq /\ Len(SubSeq(b, from, upto)) = w
      /\ \A i \in 1 .. w : SubSeq(b, from, upto)[i] = b[from + i - 1]
  <2>1. PICK S : ByteSeq = Seq(S)
    BY DEF ByteSeq
  <2>2. b \in Seq(S)
    BY <2>1
  <2>3. /\ SubSeq(b, from, upto) \in Seq(S) /\ Len(SubSeq(b, from, upto)) = upto - from + 1
        /\ \A i \in 1 .. upto - from + 1 : SubSeq(b, from, upto)[i] = b[from + i - 1]
    BY <1>2, <1>3a, <2>2, SubSeqIs
  <2>4. QED
    BY <1>2, <2>1, <2>3
<1>6. \A i \in 1 .. w : from + i - 1 = (k - 1) * w + i /\ (k - 1) * w + i \in 1 .. k * w
  BY <1>1
<1>7. QED
  BY <1>3, <1>4, <1>6

\* Arrays with the same first bytes have the same first elements.
LEMMA ElementSame ==
  ASSUME NEW b \in ByteSeq, NEW h \in ByteSeq, NEW w \in {1, 2, 4, 8}, NEW n \in Nat,
         n * w <= Len(b), n * w <= Len(h), \A j \in 1 .. n * w : b[j] = h[j], NEW k \in 1 .. n
  PROVE  Element(b, w, k) = Element(h, w, k)
<1>1. k * w <= n * w /\ k \in Nat \ {0} /\ n * w \in Nat /\ k * w \in Nat
  OBVIOUS
<1>2. k * w <= Len(b) /\ k * w <= Len(h)
  BY <1>1 DEF ByteSeq
<1>3. PICK x : x = Element(b, w, k)
  OBVIOUS
<1>4. PICK y : y = Element(h, w, k)
  OBVIOUS
<1>5. x \in ByteSeq /\ Len(x) = w /\ \A i \in 1 .. w : x[i] = b[(k - 1) * w + i] /\ (k - 1) * w + i \in 1 .. k * w
  <2>1. k \in Nat \ {0}
    BY <1>1
  <2>2. k * w <= Len(b)
    BY <1>2
  <2>3. /\ Element(b, w, k) \in ByteSeq /\ Len(Element(b, w, k)) = w
        /\ \A i \in 1 .. w : Element(b, w, k)[i] = b[(k - 1) * w + i] /\ (k - 1) * w + i \in 1 .. k * w
    BY <2>1, <2>2, ElementIs
  <2>4. QED
    BY <1>3, <2>3
<1>6. y \in ByteSeq /\ Len(y) = w /\ \A i \in 1 .. w : y[i] = h[(k - 1) * w + i]
  <2>1. k \in Nat \ {0}
    BY <1>1
  <2>2. k * w <= Len(h)
    BY <1>2
  <2>3. /\ Element(h, w, k) \in ByteSeq /\ Len(Element(h, w, k)) = w
        /\ \A i \in 1 .. w : Element(h, w, k)[i] = h[(k - 1) * w + i] /\ (k - 1) * w + i \in 1 .. k * w
    BY <2>1, <2>2, ElementIs
  <2>4. QED
    BY <1>4, <2>3
<1>7. \A j \in 1 .. k * w : j \in 1 .. n * w
  BY <1>1
<1>8. \A i \in 1 .. w : x[i] = y[i]
  BY <1>5, <1>6, <1>7
<1>9. x = y
  <2>1. Len(x) = Len(y) /\ \A i \in 1 .. Len(x) : x[i] = y[i]
    BY <1>5, <1>6, <1>8
  <2>2. x \in Seq(0 .. Byte - 1) /\ y \in Seq(0 .. Byte - 1)
    BY <1>5, <1>6 DEF ByteSeq
  <2>3. QED
    BY <2>1, <2>2, SeqEq
<1>10. QED
  BY <1>3, <1>4, <1>9

\* Decoding an array decodes each element as the controller means it.
LEMMA DecodeArrayIs ==
  ASSUME NEW type \in DOMAIN Width, NEW b \in ByteSeq, NEW n \in Nat, Len(b) = Width[type] * n
  PROVE  DecodeArray(type, b) = [k \in 1 .. n |-> PlcValue(type, Element(b, Width[type], k))]
<1>1. PICK w \in {1, 2, 4, 8} : w = Width[type]
  BY WidthIs
<1>2. Len(b) \div w = n /\ n * w = Len(b)
  BY <1>1
<1>3. ASSUME NEW k \in 1 .. n PROVE DecodeScalar(type, Element(b, w, k)) = PlcValue(type, Element(b, w, k))
  <2>1. k \in Nat \ {0} /\ k * w <= Len(b)
    BY <1>2
  <2>2. Element(b, w, k) \in Seq(0 .. Byte - 1) /\ Len(Element(b, w, k)) = w
    BY <2>1, ElementIs DEF ByteSeq
  <2>3. QED
    BY <1>1, <2>2, DecodeIsPlc
<1>4. DecodeArray(type, b) = [k \in 1 .. n |-> DecodeScalar(type, Element(b, w, k))]
  BY <1>1, <1>2 DEF DecodeArray
<1>5. QED
  BY <1>1, <1>3, <1>4

\* The elements of an encoded array are the values.
LEMMA EncodeArrayIs ==
  ASSUME NEW type \in DOMAIN Width, NEW vals \in Seq(Values(type))
  PROVE  /\ EncodeArray(type, vals) \in ByteSeq /\ Len(EncodeArray(type, vals)) = Width[type] * Len(vals)
         /\ \A k \in 1 .. Len(vals) :
              PlcValue(type, Element(EncodeArray(type, vals), Width[type], k)) = vals[k]
<1>1. PICK w \in {1, 2, 4, 8} : w = Width[type]
  BY WidthIs
<1>2. PICK n \in Nat : n = Len(vals)
  OBVIOUS
<1>3. PICK N \in Nat : N = n * w
  OBVIOUS
<1>4. PICK a : a = EncodeArray(type, vals)
  OBVIOUS
<1>5. a = [j \in 1 .. N |-> EncodeScalar(type, vals[(j - 1) \div w + 1])[((j - 1) % w) + 1]]
  BY <1>1, <1>2, <1>3, <1>4 DEF EncodeArray
<1>6. \A k \in 1 .. n : vals[k] \in Values(type) /\ vals[k] \in Int
  BY <1>2, ValuesInt
<1>7. \A k \in 1 .. n : EncodeScalar(type, vals[k]) \in ByteSeq /\ Len(EncodeScalar(type, vals[k])) = w
  BY <1>1, <1>6, EncodeIs DEF ByteSeq
<1>8. \A j \in 1 .. N : (j - 1) \div w + 1 \in 1 .. n /\ ((j - 1) % w) + 1 \in 1 .. w
  BY <1>3
<1>9. \A j \in 1 .. N : a[j] \in 0 .. Byte - 1
  <2>1. TAKE j \in 1 .. N
  <2>2. PICK k \in 1 .. n, i \in 1 .. w : k = (j - 1) \div w + 1 /\ i = ((j - 1) % w) + 1
    BY <1>8
  <2>3. a[j] = EncodeScalar(type, vals[k])[i]
    BY <1>5, <2>2
  <2>4. EncodeScalar(type, vals[k])[i] \in 0 .. Byte - 1
    BY <1>7, ByteIs DEF ByteSeq
  <2>5. QED
    BY <2>3, <2>4
<1>10. a \in ByteSeq /\ Len(a) = N
  <2>1. a \in [1 .. N -> 0 .. Byte - 1]
    BY <1>5, <1>9
  <2>2. QED
    BY <2>1, FunSeq DEF ByteSeq
<1>11. ASSUME NEW k \in 1 .. n PROVE Element(a, w, k) = EncodeScalar(type, vals[k])
  <2>1. k \in Nat \ {0} /\ k * w <= Len(a)
    BY <1>3, <1>10
  <2>2. PICK x : x = Element(a, w, k)
    OBVIOUS
  <2>3. PICK y : y = EncodeScalar(type, vals[k])
    OBVIOUS
  <2>4. x \in ByteSeq /\ Len(x) = w /\ \A i \in 1 .. w : x[i] = a[(k - 1) * w + i]
    BY ZenonT(40), <1>10, <2>1, <2>2, ElementIs
  <2>5. y \in ByteSeq /\ Len(y) = w
    BY <1>7, <2>3
  <2>6. \A i \in 1 .. w : x[i] = y[i]
    <3>1. TAKE i \in 1 .. w
    <3>2. PICK j \in 1 .. N : j = (k - 1) * w + i
      BY <1>3
    <3>3. (j - 1) \div w + 1 = k /\ ((j - 1) % w) + 1 = i
      BY <3>2
    <3>4. a[j] = EncodeScalar(type, vals[k])[i]
      BY <1>5, <3>3
    <3>5. QED
      BY <2>3, <2>4, <3>2, <3>4
  <2>7. x = y
    <3>1. Len(x) = Len(y) /\ \A i \in 1 .. Len(x) : x[i] = y[i]
      BY <2>4, <2>5, <2>6
    <3>2. x \in Seq(0 .. Byte - 1) /\ y \in Seq(0 .. Byte - 1)
      BY <2>4, <2>5 DEF ByteSeq
    <3>3. QED
      BY <3>1, <3>2, SeqEq
  <2>8. QED
    BY <2>2, <2>3, <2>7
<1>12. \A k \in 1 .. n : PlcValue(type, Element(a, w, k)) = vals[k]
  BY <1>6, <1>11, PlcOfEncode
<1>13. N = w * n
  BY <1>3
<1>14. QED
  BY <1>1, <1>2, <1>4, <1>10, <1>12, <1>13

\* A word that adds up bits has those bits.
LEMMA BitsOfSum ==
  ASSUME NEW N \in Nat, NEW e \in [1 .. N -> {0, 1}], NEW g \in Seq(Int), Len(g) = N,
         \A b \in 1 .. N : g[b] = e[b] * Pow2[b - 1]
  PROVE  /\ Sums(g)[N] \in Nat /\ Sums(g)[N] < Pow2[N]
         /\ \A b \in 0 .. N - 1 : BitOf(Sums(g)[N], b) = e[b + 1]
<1>1. PICK s : s = Sums(g)
  OBVIOUS
<1>2. s \in [0 .. N -> Int] /\ s[0] = 0 /\ \A b \in 1 .. N : s[b] = s[b - 1] + g[b]
  BY <1>1, SumsStep
<1>3. ASSUME NEW b \in 0 .. N - 1
      PROVE  /\ s[b + 1] = s[b] + e[b + 1] * Pow2[b] /\ e[b + 1] \in {0, 1} /\ s[b] \in Int
             /\ Pow2[b] \in Nat \ {0} /\ Pow2[b + 1] = 2 * Pow2[b]
  <2>1. b + 1 \in 1 .. N /\ (b + 1) - 1 = b /\ b \in Nat /\ b \in 0 .. N
    OBVIOUS
  <2>2. s[b + 1] = s[b] + e[b + 1] * Pow2[b]
    BY <1>2, <2>1
  <2>3. QED
    BY <1>2, <2>1, <2>2, Pow2Step
<1> DEFINE S == {b \in 0 .. N : s[b] \in Nat /\ s[b] < Pow2[b]}
<1>4. 0 \in S
  <2>1. Pow2[0] = 1
    BY Pow2Step
  <2>2. QED
    BY <1>2, <2>1
<1>5. ASSUME NEW b \in 0 .. N - 1, b \in S PROVE b + 1 \in S
  <2>1. PICK x \in Nat, p \in Nat, c \in {0, 1} : x = s[b] /\ p = Pow2[b] /\ c = e[b + 1] /\ x < p
    BY <1>3, <1>5
  <2>2. s[b + 1] = x + c * p /\ Pow2[b + 1] = 2 * p
    BY <1>3, <2>1
  <2>3. x + c * p \in Nat /\ x + c * p < 2 * p
    <3>1. CASE c = 0
      BY <2>1, <3>1
    <3>2. CASE c = 1
      BY <2>1, <3>2
    <3>3. QED
      BY <3>1, <3>2
  <2>4. b + 1 \in 0 .. N
    OBVIOUS
  <2>5. QED
    BY <2>2, <2>3, <2>4
<1>6. \A b \in 0 .. N - 1 : b \in S => b + 1 \in S
  BY <1>5
<1> HIDE DEF S
<1>7. \A b \in 0 .. N : b \in S
  BY <1>4, <1>6, InductTo
<1>8. \A b \in 0 .. N : s[b] \in Nat /\ s[b] < Pow2[b]
  BY <1>7 DEF S
<1>9. PICK word \in Nat : word = s[N]
  BY <1>8
<1> DEFINE R == {k \in 0 .. N : \E q \in Nat : word = s[N - k] + Pow2[N - k] * q}
<1>10. 0 \in R
  <2>1. N - 0 = N /\ N \in Nat
    OBVIOUS
  <2>2. Pow2[N] \in Nat
    BY Pow2Step
  <2>3. word = s[N] + Pow2[N] * 0
    BY <1>9, <2>2
  <2>4. QED
    BY <2>1, <2>3
<1>11. ASSUME NEW k \in 0 .. N - 1, k \in R PROVE k + 1 \in R
  <2>1. PICK b \in 0 .. N - 1 : N - k = b + 1 /\ N - (k + 1) = b
    OBVIOUS
  <2>2. PICK q \in Nat : word = s[b + 1] + Pow2[b + 1] * q
    BY <1>11, <2>1
  <2>3. PICK x \in Int, p \in Nat, c \in {0, 1} : x = s[b] /\ p = Pow2[b] /\ c = e[b + 1]
    BY <1>3
  <2>4. s[b + 1] = x + c * p /\ Pow2[b + 1] = 2 * p
    BY <1>3, <2>3
  <2>5. (x + c * p) + (2 * p) * q = x + p * (c + 2 * q)
    OBVIOUS
  <2>6. word = x + p * (c + 2 * q)
    BY <2>2, <2>4, <2>5
  <2>7. c + 2 * q \in Nat /\ k + 1 \in 0 .. N
    OBVIOUS
  <2>8. QED
    BY <2>1, <2>3, <2>6, <2>7
<1>12. \A k \in 0 .. N - 1 : k \in R => k + 1 \in R
  BY <1>11
<1> HIDE DEF R
<1>13. \A k \in 0 .. N : k \in R
  BY <1>10, <1>12, InductTo
<1>14. ASSUME NEW b \in 0 .. N - 1 PROVE BitOf(word, b) = e[b + 1]
  <2>1. PICK k \in 0 .. N : N - k = b + 1
    <3>1. N - (b + 1) \in 0 .. N /\ N - (N - (b + 1)) = b + 1
      OBVIOUS
    <3>2. QED
      BY <3>1
  <2>2. PICK q \in Nat : word = s[b + 1] + Pow2[b + 1] * q
    BY <1>13, <2>1 DEF R
  <2>3. PICK x \in Nat, p \in Nat \ {0}, c \in {0, 1} : x = s[b] /\ p = Pow2[b] /\ c = e[b + 1] /\ x < p
    <3>1. b \in 0 .. N
      OBVIOUS
    <3>2. s[b] \in Nat /\ s[b] < Pow2[b]
      BY <1>8, <3>1
    <3>3. QED
      BY <1>3, <3>2
  <2>4. s[b + 1] = x + c * p /\ Pow2[b + 1] = 2 * p
    BY <1>3, <2>3
  <2>5. (x + c * p) + (2 * p) * q = p * (c + 2 * q) + x
    OBVIOUS
  <2>6. word = p * (c + 2 * q) + x
    BY <2>2, <2>4, <2>5
  <2>7. PICK y \in Int : y = c + 2 * q
    OBVIOUS
  <2>7a. word \in Int /\ x \in 0 .. p - 1 /\ word = p * y + x
    <3>1. word = p * y + x
      BY <2>6, <2>7
    <3>2. x \in 0 .. p - 1
      BY <2>3
    <3>3. QED
      BY <3>1, <3>2
  <2>8. word \div p = c + 2 * q
    BY <2>7, <2>7a, DivIs
  <2>9. (c + 2 * q) % 2 = c
    OBVIOUS
  <2>10. QED
    BY <2>3, <2>8, <2>9 DEF BitOf
<1>15. word < Pow2[N]
  BY <1>8, <1>9
<1>16. QED
  BY <1>1, <1>9, <1>14, <1>15

\* Bit i is in word q + 1, at place r.
LEMMA WordOf ==
  ASSUME NEW n \in Nat, NEW i \in 1 .. n
  PROVE  /\ (i - 1) \div WordBits \in Nat /\ (i - 1) % WordBits \in 0 .. WordBits - 1
         /\ i - 1 = WordBits * ((i - 1) \div WordBits) + ((i - 1) % WordBits)
         /\ (i - 1) \div WordBits + 1 \in 1 .. DwordsForBits(n)
         /\ DwordsForBits(n) \in Nat
<1>1. PICK W \in Nat \ {0} : W = WordBits
  BY ByteIs
<1>2. PICK q \in Int, r \in 0 .. W - 1 : q = (i - 1) \div W /\ r = (i - 1) % W /\ i - 1 = W * q + r
  <2>1. PICK a \in Int : a = i - 1
    OBVIOUS
  <2>2. a = W * (a \div W) + (a % W) /\ a % W \in 0 .. W - 1 /\ a \div W \in Int
    BY DivMod
  <2>3. QED
    BY <2>1, <2>2
<1>3. PICK d \in Int, f \in 0 .. W - 1 : d = (n + W - 1) \div W /\ n + W - 1 = W * d + f
  BY DivMod
<1>4. q >= 0
  <2>1. SUFFICES ASSUME q < 0 PROVE FALSE
    OBVIOUS
  <2>2. q <= -1
    BY <2>1
  <2>3. W * q <= -W
    BY <2>2
  <2>4. QED
    BY <1>2, <2>3
<1>5. q < d
  <2>1. SUFFICES ASSUME q >= d PROVE FALSE
    OBVIOUS
  <2>2. W * q >= W * d
    BY <2>1
  <2>3. QED
    BY <1>2, <1>3, <2>2
<1>6. DwordsForBits(n) = d
  BY <1>1, <1>3 DEF DwordsForBits
<1>7. QED
  BY <1>1, <1>2, <1>4, <1>5, <1>6

\* What a word of a BOOL array counts to.
LEMMA WordSpan == Span(4) = Pow2[WordBits] /\ Values("BIT_ARRAY") = 0 .. Span(4) - 1
<1>1. ByteBits * 4 = 4 * ByteBits
  BY ByteIs
<1>2. Span(4) = Pow2[WordBits]
  BY <1>1 DEF Span, WordBits
<1>3. QED
  BY <1>2, WidthIs DEF Values, SignedTypes, Span

\* What bp_tagdb_write_bool_array packs, for every list of BOOLs: as many words as
\* it announces, each fits its word, and bit i of them is the i-th BOOL, so that
\* unpacking them gives the BOOLs back.
THEOREM PackBitsIs ==
  ASSUME NEW bools \in Seq({0, 1})
  PROVE  /\ PackBits(bools) \in Seq(Values("BIT_ARRAY"))
         /\ Len(PackBits(bools)) = DwordsForBits(Len(bools))
         /\ \A i \in 1 .. Len(bools) :
              BitOf(PackBits(bools)[(i - 1) \div WordBits + 1], (i - 1) % WordBits) = bools[i]
<1>0. PICK n \in Nat : n = Len(bools)
  OBVIOUS
<1>1. PICK W \in Nat \ {0} : W = WordBits
  BY ByteIs
<1>2. PICK D \in Nat : D = DwordsForBits(n)
  <2>1. n + W - 1 \in Nat
    OBVIOUS
  <2>2. (n + W - 1) \div W \in Nat
    BY <2>1
  <2>3. QED
    BY <1>1, <2>2 DEF DwordsForBits
<1> DEFINE at(w, b) == (w - 1) * W + b
           e(w) == [b \in 1 .. W |-> IF at(w, b) <= n /\ bools[at(w, b)] # 0 THEN 1 ELSE 0]
           g(w) == [b \in 1 .. W |-> IF at(w, b) <= n /\ bools[at(w, b)] # 0 THEN Pow2[b - 1] ELSE 0]
<1>3. PackBits(bools) = [w \in 1 .. D |-> Sums(g(w))[W]]
  BY <1>0, <1>1, <1>2 DEF PackBits
<1>4. ASSUME NEW w \in 1 .. D
      PROVE  /\ Sums(g(w))[W] \in Nat /\ Sums(g(w))[W] < Pow2[W]
             /\ \A b \in 0 .. W - 1 : BitOf(Sums(g(w))[W], b) = e(w)[b + 1]
  <2>1. e(w) \in [1 .. W -> {0, 1}]
    OBVIOUS
  <2>2. \A b \in 1 .. W : Pow2[b - 1] \in Int
    <3>1. \A b \in 1 .. W : b - 1 \in Nat
      OBVIOUS
    <3>2. QED
      BY <3>1, Pow2Step
  <2>3. g(w) \in Seq(Int) /\ Len(g(w)) = W
    <3>1. g(w) \in [1 .. W -> Int]
      BY <2>2
    <3> HIDE DEF g
    <3>2. QED
      BY <3>1
  <2>4. \A b \in 1 .. W : g(w)[b] = e(w)[b] * Pow2[b - 1]
    BY <2>2
  <2> HIDE DEF g, e
  <2>5. QED
    BY <2>1, <2>3, <2>4, BitsOfSum
<1>5. ASSUME NEW w \in 1 .. D, NEW b \in 1 .. W, NEW i \in 1 .. n, i = at(w, b)
      PROVE  e(w)[b] = bools[i]
  <2>1. bools[i] \in {0, 1}
    BY <1>0
  <2>2. e(w)[b] = IF i <= n /\ bools[i] # 0 THEN 1 ELSE 0
    BY <1>5
  <2>3. QED
    BY <2>1, <2>2
<1>6. PICK p : p = PackBits(bools)
  OBVIOUS
<1> HIDE DEF g, e
<1>7. p = [w \in 1 .. D |-> p[w]] /\ \A w \in 1 .. D : p[w] = Sums(g(w))[W]
  BY <1>3, <1>6
<1>8. \A w \in 1 .. D : p[w] \in Values("BIT_ARRAY")
  <2>1. Pow2[W] \in Nat /\ Values("BIT_ARRAY") = 0 .. Pow2[W] - 1
    BY <1>1, WordSpan, Pow2Step
  <2>2. QED
    BY <1>4, <1>7, <2>1
<1>9. p \in Seq(Values("BIT_ARRAY")) /\ Len(p) = D
  <2>1. p \in [1 .. D -> Values("BIT_ARRAY")]
    BY <1>7, <1>8
  <2>2. QED
    BY <2>1
<1>10. ASSUME NEW i \in 1 .. n
       PROVE  BitOf(p[(i - 1) \div W + 1], (i - 1) % W) = bools[i]
  <2>1. PICK q \in Nat, r \in 0 .. W - 1 : /\ q = (i - 1) \div W /\ r = (i - 1) % W
                                           /\ i - 1 = W * q + r /\ q + 1 \in 1 .. D
    BY <1>1, <1>2, WordOf
  <2>2. BitOf(p[q + 1], r) = e(q + 1)[r + 1]
    BY <1>4, <1>7, <2>1
  <2>3. i = ((q + 1) - 1) * W + (r + 1) /\ r + 1 \in 1 .. W
    BY <2>1
  <2>4. e(q + 1)[r + 1] = bools[i]
    BY <1>5, <2>1, <2>3
  <2>5. QED
    BY <2>1, <2>2, <2>4
<1>11. QED
  BY <1>0, <1>1, <1>2, <1>6, <1>9, <1>10

-----------------------------------------------------------------------------
(* Batches and the data area *)

\* The length and the domain of a list.
LEMMA ListIs ==
  ASSUME NEW s, s \in Seq(Elems(s))
  PROVE  Len(s) \in Nat /\ DOMAIN s = 1 .. Len(s)
  OBVIOUS

\* A sequence is one of its own elements.
LEMMA ElemsSeq ==
  ASSUME NEW S, NEW s \in Seq(S)
  PROVE  s \in Seq(Elems(s)) /\ Elems(s) \subseteq S
<1>1. PICK n \in Nat : n = Len(s) /\ DOMAIN s = 1 .. n
  OBVIOUS
<1>2. s \in [1 .. n -> Elems(s)]
  BY <1>1 DEF Elems
<1>3. \A i \in 1 .. n : s[i] \in S
  BY <1>1
<1>4. QED
  BY <1>1, <1>2, <1>3, FunSeq DEF Elems

\* A request has a number of bytes.
LEMMA RequestBytes ==
  ASSUME NEW r, IsRequest(r)
  PROVE  Bytes(r) \in Nat
<1>1. r.size \in Nat /\ r.count \in Nat
  BY DEF IsRequest
<1>2. \A a, b \in Nat : a * b \in Nat
  OBVIOUS
<1>3. QED
  BY <1>1, <1>2 DEF Bytes

\* off is where the data of the requests end.
IsOffsets(reqs, off) ==
    /\ Len(reqs) \in Nat /\ DOMAIN reqs = 1 .. Len(reqs)
    /\ \A i \in DOMAIN reqs : Bytes(reqs[i]) \in Nat
    /\ off \in [0 .. Len(reqs) -> Nat] /\ off[0] = 0
    /\ \A i \in 1 .. Len(reqs) : off[i] = off[i - 1] + Bytes(reqs[i])

\* Offsets(reqs) are where the data of the requests end.
LEMMA OffsetsAre ==
  ASSUME NEW reqs, IsBatch(reqs)
  PROVE  IsOffsets(reqs, Offsets(reqs))
<1>1. PICK n \in Nat : n = Len(reqs) /\ DOMAIN reqs = 1 .. n
  BY ListIs DEF IsBatch
<1>2. \A i \in 1 .. n : Bytes(reqs[i]) \in Nat
  BY <1>1, RequestBytes DEF IsBatch
<1>3. PICK g : g = [i \in DOMAIN reqs |-> Bytes(reqs[i])]
  OBVIOUS
<1>4. \A i \in 1 .. n : g[i] = Bytes(reqs[i])
  BY <1>1, <1>3
<1>5. g \in [1 .. n -> Int]
  BY <1>1, <1>2, <1>3
<1>6. g \in Seq(Int) /\ Len(g) = n
  BY <1>5, FunSeq
<1>7. PICK off : off = Offsets(reqs)
  OBVIOUS
<1>8. off = Sums(g)
  BY <1>3, <1>7 DEF Offsets
<1>9. off \in [0 .. n -> Int] /\ off[0] = 0 /\ \A i \in 1 .. n : off[i] = off[i - 1] + g[i]
  BY <1>6, <1>8, SumsStep
<1>10. \A i \in 1 .. n : off[i] = off[i - 1] + Bytes(reqs[i])
  BY <1>4, <1>9
<1> DEFINE S == {i \in 0 .. n : off[i] \in Nat}
<1>11. 0 \in S
  BY <1>9
<1>12. \A i \in 0 .. n - 1 : i \in S => i + 1 \in S
  <2>1. TAKE i \in 0 .. n - 1
  <2>2. HAVE i \in S
  <2>3. i + 1 \in 1 .. n /\ (i + 1) - 1 = i
    OBVIOUS
  <2>4. Bytes(reqs[i + 1]) \in Nat /\ off[i + 1] = off[i] + Bytes(reqs[i + 1]) /\ off[i] \in Nat
    BY <1>2, <1>10, <2>2, <2>3
  <2>5. off[i + 1] \in Nat
    BY <2>4
  <2>6. QED
    BY <2>3, <2>5
<1> HIDE DEF S
<1>13. \A i \in 0 .. n : i \in S
  BY <1>11, <1>12, InductTo
<1>14. off \in [0 .. n -> Nat]
  BY <1>9, <1>13 DEF S
<1>15. QED
  BY <1>1, <1>2, <1>7, <1>9, <1>10, <1>14 DEF IsOffsets

\* Later requests end later.
LEMMA OffsetsGrow ==
  ASSUME NEW reqs, NEW off, IsOffsets(reqs, off), NEW i \in 0 .. Len(reqs), NEW k \in 0 .. Len(reqs), i <= k
  PROVE  off[i] <= off[k]
<1>1. PICK n \in Nat : n = Len(reqs)
  BY DEF IsOffsets
<1>2. /\ off \in [0 .. n -> Nat]
      /\ \A j \in 1 .. n : off[j] = off[j - 1] + Bytes(reqs[j]) /\ Bytes(reqs[j]) \in Nat
  BY <1>1 DEF IsOffsets
<1> DEFINE S == {d \in Nat : i + d <= n => off[i] <= off[i + d]}
<1>3. 0 \in S
  BY <1>1, <1>2
<1>4. \A d \in Nat : d \in S => d + 1 \in S
  <2>1. TAKE d \in Nat
  <2>2. HAVE d \in S
  <2>3. SUFFICES ASSUME i + (d + 1) <= n PROVE off[i] <= off[i + (d + 1)]
    OBVIOUS
  <2>4. PICK j \in 1 .. n : j = i + (d + 1) /\ j - 1 = i + d
    BY <1>1, <2>3
  <2>5. off[i] <= off[j - 1]
    BY <1>1, <2>2, <2>3, <2>4
  <2>6. j - 1 \in 0 .. n /\ i \in 0 .. n /\ j \in 0 .. n
    BY <1>1
  <2>7. off[j] = off[j - 1] + Bytes(reqs[j]) /\ Bytes(reqs[j]) \in Nat /\ off[i] \in Nat /\ off[j - 1] \in Nat
    BY <1>2, <2>6
  <2>8. QED
    BY <2>4, <2>5, <2>7
<1> HIDE DEF S
<1>5. \A d \in Nat : d \in S
  BY <1>3, <1>4, Induct
<1>6. k - i \in Nat /\ i + (k - i) = k /\ k <= n
  BY <1>1
<1>7. QED
  BY <1>5, <1>6 DEF S

\* The bytes of request i end inside the area, and are bytes of no other request.
LEMMA PlaceOf ==
  ASSUME NEW reqs, NEW off, IsOffsets(reqs, off), NEW i \in DOMAIN reqs
  PROVE  /\ off[i - 1] \in Nat /\ off[i] \in Nat /\ Bytes(reqs[i]) \in Nat
         /\ off[i] = off[i - 1] + Bytes(reqs[i]) /\ off[i] <= off[Len(reqs)]
         /\ off[Len(reqs)] \in Nat
         /\ \A k \in DOMAIN reqs : k # i => off[k] <= off[i - 1] \/ off[i] <= off[k - 1]
<1>1. PICK n \in Nat : n = Len(reqs) /\ DOMAIN reqs = 1 .. n
  BY DEF IsOffsets
<1>2. i - 1 \in 0 .. n /\ i \in 0 .. n /\ n \in 0 .. n /\ i \in 1 .. n /\ i <= n
  BY <1>1
<1>3. \A k \in DOMAIN reqs : k - 1 \in 0 .. n /\ k \in 0 .. n
  BY <1>1
<1>4. off[i - 1] \in Nat /\ off[i] \in Nat /\ off[n] \in Nat
  BY <1>1, <1>2 DEF IsOffsets
<1>5. Bytes(reqs[i]) \in Nat /\ off[i] = off[i - 1] + Bytes(reqs[i])
  BY <1>1, <1>2 DEF IsOffsets
<1>6. off[i] <= off[n]
  BY <1>1, <1>2, OffsetsGrow
<1>7. ASSUME NEW k \in DOMAIN reqs, k # i PROVE off[k] <= off[i - 1] \/ off[i] <= off[k - 1]
  <2>1. k < i \/ i < k
    BY <1>1, <1>7
  <2>2. CASE k < i
    <3>1. k <= i - 1
      BY <1>1, <2>2
    <3>2. QED
      BY <1>1, <1>2, <1>3, <3>1, OffsetsGrow
  <2>3. CASE i < k
    <3>1. i <= k - 1
      BY <1>1, <2>3
    <3>2. QED
      BY <1>1, <1>2, <1>3, <3>1, OffsetsGrow
  <2>4. QED
    BY <2>1, <2>2, <2>3
<1>8. QED
  BY <1>1, <1>4, <1>5, <1>6, <1>7

Owns(reqs, off, i, j) == i \in DOMAIN reqs /\ off[i - 1] < j /\ j <= off[i]

\* Every byte of the area belongs to a request,
LEMMA OwnerExists ==
  ASSUME NEW reqs, NEW off, IsOffsets(reqs, off), NEW j \in 1 .. off[Len(reqs)]
  PROVE  \E i : Owns(reqs, off, i, j)
<1>1. PICK n \in Nat : n = Len(reqs) /\ DOMAIN reqs = 1 .. n
  BY DEF IsOffsets
<1>2. off \in [0 .. n -> Nat] /\ off[0] = 0
  BY <1>1 DEF IsOffsets
<1> DEFINE S == {i \in 0 .. n : j <= off[i]}
<1>3. n \in S /\ S \in SUBSET Nat
  BY <1>1, <1>2
<1>4. PICK x \in S : \A y \in S : x <= y
  <2> HIDE DEF S
  <2>1. S # {}
    BY <1>3
  <2>2. QED
    BY <1>3, <2>1, LeastNat
<1>5. j \in Nat /\ j >= 1
  BY <1>1, <1>2
<1>6. x # 0
  BY <1>2, <1>4, <1>5
<1>7. x - 1 \in 0 .. n /\ x \in 1 .. n
  BY <1>4, <1>6
<1>8. x - 1 \notin S
  <2>1. ~(x <= x - 1)
    BY <1>7
  <2>2. QED
    BY <1>4, <2>1
<1>9. off[x - 1] < j
  <2>1. off[x - 1] \in Nat /\ ~(j <= off[x - 1])
    BY <1>2, <1>7, <1>8
  <2>2. QED
    BY <1>5, <2>1
<1>10. j <= off[x]
  BY <1>4
<1>11. QED
  BY <1>1, <1>7, <1>9, <1>10 DEF Owns

\* and to one only.
LEMMA OwnerUnique ==
  ASSUME NEW reqs, NEW off, IsOffsets(reqs, off), NEW j \in Nat, NEW i, NEW k,
         Owns(reqs, off, i, j), Owns(reqs, off, k, j)
  PROVE  i = k
<1>1. i \in DOMAIN reqs /\ k \in DOMAIN reqs
  BY DEF Owns
<1>2. off[i - 1] \in Nat /\ off[i] \in Nat /\ off[k - 1] \in Nat /\ off[k] \in Nat
  BY <1>1, PlaceOf
<1>3. k # i => off[k] <= off[i - 1] \/ off[i] <= off[k - 1]
  BY <1>1, PlaceOf
<1>4. off[i - 1] < j /\ j <= off[i] /\ off[k - 1] < j /\ j <= off[k]
  BY DEF Owns
<1>5. QED
  BY <1>2, <1>3, <1>4

FillByte(reqs, off, i, j) == IF reqs[i].act = "write" THEN reqs[i].data[j - off[i - 1]] ELSE 1

Owner(reqs, off, j) == CHOOSE i \in DOMAIN reqs : off[i - 1] < j /\ j <= off[i]
Filled(reqs, off) == [j \in 1 .. off[Len(reqs)] |-> FillByte(reqs, off, Owner(reqs, off, j), j)]

\* access_fill, with the owner of each byte named.
LEMMA FillFilled ==
  ASSUME NEW reqs
  PROVE  AccessFill(reqs) = Filled(reqs, Offsets(reqs))
  BY Zenon DEF AccessFill, Filled, AreaOf, FillByte, Owner

\* access_fill puts the data of every write where its request lies, and bytes elsewhere.
LEMMA FillIs ==
  ASSUME NEW reqs, IsBatch(reqs), NEW off, off = Offsets(reqs)
  PROVE  /\ AccessFill(reqs) \in ByteSeq /\ Len(AccessFill(reqs)) = off[Len(reqs)]
         /\ \A i \in DOMAIN reqs : reqs[i].act = "write" =>
              \A j \in 1 .. Bytes(reqs[i]) : AccessFill(reqs)[off[i - 1] + j] = reqs[i].data[j]
<1>1. IsOffsets(reqs, off)
  BY OffsetsAre
<1>2. PICK N \in Nat : N = off[Len(reqs)]
  BY <1>1 DEF IsOffsets
<1> DEFINE owner(j) == Owner(reqs, off, j)
<1>3. PICK a : a = AccessFill(reqs)
  OBVIOUS
<1>4. a = [j \in 1 .. N |-> FillByte(reqs, off, owner(j), j)]
  <2>1. a = Filled(reqs, off)
    BY <1>3, FillFilled
  <2>2. QED
    BY <1>2, <2>1, Zenon DEF Filled
<1>5. ASSUME NEW j \in 1 .. N PROVE Owns(reqs, off, owner(j), j)
  <2>1. PICK i : Owns(reqs, off, i, j)
    BY <1>1, <1>2, OwnerExists
  <2>2. i \in DOMAIN reqs /\ off[i - 1] < j /\ j <= off[i]
    BY <2>1 DEF Owns
  <2>3. QED
    BY <2>2, Zenon DEF Owns, Owner
<1> HIDE DEF owner
<1>6. ASSUME NEW j \in 1 .. N PROVE a[j] \in 0 .. Byte - 1
  <2>1. PICK i : i = owner(j)
    OBVIOUS
  <2>2. i \in DOMAIN reqs /\ off[i - 1] < j /\ j <= off[i]
    BY <1>5, <2>1 DEF Owns
  <2>3. a[j] = FillByte(reqs, off, i, j)
    BY <1>4, <2>1
  <2>4. IsRequest(reqs[i])
    BY <2>2 DEF IsBatch
  <2>5. CASE reqs[i].act = "write"
    <3>1. PICK d : d = reqs[i].data
      OBVIOUS
    <3>2. d \in Seq(0 .. Byte - 1) /\ Len(d) = Bytes(reqs[i])
      BY <2>4, <2>5, <3>1 DEF IsRequest
    <3>3. off[i - 1] \in Nat /\ off[i] = off[i - 1] + Bytes(reqs[i]) /\ Bytes(reqs[i]) \in Nat
      BY <1>1, <2>2, PlaceOf
    <3>4. PICK m \in Nat : m = j - off[i - 1] /\ m \in 1 .. Len(d)
      BY <2>2, <3>2, <3>3
    <3>5. d[m] \in 0 .. Byte - 1
      BY <3>2, <3>4, ByteIs
    <3>6. QED
      BY <2>3, <2>5, <3>1, <3>4, <3>5 DEF FillByte
  <2>6. CASE reqs[i].act # "write"
    <3>1. 1 \in 0 .. Byte - 1
      BY ByteIs
    <3>2. QED
      BY <2>3, <2>6, <3>1 DEF FillByte
  <2>7. QED
    BY <2>5, <2>6
<1>7. a \in ByteSeq /\ Len(a) = N
  <2>1. a \in [1 .. N -> 0 .. Byte - 1]
    BY <1>4, <1>6
  <2>2. QED
    BY <2>1, FunSeq DEF ByteSeq
<1>8. ASSUME NEW i \in DOMAIN reqs, reqs[i].act = "write", NEW j \in 1 .. Bytes(reqs[i])
      PROVE  a[off[i - 1] + j] = reqs[i].data[j]
  <2>1. /\ off[i - 1] \in Nat /\ off[i] = off[i - 1] + Bytes(reqs[i]) /\ Bytes(reqs[i]) \in Nat
        /\ off[i] <= N
    BY <1>1, <1>2, PlaceOf
  <2>2. PICK m \in Nat : m = off[i - 1] + j
    BY <2>1
  <2>3. off[i - 1] < m /\ m <= off[i] /\ m \in 1 .. N /\ m - off[i - 1] = j
    BY <2>1, <2>2
  <2>4. Owns(reqs, off, i, m)
    BY <2>3 DEF Owns
  <2>5. owner(m) = i
    BY <1>1, <1>5, <2>3, <2>4, OwnerUnique
  <2>6. a[m] = FillByte(reqs, off, i, m)
    BY <1>4, <2>3, <2>5
  <2>7. QED
    BY <1>8, <2>2, <2>3, <2>6 DEF FillByte
<1>9. QED
  BY <1>2, <1>3, <1>7, <1>8

\* A read request of n elements.
LEMMA ReadOfIs ==
  ASSUME NEW tag, NEW type \in DOMAIN Width, NEW n \in Nat
  PROVE  /\ IsRequest(ReadOf(tag, type, n)) /\ Bytes(ReadOf(tag, type, n)) = Width[type] * n
         /\ ReadOf(tag, type, n).tag = tag /\ ReadOf(tag, type, n).type = type
         /\ ReadOf(tag, type, n).act = "read" /\ ReadOf(tag, type, n).count = n
         /\ ReadOf(tag, type, n).size = Width[type]
<1>1. Width[type] \in Nat
  BY WidthIs
<1>2. QED
  BY <1>1 DEF ReadOf, Request, IsRequest, Bytes

\* A write request of n elements.
LEMMA WriteOfIs ==
  ASSUME NEW tag, NEW type \in DOMAIN Width, NEW n \in Nat, NEW data \in ByteSeq, Len(data) = Width[type] * n
  PROVE  /\ IsRequest(WriteOf(tag, type, data)) /\ Bytes(WriteOf(tag, type, data)) = Len(data)
         /\ WriteOf(tag, type, data).tag = tag /\ WriteOf(tag, type, data).type = type
         /\ WriteOf(tag, type, data).act = "write" /\ WriteOf(tag, type, data).count = n
         /\ WriteOf(tag, type, data).size = Width[type] /\ WriteOf(tag, type, data).data = data
<1>1. PICK w \in {1, 2, 4, 8} : w = Width[type]
  BY WidthIs
<1>2. Len(data) \div w = n
  BY <1>1
<1>3. PICK r : r = WriteOf(tag, type, data)
  OBVIOUS
<1>4. /\ r.tag = tag /\ r.type = type /\ r.size = w /\ r.count = n /\ r.act = "write" /\ r.data = data
  BY <1>1, <1>2, <1>3 DEF WriteOf, Request
<1>5. Bytes(r) = Len(data)
  BY <1>1, <1>4 DEF Bytes
<1>6. IsRequest(r)
  BY <1>4, <1>5 DEF IsRequest, ByteSeq
<1>7. QED
  BY <1>1, <1>3, <1>4, <1>5, <1>6

\* A batch of one request.
LEMMA OneRequest ==
  ASSUME NEW r, IsRequest(r)
  PROVE  IsBatch(<<r>>)
<1>1. <<r>> \in Seq({r}) /\ DOMAIN <<r>> = {1} /\ <<r>>[1] = r
  OBVIOUS
<1>2. QED
  BY <1>1, ElemsSeq DEF IsBatch

\* A batch with a request for every name.
LEMMA ListBatch ==
  ASSUME NEW names, names \in Seq(Elems(names)), NEW reqs, DOMAIN reqs = DOMAIN names, reqs = [i \in DOMAIN reqs |-> reqs[i]],
         \A i \in DOMAIN names : IsRequest(reqs[i])
  PROVE  IsBatch(reqs) /\ Len(reqs) = Len(names)
<1>1. PICK n \in Nat : n = Len(names) /\ DOMAIN names = 1 .. n
  BY ListIs
<1>2. reqs \in [1 .. n -> {reqs[i] : i \in 1 .. n}]
  BY <1>1
<1>3. reqs \in Seq({reqs[i] : i \in 1 .. n}) /\ Len(reqs) = n
  BY <1>2, FunSeq
<1>4. QED
  BY <1>1, <1>3, ElemsSeq DEF IsBatch

-----------------------------------------------------------------------------
(* The inductive invariant of the batches *)

IsThread(T) ==
    T = [pc |-> T.pc, call |-> T.call, form |-> T.form, reqs |-> T.reqs, res |-> T.res,
         area |-> T.area, len |-> T.len, out |-> T.out]

\* The bytes of request i in the data area are the first ones of s.
AreaHas(reqs, area, i, s) == \A j \in 1 .. Bytes(reqs[i]) : area[Offsets(reqs)[i - 1] + j] = s[j]

\* The bytes of request i are those its tag has had at some time during the call.
Executed(reqs, area, i, hs) ==
    /\ reqs[i].tag \in DOMAIN Memory /\ reqs[i].type = Memory[reqs[i].tag].type
    /\ reqs[i].size = Width[reqs[i].type]
    /\ \E h \in hs[reqs[i].tag] : Bytes(reqs[i]) <= Len(h) /\ AreaHas(reqs, area, i, h)

\* The calls, and the requests of a call's batch.
Ops == {"access", "read_tags", "write_tags", "read", "write", "read_bools", "write_bools",
        "read_string", "write_string"}
RequestsOf(c, reqs, len) ==
    /\ c.op \in Ops
    /\ c.op = "access" => reqs = c.reqs
    /\ c.op = "read_tags" =>
          /\ \A i \in DOMAIN c.names : Resolve(c.names[i]) # "NONE"
          /\ reqs = [i \in DOMAIN c.names |-> ReadOf(c.names[i], Resolve(c.names[i]), 1)]
    /\ c.op = "write_tags" =>
          /\ \A i \in DOMAIN c.names : Writable(c.names[i], c.vals[i])
          /\ reqs = [i \in DOMAIN c.names |->
                       WriteOf(c.names[i], Resolve(c.names[i]), EncodeScalar(c.vals[i].kind, c.vals[i].v))]
    /\ c.op = "read" => reqs = <<ReadOf(c.tag, c.type, c.count)>>
    /\ c.op = "write" => reqs = <<WriteOf(c.tag, c.type, EncodeArray(c.type, c.vals))>>
    /\ c.op = "read_bools" => reqs = <<ReadOf(c.tag, "BIT_ARRAY", DwordsForBits(c.count))>>
    /\ c.op = "write_bools" =>
          reqs = <<WriteOf(c.tag, "BIT_ARRAY", EncodeArray("BIT_ARRAY", PackBits(c.bools)))>>
    /\ c.op = "read_string" =>
          /\ c.room # 0
          /\ \/ reqs = <<ReadOf(LenOf(c.tag), "DINT", 1)>>
             \/ /\ reqs = <<ReadOf(DataOf(c.tag), "SINT", Least({len, c.room - 1, MaxCount}))>>
                /\ len \in Nat
    /\ c.op = "write_string" =>
          /\ Len(c.str) <= MaxCount
          /\ \/ reqs = <<WriteOf(LenOf(c.tag), "DINT", EncodeScalar("DINT", Len(c.str)))>>
             \/ reqs = <<WriteOf(DataOf(c.tag), "SINT", EncodeArray("SINT", c.str))>>

Batch(T, hs) ==
    /\ T.form \in DOMAIN Form /\ IsBatch(T.reqs) /\ AccessRc(T.reqs, T.form) = "OK"
    /\ T.res \in Seq({0, 1}) /\ Len(T.res) <= Len(T.reqs)
    /\ T.area \in ByteSeq /\ Len(T.area) = AreaOf(T.reqs)
    /\ \A i \in DOMAIN T.reqs : T.reqs[i].act = "write" => AreaHas(T.reqs, T.area, i, T.reqs[i].data)
    /\ \A i \in DOMAIN T.res : T.res[i] = 0 => Executed(T.reqs, T.area, i, hs)
    /\ T.call \in Calls /\ RequestsOf(T.call, T.reqs, T.len)

\* ReadTrue and WriteTrue for one thread.
Ended(T, op) == T.pc = "idle" /\ T.call # None /\ T.call.op = op
ReadOut(T, hs) ==
    /\ Ended(T, "read_tags") /\ T.out.val # None =>
          \A i \in DOMAIN T.out.val : T.out.val[i] # None =>
             \E h \in hs[T.call.names[i]] : T.out.val[i] = ValueAt(T.call.names[i], h, 1)
    /\ Ended(T, "access") /\ T.out.rc = "OK" =>
          \A i \in DOMAIN T.call.reqs : T.call.reqs[i].act = "read" /\ T.out.val.res[i] = 0 =>
             \E h \in hs[T.call.reqs[i].tag] : T.out.val.data[i] = SubSeq(h, 1, Bytes(T.call.reqs[i]))
    /\ Ended(T, "read") /\ T.out.rc = "OK" =>
          \E h \in hs[T.call.tag] : T.out.val = [k \in 1 .. T.call.count |-> ValueAt(T.call.tag, h, k)]
    /\ Ended(T, "read_bools") /\ T.out.rc = "OK" =>
          \E h \in hs[T.call.tag] : T.out.val = [i \in 1 .. T.call.count |-> BitAt(T.call.tag, h, i)]
WriteOut(T, hs) ==
    /\ Ended(T, "write_tags") /\ (T.out.rc = "OK" \/ T.out.val # None) =>
          \A i \in DOMAIN T.call.names : T.out.rc = "OK" \/ T.out.val[i] = 0 =>
             \E h \in hs[T.call.names[i]] : T.call.vals[i].v = ValueAt(T.call.names[i], h, 1)
    /\ Ended(T, "access") /\ T.out.rc = "OK" =>
          \A i \in DOMAIN T.call.reqs : T.call.reqs[i].act = "write" /\ T.out.val.res[i] = 0 =>
             \E h \in hs[T.call.reqs[i].tag] : T.call.reqs[i].data = SubSeq(h, 1, Bytes(T.call.reqs[i]))
    /\ Ended(T, "write") /\ T.out.rc = "OK" =>
          \E h \in hs[T.call.tag] : \A k \in DOMAIN T.call.vals : T.call.vals[k] = ValueAt(T.call.tag, h, k)
    /\ Ended(T, "write_bools") /\ T.out.rc = "OK" =>
          \E h \in hs[T.call.tag] : \A i \in DOMAIN T.call.bools : T.call.bools[i] = BitAt(T.call.tag, h, i)

Blank(T) == T.reqs = <<>> /\ T.res = <<>> /\ T.area = <<>> /\ T.form = "path"

ThreadOK(T, hs) ==
    /\ IsThread(T)
    /\ \/ T.pc = "idle" /\ Blank(T) /\ ReadOut(T, hs) /\ WriteOut(T, hs)
       \/ T.pc = "engine" /\ Batch(T, hs)

BytesOf(x, h) == h \in ByteSeq /\ Len(h) = Len(Memory[x].bytes)
HeldOK(hs) == DOMAIN hs = DOMAIN Memory /\ \A x \in DOMAIN Memory : \A h \in hs[x] : BytesOf(x, h)
Seen(m, hs) == \A x \in DOMAIN Memory : m[x] \in hs[x]
MemOK(m) == DOMAIN m = DOMAIN Memory /\ \A x \in DOMAIN Memory : BytesOf(x, m[x])

BInv ==
    /\ calls \in 0 .. MaxCalls /\ faults \in 0 .. MaxFaults
    /\ alone \in [Threads -> BOOLEAN]
    /\ MemOK(mem) /\ IsBatch(late)
    /\ DOMAIN thr = Threads /\ DOMAIN held = Threads
    /\ \A t \in Threads : /\ HeldOK(held[t]) /\ ThreadOK(thr[t], held[t])
                          /\ Busy(t) => Seen(mem, held[t])

EndOf(c, rc, val, str) == [Idle EXCEPT !.call = c, !.out = [rc |-> rc, val |-> val, str |-> str]]
SentBy(c, reqs, form, len) ==
    [Idle EXCEPT !.pc = "engine", !.call = c, !.form = form, !.reqs = reqs,
                 !.area = AccessFill(reqs), !.len = len]

\* A thread whose call has returned.
LEMMA EndOfIs ==
  ASSUME NEW c, NEW rc, NEW val, NEW str, NEW T, T = EndOf(c, rc, val, str)
  PROVE  /\ IsThread(T) /\ T.pc = "idle" /\ Blank(T) /\ T.call = c
         /\ T.out.rc = rc /\ T.out.val = val /\ T.out.str = str
  BY DEF EndOf, Idle, IsThread, Blank

\* A thread whose batch is at the engine.
LEMMA SentByIs ==
  ASSUME NEW c, NEW reqs, NEW form, NEW len, NEW T, T = SentBy(c, reqs, form, len)
  PROVE  /\ IsThread(T) /\ T.pc = "engine" /\ T.call = c /\ T.form = form /\ T.reqs = reqs
         /\ T.res = <<>> /\ T.area = AccessFill(reqs) /\ T.len = len
  BY DEF SentBy, Idle, IsThread

\* A thread that has made no call, or whose outcome is forgotten.
LEMMA IdleThread ==
  ASSUME NEW hs
  PROVE  ThreadOK(Idle, hs) /\ Idle.pc = "idle"
<1>1. IsThread(Idle) /\ Idle.pc = "idle" /\ Blank(Idle) /\ Idle.call = None
  BY DEF Idle, IsThread, Blank
<1>2. ReadOut(Idle, hs) /\ WriteOut(Idle, hs)
  BY <1>1 DEF ReadOut, WriteOut, Ended
<1>3. QED
  BY <1>1, <1>2 DEF ThreadOK

\* A call that fails has nothing to answer for.
LEMMA FailsOK ==
  ASSUME NEW t, NEW c, NEW rc, rc # "OK", NEW hs, Fails(t, c, rc)
  PROVE  \E T : ThreadOK(T, hs) /\ Becomes(t, T)
<1>1. PICK T : T = EndOf(c, rc, None, None)
  OBVIOUS
<1>2. IsThread(T) /\ T.pc = "idle" /\ Blank(T) /\ T.out.rc # "OK" /\ T.out.val = None
  BY <1>1, EndOfIs
<1>3. ReadOut(T, hs) /\ WriteOut(T, hs)
  BY <1>2 DEF ReadOut, WriteOut
<1>4. Becomes(t, T)
  BY <1>1 DEF Fails, Returns, EndOf
<1>5. QED
  BY <1>2, <1>3, <1>4 DEF ThreadOK

\* A batch that is sent is filled from its requests, and fits the slot.
LEMMA SendOK ==
  ASSUME NEW t, NEW c \in Calls, NEW reqs, NEW form \in DOMAIN Form, NEW len, NEW hs,
         Send(t, c, reqs, form, len), IsBatch(reqs), RequestsOf(c, reqs, len)
  PROVE  \E T : ThreadOK(T, hs) /\ Becomes(t, T)
<1>1. CASE AccessRc(reqs, form) # "OK"
  BY <1>1, FailsOK DEF Send
<1>2. CASE AccessRc(reqs, form) = "OK"
  <2>1. PICK T : T = SentBy(c, reqs, form, len)
    OBVIOUS
  <2>2. /\ IsThread(T) /\ T.pc = "engine" /\ T.call = c /\ T.form = form /\ T.reqs = reqs
        /\ T.res = <<>> /\ T.area = AccessFill(reqs) /\ T.len = len
    BY <2>1, SentByIs
  <2>3. PICK off : off = Offsets(reqs)
    OBVIOUS
  <2>4. /\ AccessFill(reqs) \in ByteSeq /\ Len(AccessFill(reqs)) = AreaOf(reqs)
        /\ \A i \in DOMAIN reqs : reqs[i].act = "write" => AreaHas(reqs, AccessFill(reqs), i, reqs[i].data)
    BY <2>3, FillIs DEF AreaOf, AreaHas
  <2>5. <<>> \in Seq({0, 1}) /\ Len(<<>>) = 0 /\ DOMAIN <<>> = {}
    OBVIOUS
  <2>6. Len(reqs) \in Nat
    BY ListIs DEF IsBatch
  <2>7. Batch(T, hs)
    BY <1>2, <2>2, <2>4, <2>5, <2>6 DEF Batch
  <2>8. Becomes(t, T)
    BY <1>2, <2>1 DEF Send, SentBy
  <2>9. QED
    BY <2>2, <2>7, <2>8 DEF ThreadOK
<1>3. QED
  BY <1>1, <1>2

-----------------------------------------------------------------------------
(* Calls start *)

\* A name that resolves is a scalar of an atomic type, and no structure.
LEMMA ResolveIs ==
  ASSUME NEW name, Resolve(name) # "NONE"
  PROVE  /\ name \in DOMAIN Symbols /\ Symbols[name].dim0 = 0 /\ Symbols[name].struct = 0
         /\ Resolve(name) = Symbols[name].type /\ Resolve(name) \in DOMAIN Width
<1>1. name \in DOMAIN Symbols /\ Symbols[name].dim0 = 0 /\ Symbols[name].struct = 0
  BY DEF Resolve
<1>2. Resolve(name) = KindForAtomic(Symbols[name])
  BY <1>1 DEF Resolve
<1>3. QED
  BY <1>1, <1>2 DEF KindForAtomic

\* bp_tagdb_access starts with the batch of the caller.
LEMMA AccessOK ==
  ASSUME NEW t, NEW c \in Calls, NEW hs, Access(t, c)
  PROVE  \E T : ThreadOK(T, hs) /\ Becomes(t, T)
<1>1. c.op = "access" /\ Send(t, c, c.reqs, c.form, 0)
  BY DEF Access, Begin
<1>2. c.form \in DOMAIN Form /\ IsBatch(c.reqs)
  BY <1>1, CallsAssumption DEF IsCall
<1>3. RequestsOf(c, c.reqs, 0)
  BY <1>1 DEF RequestsOf, Ops
<1>4. QED
  BY <1>1, <1>2, <1>3, SendOK

\* A call for no tags is done at once.
LEMMA NothingOK ==
  ASSUME NEW t, NEW c, c.op \in {"read_tags", "write_tags"}, c.names = <<>>, NEW hs,
         Returns(t, c, "OK", <<>>, None)
  PROVE  \E T : ThreadOK(T, hs) /\ Becomes(t, T)
<1>1. PICK T : T = EndOf(c, "OK", <<>>, None)
  OBVIOUS
<1>2. IsThread(T) /\ T.pc = "idle" /\ Blank(T) /\ T.call = c /\ T.out.val = <<>>
  BY <1>1, EndOfIs
<1>3. DOMAIN <<>> = {}
  OBVIOUS
<1>4. ReadOut(T, hs)
  BY <1>2, <1>3 DEF ReadOut, Ended
<1>5. WriteOut(T, hs)
  BY <1>2, <1>3 DEF WriteOut, Ended
<1>6. Becomes(t, T)
  BY <1>1 DEF Returns, EndOf
<1>7. QED
  BY <1>2, <1>4, <1>5, <1>6 DEF ThreadOK

\* bp_tagdb_read_tags starts with one read per name.
LEMMA ReadTagsOK ==
  ASSUME NEW t, NEW c \in Calls, NEW hs, ReadTags(t, c)
  PROVE  \E T : ThreadOK(T, hs) /\ Becomes(t, T)
<1> DEFINE reqs == [i \in DOMAIN c.names |-> ReadOf(c.names[i], Resolve(c.names[i]), 1)]
<1>1. c.op = "read_tags" /\ c.names \in Seq(Elems(c.names))
  BY CallsAssumption DEF ReadTags, Begin, IsCall
<1>2. \/ c.names = <<>> /\ Returns(t, c, "OK", <<>>, None)
      \/ Fails(t, c, "PARAM_RANGE") \/ Fails(t, c, "RECV_ANSWER")
      \/ (\A i \in DOMAIN c.names : Resolve(c.names[i]) # "NONE") /\ Send(t, c, reqs, "path", 0)
  BY DEF ReadTags
<1>3. CASE c.names = <<>> /\ Returns(t, c, "OK", <<>>, None)
  BY <1>1, <1>3, NothingOK
<1>4. CASE Fails(t, c, "PARAM_RANGE") \/ Fails(t, c, "RECV_ANSWER")
  BY <1>4, FailsOK
<1>5. CASE (\A i \in DOMAIN c.names : Resolve(c.names[i]) # "NONE") /\ Send(t, c, reqs, "path", 0)
  <2>1. RequestsOf(c, reqs, 0)
    BY <1>1, <1>5 DEF RequestsOf, Ops
  <2>2. DOMAIN reqs = DOMAIN c.names /\ reqs = [i \in DOMAIN reqs |-> reqs[i]]
    OBVIOUS
  <2>3. \A i \in DOMAIN c.names : IsRequest(reqs[i])
    <3>1. TAKE i \in DOMAIN c.names
    <3>2. Resolve(c.names[i]) \in DOMAIN Width
      BY <1>5, ResolveIs
    <3>3. IsRequest(ReadOf(c.names[i], Resolve(c.names[i]), 1))
      BY <3>2, ReadOfIs
    <3>4. QED
      BY <3>3
  <2> HIDE DEF reqs
  <2>4. IsBatch(reqs)
    BY <1>1, <2>2, <2>3, ListBatch
  <2>5. "path" \in DOMAIN Form
    BY DEF Form
  <2>6. QED
    BY <1>5, <2>1, <2>4, <2>5, SendOK
<1>6. QED
  BY <1>2, <1>3, <1>4, <1>5

\* The bytes of a scalar are a request's data.
LEMMA ScalarRequest ==
  ASSUME NEW tag, NEW type \in DOMAIN Width, NEW v \in Values(type), NEW r,
         r = WriteOf(tag, type, EncodeScalar(type, v))
  PROVE  /\ IsRequest(r) /\ Bytes(r) = Width[type] /\ r.data = EncodeScalar(type, v)
         /\ r.act = "write" /\ r.tag = tag /\ r.type = type
<1>1. EncodeScalar(type, v) \in ByteSeq /\ Len(EncodeScalar(type, v)) = Width[type]
  BY ValuesInt, EncodeIs DEF ByteSeq
<1>2. Width[type] * 1 = Width[type]
  BY WidthIs
<1>3. PICK d : d = EncodeScalar(type, v)
  OBVIOUS
<1>4. d \in ByteSeq /\ Len(d) = Width[type] * 1 /\ r = WriteOf(tag, type, d)
  BY <1>1, <1>2, <1>3
<1>5. IsRequest(r) /\ Bytes(r) = Len(d) /\ r.data = d /\ r.act = "write" /\ r.tag = tag /\ r.type = type
  BY <1>4, WriteOfIs
<1>6. QED
  BY <1>1, <1>3, <1>5

\* A value that may be written is of the kind of its tag.
LEMMA WritableIs ==
  ASSUME NEW c \in Calls, c.op = "write_tags", NEW i \in DOMAIN c.names, Writable(c.names[i], c.vals[i])
  PROVE  /\ Resolve(c.names[i]) # "NONE" /\ Resolve(c.names[i]) = c.vals[i].kind
         /\ c.vals[i].kind \in DOMAIN Width /\ c.vals[i].v \in Values(c.vals[i].kind)
<1>1. Resolve(c.names[i]) # "NONE" /\ Resolve(c.names[i]) = c.vals[i].kind
  BY DEF Writable
<1>2. c.vals[i].kind \in DOMAIN Width
  BY <1>1, ResolveIs
<1>3. QED
  BY <1>1, <1>2, CallsAssumption DEF IsCall

\* bp_tagdb_write_tags starts with one write per name.
LEMMA WriteTagsOK ==
  ASSUME NEW t, NEW c \in Calls, NEW hs, WriteTags(t, c)
  PROVE  \E T : ThreadOK(T, hs) /\ Becomes(t, T)
<1> DEFINE reqs == [i \in DOMAIN c.names |->
             WriteOf(c.names[i], Resolve(c.names[i]), EncodeScalar(c.vals[i].kind, c.vals[i].v))]
<1>1. c.op = "write_tags" /\ c.names \in Seq(Elems(c.names))
  BY CallsAssumption DEF WriteTags, Begin, IsCall
<1>2. \/ c.names = <<>> /\ Returns(t, c, "OK", <<>>, None)
      \/ Fails(t, c, "PARAM_RANGE") \/ Fails(t, c, "RECV_ANSWER")
      \/ (\A i \in DOMAIN c.names : Writable(c.names[i], c.vals[i])) /\ Send(t, c, reqs, "path", 0)
  BY DEF WriteTags
<1>3. CASE c.names = <<>> /\ Returns(t, c, "OK", <<>>, None)
  BY <1>1, <1>3, NothingOK
<1>4. CASE Fails(t, c, "PARAM_RANGE") \/ Fails(t, c, "RECV_ANSWER")
  BY <1>4, FailsOK
<1>5. CASE (\A i \in DOMAIN c.names : Writable(c.names[i], c.vals[i])) /\ Send(t, c, reqs, "path", 0)
  <2>1. RequestsOf(c, reqs, 0)
    BY <1>1, <1>5 DEF RequestsOf, Ops
  <2>2. DOMAIN reqs = DOMAIN c.names /\ reqs = [i \in DOMAIN reqs |-> reqs[i]]
    OBVIOUS
  <2>3. \A i \in DOMAIN c.names : IsRequest(reqs[i])
    <3>1. TAKE i \in DOMAIN c.names
    <3>2. /\ Resolve(c.names[i]) = c.vals[i].kind /\ c.vals[i].kind \in DOMAIN Width
          /\ c.vals[i].v \in Values(c.vals[i].kind)
      BY <1>1, <1>5, WritableIs
    <3>3. IsRequest(WriteOf(c.names[i], c.vals[i].kind, EncodeScalar(c.vals[i].kind, c.vals[i].v)))
      BY <3>2, ScalarRequest
    <3>4. QED
      BY <3>2, <3>3
  <2> HIDE DEF reqs
  <2>4. IsBatch(reqs)
    BY <1>1, <2>2, <2>3, ListBatch
  <2>5. "path" \in DOMAIN Form
    BY DEF Form
  <2>6. QED
    BY <1>5, <2>1, <2>4, <2>5, SendOK
<1>6. QED
  BY <1>2, <1>3, <1>4, <1>5

\* A batch of one request that reads.
LEMMA OneRead ==
  ASSUME NEW t, NEW c \in Calls, NEW hs, NEW tag, NEW type \in DOMAIN Width, NEW n \in Nat, NEW len,
         RequestsOf(c, <<ReadOf(tag, type, n)>>, len), Send(t, c, <<ReadOf(tag, type, n)>>, "path", len)
  PROVE  \E T : ThreadOK(T, hs) /\ Becomes(t, T)
<1>1. IsBatch(<<ReadOf(tag, type, n)>>)
  BY ReadOfIs, OneRequest
<1>2. "path" \in DOMAIN Form
  BY DEF Form
<1>3. QED
  BY <1>1, <1>2, SendOK

\* A batch of one request that writes.
LEMMA OneWrite ==
  ASSUME NEW t, NEW c \in Calls, NEW hs, NEW tag, NEW type \in DOMAIN Width, NEW n \in Nat, NEW len,
         NEW data \in ByteSeq, Len(data) = Width[type] * n,
         RequestsOf(c, <<WriteOf(tag, type, data)>>, len), Send(t, c, <<WriteOf(tag, type, data)>>, "path", len)
  PROVE  \E T : ThreadOK(T, hs) /\ Becomes(t, T)
<1>1. IsBatch(<<WriteOf(tag, type, data)>>)
  BY WriteOfIs, OneRequest
<1>2. "path" \in DOMAIN Form
  BY DEF Form
<1>3. QED
  BY <1>1, <1>2, SendOK

\* bp_tagdb_read_<type>_array starts with one read.
LEMMA ReadTypedOK ==
  ASSUME NEW t, NEW c \in Calls, NEW hs, ReadTyped(t, c)
  PROVE  \E T : ThreadOK(T, hs) /\ Becomes(t, T)
<1>1. c.op = "read" /\ c.type \in DOMAIN Width /\ c.count \in Nat
  BY CallsAssumption DEF ReadTyped, Begin, IsCall
<1>2. CASE Fails(t, c, "NULL_ARG")
  BY <1>2, FailsOK
<1>3. CASE Send(t, c, <<ReadOf(c.tag, c.type, c.count)>>, "path", 0)
  <2>1. RequestsOf(c, <<ReadOf(c.tag, c.type, c.count)>>, 0)
    BY <1>1 DEF RequestsOf, Ops
  <2>2. QED
    BY <1>1, <1>3, <2>1, OneRead
<1>4. QED
  BY <1>2, <1>3 DEF ReadTyped

\* bp_tagdb_write_<type>_array starts with one write.
LEMMA WriteTypedOK ==
  ASSUME NEW t, NEW c \in Calls, NEW hs, WriteTyped(t, c)
  PROVE  \E T : ThreadOK(T, hs) /\ Becomes(t, T)
<1>1. c.op = "write" /\ c.type \in DOMAIN Width /\ c.vals \in Seq(Values(c.type))
  BY CallsAssumption DEF WriteTyped, Begin, IsCall
<1>2. CASE Fails(t, c, "NULL_ARG")
  BY <1>2, FailsOK
<1>3. CASE Send(t, c, <<WriteOf(c.tag, c.type, EncodeArray(c.type, c.vals))>>, "path", 0)
  <2>1. RequestsOf(c, <<WriteOf(c.tag, c.type, EncodeArray(c.type, c.vals))>>, 0)
    BY <1>1 DEF RequestsOf, Ops
  <2>2. /\ EncodeArray(c.type, c.vals) \in ByteSeq /\ Len(c.vals) \in Nat
        /\ Len(EncodeArray(c.type, c.vals)) = Width[c.type] * Len(c.vals)
    BY <1>1, EncodeArrayIs
  <2>3. QED
    BY <1>1, <1>3, <2>1, <2>2, OneWrite
<1>4. QED
  BY <1>2, <1>3 DEF WriteTyped

\* The number of words of a BOOL array.
LEMMA WordsNat ==
  ASSUME NEW n \in Nat
  PROVE  DwordsForBits(n) \in Nat
<1>1. PICK w \in Nat \ {0} : w = WordBits
  BY ByteIs DEF WordBits
<1>2. n + w - 1 \in Nat
  OBVIOUS
<1>3. (n + w - 1) \div w \in Nat
  BY <1>2, DivMod
<1>4. QED
  BY <1>1, <1>3 DEF DwordsForBits

\* bp_tagdb_read_bool_array starts with a read of words.
LEMMA ReadBoolsOK ==
  ASSUME NEW t, NEW c \in Calls, NEW hs, ReadBools(t, c)
  PROVE  \E T : ThreadOK(T, hs) /\ Becomes(t, T)
<1>1. c.op = "read_bools" /\ c.count \in Nat
  BY CallsAssumption DEF ReadBools, Begin, IsCall
<1>2. CASE Fails(t, c, "NULL_ARG")
  BY <1>2, FailsOK
<1>3. CASE Send(t, c, <<ReadOf(c.tag, "BIT_ARRAY", DwordsForBits(c.count))>>, "path", 0)
  <2>1. RequestsOf(c, <<ReadOf(c.tag, "BIT_ARRAY", DwordsForBits(c.count))>>, 0)
    BY <1>1 DEF RequestsOf, Ops
  <2>2. DwordsForBits(c.count) \in Nat /\ "BIT_ARRAY" \in DOMAIN Width
    BY <1>1, WordsNat, WidthIs
  <2>3. QED
    BY <1>1, <1>3, <2>1, <2>2, OneRead
<1>4. QED
  BY <1>2, <1>3 DEF ReadBools

\* bp_tagdb_write_bool_array starts with a write of words.
LEMMA WriteBoolsOK ==
  ASSUME NEW t, NEW c \in Calls, NEW hs, WriteBools(t, c)
  PROVE  \E T : ThreadOK(T, hs) /\ Becomes(t, T)
<1>1. c.op = "write_bools" /\ c.bools \in Seq({0, 1})
  BY CallsAssumption DEF WriteBools, Begin, IsCall
<1>2. CASE Fails(t, c, "NULL_ARG")
  BY <1>2, FailsOK
<1>3. CASE Send(t, c, <<WriteOf(c.tag, "BIT_ARRAY", EncodeArray("BIT_ARRAY", PackBits(c.bools)))>>, "path", 0)
  <2>1. PICK words : words = PackBits(c.bools)
    OBVIOUS
  <2>2. words \in Seq(Values("BIT_ARRAY")) /\ Len(words) \in Nat /\ "BIT_ARRAY" \in DOMAIN Width
    BY <1>1, <2>1, PackBitsIs, WidthIs
  <2>3. PICK data : data = EncodeArray("BIT_ARRAY", words)
    OBVIOUS
  <2>4. data \in ByteSeq /\ Len(data) = Width["BIT_ARRAY"] * Len(words)
    BY <2>2, <2>3, EncodeArrayIs
  <2>5. RequestsOf(c, <<WriteOf(c.tag, "BIT_ARRAY", data)>>, 0)
    BY <1>1, <2>1, <2>3 DEF RequestsOf, Ops
  <2>6. Send(t, c, <<WriteOf(c.tag, "BIT_ARRAY", data)>>, "path", 0)
    BY <1>3, <2>1, <2>3
  <2>7. QED
    BY <2>2, <2>4, <2>5, <2>6, OneWrite
<1>4. QED
  BY <1>2, <1>3 DEF WriteBools

\* bp_tagdb_read_string starts with a read of LEN.
LEMMA ReadStringOK ==
  ASSUME NEW t, NEW c \in Calls, NEW hs, ReadString(t, c)
  PROVE  \E T : ThreadOK(T, hs) /\ Becomes(t, T)
<1>1. c.op = "read_string"
  BY DEF ReadString, Begin
<1>2. CASE Fails(t, c, "NULL_ARG")
  BY <1>2, FailsOK
<1>3. CASE c.room # 0 /\ Send(t, c, <<ReadOf(LenOf(c.tag), "DINT", 1)>>, "path", 0)
  <2>1. RequestsOf(c, <<ReadOf(LenOf(c.tag), "DINT", 1)>>, 0)
    BY <1>1, <1>3 DEF RequestsOf, Ops
  <2>2. QED
    BY <1>3, <2>1, OneRead, WidthIs
<1>4. QED
  BY <1>2, <1>3 DEF ReadString

\* The length write_string stores fits a DINT.
LEMMA LenFits ==
  ASSUME NEW n \in Nat, n <= MaxCount
  PROVE  n \in Values("DINT")
<1>1. PICK half \in Nat \ {0} : Span(4) = 2 * half /\ Span(4) \div 2 = half
  BY SpanEven
<1>2. Span(4) = Pow2[WordBits] /\ Span(4) = Pow2[ByteBits * Width["DINT"]]
  BY WordSpan, WidthIs DEF Span
<1>3. 2 * MaxCount < Span(4) /\ MaxCount \in Nat
  BY <1>2, StringsAssumption, TagAccessAssumption
<1>4. n < half
  BY <1>1, <1>3
<1>5. Values("DINT") = -half .. half - 1
  BY <1>1, <1>2 DEF Values, SignedTypes
<1>6. QED
  BY <1>4, <1>5

\* bp_tagdb_write_string sends LEN.
LEMMA SendLenOK ==
  ASSUME NEW t, NEW c \in Calls, NEW hs, c.op = "write_string", SendLen(t, c), Len(c.str) <= MaxCount
  PROVE  \E T : ThreadOK(T, hs) /\ Becomes(t, T)
<1>1. Len(c.str) \in Nat
  BY CallsAssumption DEF IsCall
<1>2. PICK data : data = EncodeScalar("DINT", Len(c.str))
  OBVIOUS
<1>3. data \in ByteSeq /\ Len(data) = Width["DINT"] /\ "DINT" \in DOMAIN Width
  <2>1. Len(c.str) \in Int /\ "DINT" \in DOMAIN Width
    BY <1>1, WidthIs
  <2>2. QED
    BY <1>2, <2>1, EncodeIs DEF ByteSeq
<1>4. Len(data) = Width["DINT"] * 1
  BY <1>3, WidthIs
<1>5. RequestsOf(c, <<WriteOf(LenOf(c.tag), "DINT", data)>>, 0)
  BY <1>2 DEF RequestsOf, Ops
<1>6. Send(t, c, <<WriteOf(LenOf(c.tag), "DINT", data)>>, "path", 0)
  BY <1>2 DEF SendLen
<1>7. QED
  BY <1>3, <1>4, <1>5, <1>6, OneWrite

\* The characters of a string that is written.
LEMMA CharsAre ==
  ASSUME NEW c \in Calls, c.op = "write_string"
  PROVE  c.str \in Seq(Values("SINT")) /\ Len(c.str) \in Nat
<1>1. c.str \in Seq(Values("SINT") \ {0})
  BY CallsAssumption DEF IsCall
<1>2. QED
  BY <1>1

\* bp_tagdb_write_string sends DATA.
LEMMA SendDataOK ==
  ASSUME NEW t, NEW c \in Calls, NEW hs, c.op = "write_string", SendData(t, c), Len(c.str) <= MaxCount
  PROVE  \E T : ThreadOK(T, hs) /\ Becomes(t, T)
<1>1. c.str \in Seq(Values("SINT")) /\ Len(c.str) \in Nat
  BY CharsAre
<1>2. PICK data : data = EncodeArray("SINT", c.str)
  OBVIOUS
<1>3. data \in ByteSeq /\ Len(data) = Width["SINT"] * Len(c.str) /\ "SINT" \in DOMAIN Width
  BY <1>1, <1>2, EncodeArrayIs, WidthIs
<1>5. RequestsOf(c, <<WriteOf(DataOf(c.tag), "SINT", data)>>, 0)
  BY <1>2 DEF RequestsOf, Ops
<1>6. Send(t, c, <<WriteOf(DataOf(c.tag), "SINT", data)>>, "path", 0)
  BY <1>2 DEF SendData
<1>7. QED
  BY <1>1, <1>3, <1>5, <1>6, OneWrite

\* bp_tagdb_write_string starts with DATA, or with LEN when there is none.
LEMMA WriteStringOK ==
  ASSUME NEW t, NEW c \in Calls, NEW hs, WriteString(t, c)
  PROVE  \E T : ThreadOK(T, hs) /\ Becomes(t, T)
<1>1. c.op = "write_string"
  BY DEF WriteString, Begin
<1>2. CASE Fails(t, c, "PARAM_RANGE")
  BY <1>2, FailsOK
<1>3. CASE ~(Len(c.str) > MaxCount) /\ (SendLen(t, c) \/ SendData(t, c))
  <2>1. Len(c.str) <= MaxCount
    BY <1>1, <1>3, CharsAre, TagAccessAssumption
  <2>2. QED
    BY <1>1, <1>3, <2>1, SendLenOK, SendDataOK
<1>4. QED
  BY <1>2, <1>3 DEF WriteString

\* Every call starts in order.
LEMMA StartOK ==
  ASSUME NEW t, NEW c \in Calls, NEW hs, Start(t, c)
  PROVE  \E T : ThreadOK(T, hs) /\ Becomes(t, T)
  BY AccessOK, ReadTagsOK, WriteTagsOK, ReadTypedOK, WriteTypedOK, ReadBoolsOK, WriteBoolsOK,
     ReadStringOK, WriteStringOK DEF Start

-----------------------------------------------------------------------------
(* What comes back *)

\* What a read gets back is what its tag held.
LEMMA DataIs ==
  ASSUME NEW T, NEW hs, Batch(T, hs), NEW i \in DOMAIN T.reqs, NEW h \in ByteSeq,
         Bytes(T.reqs[i]) <= Len(h), AreaHas(T.reqs, T.area, i, h), T.reqs[i].act = "read"
  PROVE  AccessRead(T.reqs, T.res, T.area)[i] = SubSeq(h, 1, Bytes(T.reqs[i]))
<1>1. PICK reqs, area, off, n : reqs = T.reqs /\ area = T.area /\ off = Offsets(reqs) /\ n = Bytes(reqs[i])
  OBVIOUS
<1>2. IsOffsets(reqs, off) /\ area \in ByteSeq /\ Len(area) = off[Len(reqs)]
  BY <1>1, OffsetsAre DEF Batch, AreaOf
<1>3. /\ off[i - 1] \in Nat /\ off[i] \in Nat /\ n \in Nat /\ off[i] = off[i - 1] + n
      /\ off[i] <= Len(area)
  BY <1>1, <1>2, PlaceOf
<1>4. AccessRead(T.reqs, T.res, T.area)[i] = SubSeq(area, off[i - 1] + 1, off[i])
  BY <1>1 DEF AccessRead
<1>5. \A j \in 1 .. n : area[off[i - 1] + j] = h[j]
  BY <1>1 DEF AreaHas
<1>6. PICK S : ByteSeq = Seq(S)
  BY DEF ByteSeq
<1>7. PICK a : a = off[i - 1]
  OBVIOUS
<1>8. a \in Nat /\ off[i] = a + n /\ a + n <= Len(area) /\ n <= Len(h)
  BY <1>1, <1>3, <1>7
<1>9. area \in Seq(S) /\ h \in Seq(S)
  BY <1>2, <1>6
<1>10. /\ SubSeq(area, a + 1, a + n) \in Seq(S) /\ Len(SubSeq(area, a + 1, a + n)) = n
       /\ \A j \in 1 .. n : SubSeq(area, a + 1, a + n)[j] = area[a + j]
  BY <1>3, <1>8, <1>9
<1>11. /\ SubSeq(h, 1, n) \in Seq(S) /\ Len(SubSeq(h, 1, n)) = n
       /\ \A j \in 1 .. n : SubSeq(h, 1, n)[j] = h[j]
  BY <1>3, <1>8, <1>9
<1>12. SubSeq(area, a + 1, a + n) = SubSeq(h, 1, n)
  BY <1>5, <1>7, <1>10, <1>11, SeqEq
<1>13. QED
  BY <1>1, <1>4, <1>7, <1>8, <1>12

\* What a write put into its tag is its data.
LEMMA WrittenIs ==
  ASSUME NEW T, NEW hs, Batch(T, hs), NEW i \in DOMAIN T.reqs, NEW h \in ByteSeq,
         Bytes(T.reqs[i]) <= Len(h), AreaHas(T.reqs, T.area, i, h), T.reqs[i].act = "write"
  PROVE  /\ T.reqs[i].data \in ByteSeq /\ Len(T.reqs[i].data) = Bytes(T.reqs[i])
         /\ T.reqs[i].data = SubSeq(h, 1, Bytes(T.reqs[i]))
<1>1. PICK d, n : d = T.reqs[i].data /\ n = Bytes(T.reqs[i])
  OBVIOUS
<1>2. d \in ByteSeq /\ Len(d) = n /\ n \in Nat
  BY <1>1, RequestBytes DEF Batch, IsBatch, IsRequest, ByteSeq
<1>3. \A j \in 1 .. n : d[j] = h[j]
  BY <1>1 DEF AreaHas, Batch
<1>4. PICK S : ByteSeq = Seq(S)
  BY DEF ByteSeq
<1>5. d \in Seq(S) /\ h \in Seq(S) /\ n <= Len(h)
  BY <1>1, <1>2, <1>4
<1>6. /\ SubSeq(h, 1, n) \in Seq(S) /\ Len(SubSeq(h, 1, n)) = n
      /\ \A j \in 1 .. n : SubSeq(h, 1, n)[j] = h[j]
  BY <1>2, <1>5
<1>7. d = SubSeq(h, 1, n)
  BY <1>2, <1>3, <1>5, <1>6, SeqEq
<1>8. QED
  BY <1>1, <1>2, <1>7

\* An executed request names the bytes its tag held.
LEMMA ExecutedIs ==
  ASSUME NEW T, NEW hs, HeldOK(hs), NEW i, Executed(T.reqs, T.area, i, hs)
  PROVE  /\ T.reqs[i].tag \in DOMAIN Memory /\ T.reqs[i].type = Memory[T.reqs[i].tag].type
         /\ T.reqs[i].type \in DOMAIN Width
         /\ \E h \in hs[T.reqs[i].tag] :
               h \in ByteSeq /\ Bytes(T.reqs[i]) <= Len(h) /\ AreaHas(T.reqs, T.area, i, h)
<1>1. T.reqs[i].tag \in DOMAIN Memory /\ T.reqs[i].type = Memory[T.reqs[i].tag].type
  BY DEF Executed
<1>2. T.reqs[i].type \in DOMAIN Width
  BY <1>1, MemoryAssumption
<1>3. PICK h \in hs[T.reqs[i].tag] : Bytes(T.reqs[i]) <= Len(h) /\ AreaHas(T.reqs, T.area, i, h)
  BY DEF Executed
<1>4. h \in ByteSeq
  BY <1>1, <1>3 DEF HeldOK, BytesOf
<1>5. QED
  BY <1>1, <1>2, <1>3, <1>4

\* A prefix of n elements has the same elements.
LEMMA PrefixElements ==
  ASSUME NEW w \in {1, 2, 4, 8}, NEW h \in ByteSeq, NEW n \in Nat, w * n <= Len(h)
  PROVE  /\ SubSeq(h, 1, w * n) \in ByteSeq /\ Len(SubSeq(h, 1, w * n)) = w * n
         /\ \A k \in 1 .. n : Element(SubSeq(h, 1, w * n), w, k) = Element(h, w, k)
<1>1. PICK N \in Nat : N = w * n /\ n * w = N
  OBVIOUS
<1>2. PICK b : b = SubSeq(h, 1, N)
  OBVIOUS
<1>3. PICK S : ByteSeq = Seq(S)
  BY DEF ByteSeq
<1>4. /\ b \in Seq(S) /\ Len(b) = N
      /\ \A j \in 1 .. N : b[j] = h[j]
  BY <1>1, <1>2, <1>3
<1>5. b \in ByteSeq /\ n * w <= Len(b) /\ n * w <= Len(h) /\ \A j \in 1 .. n * w : b[j] = h[j]
  BY <1>1, <1>3, <1>4
<1>6. \A k \in 1 .. n : Element(b, w, k) = Element(h, w, k)
  BY <1>5, ElementSame
<1>7. QED
  BY <1>1, <1>2, <1>4, <1>5, <1>6

\* An array of one element.
LEMMA FirstElement ==
  ASSUME NEW b \in ByteSeq, NEW w \in {1, 2, 4, 8}, Len(b) = w
  PROVE  Element(b, w, 1) = b
<1>1. PICK S : ByteSeq = Seq(S)
  BY DEF ByteSeq
<1>2. Element(b, w, 1) = SubSeq(b, 1, w)
  BY DEF Element
<1>3. SubSeq(b, 1, w) = b
  BY <1>1
<1>4. QED
  BY <1>2, <1>3

\* A call that returns is in order when its outcome is.
LEMMA EndOK ==
  ASSUME NEW t, NEW c, NEW rc, NEW val, NEW str, NEW hs, Returns(t, c, rc, val, str),
         ReadOut(EndOf(c, rc, val, str), hs), WriteOut(EndOf(c, rc, val, str), hs)
  PROVE  \E T : ThreadOK(T, hs) /\ Becomes(t, T)
<1>1. PICK T : T = EndOf(c, rc, val, str)
  OBVIOUS
<1>2. IsThread(T) /\ T.pc = "idle" /\ Blank(T)
  BY <1>1, EndOfIs
<1>3. Becomes(t, T)
  BY <1>1 DEF Returns, EndOf
<1>4. QED
  BY <1>1, <1>2, <1>3 DEF ThreadOK

\* A batch none of whose requests was refused.
AllDone(T) == Len(T.res) = Len(T.reqs) /\ \A i \in DOMAIN T.res : T.res[i] = 0

\* An answered batch has a result for every request.
LEMMA SameDomain ==
  ASSUME NEW T, NEW hs, Batch(T, hs), Len(T.res) = Len(T.reqs)
  PROVE  DOMAIN T.res = DOMAIN T.reqs
<1>1. DOMAIN T.res = 1 .. Len(T.res)
  BY DEF Batch
<1>2. DOMAIN T.reqs = 1 .. Len(T.reqs)
  BY ListIs DEF Batch, IsBatch
<1>3. QED
  BY <1>1, <1>2

\* When no result is an error, every request has been executed.
LEMMA AllExecuted ==
  ASSUME NEW T, NEW hs, Batch(T, hs), AllDone(T)
  PROVE  DOMAIN T.res = DOMAIN T.reqs /\ \A i \in DOMAIN T.reqs : Executed(T.reqs, T.area, i, hs)
  BY SameDomain DEF Batch, AllDone

\* The outcome of bp_tagdb_access is true.
LEMMA AccessEnd ==
  ASSUME NEW T, NEW hs, Batch(T, hs), HeldOK(hs), T.call.op = "access", Len(T.res) = Len(T.reqs),
         NEW E, E = EndOf(T.call, "OK", [res |-> T.res, data |-> AccessRead(T.reqs, T.res, T.area)], None)
  PROVE  ReadOut(E, hs) /\ WriteOut(E, hs)
<1>1. /\ E.call = T.call /\ E.out.val.res = T.res
      /\ E.out.val.data = AccessRead(T.reqs, T.res, T.area)
  BY EndOfIs
<1>2. T.reqs = T.call.reqs
  BY DEF Batch, RequestsOf
<1>3. DOMAIN T.res = DOMAIN T.reqs
  <2>1. DOMAIN T.res = 1 .. Len(T.res)
    BY DEF Batch
  <2>2. DOMAIN T.reqs = 1 .. Len(T.reqs)
    BY ListIs DEF Batch, IsBatch
  <2>3. QED
    BY <2>1, <2>2
<1>4. ASSUME NEW i \in DOMAIN T.reqs, T.res[i] = 0
      PROVE  /\ T.reqs[i].act = "read" =>
                  \E h \in hs[T.reqs[i].tag] :
                     AccessRead(T.reqs, T.res, T.area)[i] = SubSeq(h, 1, Bytes(T.reqs[i]))
             /\ T.reqs[i].act = "write" =>
                  \E h \in hs[T.reqs[i].tag] : T.reqs[i].data = SubSeq(h, 1, Bytes(T.reqs[i]))
  <2>1. Executed(T.reqs, T.area, i, hs)
    BY <1>3, <1>4 DEF Batch
  <2>2. PICK h \in hs[T.reqs[i].tag] :
               h \in ByteSeq /\ Bytes(T.reqs[i]) <= Len(h) /\ AreaHas(T.reqs, T.area, i, h)
    BY <2>1, ExecutedIs
  <2>3. QED
    BY <2>2, DataIs, WrittenIs
<1>5. ReadOut(E, hs)
  BY ZenonT(40), <1>1, <1>2, <1>4 DEF ReadOut, Ended
<1>6. WriteOut(E, hs)
  <2>1. \A i \in DOMAIN E.call.reqs : E.call.reqs[i].act = "write" /\ E.out.val.res[i] = 0 =>
             \E h \in hs[E.call.reqs[i].tag] : E.call.reqs[i].data = SubSeq(h, 1, Bytes(E.call.reqs[i]))
    <3>1. \A i \in DOMAIN T.reqs : T.reqs[i].act = "write" /\ T.res[i] = 0 =>
             \E h \in hs[T.reqs[i].tag] : T.reqs[i].data = SubSeq(h, 1, Bytes(T.reqs[i]))
      BY <1>4
    <3>2. E.call.reqs = T.reqs /\ E.out.val.res = T.res
      BY <1>1, <1>2
    <3>3. QED
      BY <3>1, <3>2, Zenon
  <2>2. E.call.op = "access"
    BY <1>1
  <2>3. QED
    BY <2>1, <2>2 DEF WriteOut, Ended
<1>7. QED
  BY <1>5, <1>6

\* An element that was read.
LEMMA ElementRead ==
  ASSUME NEW T, NEW hs, Batch(T, hs), HeldOK(hs), NEW i \in DOMAIN T.reqs, T.reqs[i].act = "read",
         Executed(T.reqs, T.area, i, hs), NEW n \in Nat, T.reqs[i].count = n
  PROVE  \E h \in hs[T.reqs[i].tag] :
            /\ AccessRead(T.reqs, T.res, T.area)[i] \in ByteSeq
            /\ Len(AccessRead(T.reqs, T.res, T.area)[i]) = Width[T.reqs[i].type] * n
            /\ \A k \in 1 .. n :
                  PlcValue(T.reqs[i].type, Element(AccessRead(T.reqs, T.res, T.area)[i], Width[T.reqs[i].type], k))
                  = ValueAt(T.reqs[i].tag, h, k)
<1>1. /\ T.reqs[i].tag \in DOMAIN Memory /\ T.reqs[i].type = Memory[T.reqs[i].tag].type
      /\ T.reqs[i].type \in DOMAIN Width
  BY ExecutedIs
<1>2. PICK h \in hs[T.reqs[i].tag] :
               h \in ByteSeq /\ Bytes(T.reqs[i]) <= Len(h) /\ AreaHas(T.reqs, T.area, i, h)
  BY ExecutedIs
<1>3. PICK b : b = AccessRead(T.reqs, T.res, T.area)[i]
  OBVIOUS
<1>4. PICK N : N = Bytes(T.reqs[i])
  OBVIOUS
<1>5. b = SubSeq(h, 1, N) /\ N <= Len(h)
  BY <1>2, <1>3, <1>4, DataIs
<1>6. N = Width[T.reqs[i].type] * n
  BY <1>4 DEF Bytes, Executed
<1>7. /\ b \in ByteSeq /\ Len(b) = N
      /\ \A k \in 1 .. n : Element(b, Width[T.reqs[i].type], k) = Element(h, Width[T.reqs[i].type], k)
  <2>1. PICK w \in {1, 2, 4, 8} : w = Width[T.reqs[i].type]
    BY <1>1, WidthIs
  <2>2. N = w * n /\ w * n <= Len(h) /\ h \in ByteSeq
    BY <1>2, <1>5, <1>6, <2>1
  <2>3. /\ SubSeq(h, 1, w * n) \in ByteSeq /\ Len(SubSeq(h, 1, w * n)) = w * n
        /\ \A k \in 1 .. n : Element(SubSeq(h, 1, w * n), w, k) = Element(h, w, k)
    BY <2>2, PrefixElements
  <2>4. b = SubSeq(h, 1, w * n)
    BY <1>5, <2>2
  <2>5. QED
    BY <2>1, <2>2, <2>3, <2>4
<1>8. \A k \in 1 .. n : PlcValue(T.reqs[i].type, Element(b, Width[T.reqs[i].type], k)) = ValueAt(T.reqs[i].tag, h, k)
  BY <1>1, <1>7 DEF ValueAt
<1>9. QED
  BY <1>3, <1>6, <1>7, <1>8

\* The outcome of bp_tagdb_read_tags is true.
LEMMA ReadTagsEnd ==
  ASSUME NEW T, NEW hs, Batch(T, hs), HeldOK(hs), T.call.op = "read_tags", Len(T.res) = Len(T.reqs), NEW rc,
         NEW E, E = EndOf(T.call, rc, [i \in DOMAIN T.reqs |->
                  IF T.res[i] # 0 THEN None
                  ELSE DecodeScalar(T.reqs[i].type, AccessRead(T.reqs, T.res, T.area)[i])], None)
  PROVE  ReadOut(E, hs) /\ WriteOut(E, hs)
<1>1. PICK val : val = [i \in DOMAIN T.reqs |->
                  IF T.res[i] # 0 THEN None
                  ELSE DecodeScalar(T.reqs[i].type, AccessRead(T.reqs, T.res, T.area)[i])]
  OBVIOUS
<1>2. E.call = T.call /\ E.out.val = val
  BY <1>1, EndOfIs
<1>3. /\ DOMAIN T.reqs = DOMAIN T.call.names
      /\ \A i \in DOMAIN T.reqs : /\ T.reqs[i] = ReadOf(T.call.names[i], Resolve(T.call.names[i]), 1)
                                  /\ Resolve(T.call.names[i]) # "NONE"
  BY DEF Batch, RequestsOf
<1>4. ASSUME NEW i \in DOMAIN T.reqs, val[i] # None
      PROVE  \E h \in hs[T.call.names[i]] : val[i] = ValueAt(T.call.names[i], h, 1)
  <2>1. T.res[i] = 0 /\ val[i] = DecodeScalar(T.reqs[i].type, AccessRead(T.reqs, T.res, T.area)[i])
    BY <1>1, <1>4
  <2>2. Executed(T.reqs, T.area, i, hs)
    <3>1. DOMAIN T.res = 1 .. Len(T.res)
      BY DEF Batch
    <3>2. DOMAIN T.reqs = 1 .. Len(T.reqs)
      BY ListIs DEF Batch, IsBatch
    <3>3. QED
      BY <2>1, <3>1, <3>2 DEF Batch
  <2>3. Resolve(T.call.names[i]) \in DOMAIN Width
    BY <1>3, ResolveIs
  <2>4. T.reqs[i].tag = T.call.names[i] /\ T.reqs[i].act = "read" /\ T.reqs[i].count = 1
    BY <1>3, <2>3, ReadOfIs
  <2>5. PICK b : b = AccessRead(T.reqs, T.res, T.area)[i]
    OBVIOUS
  <2>6. PICK type \in DOMAIN Width : type = T.reqs[i].type
    BY <2>2, ExecutedIs
  <2>7. PICK h \in hs[T.call.names[i]] :
          /\ b \in ByteSeq /\ Len(b) = Width[type] * 1
          /\ PlcValue(type, Element(b, Width[type], 1)) = ValueAt(T.call.names[i], h, 1)
    BY <2>2, <2>4, <2>5, <2>6, ElementRead
  <2>8. PICK w \in {1, 2, 4, 8} : w = Width[type]
    BY WidthIs
  <2>9. Len(b) = w
    BY <2>7, <2>8
  <2>10. Element(b, w, 1) = b
    BY <2>7, <2>9, FirstElement
  <2>11. DecodeScalar(type, b) = PlcValue(type, b)
    BY <2>7, <2>8, <2>9, DecodeIsPlc DEF ByteSeq
  <2>12. QED
    BY <2>1, <2>5, <2>6, <2>7, <2>8, <2>10, <2>11
<1>5. DOMAIN val = DOMAIN T.reqs
  BY <1>1
<1>6. ReadOut(E, hs)
  BY <1>2, <1>4, <1>5 DEF ReadOut, Ended
<1>7. WriteOut(E, hs)
  BY <1>2 DEF WriteOut, Ended
<1>8. QED
  BY <1>6, <1>7

\* The one request of a batch that went well.
LEMMA OneDone ==
  ASSUME NEW T, NEW hs, Batch(T, hs), AllDone(T), NEW r, T.reqs = <<r>>
  PROVE  1 \in DOMAIN T.reqs /\ T.reqs[1] = r /\ Executed(T.reqs, T.area, 1, hs)
<1>1. DOMAIN <<r>> = {1} /\ <<r>>[1] = r
  OBVIOUS
<1>2. QED
  BY <1>1, AllExecuted

\* The outcome of bp_tagdb_read_<type>_array is true.
LEMMA ReadTypedEnd ==
  ASSUME NEW T, NEW hs, Batch(T, hs), HeldOK(hs), T.call.op = "read", AllDone(T),
         NEW E, E = EndOf(T.call, "OK", DecodeArray(T.reqs[1].type, AccessRead(T.reqs, T.res, T.area)[1]), None)
  PROVE  ReadOut(E, hs) /\ WriteOut(E, hs)
<1>1. PICK b : b = AccessRead(T.reqs, T.res, T.area)[1]
  OBVIOUS
<1>2. E.call = T.call /\ E.out.val = DecodeArray(T.reqs[1].type, b)
  BY <1>1, EndOfIs
<1>3. T.reqs = <<ReadOf(T.call.tag, T.call.type, T.call.count)>>
  BY DEF Batch, RequestsOf
<1>4. T.call.type \in DOMAIN Width /\ T.call.count \in Nat
  BY CallsAssumption DEF Batch, IsCall
<1>5. PICK type \in DOMAIN Width, n \in Nat : type = T.call.type /\ n = T.call.count
  BY <1>4
<1>6. /\ 1 \in DOMAIN T.reqs /\ T.reqs[1] = ReadOf(T.call.tag, type, n)
      /\ Executed(T.reqs, T.area, 1, hs)
  BY <1>3, <1>5, OneDone
<1>7. T.reqs[1].tag = T.call.tag /\ T.reqs[1].type = type /\ T.reqs[1].count = n /\ T.reqs[1].act = "read"
  BY <1>6, ReadOfIs
<1>8. PICK h \in hs[T.call.tag] :
          /\ b \in ByteSeq /\ Len(b) = Width[type] * n
          /\ \A k \in 1 .. n : PlcValue(type, Element(b, Width[type], k)) = ValueAt(T.call.tag, h, k)
  BY <1>1, <1>6, <1>7, ElementRead
<1>9. DecodeArray(type, b) = [k \in 1 .. n |-> PlcValue(type, Element(b, Width[type], k))]
  BY <1>8, DecodeArrayIs
<1>10. DecodeArray(type, b) = [k \in 1 .. n |-> ValueAt(T.call.tag, h, k)]
  BY <1>8, <1>9
<1>11. \E g \in hs[T.call.tag] : E.out.val = [k \in 1 .. T.call.count |-> ValueAt(T.call.tag, g, k)]
  BY <1>2, <1>5, <1>7, <1>8, <1>10
<1>12. ReadOut(E, hs)
  BY ZenonT(40), <1>2, <1>11 DEF ReadOut, Ended
<1>13. WriteOut(E, hs)
  BY <1>2 DEF WriteOut, Ended
<1>14. QED
  BY <1>12, <1>13

\* The outcome of bp_tagdb_read_bool_array is true.
LEMMA ReadBoolsEnd ==
  ASSUME NEW T, NEW hs, Batch(T, hs), HeldOK(hs), T.call.op = "read_bools", AllDone(T),
         NEW E, E = EndOf(T.call, "OK", UnpackBits(DecodeArray("BIT_ARRAY", AccessRead(T.reqs, T.res, T.area)[1]),
                                                   T.call.count), None)
  PROVE  ReadOut(E, hs) /\ WriteOut(E, hs)
<1>1. PICK b : b = AccessRead(T.reqs, T.res, T.area)[1]
  OBVIOUS
<1>2. PICK words : words = DecodeArray("BIT_ARRAY", b)
  OBVIOUS
<1>3. E.call = T.call /\ E.out.val = UnpackBits(words, T.call.count)
  BY <1>1, <1>2, EndOfIs
<1>4. PICK type \in DOMAIN Width : type = "BIT_ARRAY"
  BY WidthIs
<1>5. PICK m \in Nat : m = T.call.count
  BY CallsAssumption DEF Batch, IsCall
<1>6. PICK n \in Nat : n = DwordsForBits(m)
  BY WordsNat
<1>7. T.reqs = <<ReadOf(T.call.tag, type, n)>>
  BY <1>4, <1>5, <1>6 DEF Batch, RequestsOf
<1>8. /\ 1 \in DOMAIN T.reqs /\ T.reqs[1] = ReadOf(T.call.tag, type, n)
      /\ Executed(T.reqs, T.area, 1, hs)
  BY <1>7, OneDone
<1>9. T.reqs[1].tag = T.call.tag /\ T.reqs[1].type = type /\ T.reqs[1].count = n /\ T.reqs[1].act = "read"
  BY <1>8, ReadOfIs
<1>10. PICK h \in hs[T.call.tag] :
          /\ b \in ByteSeq /\ Len(b) = Width[type] * n
          /\ \A k \in 1 .. n : PlcValue(type, Element(b, Width[type], k)) = ValueAt(T.call.tag, h, k)
  BY <1>1, <1>8, <1>9, ElementRead
<1>11. words = [k \in 1 .. n |-> PlcValue(type, Element(b, Width[type], k))]
  BY <1>2, <1>4, <1>10, DecodeArrayIs
<1>12. \A k \in 1 .. n : words[k] = ValueAt(T.call.tag, h, k)
  BY <1>10, <1>11
<1>13. \A i \in 1 .. m : (i - 1) \div WordBits + 1 \in 1 .. n
  BY <1>6, WordOf
<1>14. \A i \in 1 .. m : BitOf(words[(i - 1) \div WordBits + 1], (i - 1) % WordBits) = BitAt(T.call.tag, h, i)
  BY <1>12, <1>13 DEF BitAt
<1>15. UnpackBits(words, m) = [i \in 1 .. m |-> BitAt(T.call.tag, h, i)]
  BY <1>14 DEF UnpackBits
<1>16. \E g \in hs[T.call.tag] : E.out.val = [i \in 1 .. T.call.count |-> BitAt(T.call.tag, g, i)]
  BY <1>3, <1>5, <1>10, <1>15
<1>17. ReadOut(E, hs)
  BY ZenonT(40), <1>3, <1>16 DEF ReadOut, Ended
<1>18. WriteOut(E, hs)
  BY <1>3 DEF WriteOut, Ended
<1>19. QED
  BY <1>17, <1>18

\* An element that was written.
LEMMA ElementWritten ==
  ASSUME NEW T, NEW hs, Batch(T, hs), HeldOK(hs), NEW i \in DOMAIN T.reqs, T.reqs[i].act = "write",
         Executed(T.reqs, T.area, i, hs), NEW n \in Nat, T.reqs[i].count = n
  PROVE  \E h \in hs[T.reqs[i].tag] :
            \A k \in 1 .. n :
                  PlcValue(T.reqs[i].type, Element(T.reqs[i].data, Width[T.reqs[i].type], k))
                  = ValueAt(T.reqs[i].tag, h, k)
<1>1. /\ T.reqs[i].tag \in DOMAIN Memory /\ T.reqs[i].type = Memory[T.reqs[i].tag].type
      /\ T.reqs[i].type \in DOMAIN Width
  BY ExecutedIs
<1>2. PICK h \in hs[T.reqs[i].tag] :
               h \in ByteSeq /\ Bytes(T.reqs[i]) <= Len(h) /\ AreaHas(T.reqs, T.area, i, h)
  BY ExecutedIs
<1>3. PICK b : b = T.reqs[i].data
  OBVIOUS
<1>4. PICK N : N = Bytes(T.reqs[i])
  OBVIOUS
<1>5. b = SubSeq(h, 1, N) /\ N <= Len(h)
  BY <1>2, <1>3, <1>4, WrittenIs
<1>6. N = Width[T.reqs[i].type] * n
  BY <1>4 DEF Bytes, Executed
<1>7. \A k \in 1 .. n : Element(b, Width[T.reqs[i].type], k) = Element(h, Width[T.reqs[i].type], k)
  <2>1. PICK w \in {1, 2, 4, 8} : w = Width[T.reqs[i].type]
    BY <1>1, WidthIs
  <2>2. N = w * n /\ w * n <= Len(h) /\ h \in ByteSeq
    BY <1>2, <1>5, <1>6, <2>1
  <2>3. \A k \in 1 .. n : Element(SubSeq(h, 1, w * n), w, k) = Element(h, w, k)
    BY <2>2, PrefixElements
  <2>4. b = SubSeq(h, 1, w * n)
    BY <1>5, <2>2
  <2>5. QED
    BY <2>1, <2>3, <2>4
<1>8. \A k \in 1 .. n : PlcValue(T.reqs[i].type, Element(b, Width[T.reqs[i].type], k)) = ValueAt(T.reqs[i].tag, h, k)
  BY <1>1, <1>7 DEF ValueAt
<1>9. QED
  BY <1>3, <1>8

\* bp_tagdb_write_tags has put the value of a tag with status 0 into the tag.
LEMMA WriteTagsEnd ==
  ASSUME NEW T, NEW hs, Batch(T, hs), HeldOK(hs), T.call.op = "write_tags",
         Len(T.res) = Len(T.reqs), NEW i \in DOMAIN T.call.names, T.res[i] = 0
  PROVE  \E h \in hs[T.call.names[i]] : T.call.vals[i].v = ValueAt(T.call.names[i], h, 1)
<1>1. /\ i \in DOMAIN T.reqs /\ Writable(T.call.names[i], T.call.vals[i])
      /\ T.reqs[i] = WriteOf(T.call.names[i], Resolve(T.call.names[i]),
                             EncodeScalar(T.call.vals[i].kind, T.call.vals[i].v))
  BY DEF Batch, RequestsOf
<1>2. PICK type, v : type = T.call.vals[i].kind /\ v = T.call.vals[i].v
  OBVIOUS
<1>3. Resolve(T.call.names[i]) = type /\ type \in DOMAIN Width /\ v \in Values(type)
  BY <1>1, <1>2, WritableIs DEF Batch
<1>4. T.reqs[i] = WriteOf(T.call.names[i], type, EncodeScalar(type, v))
  BY <1>1, <1>2, <1>3
<1>5. /\ T.reqs[i].act = "write" /\ T.reqs[i].tag = T.call.names[i] /\ T.reqs[i].type = type
      /\ T.reqs[i].data = EncodeScalar(type, v)
  BY <1>3, <1>4, ScalarRequest
<1>6. T.reqs[i].count = 1
  <2>1. PICK w \in {1, 2, 4, 8} : w = Width[type]
    BY <1>3, WidthIs
  <2>2. Len(EncodeScalar(type, v)) = w
    BY <1>3, <2>1, ValuesInt, EncodeIs
  <2>3. w \div w = 1
    BY <2>1
  <2>4. QED
    BY <1>4, <2>1, <2>2, <2>3 DEF WriteOf, Request
<1>7. Executed(T.reqs, T.area, i, hs)
  BY <1>1, SameDomain DEF Batch
<1>8. PICK d : d = EncodeScalar(type, v)
  OBVIOUS
<1>9. PICK h \in hs[T.call.names[i]] : PlcValue(type, Element(d, Width[type], 1)) = ValueAt(T.call.names[i], h, 1)
  BY <1>1, <1>5, <1>6, <1>7, <1>8, ElementWritten
<1>10. d \in ByteSeq /\ Len(d) = Width[type]
  BY <1>3, <1>8, ValuesInt, EncodeIs DEF ByteSeq
<1>11. Element(d, Width[type], 1) = d
  BY <1>3, <1>10, FirstElement, WidthIs
<1>12. PlcValue(type, d) = v
  BY <1>3, <1>8, PlcOfEncode
<1>13. QED
  BY <1>2, <1>9, <1>11, <1>12

ArrayRequest(reqs, tag, type, vals) == reqs = <<WriteOf(tag, type, EncodeArray(type, vals))>>

ArrayHeld(hs, tag, vals) == \E h \in hs[tag] : \A k \in 1 .. Len(vals) : vals[k] = ValueAt(tag, h, k)

\* An array that was written.
LEMMA ArrayWritten ==
  ASSUME NEW T, NEW hs, Batch(T, hs), HeldOK(hs), AllDone(T), NEW tag, NEW type \in DOMAIN Width,
         NEW vals \in Seq(Values(type)), ArrayRequest(T.reqs, tag, type, vals)
  PROVE  ArrayHeld(hs, tag, vals)
<1>1. PICK d : d = EncodeArray(type, vals)
  OBVIOUS
<1>2. PICK n \in Nat : n = Len(vals)
  OBVIOUS
<1>3. /\ d \in ByteSeq /\ Len(d) = Width[type] * n
      /\ \A k \in 1 .. n : PlcValue(type, Element(d, Width[type], k)) = vals[k]
  BY <1>1, <1>2, EncodeArrayIs
<1>4. 1 \in DOMAIN T.reqs /\ T.reqs[1] = WriteOf(tag, type, d) /\ Executed(T.reqs, T.area, 1, hs)
  BY <1>1, OneDone DEF ArrayRequest
<1>5. /\ T.reqs[1].tag = tag /\ T.reqs[1].type = type /\ T.reqs[1].act = "write" /\ T.reqs[1].count = n
      /\ T.reqs[1].data = d
  BY <1>3, <1>4, WriteOfIs
<1>6. PICK h \in hs[tag] : \A k \in 1 .. n : PlcValue(type, Element(d, Width[type], k)) = ValueAt(tag, h, k)
  <2>1. \E h \in hs[T.reqs[1].tag] : \A k \in 1 .. n :
           PlcValue(T.reqs[1].type, Element(T.reqs[1].data, Width[T.reqs[1].type], k)) = ValueAt(T.reqs[1].tag, h, k)
    BY <1>4, <1>5, ElementWritten
  <2>2. QED
    BY <1>5, <2>1
<1>7. QED
  BY <1>2, <1>3, <1>6 DEF ArrayHeld

\* bp_tagdb_write_<type>_array has put every value into the tag.
LEMMA WriteTypedEnd ==
  ASSUME NEW T, NEW hs, Batch(T, hs), HeldOK(hs), T.call.op = "write", AllDone(T)
  PROVE  \E h \in hs[T.call.tag] : \A k \in DOMAIN T.call.vals : T.call.vals[k] = ValueAt(T.call.tag, h, k)
<1>1. T.call.type \in DOMAIN Width /\ T.call.vals \in Seq(Values(T.call.type))
  BY CallsAssumption DEF Batch, IsCall
<1>2. T.reqs = <<WriteOf(T.call.tag, T.call.type, EncodeArray(T.call.type, T.call.vals))>>
  BY DEF Batch, RequestsOf
<1>3. DOMAIN T.call.vals = 1 .. Len(T.call.vals)
  BY <1>1
<1>a. PICK type \in DOMAIN Width : type = T.call.type
  BY <1>1
<1>4. PICK vals \in Seq(Values(type)) : type = T.call.type /\ vals = T.call.vals
  BY <1>1, <1>a
<1>5. ArrayRequest(T.reqs, T.call.tag, type, vals)
  BY <1>2, <1>4 DEF ArrayRequest
<1>6. \E h \in hs[T.call.tag] : \A k \in 1 .. Len(vals) : vals[k] = ValueAt(T.call.tag, h, k)
  <2>1. ArrayHeld(hs, T.call.tag, vals)
    BY <1>5, ArrayWritten
  <2>2. QED
    BY <2>1 DEF ArrayHeld
<1>7. QED
  BY <1>3, <1>4, <1>6

\* bp_tagdb_write_bool_array has put every BOOL into the tag.
LEMMA WriteBoolsEnd ==
  ASSUME NEW T, NEW hs, Batch(T, hs), HeldOK(hs), T.call.op = "write_bools", AllDone(T)
  PROVE  \E h \in hs[T.call.tag] : \A i \in DOMAIN T.call.bools : T.call.bools[i] = BitAt(T.call.tag, h, i)
<1>1. PICK bools : bools = T.call.bools
  OBVIOUS
<1>2. bools \in Seq({0, 1})
  BY <1>1, CallsAssumption DEF Batch, IsCall
<1>3. PICK words : words = PackBits(bools)
  OBVIOUS
<1>4. PICK m \in Nat, n \in Nat : m = Len(bools) /\ n = DwordsForBits(m) /\ DOMAIN bools = 1 .. m
  BY <1>2, WordsNat
<1>5. /\ words \in Seq(Values("BIT_ARRAY")) /\ Len(words) = n
      /\ \A i \in 1 .. m : BitOf(words[(i - 1) \div WordBits + 1], (i - 1) % WordBits) = bools[i]
  BY <1>2, <1>3, <1>4, PackBitsIs
<1>6. T.reqs = <<WriteOf(T.call.tag, "BIT_ARRAY", EncodeArray("BIT_ARRAY", words))>>
  BY <1>1, <1>3 DEF Batch, RequestsOf
<1>7. PICK h \in hs[T.call.tag] : \A k \in 1 .. n : words[k] = ValueAt(T.call.tag, h, k)
  <2>1. PICK type \in DOMAIN Width : type = "BIT_ARRAY"
    BY WidthIs
  <2>2. words \in Seq(Values(type)) /\ ArrayRequest(T.reqs, T.call.tag, type, words)
    BY <1>5, <1>6, <2>1 DEF ArrayRequest
  <2>3. \E h \in hs[T.call.tag] : \A k \in 1 .. Len(words) : words[k] = ValueAt(T.call.tag, h, k)
    <3>1. ArrayHeld(hs, T.call.tag, words)
      BY <2>2, ArrayWritten
    <3>2. QED
      BY <3>1 DEF ArrayHeld
  <2>4. QED
    BY <1>5, <2>3
<1>8. \A i \in 1 .. m : (i - 1) \div WordBits + 1 \in 1 .. n
  BY <1>4, WordOf
<1>9. \A i \in 1 .. m : bools[i] = BitAt(T.call.tag, h, i)
  BY <1>5, <1>7, <1>8 DEF BitAt
<1>10. QED
  BY <1>1, <1>4, <1>7, <1>9

\* The outcome of bp_tagdb_write_tags is true, tag by tag.
LEMMA WriteTagsOut ==
  ASSUME NEW T, NEW hs, Batch(T, hs), HeldOK(hs), T.call.op = "write_tags", Len(T.res) = Len(T.reqs),
         NEW rc, rc = "OK" => AllDone(T), NEW E, E = EndOf(T.call, rc, T.res, None)
  PROVE  ReadOut(E, hs) /\ WriteOut(E, hs)
<1>1. E.call = T.call /\ E.out.rc = rc /\ E.out.val = T.res
  BY EndOfIs
<1>2. ReadOut(E, hs)
  BY <1>1 DEF ReadOut, Ended
<1>3. ASSUME NEW i \in DOMAIN T.call.names, rc = "OK" \/ T.res[i] = 0
      PROVE  \E h \in hs[T.call.names[i]] : T.call.vals[i].v = ValueAt(T.call.names[i], h, 1)
  <2>1. i \in DOMAIN T.res
    BY SameDomain DEF Batch, RequestsOf
  <2>2. T.res[i] = 0
    BY <1>3, <2>1 DEF AllDone
  <2>3. QED
    BY <2>2, WriteTagsEnd
<1>4. WriteOut(E, hs)
  BY <1>1, <1>3 DEF WriteOut, Ended
<1>5. QED
  BY <1>2, <1>4

\* The outcome of every other write is true.
LEMMA WriteEnd ==
  ASSUME NEW T, NEW hs, Batch(T, hs), HeldOK(hs), T.call.op \in {"write", "write_bools", "write_string"},
         NEW rc, rc = "OK" => AllDone(T), NEW E, E = EndOf(T.call, rc, <<>>, None)
  PROVE  ReadOut(E, hs) /\ WriteOut(E, hs)
<1>1. E.call = T.call /\ E.out.rc = rc
  BY EndOfIs
<1>2. ReadOut(E, hs)
  BY <1>1 DEF ReadOut, Ended
<1>3. CASE rc # "OK"
  BY <1>1, <1>2, <1>3 DEF WriteOut, Ended
<1>4. CASE rc = "OK"
  <2>1. T.call.op = "write" => \E h \in hs[T.call.tag] :
           \A k \in DOMAIN T.call.vals : T.call.vals[k] = ValueAt(T.call.tag, h, k)
    BY <1>4, WriteTypedEnd
  <2>2. T.call.op = "write_bools" => \E h \in hs[T.call.tag] :
           \A i \in DOMAIN T.call.bools : T.call.bools[i] = BitAt(T.call.tag, h, i)
    BY <1>4, WriteBoolsEnd
  <2>3. E.call.op # "write_tags" /\ E.call.op # "access"
    BY <1>1
  <2>4. E.call.op = "write" => \E h \in hs[E.call.tag] :
           \A k \in DOMAIN E.call.vals : E.call.vals[k] = ValueAt(E.call.tag, h, k)
    BY ZenonT(60), <1>1, <2>1
  <2>5. E.call.op = "write_bools" => \E h \in hs[E.call.tag] :
           \A i \in DOMAIN E.call.bools : E.call.bools[i] = BitAt(E.call.tag, h, i)
    BY ZenonT(60), <1>1, <2>2
  <2>6. WriteOut(E, hs)
    BY Zenon, <2>3, <2>4, <2>5 DEF WriteOut, Ended
  <2>7. QED
    BY <1>2, <2>6
<1>5. QED
  BY <1>3, <1>4

\* ReadOut and WriteOut say nothing of read_string.
LEMMA StringEnd ==
  ASSUME NEW c, c.op = "read_string", NEW rc, NEW val, NEW str, NEW hs
  PROVE  ReadOut(EndOf(c, rc, val, str), hs) /\ WriteOut(EndOf(c, rc, val, str), hs)
<1>1. PICK E : E = EndOf(c, rc, val, str)
  OBVIOUS
<1>2. E.call.op = "read_string"
  BY <1>1, EndOfIs
<1>3. ReadOut(E, hs) /\ WriteOut(E, hs)
  BY <1>2 DEF ReadOut, WriteOut, Ended
<1>4. QED
  BY <1>1, <1>3

\* The least of three numbers.
LEMMA LeastOf ==
  ASSUME NEW a \in Int, NEW b \in Int, NEW c \in Int
  PROVE  /\ Least({a, b, c}) \in {a, b, c} /\ Least({a, b, c}) <= a
         /\ Least({a, b, c}) <= b /\ Least({a, b, c}) <= c
<1>1. \E x \in {a, b, c} : \A y \in {a, b, c} : x <= y
  OBVIOUS
<1>2. /\ (CHOOSE x \in {a, b, c} : \A y \in {a, b, c} : x <= y) \in {a, b, c}
      /\ \A y \in {a, b, c} : (CHOOSE x \in {a, b, c} : \A z \in {a, b, c} : x <= z) <= y
  BY <1>1, Zenon
<1>3. QED
  BY <1>2, Zenon DEF Least

\* The controller means a number.
LEMMA PlcInt ==
  ASSUME NEW type \in DOMAIN Width, NEW b \in ByteSeq, Len(b) # 0
  PROVE  PlcValue(type, b) \in Int
<1>1. CASE type = "BOOL"
  BY <1>1 DEF PlcValue
<1>2. CASE type # "BOOL"
  <2>1. b \in Seq(0 .. Byte - 1)
    BY DEF ByteSeq
  <2>2. PICK h : IsHorner(b, TopOf(type, b), Len(b), h) /\ PlcValue(type, b) = h[Len(b)]
    BY <1>2, <2>1, PlcHorner
  <2>3. Len(b) \in 1 .. Len(b)
    BY <2>1
  <2>4. QED
    BY <2>2, <2>3 DEF IsHorner
<1>3. QED
  BY <1>1, <1>2

\* The members of a string are two different tags, and those of different strings differ.
LEMMA AppendSame ==
  ASSUME NEW S, NEW x \in Seq(S), NEW y \in Seq(S), NEW v \in S, NEW w \in S, Append(x, v) = Append(y, w)
  PROVE  v = w /\ x = y
<1>1. PICK m \in Nat, n \in Nat : m = Len(x) /\ n = Len(y)
  OBVIOUS
<1>2. PICK s : s = Append(x, v)
  OBVIOUS
<1>3. Len(s) = m + 1 /\ s[m + 1] = v /\ \A i \in 1 .. m : s[i] = x[i]
  BY <1>1, <1>2
<1>4. Len(s) = n + 1 /\ s[n + 1] = w /\ \A i \in 1 .. n : s[i] = y[i]
  BY <1>1, <1>2
<1>5. m = n
  BY <1>3, <1>4
<1>6. v = w
  BY <1>3, <1>4, <1>5
<1>7. \A i \in 1 .. m : x[i] = y[i]
  BY <1>3, <1>4, <1>5
<1>8. x = y
  BY <1>1, <1>5, <1>7, SeqEq
<1>9. QED
  BY <1>6, <1>8

\* LEN and DATA of strings are different tags.
LEMMA MemberNames ==
  ASSUME NEW x, NEW y, x \in Seq(Elems(x)), y \in Seq(Elems(y))
  PROVE  LenOf(x) # DataOf(y) /\ (LenOf(x) = LenOf(y) => x = y) /\ (DataOf(x) = DataOf(y) => x = y)
<1>1. PICK l, d : l = "LEN" /\ d = "DATA" /\ l # d
  OBVIOUS
<1>2. PICK S : S = Elems(x) \cup Elems(y) \cup {l, d}
  OBVIOUS
<1>3. x \in Seq(S) /\ y \in Seq(S) /\ l \in S /\ d \in S
  <2>1. Elems(x) \subseteq S /\ Elems(y) \subseteq S
    BY <1>2
  <2>2. QED
    BY <1>2, <2>1
<1>4. /\ Append(x, l) = Append(y, d) => l = d
      /\ Append(x, l) = Append(y, l) => x = y
      /\ Append(x, d) = Append(y, d) => x = y
  BY ONLY <1>3, AppendSame
<1>5. QED
  BY <1>1, <1>4 DEF LenOf, DataOf

\* The LEN of a string, once it has been read.
LEMMA LenRead ==
  ASSUME NEW T, NEW hs, Batch(T, hs), HeldOK(hs), AllDone(T), T.call.op = "read_string",
         T.reqs[1].tag = LenOf(T.call.tag)
  PROVE  DecodeScalar("DINT", AccessRead(T.reqs, T.res, T.area)[1]) \in Int
<1>1. T.call.tag \in Seq(Elems(T.call.tag))
  BY CallsAssumption DEF Batch, IsCall, StringOps
<1>2. PICK type \in DOMAIN Width : type = "DINT"
  BY WidthIs
<1>3. T.reqs = <<ReadOf(LenOf(T.call.tag), type, 1)>>
  <2>1. SUFFICES ASSUME NEW n, T.reqs = <<ReadOf(DataOf(T.call.tag), "SINT", n)>> PROVE FALSE
    BY <1>2 DEF Batch, RequestsOf
  <2>2. T.reqs[1].tag = DataOf(T.call.tag)
    BY <2>1 DEF ReadOf, Request
  <2>3. QED
    BY <1>1, <2>2, MemberNames
<1>4. 1 \in DOMAIN T.reqs /\ T.reqs[1] = ReadOf(LenOf(T.call.tag), type, 1) /\ Executed(T.reqs, T.area, 1, hs)
  BY <1>3, OneDone
<1>5. T.reqs[1].type = type /\ T.reqs[1].act = "read" /\ T.reqs[1].count = 1
  BY <1>4, ReadOfIs
<1>6. PICK b : b = AccessRead(T.reqs, T.res, T.area)[1]
  OBVIOUS
<1>7. b \in ByteSeq /\ Len(b) = Width[type] * 1
  BY <1>4, <1>5, <1>6, ElementRead
<1>8. Len(b) = Width[type] /\ Len(b) # 0
  BY <1>2, <1>7, WidthIs
<1>9. DecodeScalar(type, b) = PlcValue(type, b)
  BY <1>7, <1>8, DecodeIsPlc DEF ByteSeq
<1>10. QED
  BY <1>2, <1>6, <1>7, <1>8, <1>9, PlcInt

\* Every answer leaves its thread in order.
LEMMA AnswerOK ==
  ASSUME NEW t, ThreadOK(thr[t], held[t]), HeldOK(held[t]), Answer(t)
  PROVE  \E T : ThreadOK(T, held[t]) /\ Becomes(t, T)
<1>1. PICK T, hs : T = thr[t] /\ hs = held[t]
  OBVIOUS
<1>2. T.pc = "engine" /\ Len(T.res) = Len(T.reqs)
  BY <1>1 DEF Answer, AccessAnswer, ReadTagsAnswer, WriteTagsAnswer, WriteAnswer, ReadTypedAnswer, ReadBoolsAnswer,
              ReadStringLen, ReadStringData, WriteStringData, WriteStringLen, Answered, Busy
<1>3. Batch(T, hs) /\ HeldOK(hs) /\ T.call \in Calls
  BY <1>1, <1>2 DEF ThreadOK, Batch
<1>4. ~Refused(t) => AllDone(T)
  <2>1. T.res \in Seq({0, 1})
    BY <1>3 DEF Batch
  <2>2. QED
    BY <1>1, <1>2, <2>1 DEF Refused, AllDone
<1>5. BatchRc(t) = "OK" => AllDone(T)
  BY <1>4 DEF BatchRc
<1>6. Data(t) = AccessRead(T.reqs, T.res, T.area)
  BY <1>1 DEF Data
<1>7. CASE AccessAnswer(t)
  <2>1. T.call.op = "access" /\ Returns(t, T.call, "OK", [res |-> T.res, data |-> AccessRead(T.reqs, T.res, T.area)], None)
    BY <1>1, <1>6, <1>7 DEF AccessAnswer, Answered
  <2>2. QED
    BY <1>1, <1>2, <1>3, <2>1, AccessEnd, EndOK
<1>8. CASE ReadTagsAnswer(t)
  <2>1. /\ T.call.op = "read_tags"
        /\ Returns(t, T.call, BatchRc(t), [i \in DOMAIN T.reqs |->
                  IF T.res[i] # 0 THEN None
                  ELSE DecodeScalar(T.reqs[i].type, AccessRead(T.reqs, T.res, T.area)[i])], None)
    BY <1>1, <1>8, Zenon DEF ReadTagsAnswer, Answered, Data
  <2>2. QED
    BY <1>1, <1>2, <1>3, <2>1, ReadTagsEnd, EndOK
<1>9. CASE WriteAnswer(t)
  <2>1. T.call.op \in {"write", "write_bools"} /\ Returns(t, T.call, BatchRc(t), <<>>, None)
    BY <1>1, <1>9 DEF WriteAnswer, Answered
  <2>2. QED
    BY <1>1, <1>3, <1>5, <2>1, WriteEnd, EndOK
<1>w. CASE WriteTagsAnswer(t)
  <2>1. T.call.op = "write_tags" /\ Returns(t, T.call, BatchRc(t), T.res, None)
    BY <1>1, <1>w DEF WriteTagsAnswer, Answered
  <2>2. QED
    BY <1>1, <1>2, <1>3, <1>5, <2>1, WriteTagsOut, EndOK
<1>10. CASE ReadTypedAnswer(t)
  <2>1. T.call.op = "read"
    BY <1>1, <1>10 DEF ReadTypedAnswer, Answered
  <2>2. CASE Fails(t, T.call, "GENERIC")
    BY <1>1, <2>2, FailsOK
  <2>3. CASE AllDone(T) /\ Returns(t, T.call, "OK", DecodeArray(T.reqs[1].type, AccessRead(T.reqs, T.res, T.area)[1]), None)
    BY <1>1, <1>3, <2>1, <2>3, ReadTypedEnd, EndOK
  <2>4. QED
    BY <1>1, <1>4, <1>6, <1>10, <2>2, <2>3 DEF ReadTypedAnswer
<1>11. CASE ReadBoolsAnswer(t)
  <2>1. T.call.op = "read_bools"
    BY <1>1, <1>11 DEF ReadBoolsAnswer, Answered
  <2>2. CASE Fails(t, T.call, "GENERIC")
    BY <1>1, <2>2, FailsOK
  <2>3. CASE AllDone(T) /\ Returns(t, T.call, "OK",
                UnpackBits(DecodeArray("BIT_ARRAY", AccessRead(T.reqs, T.res, T.area)[1]), T.call.count), None)
    BY <1>1, <1>3, <2>1, <2>3, ReadBoolsEnd, EndOK
  <2>4. QED
    BY <1>1, <1>4, <1>6, <1>11, <2>2, <2>3 DEF ReadBoolsAnswer
<1>12. CASE ReadStringLen(t)
  <2>1. T.call.op = "read_string" /\ T.reqs[1].tag = LenOf(T.call.tag)
    BY <1>1, <1>12 DEF ReadStringLen, Answered, InLen
  <2>2. PICK len : len = DecodeScalar("DINT", Data(t)[1])
    OBVIOUS
  <2>3. PICK toRead : toRead = Least({len, T.call.room - 1, MaxCount})
    OBVIOUS
  <2>4. \/ Fails(t, T.call, "GENERIC") \/ ReturnsString(t, len, <<>>)
        \/ /\ ~Refused(t) /\ ~(len < 0) /\ ~(len >= 0 /\ toRead = 0)
           /\ Send(t, T.call, <<ReadOf(DataOf(T.call.tag), "SINT", toRead)>>, "path", len)
    BY <1>1, <1>12, <2>2, <2>3 DEF ReadStringLen
  <2>5. CASE Fails(t, T.call, "GENERIC")
    BY <1>1, <2>5, FailsOK
  <2>6. CASE ReturnsString(t, len, <<>>)
    BY <1>1, <2>1, <2>6, StringEnd, EndOK DEF ReturnsString
  <2>7. CASE /\ ~Refused(t) /\ ~(len < 0) /\ ~(len >= 0 /\ toRead = 0)
             /\ Send(t, T.call, <<ReadOf(DataOf(T.call.tag), "SINT", toRead)>>, "path", len)
    <3>1. len \in Int
      BY <1>1, <1>3, <1>4, <1>6, <2>1, <2>2, <2>7, LenRead
    <3>2. T.call.room \in Nat
      BY <1>3, <2>1, CallsAssumption DEF IsCall
    <3>3. T.call.room # 0
      BY <1>3, <2>1 DEF Batch, RequestsOf
    <3>4. len \in Nat /\ T.call.room - 1 \in Nat /\ MaxCount \in Nat
      BY <2>7, <3>1, <3>2, <3>3, TagAccessAssumption
    <3>5. toRead \in Nat
      <4>1. PICK a \in Nat, b \in Nat, d \in Nat : a = len /\ b = T.call.room - 1 /\ d = MaxCount
        BY <3>4
      <4>2. Least({a, b, d}) \in {a, b, d}
        <5>1. a \in Int /\ b \in Int /\ d \in Int
          OBVIOUS
        <5>2. QED
          BY ONLY <5>1, LeastOf
      <4>3. QED
        BY <2>3, <4>1, <4>2
    <3>6. RequestsOf(T.call, <<ReadOf(DataOf(T.call.tag), "SINT", toRead)>>, len)
      BY <2>1, <2>3, <3>4 DEF RequestsOf, Ops
    <3>7. QED
      BY <1>1, <1>3, <2>7, <3>5, <3>6, OneRead, WidthIs
  <2>8. QED
    BY <2>4, <2>5, <2>6, <2>7
<1>13. CASE ReadStringData(t)
  <2>1. T.call.op = "read_string"
    BY <1>1, <1>13 DEF ReadStringData, Answered
  <2>2. CASE Fails(t, T.call, "GENERIC")
    BY <1>1, <2>2, FailsOK
  <2>3. CASE ReturnsString(t, T.len, DecodeArray("SINT", Data(t)[1]))
    BY <1>1, <2>1, <2>3, StringEnd, EndOK DEF ReturnsString
  <2>4. QED
    BY <1>1, <1>13, <2>2, <2>3 DEF ReadStringData
<1>14. CASE WriteStringData(t)
  <2>1. T.call.op = "write_string"
    BY <1>1, <1>14 DEF WriteStringData, Answered
  <2>2. CASE Fails(t, T.call, "GENERIC")
    BY <1>1, <2>2, FailsOK
  <2>3. CASE SendLen(t, T.call)
    <3>1. Len(T.call.str) <= MaxCount
      BY <1>3, <2>1 DEF Batch, RequestsOf
    <3>2. QED
      BY <1>1, <1>3, <2>1, <2>3, <3>1, SendLenOK
  <2>4. QED
    BY <1>1, <1>14, <2>2, <2>3 DEF WriteStringData
<1>15. CASE WriteStringLen(t)
  <2>1. T.call.op = "write_string" /\ Returns(t, T.call, BatchRc(t), <<>>, None)
    BY <1>1, <1>15 DEF WriteStringLen, Answered
  <2>2. QED
    BY <1>1, <1>3, <1>5, <2>1, WriteEnd, EndOK
<1>16. QED
  BY <1>7, <1>8, <1>9, <1>w, <1>10, <1>11, <1>12, <1>13, <1>14, <1>15 DEF Answer

-----------------------------------------------------------------------------
(* Threads change *)

\* The invariant holds at first.
LEMMA BInitOK == Init => BInv
<1> SUFFICES ASSUME Init PROVE BInv
  OBVIOUS
<1>2. calls \in 0 .. MaxCalls /\ faults \in 0 .. MaxFaults
  BY TagAccessAssumption DEF Init
<1>3. alone \in [Threads -> BOOLEAN]
  BY DEF Init
<1>4. MemOK(mem)
  BY MemoryAssumption DEF Init, MemOK, BytesOf, ByteSeq
<1>5. IsBatch(late)
  <2>1. <<>> \in Seq({}) /\ DOMAIN <<>> = {}
    OBVIOUS
  <2>2. QED
    BY <2>1, ElemsSeq DEF Init, IsBatch
<1>6. DOMAIN thr = Threads /\ DOMAIN held = Threads /\ \A t \in Threads : thr[t] = Idle /\ held[t] = Unheld
  BY DEF Init
<1>7. HeldOK(Unheld)
  BY DEF HeldOK, Unheld
<1>8. ThreadOK(Idle, Unheld) /\ Idle.pc = "idle"
  BY IdleThread
<1>9. QED
  BY <1>2, <1>3, <1>4, <1>5, <1>6, <1>7, <1>8 DEF BInv, Busy

\* What the invariant says of a thread at the engine.
LEMMA BusyIs ==
  ASSUME BInv, NEW t \in Threads, Busy(t)
  PROVE  Batch(thr[t], held[t]) /\ IsThread(thr[t]) /\ Seen(mem, held[t]) /\ thr[t].call \in Calls
  BY DEF BInv, ThreadOK, Busy, Batch

\* One thread changes; the outcomes of finished calls are forgotten.
LEMMA BecomesInv ==
  ASSUME BInv, NEW t \in Threads, NEW T, Becomes(t, T), ThreadOK(T, held'[t]), DOMAIN held' = Threads,
         \A u \in Threads : HeldOK(held'[u]),
         \A u \in Threads \ {t} : Busy(u) => held'[u] = held[u],
         Seen(mem, held'[t]), mem' = mem, calls' \in 0 .. MaxCalls, faults' \in 0 .. MaxFaults,
         alone' \in [Threads -> BOOLEAN], IsBatch(late')
  PROVE  BInv'
<1>1. DOMAIN thr' = Threads /\ thr'[t] = T
  BY DEF Becomes
<1>2. MemOK(mem')
  BY DEF BInv
<1>3. ASSUME NEW u \in Threads
      PROVE  ThreadOK(thr'[u], held'[u]) /\ (thr'[u].pc = "engine" => Seen(mem', held'[u]))
  <2>1. CASE u = t
    BY <1>1, <2>1
  <2>2. CASE u # t /\ Busy(u)
    <3>1. thr'[u] = thr[u] /\ held'[u] = held[u]
      BY <2>2 DEF Becomes
    <3>2. QED
      BY <2>2, <3>1 DEF BInv
  <2>3. CASE u # t /\ ~Busy(u)
    <3>1. thr'[u] = Idle
      BY <2>3 DEF Becomes
    <3>2. QED
      BY <3>1, IdleThread
  <2>4. QED
    BY <2>1, <2>2, <2>3
<1>4. QED
  BY <1>1, <1>2, <1>3 DEF BInv, Busy

\* Faults are bounded.
LEMMA FaultIs ==
  ASSUME faults \in 0 .. MaxFaults, Fault \/ faults' = faults
  PROVE  faults' \in 0 .. MaxFaults
  BY TagAccessAssumption DEF Fault

\* What Begin does.
LEMMA BeginIs ==
  ASSUME BInv, NEW t \in Threads, NEW c, NEW op, Begin(t, c, op)
  PROVE  /\ calls' \in 0 .. MaxCalls /\ alone' \in [Threads -> BOOLEAN] /\ mem' = mem /\ late' = late
         /\ DOMAIN held' = Threads /\ Seen(mem, held'[t]) /\ \A u \in Threads : HeldOK(held'[u])
         /\ \A u \in Threads \ {t} : Busy(u) => held'[u] = held[u]
<1>1. calls' \in 0 .. MaxCalls
  BY TagAccessAssumption DEF BInv, Begin
<1>2. mem' = mem /\ late' = late
  BY DEF Begin
<1>3. alone' \in [Threads -> BOOLEAN]
  <2>1. alone \in [Threads -> BOOLEAN]
    BY DEF BInv
  <2> DEFINE others == {u \in Threads \ {t} : Busy(u) /\ StringTag(thr[u].call) = StringTag(c)}
  <2>2. alone' = [u \in Threads |->
             CASE u = t -> \A v \in others : op = "read_string" /\ thr[v].call.op = op
               [] u \in others -> alone[u] /\ op # "write_string"
               [] OTHER -> Busy(u) /\ alone[u]]
    BY DEF Begin
  <2> HIDE DEF others
  <2>3. QED
    BY <2>1, <2>2
<1>4. held' = [u \in Threads |-> CASE u = t -> [x \in DOMAIN Memory |-> {mem[x]}]
                                    [] u # t /\ Busy(u) -> held[u]
                                    [] OTHER -> Unheld]
  BY DEF Begin
<1>5. DOMAIN held' = Threads /\ held'[t] = [x \in DOMAIN Memory |-> {mem[x]}]
  BY <1>4
<1>6. \A u \in Threads \ {t} : (Busy(u) => held'[u] = held[u]) /\ (~Busy(u) => held'[u] = Unheld)
  BY <1>4
<1>7. Seen(mem, held'[t]) /\ HeldOK(held'[t])
  BY <1>5 DEF Seen, HeldOK, BInv, MemOK
<1>8. HeldOK(Unheld)
  BY DEF HeldOK, Unheld
<1>9. \A u \in Threads : HeldOK(held[u])
  BY DEF BInv
<1>10. QED
  BY <1>1, <1>2, <1>3, <1>5, <1>6, <1>7, <1>8, <1>9

\* Starting a call keeps the invariant.
LEMMA StartInv ==
  ASSUME BInv, NEW t \in Threads, NEW c \in Calls, Start(t, c)
  PROVE  BInv'
<1>1. PICK op : Begin(t, c, op)
  BY DEF Start, Access, ReadTags, WriteTags, ReadTyped, WriteTyped, ReadBools, WriteBools, ReadString, WriteString
<1>2. Fault \/ faults' = faults
  BY DEF Start, Access, ReadTags, WriteTags, ReadTyped, WriteTyped, ReadBools, WriteBools, ReadString, WriteString
<1>3. PICK T : ThreadOK(T, held'[t]) /\ Becomes(t, T)
  BY StartOK
<1>4. faults' \in 0 .. MaxFaults
  BY <1>2, FaultIs DEF BInv
<1>5. IsBatch(late)
  BY DEF BInv
<1>6. QED
  BY <1>1, <1>3, <1>4, <1>5, BeginIs, BecomesInv

\* An answer keeps the invariant.
LEMMA AnswerInv ==
  ASSUME BInv, NEW t \in Threads, Answer(t)
  PROVE  BInv'
<1>1. Busy(t) /\ UNCHANGED <<mem, late, held, alone, calls, faults>>
  BY DEF Answer, AccessAnswer, ReadTagsAnswer, WriteTagsAnswer, WriteAnswer, ReadTypedAnswer, ReadBoolsAnswer,
              ReadStringLen, ReadStringData, WriteStringData, WriteStringLen, Answered
<1>2. PICK T : ThreadOK(T, held[t]) /\ Becomes(t, T)
  BY AnswerOK DEF BInv
<1>3. DOMAIN held = Threads /\ \A u \in Threads : HeldOK(held[u])
  BY DEF BInv
<1>4. Seen(mem, held[t])
  BY <1>1, BusyIs
<1>5. calls \in 0 .. MaxCalls /\ faults \in 0 .. MaxFaults /\ alone \in [Threads -> BOOLEAN] /\ IsBatch(late)
  BY DEF BInv
<1>6. QED
  BY <1>1, <1>2, <1>3, <1>4, <1>5, BecomesInv

\* Two sequences in a row.
LEMMA ConcatIs ==
  ASSUME NEW S, NEW a \in Seq(S), NEW b \in Seq(S)
  PROVE  /\ a \o b \in Seq(S) /\ Len(a \o b) = Len(a) + Len(b)
         /\ \A i \in 1 .. Len(a) + Len(b) : (a \o b)[i] = IF i <= Len(a) THEN a[i] ELSE b[i - Len(a)]
  OBVIOUS

\* Every element of l is one of a or of s.
From(l, a, s) == \A i \in DOMAIN l : (\E j \in DOMAIN a : l[i] = a[j]) \/ (\E j \in DOMAIN s : l[i] = s[j])

\* What the engine may still execute are requests of the batches.
LEMMA LateIs ==
  ASSUME NEW a, NEW s, IsBatch(a), IsBatch(s), NEW m \in Nat, m <= Len(s)
  PROVE  /\ IsBatch(a \o SubSeq(s, m + 1, Len(s)))
         /\ From(a \o SubSeq(s, m + 1, Len(s)), a, s)
<1>1. PICK S : S = Elems(a) \cup Elems(s)
  OBVIOUS
<1>2. a \in Seq(S) /\ s \in Seq(S)
  <2>1. Elems(a) \subseteq S /\ Elems(s) \subseteq S
    BY <1>1
  <2>2. a \in Seq(Elems(a)) /\ s \in Seq(Elems(s))
    BY DEF IsBatch
  <2>3. QED
    BY <2>1, <2>2
<1>3. PICK b : b = SubSeq(s, m + 1, Len(s))
  OBVIOUS
<1>4. PICK k \in Nat, n \in Nat, p \in Nat : k = Len(a) /\ n = Len(s) /\ p = n - m
  BY <1>2
<1>5. b \in Seq(S) /\ Len(b) = p /\ \A i \in 1 .. p : b[i] = s[m + i] /\ m + i \in 1 .. n
  BY <1>2, <1>3, <1>4
<1>6. PICK c : c = a \o b
  OBVIOUS
<1>7. c \in Seq(S) /\ Len(c) = k + p
  <2>1. b \in Seq(S)
    BY <1>5
  <2>2. a \o b \in Seq(S) /\ Len(a \o b) = Len(a) + Len(b)
    BY ONLY <1>2, <2>1, ConcatIs
  <2>3. QED
    BY <1>4, <1>5, <1>6, <2>1, <2>2
<1>8. \A i \in 1 .. k : c[i] = a[i]
  BY <1>2, <1>4, <1>5, <1>6
<1>9. \A i \in k + 1 .. k + p : c[i] = b[i - k] /\ i - k \in 1 .. p
  BY <1>2, <1>4, <1>5, <1>6
<1>10. DOMAIN a = 1 .. k /\ DOMAIN s = 1 .. n /\ DOMAIN c = 1 .. k + p
  BY <1>2, <1>4, <1>7
<1>11. \A i \in DOMAIN c : (\E j \in DOMAIN a : c[i] = a[j]) \/ (\E j \in DOMAIN s : c[i] = s[j])
  <2>1. TAKE i \in DOMAIN c
  <2>2. i \in 1 .. k \/ i \in k + 1 .. k + p
    BY <1>10
  <2>3. CASE i \in 1 .. k
    BY <1>8, <1>10, <2>3
  <2>4. CASE i \in k + 1 .. k + p
    BY <1>5, <1>9, <1>10, <2>4
  <2>5. QED
    BY <2>2, <2>3, <2>4
<1>12. \A i \in DOMAIN c : IsRequest(c[i])
  BY <1>11 DEF IsBatch
<1>13. IsBatch(c)
  BY <1>7, <1>12, ElemsSeq DEF IsBatch
<1>14. From(c, a, s)
  BY <1>11 DEF From
<1>15. QED
  BY <1>3, <1>6, <1>13, <1>14

\* Giving up on an answer keeps the invariant.
LEMMA LostInv ==
  ASSUME BInv, NEW t \in Threads, Lost(t)
  PROVE  BInv'
<1>1. Busy(t) /\ Fault /\ UNCHANGED <<mem, held, alone, calls>> /\ Fails(t, thr[t].call, "RECV_ANSWER")
  BY DEF Lost
<1>2. PICK T : ThreadOK(T, held[t]) /\ Becomes(t, T)
  BY <1>1, FailsOK
<1>3. DOMAIN held = Threads /\ \A u \in Threads : HeldOK(held[u])
  BY DEF BInv
<1>4. Seen(mem, held[t]) /\ IsBatch(thr[t].reqs) /\ Len(thr[t].res) \in Nat /\ Len(thr[t].res) <= Len(thr[t].reqs)
  BY <1>1, BusyIs DEF Batch
<1>5. calls \in 0 .. MaxCalls /\ faults \in 0 .. MaxFaults /\ alone \in [Threads -> BOOLEAN] /\ IsBatch(late)
  BY DEF BInv
<1>6. IsBatch(late')
  BY <1>4, <1>5, LateIs DEF Lost
<1>7. faults' \in 0 .. MaxFaults
  BY <1>1, <1>5, FaultIs
<1>8. QED
  BY <1>1, <1>2, <1>3, <1>4, <1>5, <1>6, <1>7, BecomesInv

-----------------------------------------------------------------------------
(* The engine *)

\* The thread whose next request has been executed with result b.
Steps(T, b, area) ==
    [pc |-> T.pc, call |-> T.call, form |-> T.form, reqs |-> T.reqs, res |-> Append(T.res, b),
     area |-> area, len |-> T.len, out |-> T.out]

\* A thread stays in order when its next request gets a result.
LEMMA ExecThread ==
  ASSUME NEW T, NEW hs, IsThread(T), T.pc = "engine", Batch(T, hs), NEW i \in DOMAIN T.reqs, i = Len(T.res) + 1,
         NEW b \in {0, 1}, NEW area \in ByteSeq, Len(area) = Len(T.area),
         T.reqs[i].act = "write" => area = T.area,
         \A k \in DOMAIN T.reqs : k # i => \A j \in 1 .. Bytes(T.reqs[k]) :
             area[Offsets(T.reqs)[k - 1] + j] = T.area[Offsets(T.reqs)[k - 1] + j],
         b = 0 => Executed(T.reqs, area, i, hs)
  PROVE  ThreadOK(Steps(T, b, area), hs)
<1>1. PICK U : U = Steps(T, b, area)
  OBVIOUS
<1>2. /\ IsThread(U) /\ U.pc = "engine" /\ U.call = T.call /\ U.form = T.form /\ U.reqs = T.reqs
      /\ U.res = Append(T.res, b) /\ U.area = area /\ U.len = T.len
  BY <1>1 DEF Steps, IsThread
<1>3. PICK n \in Nat : n = Len(T.res) /\ i = n + 1
  BY DEF Batch
<1>4. PICK m \in Nat : m = Len(T.reqs) /\ DOMAIN T.reqs = 1 .. m
  BY ListIs DEF Batch, IsBatch
<1>5. T.res \in Seq({0, 1})
  BY DEF Batch
<1>6. /\ U.res \in Seq({0, 1}) /\ Len(U.res) = n + 1 /\ DOMAIN U.res = 1 .. n + 1
      /\ U.res[n + 1] = b /\ \A k \in 1 .. n : U.res[k] = T.res[k]
  BY <1>2, <1>3, <1>5
<1>7. Len(U.res) <= Len(U.reqs)
  BY <1>2, <1>3, <1>4, <1>6
<1>8. \A k \in DOMAIN T.reqs : k # i => \A s : AreaHas(T.reqs, T.area, k, s) => AreaHas(T.reqs, area, k, s)
  BY DEF AreaHas
<1>9. \A k \in DOMAIN U.reqs : U.reqs[k].act = "write" => AreaHas(U.reqs, U.area, k, U.reqs[k].data)
  <2>1. TAKE k \in DOMAIN U.reqs
  <2>2. HAVE U.reqs[k].act = "write"
  <2>3. AreaHas(T.reqs, T.area, k, T.reqs[k].data)
    BY <1>2, <2>2 DEF Batch
  <2>4. QED
    BY <1>2, <1>8, <2>2, <2>3
<1>10. ASSUME NEW k \in DOMAIN U.res, U.res[k] = 0 PROVE Executed(U.reqs, U.area, k, hs)
  <2>1. CASE k = i
    BY <1>2, <1>3, <1>6, <1>10, <2>1
  <2>2. CASE k # i
    <3>1. k \in 1 .. n /\ T.res[k] = 0 /\ k \in DOMAIN T.reqs
      BY <1>3, <1>4, <1>6, <1>10, <2>2
    <3>2. k \in DOMAIN T.res
      BY <1>3, <1>5, <3>1
    <3>3. Executed(T.reqs, T.area, k, hs)
      BY <3>1, <3>2 DEF Batch
    <3>4. Executed(T.reqs, area, k, hs)
      BY <1>8, <2>2, <3>1, <3>3 DEF Executed
    <3>5. QED
      BY <1>2, <3>4
  <2>3. QED
    BY <2>1, <2>2
<1>11. Batch(U, hs)
  BY <1>2, <1>6, <1>7, <1>9, <1>10 DEF Batch
<1>12. QED
  BY <1>1, <1>2, <1>11 DEF ThreadOK

\* Held values only grow while a call is in progress.
LEMMA HeldGrows ==
  ASSUME NEW T, NEW hs, NEW gs, T.pc = "engine", ThreadOK(T, hs), \A x \in DOMAIN Memory : hs[x] \subseteq gs[x]
  PROVE  ThreadOK(T, gs)
<1>1. Batch(T, hs) /\ IsThread(T)
  BY DEF ThreadOK
<1>2. \A i : Executed(T.reqs, T.area, i, hs) => Executed(T.reqs, T.area, i, gs)
  BY DEF Executed
<1>3. Batch(T, gs)
  BY <1>1, <1>2 DEF Batch
<1>4. QED
  BY <1>1, <1>3 DEF ThreadOK

\* What Store does, with the data a request has.
LEMMA StoreIs ==
  ASSUME BInv, NEW r, IsRequest(r), Accepts(r), NEW data \in ByteSeq, Len(data) = Bytes(r), Store(r, data)
  PROVE  /\ r.tag \in DOMAIN Memory /\ MemOK(mem')
         /\ \A j \in 1 .. Bytes(r) : mem'[r.tag][j] = data[j]
         /\ Bytes(r) <= Len(mem'[r.tag])
         /\ DOMAIN held' = Threads
         /\ \A u \in Threads : /\ HeldOK(held'[u]) /\ (~Busy(u) => held'[u] = held[u])
                               /\ \A x \in DOMAIN Memory : held[u][x] \subseteq held'[u][x]
                               /\ Busy(u) => Seen(mem', held'[u])
<1>1. r.tag \in DOMAIN Memory /\ Bytes(r) <= Len(mem[r.tag])
  BY DEF Accepts
<1>2. PICK n \in Nat : n = Bytes(r)
  BY RequestBytes
<1>3. PICK old : old = mem[r.tag]
  OBVIOUS
<1>4. PICK bytes : bytes = [j \in DOMAIN old |-> IF j <= n THEN data[j] ELSE old[j]]
  OBVIOUS
<1>5. mem' = [mem EXCEPT ![r.tag] = bytes]
  BY <1>2, <1>3, <1>4 DEF Store
<1>6. held' = [u \in Threads |->
                 IF Busy(u) THEN [held[u] EXCEPT ![r.tag] = @ \cup {bytes}] ELSE held[u]]
  BY <1>2, <1>3, <1>4, Zenon DEF Store
<1>7. DOMAIN mem = DOMAIN Memory /\ \A x \in DOMAIN Memory : BytesOf(x, mem[x])
  BY DEF BInv, MemOK
<1>8. PICK S : ByteSeq = Seq(S)
  BY DEF ByteSeq
<1>9. PICK N \in Nat : N = Len(old) /\ old \in [1 .. N -> S] /\ n <= N /\ N = Len(Memory[r.tag].bytes)
  BY <1>1, <1>2, <1>3, <1>7, <1>8 DEF BytesOf
<1>10. data \in [1 .. n -> S]
  BY <1>2, <1>8
<1>11. bytes \in [1 .. N -> S] /\ \A j \in 1 .. n : bytes[j] = data[j]
  BY <1>4, <1>9, <1>10
<1>12. bytes \in ByteSeq /\ Len(bytes) = N
  BY <1>8, <1>11, FunSeq
<1>13. BytesOf(r.tag, bytes)
  BY <1>9, <1>12 DEF BytesOf
<1>14. mem'[r.tag] = bytes /\ DOMAIN mem' = DOMAIN Memory /\ \A x \in DOMAIN Memory : x # r.tag => mem'[x] = mem[x]
  BY <1>1, <1>5, <1>7
<1>15. MemOK(mem')
  BY <1>7, <1>13, <1>14 DEF MemOK
<1>16. ASSUME NEW u \in Threads
       PROVE  /\ HeldOK(held'[u]) /\ (~Busy(u) => held'[u] = held[u])
              /\ \A x \in DOMAIN Memory : held[u][x] \subseteq held'[u][x]
              /\ Busy(u) => Seen(mem', held'[u])
  <2>1. HeldOK(held[u])
    BY DEF BInv
  <2>2. CASE ~Busy(u)
    BY <1>6, <2>1, <2>2
  <2>3. CASE Busy(u)
    <3>1. held'[u] = [held[u] EXCEPT ![r.tag] = @ \cup {bytes}]
      BY <1>6, <2>3
    <3>2. /\ DOMAIN held'[u] = DOMAIN Memory /\ held'[u][r.tag] = held[u][r.tag] \cup {bytes}
          /\ \A x \in DOMAIN Memory : x # r.tag => held'[u][x] = held[u][x]
      BY <1>1, <2>1, <3>1 DEF HeldOK
    <3>3. HeldOK(held'[u])
      BY <1>13, <2>1, <3>2 DEF HeldOK
    <3>4. \A x \in DOMAIN Memory : held[u][x] \subseteq held'[u][x]
      BY <3>2
    <3>5. Seen(mem, held[u])
      BY <2>3, BusyIs
    <3>6. Seen(mem', held'[u])
      BY <1>14, <3>2, <3>5 DEF Seen
    <3>7. QED
      BY <2>3, <3>3, <3>4, <3>6
  <2>4. QED
    BY <2>2, <2>3
<1>17. DOMAIN held' = Threads
  BY <1>6
<1>18. QED
  BY <1>1, <1>2, <1>9, <1>11, <1>12, <1>14, <1>15, <1>16, <1>17

\* Late executions change no thread.
LEMMA LateInv ==
  ASSUME BInv, Late
  PROVE  BInv'
<1>1. late # <<>> /\ late' = Tail(late) /\ UNCHANGED <<thr, calls, faults>>
  BY DEF Late
<1>2. IsBatch(late)
  BY DEF BInv
<1>3. IsBatch(late') /\ IsRequest(Head(late))
  <2>1. PICK S : S = Elems(late) /\ late \in Seq(S)
    BY <1>2 DEF IsBatch
  <2>2. /\ Tail(late) \in Seq(S) /\ DOMAIN Tail(late) = 1 .. Len(Tail(late)) /\ Len(Tail(late)) = Len(late) - 1
        /\ \A i \in 1 .. Len(late) - 1 : Tail(late)[i] = late[i + 1] /\ i + 1 \in DOMAIN late
    BY <1>1, <2>1
  <2>3. Head(late) = late[1] /\ 1 \in DOMAIN late
    BY <1>1, <2>1
  <2>4. \A i \in DOMAIN Tail(late) : IsRequest(Tail(late)[i])
    BY <1>2, <2>2 DEF IsBatch
  <2>5. QED
    BY <1>1, <1>2, <2>2, <2>3, <2>4, ElemsSeq DEF IsBatch
<1>4. CASE UNCHANGED <<mem, held, alone, whole>>
  BY <1>1, <1>3, <1>4 DEF BInv, Busy
<1>5. CASE /\ Accepts(Head(late)) /\ Head(late).act = "write" /\ Store(Head(late), Head(late).data)
           /\ alone' = [t \in Threads |-> FALSE]
  <2>1. Head(late).data \in ByteSeq /\ Len(Head(late).data) = Bytes(Head(late))
    BY <1>3, <1>5 DEF IsRequest, ByteSeq
  <2>2. /\ MemOK(mem') /\ DOMAIN held' = Threads
        /\ \A u \in Threads : /\ HeldOK(held'[u]) /\ (~Busy(u) => held'[u] = held[u])
                              /\ \A x \in DOMAIN Memory : held[u][x] \subseteq held'[u][x]
                              /\ Busy(u) => Seen(mem', held'[u])
    BY <1>3, <1>5, <2>1, StoreIs
  <2>3. ASSUME NEW u \in Threads PROVE ThreadOK(thr'[u], held'[u])
    <3>1. ThreadOK(thr[u], held[u])
      BY DEF BInv
    <3>2. CASE Busy(u)
      <4>1. thr[u].pc = "engine" /\ thr' = thr
        BY <1>1, <3>2 DEF Busy
      <4>2. \A x \in DOMAIN Memory : held[u][x] \subseteq held'[u][x]
        BY <2>2
      <4>3. ThreadOK(thr[u], held'[u])
        BY <3>1, <4>1, <4>2, HeldGrows
      <4>4. QED
        BY <4>1, <4>3
    <3>3. CASE ~Busy(u)
      BY <1>1, <2>2, <3>1, <3>3
    <3>4. QED
      BY <3>2, <3>3
  <2>4. alone' \in [Threads -> BOOLEAN]
    BY <1>5
  <2>5. \A u \in Threads : Busy(u)' => Seen(mem', held'[u])
    BY <1>1, <2>2 DEF Busy
  <2>6. DOMAIN thr' = Threads /\ calls' \in 0 .. MaxCalls /\ faults' \in 0 .. MaxFaults
    BY <1>1 DEF BInv
  <2>7. QED
    BY <1>3, <2>2, <2>3, <2>4, <2>5, <2>6 DEF BInv
<1>6. QED
  BY <1>4, <1>5 DEF Late

\* The part of the area that belongs to request i.
LEMMA AreaPart ==
  ASSUME NEW T, NEW hs, Batch(T, hs), NEW i \in DOMAIN T.reqs
  PROVE  /\ SubSeq(T.area, Offsets(T.reqs)[i - 1] + 1, Offsets(T.reqs)[i]) \in ByteSeq
         /\ Len(SubSeq(T.area, Offsets(T.reqs)[i - 1] + 1, Offsets(T.reqs)[i])) = Bytes(T.reqs[i])
         /\ \A j \in 1 .. Bytes(T.reqs[i]) :
               SubSeq(T.area, Offsets(T.reqs)[i - 1] + 1, Offsets(T.reqs)[i])[j] = T.area[Offsets(T.reqs)[i - 1] + j]
<1>0. PICK off : off = Offsets(T.reqs)
  OBVIOUS
<1>1. IsOffsets(T.reqs, off) /\ Len(T.area) = off[Len(T.reqs)] /\ T.area \in ByteSeq
  BY <1>0, OffsetsAre DEF Batch, AreaOf
<1>2. PICK a \in Nat, n \in Nat : a = off[i - 1] /\ n = Bytes(T.reqs[i])
  BY <1>1, PlaceOf
<1>3. off[i] = a + n /\ a + n <= Len(T.area)
  BY <1>1, <1>2, PlaceOf
<1>4. PICK S : ByteSeq = Seq(S)
  BY DEF ByteSeq
<1>5. T.area \in Seq(S)
  BY <1>1, <1>4
<1>6. /\ SubSeq(T.area, a + 1, a + n) \in Seq(S) /\ Len(SubSeq(T.area, a + 1, a + n)) = n
      /\ \A j \in 1 .. n : SubSeq(T.area, a + 1, a + n)[j] = T.area[a + j]
  BY <1>3, <1>5
<1>7. QED
  BY <1>0, <1>2, <1>3, <1>4, <1>6

\* A thread whose next request was written.
LEMMA ExecWrites ==
  ASSUME NEW T, NEW hs, NEW gs, IsThread(T), T.pc = "engine", Batch(T, hs), NEW i \in DOMAIN T.reqs, i = Len(T.res) + 1,
         T.reqs[i].act = "write", \A x \in DOMAIN Memory : hs[x] \subseteq gs[x],
         T.reqs[i].tag \in DOMAIN Memory, T.reqs[i].type = Memory[T.reqs[i].tag].type,
         T.reqs[i].size = Width[T.reqs[i].type],
         NEW h \in gs[T.reqs[i].tag], Bytes(T.reqs[i]) <= Len(h), AreaHas(T.reqs, T.area, i, h)
  PROVE  ThreadOK(Steps(T, 0, T.area), gs)
<1>1. ThreadOK(T, hs)
  BY DEF ThreadOK
<1>2. ThreadOK(T, gs)
  BY <1>1, HeldGrows
<1>3. Batch(T, gs) /\ T.area \in ByteSeq
  BY <1>2 DEF ThreadOK, Batch
<1>4. Executed(T.reqs, T.area, i, gs)
  BY DEF Executed
<1>5. QED
  BY <1>3, <1>4, ExecThread

\* area is T's area after its i-th request, a read, has found the bytes h.
Fetched(T, i, h, area) ==
    area = [j \in DOMAIN T.area |->
              IF Offsets(T.reqs)[i - 1] < j /\ j <= Offsets(T.reqs)[i]
              THEN h[j - Offsets(T.reqs)[i - 1]] ELSE T.area[j]]

\* What a read does to the area.
LEMMA ExecReads ==
  ASSUME NEW T, NEW hs, IsThread(T), T.pc = "engine", Batch(T, hs), NEW i \in DOMAIN T.reqs, i = Len(T.res) + 1,
         T.reqs[i].act = "read",
         T.reqs[i].tag \in DOMAIN Memory, T.reqs[i].type = Memory[T.reqs[i].tag].type,
         T.reqs[i].size = Width[T.reqs[i].type],
         NEW h \in hs[T.reqs[i].tag], h \in ByteSeq, Bytes(T.reqs[i]) <= Len(h),
         NEW area, Fetched(T, i, h, area)
  PROVE  /\ ThreadOK(Steps(T, 0, area), hs) /\ area \in ByteSeq /\ Len(area) = Len(T.area)
         /\ AreaHas(T.reqs, area, i, h)
<1>0. PICK off : off = Offsets(T.reqs)
  OBVIOUS
<1>1. IsOffsets(T.reqs, off) /\ Len(T.area) = off[Len(T.reqs)] /\ T.area \in ByteSeq
  BY <1>0, OffsetsAre DEF Batch, AreaOf
<1>2. PICK a \in Nat, n \in Nat : a = off[i - 1] /\ n = Bytes(T.reqs[i])
  BY <1>1, PlaceOf
<1>3. PICK N \in Nat : N = Len(T.area) /\ off[i] = a + n /\ a + n <= N
  BY SMTT(40), <1>1, <1>2, PlaceOf
<1>4. PICK S : ByteSeq = Seq(S)
  BY DEF ByteSeq
<1>5. T.area \in [1 .. N -> S] /\ \A j \in 1 .. n : h[j] \in S
  BY <1>1, <1>2, <1>3, <1>4
<1>6. /\ DOMAIN area = 1 .. N /\ area = [j \in 1 .. N |-> area[j]]
      /\ \A j \in 1 .. N : area[j] = IF a < j /\ j <= a + n THEN h[j - a] ELSE T.area[j]
  <2>1. area = [j \in DOMAIN T.area |-> IF off[i - 1] < j /\ j <= off[i] THEN h[j - off[i - 1]] ELSE T.area[j]]
    BY <1>0 DEF Fetched
  <2>2. QED
    BY <1>2, <1>3, <1>5, <2>1
<1>7. \A j \in 1 .. N : area[j] \in S
  <2>1. TAKE j \in 1 .. N
  <2>2. CASE a < j /\ j <= a + n
    <3>1. PICK p \in 1 .. n : p = j - a
      BY <2>2
    <3>2. area[j] = h[p]
      BY <1>6, <2>2, <3>1
    <3>3. QED
      BY <1>5, <3>2
  <2>3. CASE ~(a < j /\ j <= a + n)
    <3>1. area[j] = T.area[j]
      BY <1>6, <2>3
    <3>2. QED
      BY <1>5, <3>1
  <2>4. QED
    BY <2>2, <2>3
<1>8. area \in [1 .. N -> S]
  BY <1>6, <1>7
<1>9. area \in ByteSeq /\ Len(area) = N
  BY <1>4, <1>8, FunSeq
<1>10. \A j \in 1 .. n : area[a + j] = h[j]
  <2>1. TAKE j \in 1 .. n
  <2>2. a + j \in 1 .. N /\ a < a + j /\ a + j <= a + n /\ (a + j) - a = j
    BY <1>3
  <2>3. QED
    BY <1>6, <2>2
<1>11. AreaHas(T.reqs, area, i, h)
  BY <1>0, <1>2, <1>10 DEF AreaHas
<1>12. Executed(T.reqs, area, i, hs)
  BY <1>11 DEF Executed
<1>13. ASSUME NEW k \in DOMAIN T.reqs, k # i, NEW j \in 1 .. Bytes(T.reqs[k])
       PROVE  area[off[k - 1] + j] = T.area[off[k - 1] + j]
  <2>1. /\ off[k - 1] \in Nat /\ off[k] \in Nat /\ Bytes(T.reqs[k]) \in Nat /\ off[k] = off[k - 1] + Bytes(T.reqs[k])
        /\ off[k] <= N
    BY <1>1, <1>3, PlaceOf
  <2>2. off[k] <= a \/ a + n <= off[k - 1]
    BY <1>1, <1>2, <1>3, <1>13, PlaceOf
  <2>3. PICK p \in Nat : p = off[k - 1] + j
    BY <2>1
  <2>4. p \in 1 .. N /\ ~(a < p /\ p <= a + n)
    BY <2>1, <2>2, <2>3
  <2>5. QED
    BY <1>6, <2>3, <2>4
<1>14. \A k \in DOMAIN T.reqs : k # i => \A j \in 1 .. Bytes(T.reqs[k]) :
             area[Offsets(T.reqs)[k - 1] + j] = T.area[Offsets(T.reqs)[k - 1] + j]
  BY <1>0, <1>13
<1>15. ThreadOK(Steps(T, 0, area), hs)
  <2>1. Len(area) = Len(T.area) /\ T.reqs[i].act # "write" /\ 0 \in {0, 1}
    BY <1>3, <1>9
  <2>2. QED
    BY SMTT(60), <1>9, <1>12, <1>14, <2>1, ExecThread
<1>16. QED
  BY <1>3, <1>9, <1>11, <1>15

\* A thread whose next request was refused.
LEMMA ExecRefuses ==
  ASSUME NEW T, NEW hs, IsThread(T), T.pc = "engine", Batch(T, hs), NEW i \in DOMAIN T.reqs, i = Len(T.res) + 1
  PROVE  ThreadOK(Steps(T, 1, T.area), hs)
<1>1. T.area \in ByteSeq
  BY DEF Batch
<1>2. QED
  BY <1>1, ExecThread

\* The three things that may become of the next request.
ExecStep(t, i, b, area) ==
    /\ i \in DOMAIN thr[t].reqs /\ i = Len(thr[t].res) + 1
    /\ DOMAIN thr' = Threads /\ thr'[t] = Steps(thr[t], b, area)
    /\ \A u \in Threads : u # t => thr'[u] = thr[u]
ReadArea(t, i) ==
    [j \in DOMAIN thr[t].area |->
        IF Offsets(thr[t].reqs)[i - 1] < j /\ j <= Offsets(thr[t].reqs)[i]
        THEN mem[thr[t].reqs[i].tag][j - Offsets(thr[t].reqs)[i - 1]] ELSE thr[t].area[j]]
ExecWritesStep(t, i) ==
    /\ Accepts(thr[t].reqs[i]) /\ thr[t].reqs[i].act = "write"
    /\ Store(thr[t].reqs[i], SubSeq(thr[t].area, Offsets(thr[t].reqs)[i - 1] + 1, Offsets(thr[t].reqs)[i]))
    /\ ExecStep(t, i, 0, thr[t].area) /\ faults' = faults
ExecReadsStep(t, i) ==
    /\ Accepts(thr[t].reqs[i]) /\ thr[t].reqs[i].act = "read"
    /\ ExecStep(t, i, 0, ReadArea(t, i)) /\ UNCHANGED <<mem, held, faults>>
ExecRefusesStep(t, i) ==
    /\ ExecStep(t, i, 1, thr[t].area) /\ UNCHANGED <<mem, held>> /\ (Fault \/ faults' = faults)

\* The record Exec makes of a thread.
LEMMA StepsRes ==
  ASSUME NEW T, IsThread(T), NEW b, NEW area
  PROVE  /\ [T EXCEPT !.res = Append(T.res, b)] = Steps(T, b, T.area)
         /\ [T EXCEPT !.res = Append(T.res, b), !.area = area] = Steps(T, b, area)
<1>1. DOMAIN T = {"pc", "call", "form", "reqs", "res", "area", "len", "out"} /\ T = [f \in DOMAIN T |-> T[f]]
  BY DEF IsThread
<1>2. PICK r : r = Append(T.res, b)
  OBVIOUS
<1>3. PICK U, V, A : U = [T EXCEPT !.res = r] /\ V = [T EXCEPT !.res = r, !.area = area] /\ A = T.area
  OBVIOUS
<1>4. U = [pc |-> T.pc, call |-> T.call, form |-> T.form, reqs |-> T.reqs, res |-> r,
           area |-> A, len |-> T.len, out |-> T.out]
  BY <1>1, <1>3
<1>5. V = [pc |-> T.pc, call |-> T.call, form |-> T.form, reqs |-> T.reqs, res |-> r,
           area |-> area, len |-> T.len, out |-> T.out]
  BY <1>1, <1>3
<1>6. QED
  BY <1>2, <1>3, <1>4, <1>5 DEF Steps

\* Exec is one of the three steps.
LEMMA ExecIs ==
  ASSUME BInv, NEW t \in Threads, Exec(t)
  PROVE  /\ Busy(t) /\ UNCHANGED <<late, alone, whole, calls>>
         /\ \E i : ExecWritesStep(t, i) \/ ExecReadsStep(t, i) \/ ExecRefusesStep(t, i)
<1>1. Busy(t) /\ UNCHANGED <<late, alone, whole, calls>>
  BY DEF Exec
<1>2. IsThread(thr[t]) /\ Batch(thr[t], held[t]) /\ DOMAIN thr = Threads
  BY <1>1, BusyIs DEF BInv
<1>3. PICK i : i = Len(thr[t].res) + 1
  OBVIOUS
<1>4. i \in DOMAIN thr[t].reqs
  <2>1. Len(thr[t].res) \in Nat /\ Len(thr[t].reqs) \in Nat /\ DOMAIN thr[t].reqs = 1 .. Len(thr[t].reqs)
    BY <1>2, ListIs DEF Batch, IsBatch
  <2>2. Len(thr[t].res) < Len(thr[t].reqs)
    BY DEF Exec
  <2>3. QED
    BY <1>3, <2>1, <2>2
<1>5. ASSUME NEW b, thr' = [thr EXCEPT ![t].res = Append(@, b)] PROVE ExecStep(t, i, b, thr[t].area)
  <2>1. /\ DOMAIN thr' = Threads /\ thr'[t] = [thr[t] EXCEPT !.res = Append(thr[t].res, b)]
        /\ \A u \in Threads : u # t => thr'[u] = thr[u]
    BY <1>2, <1>5
  <2>2. QED
    BY <1>2, <1>3, <1>4, <2>1, StepsRes DEF ExecStep
<1>6. ASSUME NEW b, NEW area, thr' = [thr EXCEPT ![t].res = Append(@, b), ![t].area = area]
      PROVE  ExecStep(t, i, b, area)
  <2>1. /\ DOMAIN thr' = Threads /\ thr'[t] = [thr[t] EXCEPT !.res = Append(thr[t].res, b), !.area = area]
        /\ \A u \in Threads : u # t => thr'[u] = thr[u]
    BY <1>2, <1>6
  <2>2. QED
    <3>0. PICK T, r, U : T = thr[t] /\ r = Append(T.res, b) /\ U = thr'[t]
      OBVIOUS
    <3>1. U = Steps(T, b, area)
      <4>1. DOMAIN T = {"pc", "call", "form", "reqs", "res", "area", "len", "out"} /\ T = [f \in DOMAIN T |-> T[f]]
        BY <1>2, <3>0 DEF IsThread
      <4>2. U = [T EXCEPT !.res = r, !.area = area]
        BY <2>1, <3>0, Zenon
      <4>3. U = [pc |-> T.pc, call |-> T.call, form |-> T.form, reqs |-> T.reqs, res |-> r,
                 area |-> area, len |-> T.len, out |-> T.out]
        BY <4>1, <4>2
      <4>4. QED
        BY <3>0, <4>3 DEF Steps
    <3>2. thr'[t] = Steps(thr[t], b, area)
      BY <3>0, <3>1
    <3>3. QED
      BY <1>3, <1>4, <2>1, <3>2 DEF ExecStep
<1>7. \/ /\ Accepts(thr[t].reqs[i]) /\ thr[t].reqs[i].act = "write"
         /\ Store(thr[t].reqs[i], SubSeq(thr[t].area, Offsets(thr[t].reqs)[i - 1] + 1, Offsets(thr[t].reqs)[i]))
         /\ thr' = [thr EXCEPT ![t].res = Append(@, 0)]
         /\ UNCHANGED faults
      \/ /\ Accepts(thr[t].reqs[i]) /\ thr[t].reqs[i].act = "read"
         /\ thr' = [thr EXCEPT ![t].res = Append(@, 0), ![t].area = ReadArea(t, i)]
         /\ UNCHANGED <<mem, held, faults>>
      \/ /\ IF Accepts(thr[t].reqs[i]) THEN Fault ELSE UNCHANGED faults
         /\ thr' = [thr EXCEPT ![t].res = Append(@, 1)]
         /\ UNCHANGED <<mem, held>>
  BY <1>3, Zenon DEF Exec, ReadArea
<1>8. QED
  BY <1>1, <1>5, <1>6, <1>7 DEF ExecWritesStep, ExecReadsStep, ExecRefusesStep

\* What a request the controller accepts is.
LEMMA AcceptsIs ==
  ASSUME BInv, NEW r, Accepts(r)
  PROVE  /\ r.tag \in DOMAIN Memory /\ r.type = Memory[r.tag].type /\ r.size = Width[r.type]
         /\ mem[r.tag] \in ByteSeq /\ Bytes(r) <= Len(mem[r.tag])
  BY DEF Accepts, BInv, MemOK, BytesOf

\* One thread steps at the engine, all keep their requests.
LEMMA StepInv ==
  ASSUME BInv, NEW t \in Threads, NEW i, NEW b, NEW area, ExecStep(t, i, b, area), Busy(t),
         ThreadOK(Steps(thr[t], b, area), held'[t]), MemOK(mem'), DOMAIN held' = Threads,
         \A u \in Threads : /\ HeldOK(held'[u]) /\ (~Busy(u) => held'[u] = held[u])
                            /\ \A x \in DOMAIN Memory : held[u][x] \subseteq held'[u][x]
                            /\ Busy(u) => Seen(mem', held'[u]),
         faults' \in 0 .. MaxFaults, UNCHANGED <<late, alone, whole, calls>>
  PROVE  BInv'
<1>1. DOMAIN thr' = Threads /\ thr'[t] = Steps(thr[t], b, area) /\ \A u \in Threads : u # t => thr'[u] = thr[u]
  BY DEF ExecStep
<1>2. \A u \in Threads : thr'[u].pc = thr[u].pc
  <2>1. Steps(thr[t], b, area).pc = thr[t].pc
    BY DEF Steps
  <2>2. QED
    BY <1>1, <2>1
<1>3. ASSUME NEW u \in Threads PROVE ThreadOK(thr'[u], held'[u])
  <2>1. CASE u = t
    BY <1>1, <2>1
  <2>2. CASE u # t
    <3>1. ThreadOK(thr[u], held[u]) /\ thr'[u] = thr[u]
      BY <1>1, <2>2 DEF BInv
    <3>2. CASE Busy(u)
      <4>1. thr[u].pc = "engine" /\ \A x \in DOMAIN Memory : held[u][x] \subseteq held'[u][x]
        BY <3>2 DEF Busy
      <4>2. ThreadOK(thr[u], held'[u])
        BY <3>1, <4>1, HeldGrows
      <4>3. QED
        BY <3>1, <4>2
    <3>3. CASE ~Busy(u)
      BY <3>1, <3>3
    <3>4. QED
      BY <3>2, <3>3
  <2>3. QED
    BY <2>1, <2>2
<1>4. \A u \in Threads : Busy(u)' => Seen(mem', held'[u])
  BY <1>2 DEF Busy
<1>5. calls' \in 0 .. MaxCalls /\ alone' \in [Threads -> BOOLEAN] /\ IsBatch(late')
  BY DEF BInv
<1>6. QED
  BY <1>1, <1>3, <1>4, <1>5 DEF BInv

\* The engine keeps the invariant.
LEMMA ExecInv ==
  ASSUME BInv, NEW t \in Threads, Exec(t)
  PROVE  BInv'
<1>1. Busy(t) /\ UNCHANGED <<late, alone, whole, calls>>
  BY ExecIs
<1>2. PICK i : ExecWritesStep(t, i) \/ ExecReadsStep(t, i) \/ ExecRefusesStep(t, i)
  BY ExecIs
<1>3. PICK T, hs, r : T = thr[t] /\ hs = held[t] /\ r = T.reqs[i]
  OBVIOUS
<1>4. Batch(T, hs) /\ IsThread(T) /\ T.pc = "engine" /\ Seen(mem, hs)
  BY <1>1, <1>3, BusyIs DEF Busy
<1>5. i \in DOMAIN T.reqs /\ i = Len(T.res) + 1
  BY <1>2, <1>3 DEF ExecWritesStep, ExecReadsStep, ExecRefusesStep, ExecStep
<1>6. IsRequest(r)
  BY <1>3, <1>4, <1>5 DEF Batch, IsBatch
<1>7. faults' \in 0 .. MaxFaults
  BY <1>2, FaultIs DEF ExecWritesStep, ExecReadsStep, ExecRefusesStep, BInv
<1>8. MemOK(mem) /\ DOMAIN held = Threads
  BY DEF BInv
<1>9. \A u \in Threads : HeldOK(held[u]) /\ (Busy(u) => Seen(mem, held[u]))
  BY DEF BInv
<1>10. CASE ExecWritesStep(t, i)
  <2>1. PICK data : data = SubSeq(T.area, Offsets(T.reqs)[i - 1] + 1, Offsets(T.reqs)[i])
    OBVIOUS
  <2>3. /\ data \in ByteSeq /\ Len(data) = Bytes(r)
        /\ \A j \in 1 .. Bytes(r) : data[j] = T.area[Offsets(T.reqs)[i - 1] + j]
    <3>1. /\ SubSeq(T.area, Offsets(T.reqs)[i - 1] + 1, Offsets(T.reqs)[i]) \in ByteSeq
          /\ Len(SubSeq(T.area, Offsets(T.reqs)[i - 1] + 1, Offsets(T.reqs)[i])) = Bytes(T.reqs[i])
          /\ \A j \in 1 .. Bytes(T.reqs[i]) :
                SubSeq(T.area, Offsets(T.reqs)[i - 1] + 1, Offsets(T.reqs)[i])[j] = T.area[Offsets(T.reqs)[i - 1] + j]
      BY <1>4, <1>5, AreaPart
    <3>2. QED
      BY <1>3, <2>1, <3>1
  <2>4. Accepts(r) /\ r.act = "write" /\ Store(r, data) /\ ExecStep(t, i, 0, T.area)
    BY <1>3, <1>10, <2>1 DEF ExecWritesStep
  <2>5. /\ r.tag \in DOMAIN Memory /\ MemOK(mem')
        /\ \A j \in 1 .. Bytes(r) : mem'[r.tag][j] = data[j]
        /\ Bytes(r) <= Len(mem'[r.tag])
        /\ DOMAIN held' = Threads
        /\ \A u \in Threads : /\ HeldOK(held'[u]) /\ (~Busy(u) => held'[u] = held[u])
                              /\ \A x \in DOMAIN Memory : held[u][x] \subseteq held'[u][x]
                              /\ Busy(u) => Seen(mem', held'[u])
    BY <1>6, <2>3, <2>4, StoreIs
  <2>6. AreaHas(T.reqs, T.area, i, mem'[r.tag])
    BY <1>3, <2>3, <2>5 DEF AreaHas
  <2>7. mem'[r.tag] \in held'[t][r.tag]
    BY <1>1, <2>5 DEF Seen
  <2>8. r.type = Memory[r.tag].type /\ r.size = Width[r.type]
    BY <2>4, AcceptsIs
  <2>9. ThreadOK(Steps(T, 0, T.area), held'[t])
    <3>1. \A x \in DOMAIN Memory : hs[x] \subseteq held'[t][x]
      BY <1>3, <2>5
    <3>2. PICK gs, h : gs = held'[t] /\ h = mem'[r.tag]
      OBVIOUS
    <3>3. /\ h \in gs[T.reqs[i].tag] /\ Bytes(T.reqs[i]) <= Len(h) /\ AreaHas(T.reqs, T.area, i, h)
          /\ T.reqs[i].tag \in DOMAIN Memory /\ T.reqs[i].type = Memory[T.reqs[i].tag].type
          /\ T.reqs[i].size = Width[T.reqs[i].type] /\ T.reqs[i].act = "write"
      BY <1>3, <2>4, <2>5, <2>6, <2>7, <2>8, <3>2
    <3>4. ThreadOK(Steps(T, 0, T.area), gs)
      BY <1>4, <1>5, <3>1, <3>2, <3>3, ExecWrites
    <3>5. QED
      BY <3>2, <3>4
  <2>10. QED
    BY <1>1, <1>3, <1>7, <2>4, <2>5, <2>9, StepInv
<1>11. CASE ExecReadsStep(t, i)
  <2>1. PICK area, h : area = ReadArea(t, i) /\ h = mem[r.tag]
    OBVIOUS
  <2>2. Accepts(r) /\ r.act = "read" /\ ExecStep(t, i, 0, area) /\ UNCHANGED <<mem, held>>
    BY <1>3, <1>11, <2>1 DEF ExecReadsStep
  <2>3. /\ r.tag \in DOMAIN Memory /\ r.type = Memory[r.tag].type /\ r.size = Width[r.type]
        /\ h \in ByteSeq /\ Bytes(r) <= Len(h)
    BY <2>1, <2>2, AcceptsIs
  <2>4. h \in hs[r.tag]
    BY <1>4, <2>1, <2>3 DEF Seen
  <2>5. Fetched(T, i, h, area)
    BY <1>3, <2>1 DEF ReadArea, Fetched
  <2>6. ThreadOK(Steps(T, 0, area), hs)
    BY <1>3, <1>4, <1>5, <2>1, <2>2, <2>3, <2>4, <2>5, ExecReads
  <2>7. QED
    BY <1>1, <1>3, <1>7, <1>8, <1>9, <2>2, <2>6, StepInv
<1>12. CASE ExecRefusesStep(t, i)
  <2>1. ExecStep(t, i, 1, T.area) /\ UNCHANGED <<mem, held>>
    BY <1>3, <1>12 DEF ExecRefusesStep
  <2>2. ThreadOK(Steps(T, 1, T.area), hs)
    BY <1>4, <1>5, ExecRefuses
  <2>3. QED
    BY <1>1, <1>3, <1>7, <1>8, <1>9, <2>1, <2>2, StepInv
<1>13. QED
  BY <1>2, <1>10, <1>11, <1>12

\* Stuttering keeps the invariant.
LEMMA StutterInv ==
  ASSUME BInv, UNCHANGED vars
  PROVE  BInv'
  BY DEF vars, BInv, Busy

\* Every step keeps the invariant.
LEMMA BNext == BInv /\ [Next]_vars => BInv'
  BY StartInv, ExecInv, LostInv, AnswerInv, LateInv, StutterInv DEF Next

\* The inductive invariant of the batches: each thread at the engine has the requests
\* its call asks for, in a data area in which each request has its own bytes; a
\* request with result 0 has there what its tag has held during the call.
THEOREM BatchInvariant == Spec => []BInv
<1>1. Init => BInv
  BY BInitOK
<1>2. BInv /\ [Next]_vars => BInv'
  BY BNext
<1>3. QED
  BY <1>1, <1>2, PTL DEF Spec

-----------------------------------------------------------------------------
(* The properties of batches *)

\* The invariant implies ReadTrue,
LEMMA BInvReads == BInv => ReadTrue
<1> SUFFICES ASSUME BInv, NEW t \in Threads PROVE ReadOut(thr[t], held[t])
  BY DEF ReadTrue, ReadOut, Done, Ended
<1>1. CASE thr[t].pc = "idle"
  BY <1>1 DEF BInv, ThreadOK
<1>2. CASE thr[t].pc # "idle"
  BY <1>2 DEF ReadOut, Ended
<1>3. QED
  BY <1>1, <1>2

\* and WriteTrue,
LEMMA BInvWrites == BInv => WriteTrue
<1> SUFFICES ASSUME BInv, NEW t \in Threads PROVE WriteOut(thr[t], held[t])
  BY DEF WriteTrue, WriteOut, Done, Ended
<1>1. CASE thr[t].pc = "idle"
  BY <1>1 DEF BInv, ThreadOK
<1>2. CASE thr[t].pc # "idle"
  BY <1>2 DEF WriteOut, Ended
<1>3. QED
  BY <1>1, <1>2

\* Where the descriptors and the data area of a batch lie in the slot.
LEMMA SlotLayout ==
  ASSUME NEW form \in DOMAIN Form, NEW n \in Nat \ {0}
  PROVE  /\ Form[form].result + 4 <= Form[form].stride
         /\ AreaStart(n, form) \in Nat
         /\ Form[form].req0 + n * Form[form].stride <= AreaStart(n, form)
<1>1. form \in {"path", "db"}
  BY DEF Form
<1>2. CASE form = "path"
  <2>1. /\ Form[form].req0 = 384 /\ Form[form].stride = 288 /\ Form[form].area0 = 672 /\ Form[form].result = 280
    BY <1>2 DEF Form
  <2>2. QED
    BY <2>1 DEF AreaStart
<1>3. CASE form = "db"
  <2>1. /\ Form[form].req0 = 136 /\ Form[form].stride = 296 /\ Form[form].area0 = 432 /\ Form[form].result = 288
    BY <1>3 DEF Form
  <2>2. QED
    BY <2>1 DEF AreaStart
<1>4. QED
  BY <1>1, <1>2, <1>3

\* A batch at the engine fits the slot.
LEMMA BatchFits ==
  ASSUME NEW T, NEW hs, Batch(T, hs)
  PROVE  /\ Len(T.reqs) \in Nat \ {0} /\ Len(T.reqs) <= MaxBatch /\ T.form \in DOMAIN Form
         /\ Len(T.area) \in Nat /\ AreaStart(Len(T.reqs), T.form) + Len(T.area) <= SlotRoom
<1>1. Len(T.reqs) \in Nat /\ T.form \in DOMAIN Form
  BY ListIs DEF Batch, IsBatch
<1>2. Len(T.area) \in Nat /\ Len(T.area) = AreaOf(T.reqs)
  BY DEF Batch, ByteSeq
<1>3. AccessRc(T.reqs, T.form) = "OK"
  BY DEF Batch
<1>4. /\ Len(T.reqs) # 0 /\ ~(Len(T.reqs) > MaxBatch)
      /\ ~(AreaStart(Len(T.reqs), T.form) + AreaOf(T.reqs) > SlotRoom)
  BY <1>3 DEF AccessRc
<1>5. AreaStart(Len(T.reqs), T.form) \in Nat /\ SlotRoom \in Nat /\ MaxBatch \in Nat
  BY <1>1, <1>4, SlotLayout, TagAccessAssumption
<1>6. QED
  BY <1>1, <1>2, <1>4, <1>5

\* and the types,
LEMMA BInvTypes == BInv => TypeOK
<1> SUFFICES ASSUME BInv PROVE TypeOK
  OBVIOUS
<1>1. \A x \in DOMAIN Memory : mem[x] \in [DOMAIN Memory[x].bytes -> 0 .. Byte - 1]
  <2>1. TAKE x \in DOMAIN Memory
  <2>2. mem[x] \in ByteSeq /\ Len(mem[x]) = Len(Memory[x].bytes)
    BY DEF BInv, MemOK, BytesOf
  <2>3. PICK S : ByteSeq = Seq(S) /\ S = 0 .. Byte - 1
    BY DEF ByteSeq
  <2>4. Memory[x].bytes \in Seq(S)
    BY <2>3, MemoryAssumption
  <2>5. PICK m, b : m = mem[x] /\ b = Memory[x].bytes
    OBVIOUS
  <2>6. m \in Seq(S) /\ b \in Seq(S) /\ Len(m) = Len(b)
    BY <2>2, <2>3, <2>4, <2>5
  <2>7. DOMAIN b = 1 .. Len(b) /\ m \in [1 .. Len(m) -> S]
    BY ONLY <2>6
  <2>8. QED
    BY <2>3, <2>5, <2>6, <2>7
<1>2. ASSUME NEW t \in Threads
      PROVE  /\ thr[t].pc \in {"idle", "engine"} /\ thr[t].form \in DOMAIN Form
             /\ Len(thr[t].reqs) <= MaxBatch /\ Len(thr[t].res) <= Len(thr[t].reqs)
             /\ Len(thr[t].area) <= SlotRoom /\ \A j \in DOMAIN thr[t].area : thr[t].area[j] \in 0 .. Byte - 1
  <2>1. CASE thr[t].pc = "idle" /\ Blank(thr[t])
    <3>1. "path" \in DOMAIN Form /\ Len(<<>>) = 0 /\ DOMAIN <<>> = {}
      BY DEF Form
    <3>2. QED
      BY <2>1, <3>1, TagAccessAssumption DEF Blank
  <2>2. CASE thr[t].pc = "engine" /\ Batch(thr[t], held[t])
    <3>1. /\ thr[t].form \in DOMAIN Form /\ Len(thr[t].reqs) \in Nat \ {0} /\ Len(thr[t].reqs) <= MaxBatch
          /\ Len(thr[t].area) \in Nat /\ AreaStart(Len(thr[t].reqs), thr[t].form) + Len(thr[t].area) <= SlotRoom
      BY <2>2, BatchFits
    <3>2. AreaStart(Len(thr[t].reqs), thr[t].form) \in Nat /\ SlotRoom \in Nat
      BY <3>1, SlotLayout, TagAccessAssumption
    <3>3. Len(thr[t].area) <= SlotRoom
      BY <3>1, <3>2
    <3>4. PICK S : S = 0 .. Byte - 1
      OBVIOUS
    <3>5. thr[t].area \in Seq(S) /\ Len(thr[t].res) <= Len(thr[t].reqs)
      BY <2>2, <3>4 DEF Batch, ByteSeq
    <3>6. \A j \in DOMAIN thr[t].area : thr[t].area[j] \in S
      BY <3>5
    <3>7. QED
      BY <2>2, <3>1, <3>3, <3>4, <3>5, <3>6
  <2>3. QED
    BY <2>1, <2>2 DEF BInv, ThreadOK
<1>3. QED
  BY <1>1, <1>2 DEF BInv, TypeOK

\* and BatchFaithful.
LEMMA BInvBatch == BInv => BatchFaithful
<1> SUFFICES ASSUME BInv, NEW t \in Threads, Busy(t)
    PROVE  LET c == thr[t].call
               reqs == thr[t].reqs
               f == Form[thr[t].form]
               start == AreaStart(Len(reqs), thr[t].form)
           IN /\ f.result + 4 <= f.stride
              /\ f.req0 + Len(reqs) * f.stride <= start /\ start + Len(thr[t].area) <= SlotRoom
              /\ c.op \in {"read_tags", "write_tags"} =>
                    /\ Len(reqs) = Len(c.names)
                    /\ \A i \in DOMAIN c.names :
                          /\ reqs[i].tag = c.names[i]
                          /\ Symbols[c.names[i]].struct = 0 /\ Symbols[c.names[i]].dim0 = 0
                          /\ c.op = "write_tags" => c.vals[i].kind = Symbols[c.names[i]].type
  BY BInvTypes DEF BatchFaithful
<1>1. PICK T, c : T = thr[t] /\ c = thr[t].call
  OBVIOUS
<1>2. Batch(T, held[t]) /\ c \in Calls
  BY <1>1, BusyIs
<1>3. /\ Form[T.form].result + 4 <= Form[T.form].stride
      /\ Form[T.form].req0 + Len(T.reqs) * Form[T.form].stride <= AreaStart(Len(T.reqs), T.form)
      /\ AreaStart(Len(T.reqs), T.form) + Len(T.area) <= SlotRoom
  BY <1>2, BatchFits, SlotLayout
<1>4. RequestsOf(c, T.reqs, T.len)
  BY <1>1, <1>2 DEF Batch
<1>5. ASSUME c.op \in {"read_tags", "write_tags"}
      PROVE  /\ Len(T.reqs) = Len(c.names)
             /\ \A i \in DOMAIN c.names :
                   /\ T.reqs[i].tag = c.names[i]
                   /\ Symbols[c.names[i]].struct = 0 /\ Symbols[c.names[i]].dim0 = 0
                   /\ c.op = "write_tags" => c.vals[i].kind = Symbols[c.names[i]].type
  <2>1. /\ DOMAIN T.reqs = DOMAIN c.names /\ T.reqs = [i \in DOMAIN T.reqs |-> T.reqs[i]]
    BY <1>4, <1>5 DEF RequestsOf
  <2>2. c.names \in Seq(Elems(c.names))
    BY <1>2, <1>5, CallsAssumption DEF IsCall
  <2>3. \A i \in DOMAIN c.names : IsRequest(T.reqs[i])
    BY <1>2, <2>1 DEF Batch, IsBatch
  <2>4. Len(T.reqs) = Len(c.names)
    BY <2>1, <2>2, <2>3, ListBatch
  <2>5. ASSUME NEW i \in DOMAIN c.names
        PROVE  /\ T.reqs[i].tag = c.names[i]
               /\ Symbols[c.names[i]].struct = 0 /\ Symbols[c.names[i]].dim0 = 0
               /\ c.op = "write_tags" => c.vals[i].kind = Symbols[c.names[i]].type
    <3>1. CASE c.op = "read_tags"
      <4>1. Resolve(c.names[i]) # "NONE" /\ T.reqs[i] = ReadOf(c.names[i], Resolve(c.names[i]), 1)
        BY <1>4, <3>1 DEF RequestsOf
      <4>2. T.reqs[i].tag = c.names[i]
        BY <4>1 DEF ReadOf, Request
      <4>3. QED
        BY <3>1, <4>1, <4>2, ResolveIs
    <3>2. CASE c.op = "write_tags"
      <4>1. /\ Writable(c.names[i], c.vals[i])
            /\ T.reqs[i] = WriteOf(c.names[i], Resolve(c.names[i]), EncodeScalar(c.vals[i].kind, c.vals[i].v))
        BY <1>4, <3>2 DEF RequestsOf
      <4>2. T.reqs[i].tag = c.names[i]
        BY <4>1 DEF WriteOf, Request
      <4>3. QED
        BY <4>1, <4>2, ResolveIs DEF Writable
    <3>3. QED
      BY <1>5, <3>1, <3>2
  <2>6. QED
    BY <2>4, <2>5
<1>6. QED
  BY <1>1, <1>3, <1>5

\* A batch at the engine is the one the caller asked for, tag by tag and kind by
\* kind, and fits its slot (bp_tagdb_access, bp_tagdb_write_tags), for any number
\* of threads, any calls and any width of a byte.
THEOREM BatchesAreFaithful == Spec => []BatchFaithful
  BY BatchInvariant, BInvBatch, PTL

\* A value a read hands to its caller is one its own tag has had during the call
\* (access_read, decode_scalar, bp_tagdb_read_bool_array), whatever other threads,
\* refusals, lost answers and late executions do.
THEOREM ReadsAreTrue == Spec => []ReadTrue
  BY BatchInvariant, BInvReads, PTL

\* A write that reports success has put every value of the call into its tag, as the
\* controller reads its bytes (access_fill, encode_scalar, BOOL packing).
THEOREM WritesAreTrue == Spec => []WriteTrue
  BY BatchInvariant, BInvWrites, PTL

-----------------------------------------------------------------------------
(* The strings, and their inductive invariant *)

LenUsable(x) ==
    LenOf(x) \in DOMAIN Memory /\ Memory[LenOf(x)].type = "DINT" /\ 4 <= Len(Memory[LenOf(x)].bytes)
LenNow(m, x) == PlcValue("DINT", Element(m[LenOf(x)], 4, 1))
Char(b) == PlcValue("SINT", <<b>>)

\* The first n bytes of a string are there, and were written; they are those of s.
NonZero(m, x, n) ==
    \A j \in 1 .. n : DataOf(x) \in DOMAIN Memory /\ j <= Len(m[DataOf(x)]) /\ m[DataOf(x)][j] # 0
DataHolds(m, x, s) ==
    \A j \in 1 .. Len(s) :
        DataOf(x) \in DOMAIN Memory /\ j <= Len(m[DataOf(x)]) /\ Char(m[DataOf(x)][j]) = s[j]

\* What a request does to strings, when it is executed.
Harmless(m, r) ==
    r.act = "write" => \A x \in StringTags :
        /\ r.tag = DataOf(x) => \A j \in DOMAIN r.data : r.data[j] # 0
        /\ r.tag = LenOf(x) => Bytes(r) = 4 /\ NonZero(m, x, PlcValue("DINT", r.data))

AtLen(T) == T.reqs[1].tag = LenOf(T.call.tag)
Got(T) == T.res = <<0>>
Chars(s) == s \in Seq(Values("SINT") \ {0})

\* What a reader of a string has in hand; s is the string it should find, or None.
ReadStr(T, m, s) ==
    /\ AtLen(T) /\ Got(T) => NonZero(m, T.call.tag, PlcValue("DINT", T.area))
    /\ ~AtLen(T) => NonZero(m, T.call.tag, T.len)
    /\ ~AtLen(T) /\ Got(T) => \A j \in DOMAIN T.area : T.area[j] # 0
    /\ s # None =>
          /\ AtLen(T) /\ Got(T) => PlcValue("DINT", T.area) = Len(s)
          /\ ~AtLen(T) => T.len = Len(s)
          /\ ~AtLen(T) /\ Got(T) => \A j \in DOMAIN T.area : Char(T.area[j]) = s[j]

\* What a writer of a string has done; a: it was alone.
WriteStr(T, m, a) ==
    /\ AtLen(T) \/ Got(T) => NonZero(m, T.call.tag, Len(T.call.str))
    /\ a => /\ AtLen(T) \/ Got(T) => DataHolds(m, T.call.tag, T.call.str)
            /\ AtLen(T) /\ Got(T) /\ LenUsable(T.call.tag) => LenNow(m, T.call.tag) = Len(T.call.str)

SThread(T, m, a, w) ==
    /\ T.call.op = "read_string" => ReadStr(T, m, IF a THEN w ELSE None)
    /\ T.call.op = "write_string" => w = None /\ WriteStr(T, m, a)

WholeAt(m, x, w) ==
    w # None => Chars(w) /\ (LenUsable(x) => LenNow(m, x) = Len(w)) /\ DataHolds(m, x, w)

Writing(u, x) == Busy(u) /\ thr[u].call.op = "write_string" /\ thr[u].call.tag = x
Undisturbed(t) ==
    thr[t].call.op \in StringOps /\ alone[t] => \A u \in Threads : u # t => ~Writing(u, thr[t].call.tag)

StringOut(T) ==
    Ended(T, "read_string") /\ T.out.rc = "OK" =>
        /\ T.out.str # None =>
              /\ T.out.val.len = Len(T.out.str)
              /\ T.out.val.chars =
                    SubSeq(T.out.str, 1, Least({Len(T.out.str), T.call.room - 1, MaxCount}))
        /\ \A i \in DOMAIN T.out.val.chars : T.out.val.chars[i] # 0

StringsOK(m) == \A x \in StringTags : LenUsable(x) => NonZero(m, x, LenNow(m, x))

SInv ==
    /\ DOMAIN whole = StringTags
    /\ StringsOK(mem)
    /\ \A x \in StringTags : WholeAt(mem, x, whole[x])
    /\ \A i \in DOMAIN late : Harmless(mem, late[i])
    /\ \A t \in Threads : Busy(t) => /\ SThread(thr[t], mem, alone[t], whole[thr[t].call.tag])
                                     /\ Undisturbed(t)
    /\ \A t \in Threads : StringOut(thr[t])

\* The tag a string call names.
LEMMA StringTagIs ==
  ASSUME NEW c \in Calls, c.op \in StringOps
  PROVE  c.tag \in StringTags /\ c.tag \in Seq(Elems(c.tag))
  BY CallsAssumption DEF StringTags, IsCall

\* String tags are sequences of parts.
LEMMA StringTagSeq ==
  ASSUME NEW x \in StringTags
  PROVE  x \in Seq(Elems(x))
  BY StringTagIs DEF StringTags

\* LEN and DATA of the strings are different tags.
LEMMA Members2 ==
  ASSUME NEW x \in StringTags, NEW y \in StringTags
  PROVE  LenOf(x) # DataOf(y) /\ (LenOf(x) = LenOf(y) => x = y) /\ (DataOf(x) = DataOf(y) => x = y)
<1>1. x \in Seq(Elems(x)) /\ y \in Seq(Elems(y))
  BY StringTagSeq
<1>2. QED
  BY <1>1, MemberNames

\* The value of one byte.
LEMMA CharIs ==
  ASSUME NEW b \in 0 .. Byte - 1
  PROVE  Char(b) \in Int /\ (b = 0 <=> Char(b) = 0)
<1>1. PICK s : s = <<b>>
  OBVIOUS
<1>2. s \in Seq(0 .. Byte - 1) /\ Len(s) = 1 /\ s[1] = b
  BY <1>1
<1>3. PICK h : IsHorner(s, TopOf("SINT", s), Len(s), h) /\ PlcValue("SINT", s) = h[Len(s)]
  <2>1. PICK type : type = "SINT" /\ type # "BOOL"
    OBVIOUS
  <2>2. Len(s) # 0
    BY <1>2
  <2>3. \E h : IsHorner(s, TopOf(type, s), Len(s), h) /\ PlcValue(type, s) = h[Len(s)]
    BY <1>2, <2>1, <2>2, PlcHorner
  <2>4. QED
    BY <2>1, <2>3
<1>4. PlcValue("SINT", s) = TopOf("SINT", s)
  BY <1>2, <1>3 DEF IsHorner
<1>5. PICK B \in Nat : B = Byte /\ b \in 0 .. B - 1
  BY ByteIs
<1>6. TopOf("SINT", s) = IF b >= B \div 2 THEN b - B ELSE b
  BY <1>2, <1>5 DEF TopOf, SignedTypes
<1>7. B >= 1 /\ (B \div 2 >= 1 \/ B = 1)
  BY <1>5
<1>8. B >= 2
  BY <1>5, ByteIs
<1>9. QED
  BY <1>1, <1>4, <1>5, <1>6, <1>7, <1>8 DEF Char

\* An element of one byte.
LEMMA ElementOne ==
  ASSUME NEW b \in ByteSeq, NEW k \in 1 .. Len(b)
  PROVE  Element(b, 1, k) = <<b[k]>> /\ b[k] \in 0 .. Byte - 1
<1>1. PICK S : ByteSeq = Seq(S) /\ S = 0 .. Byte - 1
  BY DEF ByteSeq
<1>2. b \in Seq(S) /\ k \in Nat \ {0} /\ k <= Len(b) /\ Len(b) \in Nat
  BY <1>1
<1>3. PICK e : e = Element(b, 1, k)
  OBVIOUS
<1>4. e = SubSeq(b, k, k)
  BY <1>2, <1>3 DEF Element
<1>5. e \in Seq(S) /\ Len(e) = 1 /\ e[1] = b[k]
  BY <1>2, <1>4
<1>6. e = <<b[k]>>
  BY <1>5
<1>7. b[k] \in S
  BY <1>2
<1>8. QED
  BY <1>1, <1>3, <1>6, <1>7

\* A request that is harmless writes strings that are right.
LEMMA StoreStrings ==
  ASSUME BInv, StringsOK(mem), NEW r, IsRequest(r), Harmless(mem, r), r.act = "write", Accepts(r),
         MemOK(mem'), \A x \in DOMAIN Memory : x # r.tag => mem'[x] = mem[x],
         \A j \in 1 .. Bytes(r) : mem'[r.tag][j] = r.data[j],
         \A j \in 1 .. Len(mem[r.tag]) : j > Bytes(r) => mem'[r.tag][j] = mem[r.tag][j]
  PROVE  /\ StringsOK(mem')
         /\ \A x \in StringTags : \A n : NonZero(mem, x, n) => NonZero(mem', x, n)
         /\ \A q : Harmless(mem, q) => Harmless(mem', q)
         /\ \A x \in StringTags : r.tag = LenOf(x) => LenNow(mem', x) = PlcValue("DINT", r.data)
<1>1. r.tag \in DOMAIN Memory /\ MemOK(mem) /\ r.type = Memory[r.tag].type
  BY DEF Accepts, BInv
<1>2. PICK old, new : old = mem[r.tag] /\ new = mem'[r.tag]
  OBVIOUS
<1>3. old \in ByteSeq /\ new \in ByteSeq /\ Len(new) = Len(old) /\ Len(old) \in Nat
  BY <1>1, <1>2 DEF MemOK, BytesOf, ByteSeq
<1>4. r.data \in ByteSeq /\ Len(r.data) = Bytes(r) /\ Bytes(r) \in Nat /\ Bytes(r) <= Len(old)
  BY <1>2, RequestBytes DEF IsRequest, ByteSeq, Accepts
<1>5. ASSUME NEW x \in StringTags, NEW n, NonZero(mem, x, n) PROVE NonZero(mem', x, n)
  <2>1. CASE r.tag # DataOf(x)
    BY <1>5, <2>1 DEF NonZero
  <2>2. CASE r.tag = DataOf(x)
    <3>1. \A j \in DOMAIN r.data : r.data[j] # 0
      BY <2>2 DEF Harmless
    <3>2. DOMAIN r.data = 1 .. Bytes(r)
      BY <1>4 DEF ByteSeq
    <3>3. ASSUME NEW j \in 1 .. n PROVE j <= Len(new) /\ new[j] # 0
      <4>1. j <= Len(old) /\ old[j] # 0 /\ j \in Nat \ {0}
        BY <1>2, <1>5, <2>2, <3>3 DEF NonZero
      <4>2. CASE j <= Bytes(r)
        BY <1>2, <1>3, <1>4, <3>1, <3>2, <4>1, <4>2
      <4>3. CASE ~(j <= Bytes(r))
        BY <1>2, <1>3, <1>4, <4>1, <4>3
      <4>4. QED
        BY <4>2, <4>3
    <3>4. QED
      BY <1>1, <1>2, <2>2, <3>3 DEF NonZero
  <2>3. QED
    BY <2>1, <2>2
<1>6. ASSUME NEW x \in StringTags, r.tag = LenOf(x) PROVE LenNow(mem', x) = PlcValue("DINT", r.data)
  <2>1. Bytes(r) = 4
    BY <1>6 DEF Harmless
  <2>2. PICK d : d = r.data
    OBVIOUS
  <2>3. d \in ByteSeq /\ Len(d) = 4 /\ 4 <= Len(new) /\ \A j \in 1 .. 4 : d[j] = new[j]
    BY <1>2, <1>3, <1>4, <2>1, <2>2
  <2>4. Element(d, 4, 1) = Element(new, 4, 1)
    <3>1. 1 * 4 <= Len(d) /\ 1 * 4 <= Len(new) /\ \A j \in 1 .. 1 * 4 : d[j] = new[j]
      BY <2>3
    <3>2. 1 \in Nat /\ 1 \in 1 .. 1 /\ 4 \in {1, 2, 4, 8}
      OBVIOUS
    <3>3. QED
      BY ZenonT(40), <1>3, <2>3, <3>1, <3>2, ElementSame
  <2>5. Element(d, 4, 1) = d
    BY <2>3, FirstElement
  <2>6. QED
    BY <1>2, <1>6, <2>2, <2>4, <2>5 DEF LenNow
<1>7. ASSUME NEW x \in StringTags, LenUsable(x) PROVE NonZero(mem', x, LenNow(mem', x))
  <2>1. CASE r.tag = LenOf(x)
    <3>1. NonZero(mem, x, PlcValue("DINT", r.data))
      BY <2>1 DEF Harmless
    <3>2. QED
      BY <1>5, <1>6, <2>1, <3>1
  <2>2. CASE r.tag # LenOf(x)
    <3>1. LenOf(x) \in DOMAIN Memory
      BY <1>7 DEF LenUsable
    <3>2. LenNow(mem', x) = LenNow(mem, x)
      BY <2>2, <3>1 DEF LenNow
    <3>3. NonZero(mem, x, LenNow(mem, x))
      BY <1>7 DEF StringsOK
    <3>4. QED
      BY <1>5, <3>2, <3>3
  <2>3. QED
    BY <2>1, <2>2
<1>8. ASSUME NEW q, Harmless(mem, q) PROVE Harmless(mem', q)
  BY <1>5, <1>8 DEF Harmless
<1>9. QED
  BY <1>5, <1>6, <1>7, <1>8 DEF StringsOK

-----------------------------------------------------------------------------
(* Strings at first, and the requests of write_string *)

\* Four zero bytes are the number 0.
LEMMA ZeroIs ==
  ASSUME NEW b \in ByteSeq, Len(b) = 4, \A j \in 1 .. 4 : b[j] = 0
  PROVE  PlcValue("DINT", b) = 0
<1>1. PICK type \in DOMAIN Width : type = "DINT" /\ type # "BOOL"
  BY WidthIs
<1>2. Width[type] = 4
  BY <1>1, WidthIs
<1>3. 0 \in Values(type)
  BY <1>1, LenFits, TagAccessAssumption
<1>4. PICK e : e = EncodeScalar(type, 0)
  OBVIOUS
<1>5. /\ e \in Seq(0 .. Byte - 1) /\ Len(e) = 4
      /\ \A i \in 1 .. 4 : e[i] = ((0 % Span(4)) \div Span(i - 1)) % Byte
  <2>1. PICK z \in Int : z = 0
    OBVIOUS
  <2>2. e = EncodeScalar(type, z)
    BY <1>4, <2>1
  <2>3. /\ e \in Seq(0 .. Byte - 1) /\ Len(e) = Width[type]
        /\ \A i \in 1 .. Width[type] : e[i] = ((z % Span(Width[type])) \div Span(i - 1)) % Byte
    BY <1>1, <2>2, EncodeIs
  <2>4. QED
    BY <1>2, <2>1, <2>3
<1>6. \A i \in 1 .. 4 : i - 1 \in Nat
  OBVIOUS
<1>7. Span(4) \in Nat \ {0} /\ \A i \in 1 .. 4 : Span(i - 1) \in Nat \ {0}
  BY <1>6, SpanStep
<1>8. \A s \in Nat \ {0} : 0 % s = 0 /\ 0 \div s = 0
  OBVIOUS
<1>9. \A i \in 1 .. 4 : e[i] = 0
  <2>1. TAKE i \in 1 .. 4
  <2>2. PICK p \in Nat \ {0}, q \in Nat \ {0}, B \in Nat \ {0} : p = Span(4) /\ q = Span(i - 1) /\ B = Byte
    BY <1>7, ByteIs
  <2>3. ((0 % p) \div q) % B = 0
    BY <1>8
  <2>4. QED
    BY <1>5, <2>2, <2>3
<1>10. PICK S : ByteSeq = Seq(S) /\ S = 0 .. Byte - 1
  BY DEF ByteSeq
<1>11. e = b
  <2>1. e \in Seq(S) /\ b \in Seq(S) /\ Len(e) = Len(b) /\ \A i \in 1 .. Len(e) : e[i] = b[i]
    BY <1>5, <1>9, <1>10
  <2>2. QED
    BY <2>1, SeqEq
<1>12. PlcValue(type, e) = 0
  BY <1>3, <1>4, PlcOfEncode
<1>13. QED
  BY <1>1, <1>11, <1>12

\* Strings are empty at first.
LEMMA SInitOK == Init => SInv
<1> SUFFICES ASSUME Init PROVE SInv
  OBVIOUS
<1>1. DOMAIN whole = StringTags /\ \A x \in StringTags : whole[x] = <<>>
  BY DEF Init
<1>2. \A n \in Int : n <= 0 => \A j : j \notin 1 .. n
  OBVIOUS
<1>3. \A x \in StringTags : LenUsable(x) => LenNow(mem, x) = 0
  <2>1. TAKE x \in StringTags
  <2>2. HAVE LenUsable(x)
  <2>3. PICK b : b = Memory[LenOf(x)].bytes
    OBVIOUS
  <2>4. b \in ByteSeq /\ 4 <= Len(b) /\ mem[LenOf(x)] = b /\ \A j \in DOMAIN b : b[j] = 0
    BY <2>2, <2>3, MemoryAssumption, StringsAssumption DEF LenUsable, Init, ByteSeq
  <2>5. PICK e : e = Element(b, 4, 1)
    OBVIOUS
  <2>6. /\ e \in ByteSeq /\ Len(e) = 4
        /\ \A i \in 1 .. 4 : e[i] = b[(1 - 1) * 4 + i]
    <3>1. 1 * 4 <= Len(b) /\ 1 \in Nat \ {0} /\ 4 \in {1, 2, 4, 8}
      BY <2>4
    <3>2. QED
      BY <2>4, <2>5, <3>1, ElementIs
  <2>7. \A i \in 1 .. 4 : e[i] = 0
    <3>1. \A i \in 1 .. 4 : (1 - 1) * 4 + i = i /\ i \in DOMAIN b
      BY <2>4 DEF ByteSeq
    <3>2. QED
      BY <2>4, <2>6, <3>1
  <2>8. PlcValue("DINT", e) = 0
    BY <2>6, <2>7, ZeroIs
  <2>9. QED
    BY <2>4, <2>5, <2>8 DEF LenNow
<1>4. \A x \in StringTags : NonZero(mem, x, 0)
  BY <1>2 DEF NonZero
<1>5. StringsOK(mem)
  BY <1>3, <1>4 DEF StringsOK
<1>6. \A x \in StringTags : WholeAt(mem, x, whole[x])
  <2>1. Chars(<<>>) /\ Len(<<>>) = 0
    BY DEF Chars
  <2>2. \A x \in StringTags : DataHolds(mem, x, <<>>)
    BY <1>2, <2>1 DEF DataHolds
  <2>3. QED
    BY <1>1, <1>3, <2>1, <2>2 DEF WholeAt
<1>7. \A i \in DOMAIN late : Harmless(mem, late[i])
  BY DEF Init
<1>8. \A t \in Threads : ~Busy(t) /\ StringOut(thr[t])
  BY DEF Init, Idle, Busy, StringOut, Ended
<1>9. QED
  BY <1>1, <1>5, <1>6, <1>7, <1>8 DEF SInv

\* The bytes of a string of a call.
LEMMA StringBytes ==
  ASSUME NEW s, Chars(s), NEW d, d = EncodeArray("SINT", s)
  PROVE  /\ d \in ByteSeq /\ Len(d) = Len(s) /\ Len(s) \in Nat
         /\ \A j \in 1 .. Len(s) : d[j] # 0 /\ Char(d[j]) = s[j]
<1>1. PICK type \in DOMAIN Width : type = "SINT"
  BY WidthIs
<1>2. Width[type] = 1
  BY <1>1, WidthIs
<1>3. PICK n \in Nat : n = Len(s)
  BY DEF Chars
<1>4. s \in Seq(Values(type)) /\ \A j \in 1 .. n : s[j] # 0
  BY <1>1, <1>3 DEF Chars
<1>5. /\ d \in ByteSeq /\ Len(d) = Width[type] * n
      /\ \A k \in 1 .. n : PlcValue(type, Element(d, Width[type], k)) = s[k]
  BY <1>1, <1>3, <1>4, EncodeArrayIs
<1>6. Len(d) = n
  BY <1>2, <1>5
<1>7. ASSUME NEW j \in 1 .. n PROVE d[j] # 0 /\ Char(d[j]) = s[j]
  <2>1. Element(d, 1, j) = <<d[j]>> /\ d[j] \in 0 .. Byte - 1
    BY <1>5, <1>6, ElementOne
  <2>2. Char(d[j]) = s[j]
    BY <1>1, <1>2, <1>5, <2>1 DEF Char
  <2>3. QED
    BY <1>4, <2>1, <2>2, CharIs
<1>8. QED
  BY <1>3, <1>5, <1>6, <1>7

\* A string that is written has no NUL.
LEMMA CallChars ==
  ASSUME NEW c \in Calls, c.op = "write_string"
  PROVE  Chars(c.str)
  BY CallsAssumption DEF IsCall, Chars

\* The two requests of write_string.
LEMMA DataRequest ==
  ASSUME NEW c \in Calls, c.op = "write_string", NEW r, r = WriteOf(DataOf(c.tag), "SINT", EncodeArray("SINT", c.str))
  PROVE  /\ r.tag = DataOf(c.tag) /\ r.type = "SINT" /\ r.act = "write" /\ Bytes(r) = Len(c.str) /\ Len(c.str) \in Nat
         /\ r.data \in ByteSeq /\ Len(r.data) = Len(c.str)
         /\ \A j \in 1 .. Len(c.str) : r.data[j] # 0 /\ Char(r.data[j]) = c.str[j]
<1>1. PICK d : d = EncodeArray("SINT", c.str)
  OBVIOUS
<1>2. /\ d \in ByteSeq /\ Len(d) = Len(c.str) /\ Len(c.str) \in Nat
      /\ \A j \in 1 .. Len(c.str) : d[j] # 0 /\ Char(d[j]) = c.str[j]
  BY <1>1, CallChars, StringBytes
<1>3. PICK type \in DOMAIN Width, n \in Nat : type = "SINT" /\ n = Len(d) /\ Width[type] * n = n
  <2>1. PICK type \in DOMAIN Width : type = "SINT" /\ Width[type] = 1
    BY WidthIs
  <2>2. PICK n \in Nat : n = Len(d)
    BY <1>2
  <2>3. Width[type] * n = n
    BY <2>1
  <2>4. QED
    BY <2>1, <2>2, <2>3
<1>4. Len(d) = Width[type] * n /\ r = WriteOf(DataOf(c.tag), type, d)
  BY <1>1, <1>3
<1>5. /\ r.tag = DataOf(c.tag) /\ r.type = type /\ r.act = "write" /\ Bytes(r) = Len(d) /\ r.data = d
  BY <1>2, <1>4, WriteOfIs
<1>6. QED
  BY <1>2, <1>3, <1>5

\* The request that writes LEN.
LEMMA LenRequest ==
  ASSUME NEW c \in Calls, c.op = "write_string", Len(c.str) <= MaxCount,
         NEW r, r = WriteOf(LenOf(c.tag), "DINT", EncodeScalar("DINT", Len(c.str)))
  PROVE  /\ r.tag = LenOf(c.tag) /\ r.type = "DINT" /\ r.act = "write" /\ Bytes(r) = 4
         /\ r.data \in ByteSeq /\ Len(r.data) = 4 /\ PlcValue("DINT", r.data) = Len(c.str)
<1>1. PICK n \in Nat : n = Len(c.str) /\ n <= MaxCount
  BY CharsAre
<1>2. PICK type \in DOMAIN Width : type = "DINT"
  BY WidthIs
<1>3. n \in Values(type)
  BY <1>1, <1>2, LenFits
<1>4. r = WriteOf(LenOf(c.tag), type, EncodeScalar(type, n))
  BY <1>1, <1>2
<1>5. /\ IsRequest(r) /\ Bytes(r) = Width[type] /\ r.data = EncodeScalar(type, n)
      /\ r.act = "write" /\ r.tag = LenOf(c.tag) /\ r.type = type
  BY <1>3, <1>4, ScalarRequest
<1>6. r.data \in ByteSeq /\ Len(r.data) = Bytes(r)
  BY <1>5 DEF IsRequest, ByteSeq
<1>7. PlcValue(type, r.data) = n
  BY <1>3, <1>5, PlcOfEncode
<1>8. QED
  BY <1>1, <1>2, <1>5, <1>6, <1>7, WidthIs

-----------------------------------------------------------------------------
(* Requests and strings *)

\* The two requests of read_string, and one request of a call that reads.
LEMMA ReadRequest ==
  ASSUME NEW tag, NEW type, NEW n, NEW r, r = ReadOf(tag, type, n)
  PROVE  r.tag = tag /\ r.type = type /\ r.act = "read" /\ r.count = n /\ r.size = Width[type]
  BY DEF ReadOf, Request

\* A request that writes a member of a string belongs to a write_string of that string.
LEMMA MemberWrite ==
  ASSUME NEW T, NEW hs, Batch(T, hs), NEW i \in DOMAIN T.reqs, T.reqs[i].act = "write"
  PROVE  \/ T.reqs[i].tag \notin Members
         \/ T.call.op = "write_string" /\ i = 1 /\ Len(T.reqs) = 1 /\ T.call.tag \in StringTags
<1>1. PICK c, r : c = T.call /\ r = T.reqs[i]
  OBVIOUS
<1>2. c \in Calls /\ RequestsOf(c, T.reqs, T.len)
  BY <1>1 DEF Batch
<1>3. Written(c) \cap Members = {}
  BY <1>2, StringsAssumption
<1>4. SUFFICES \/ r.tag \in Written(c)
               \/ c.op = "write_string" /\ i = 1 /\ Len(T.reqs) = 1 /\ c.tag \in StringTags
  BY <1>1, <1>3
<1>5. c.op \in Ops
  BY <1>2 DEF RequestsOf
<1>6. CASE c.op = "access"
  <2>1. T.reqs = c.reqs
    BY <1>2, <1>6 DEF RequestsOf
  <2>2. QED
    BY <1>1, <1>6, <2>1 DEF Written
<1>7. CASE c.op = "read_tags"
  <2>1. T.reqs = [k \in DOMAIN c.names |-> ReadOf(c.names[k], Resolve(c.names[k]), 1)]
    BY <1>2, <1>7 DEF RequestsOf
  <2>2. PICK k : r = ReadOf(c.names[k], Resolve(c.names[k]), 1)
    BY <1>1, <2>1
  <2>3. QED
    BY <1>1, <2>2, ReadRequest
<1>8. CASE c.op = "write_tags"
  <2>1. T.reqs = [k \in DOMAIN c.names |->
                       WriteOf(c.names[k], Resolve(c.names[k]), EncodeScalar(c.vals[k].kind, c.vals[k].v))]
    BY <1>2, <1>8 DEF RequestsOf
  <2>2. i \in DOMAIN c.names /\ r.tag = c.names[i]
    BY SMTT(90), <1>1, <2>1 DEF WriteOf, Request
  <2>3. QED
    BY <1>8, <2>2 DEF Written, Elems
<1>9. CASE c.op \in {"read", "read_bools", "read_string"}
  <2>1. PICK tag, type, n : T.reqs = <<ReadOf(tag, type, n)>>
    BY <1>2, <1>9 DEF RequestsOf
  <2>2. r = ReadOf(tag, type, n)
    BY <1>1, <2>1
  <2>3. QED
    BY <1>1, <2>2, ReadRequest
<1>10. CASE c.op \in {"write", "write_bools"}
  <2>1. PICK type, data : T.reqs = <<WriteOf(c.tag, type, data)>>
    BY <1>2, <1>10 DEF RequestsOf
  <2>2. r = WriteOf(c.tag, type, data)
    BY <1>1, <2>1
  <2>3. r.tag = c.tag
    BY <2>2 DEF WriteOf, Request
  <2>4. QED
    BY <1>10, <2>3 DEF Written
<1>11. CASE c.op = "write_string"
  <2>1. PICK q : T.reqs = <<q>>
    BY <1>2, <1>11 DEF RequestsOf
  <2>2. i = 1 /\ Len(T.reqs) = 1
    BY <2>1
  <2>3. c.tag \in StringTags
    BY <1>2, <1>11, StringTagIs DEF StringOps
  <2>4. QED
    BY <1>11, <2>2, <2>3
<1>12. QED
  BY <1>5, <1>6, <1>7, <1>8, <1>9, <1>10, <1>11 DEF Ops

\* A batch of a write_string is its DATA or its LEN.
DataReq(c) == WriteOf(DataOf(c.tag), "SINT", EncodeArray("SINT", c.str))
LenReq(c) == WriteOf(LenOf(c.tag), "DINT", EncodeScalar("DINT", Len(c.str)))

\* What a write_string has at the engine.
LEMMA StringWrite ==
  ASSUME NEW T, NEW hs, Batch(T, hs), T.call.op = "write_string"
  PROVE  /\ T.call \in Calls /\ T.call.tag \in StringTags /\ Len(T.call.str) <= MaxCount /\ Len(T.call.str) \in Nat
         /\ DOMAIN T.reqs = {1} /\ Len(T.reqs) = 1
         /\ \/ AtLen(T) /\ T.reqs[1] = LenReq(T.call)
            \/ ~AtLen(T) /\ T.reqs[1] = DataReq(T.call)
<1>1. PICK c : c = T.call
  OBVIOUS
<1>2. c \in Calls /\ RequestsOf(c, T.reqs, T.len) /\ c.op = "write_string"
  BY <1>1 DEF Batch
<1>3. c.tag \in StringTags /\ Len(c.str) \in Nat
  BY <1>2, StringTagIs, CharsAre DEF StringOps
<1>4. Len(c.str) <= MaxCount /\ (T.reqs = <<LenReq(c)>> \/ T.reqs = <<DataReq(c)>>)
  BY <1>2 DEF RequestsOf, LenReq, DataReq
<1>5. LenReq(c).tag = LenOf(c.tag) /\ DataReq(c).tag = DataOf(c.tag)
  BY DEF LenReq, DataReq, WriteOf, Request
<1>6. LenOf(c.tag) # DataOf(c.tag)
  BY <1>3, Members2
<1>7. CASE T.reqs = <<LenReq(c)>>
  BY <1>1, <1>2, <1>3, <1>4, <1>5, <1>7 DEF AtLen
<1>8. CASE T.reqs = <<DataReq(c)>>
  BY <1>1, <1>2, <1>3, <1>4, <1>5, <1>6, <1>8 DEF AtLen
<1>9. QED
  BY <1>4, <1>7, <1>8

\* Every request of a batch is harmless.
LEMMA ReqHarmless ==
  ASSUME NEW T, NEW hs, Batch(T, hs), NEW m, NEW a, NEW w, SThread(T, m, a, w), NEW i \in DOMAIN T.reqs
  PROVE  Harmless(m, T.reqs[i])
<1>1. SUFFICES ASSUME T.reqs[i].act = "write", NEW x \in StringTags
               PROVE  /\ T.reqs[i].tag = DataOf(x) => \A j \in DOMAIN T.reqs[i].data : T.reqs[i].data[j] # 0
                      /\ T.reqs[i].tag = LenOf(x) =>
                            Bytes(T.reqs[i]) = 4 /\ NonZero(m, x, PlcValue("DINT", T.reqs[i].data))
  BY DEF Harmless
<1>2. CASE T.reqs[i].tag \notin Members
  BY <1>2 DEF Members
<1>3. CASE T.reqs[i].tag \in Members
  <2>1. PICK c, r : c = T.call /\ r = T.reqs[1]
    OBVIOUS
  <2>2. c.op = "write_string" /\ i = 1
    BY <1>1, <1>3, <2>1, MemberWrite
  <2>3. /\ c \in Calls /\ c.tag \in StringTags /\ Len(c.str) <= MaxCount
        /\ \/ AtLen(T) /\ r = LenReq(c)
           \/ ~AtLen(T) /\ r = DataReq(c)
    BY <2>1, <2>2, StringWrite
  <2>4. CASE AtLen(T) /\ r = LenReq(c)
    <3>1. r.tag = LenOf(c.tag) /\ Bytes(r) = 4 /\ PlcValue("DINT", r.data) = Len(c.str)
      BY <2>2, <2>3, <2>4, LenRequest DEF LenReq
    <3>2. NonZero(m, c.tag, Len(c.str))
      BY <2>1, <2>2, <2>4 DEF SThread, WriteStr
    <3>3. r.tag # DataOf(x) /\ (r.tag = LenOf(x) => x = c.tag)
      BY <2>3, <3>1, Members2
    <3>4. QED
      BY <2>1, <2>2, <3>1, <3>2, <3>3
  <2>5. CASE ~AtLen(T) /\ r = DataReq(c)
    <3>1. /\ r.tag = DataOf(c.tag) /\ r.data \in ByteSeq /\ Len(r.data) = Len(c.str)
          /\ \A j \in 1 .. Len(c.str) : r.data[j] # 0
      BY <2>2, <2>3, <2>5, DataRequest DEF DataReq
    <3>2. DOMAIN r.data = 1 .. Len(c.str)
      BY <3>1 DEF ByteSeq
    <3>3. r.tag # LenOf(x)
      BY <2>3, <3>1, Members2
    <3>4. QED
      BY <2>1, <2>2, <3>1, <3>2, <3>3
  <2>6. QED
    BY <2>3, <2>4, <2>5
<1>4. QED
  BY <1>2, <1>3

\* The string x is the same in two memories.
StringSame(m, n, x) ==
    /\ LenOf(x) \in DOMAIN Memory => n[LenOf(x)] = m[LenOf(x)]
    /\ DataOf(x) \in DOMAIN Memory => n[DataOf(x)] = m[DataOf(x)]

\* A string that is not touched stays what it is.
LEMMA SameString ==
  ASSUME NEW m, NEW n, NEW x, StringSame(m, n, x)
  PROVE  /\ LenUsable(x) => LenNow(n, x) = LenNow(m, x)
         /\ \A s : DataHolds(m, x, s) => DataHolds(n, x, s)
         /\ \A k : NonZero(m, x, k) => NonZero(n, x, k)
         /\ \A w : WholeAt(m, x, w) => WholeAt(n, x, w)
<1>1. LenUsable(x) => LenNow(n, x) = LenNow(m, x)
  BY DEF StringSame, LenUsable, LenNow
<1>2. \A s : DataHolds(m, x, s) => DataHolds(n, x, s)
  BY DEF StringSame, DataHolds
<1>3. \A k : NonZero(m, x, k) => NonZero(n, x, k)
  BY DEF StringSame, NonZero
<1>4. QED
  BY <1>1, <1>2, <1>3 DEF WholeAt

\* What other threads do leaves a thread at work on a string as it was: NUL bytes do not
\* come back, and a thread that is still alone has kept its string.
LEMMA KeepThread ==
  ASSUME NEW T, NEW m, NEW n, NEW a, NEW b, NEW w, NEW v, SThread(T, m, a, w),
         \A k : NonZero(m, T.call.tag, k) => NonZero(n, T.call.tag, k),
         T.call.op = "read_string" => (b => a /\ (v = w \/ v = None)),
         T.call.op = "write_string" => v = None /\ (b => a /\ StringSame(m, n, T.call.tag))
  PROVE  SThread(T, n, b, v)
<1>1. CASE T.call.op = "read_string"
  <2>1. PICK s, p : s = (IF a THEN w ELSE None) /\ p = (IF b THEN v ELSE None)
    OBVIOUS
  <2>2. ReadStr(T, m, s)
    BY <1>1, <2>1 DEF SThread
  <2>3. p = s \/ p = None
    BY <1>1, <2>1
  <2>4. ReadStr(T, n, p)
    BY <2>2, <2>3 DEF ReadStr
  <2>5. QED
    BY <1>1, <2>1, <2>4 DEF SThread
<1>2. CASE T.call.op = "write_string"
  <2>1. WriteStr(T, m, a) /\ v = None /\ (b => a /\ StringSame(m, n, T.call.tag))
    BY <1>2 DEF SThread
  <2>2. WriteStr(T, n, b)
    BY <2>1, SameString DEF WriteStr
  <2>3. QED
    BY <1>2, <2>1, <2>2 DEF SThread
<1>3. CASE T.call.op \notin StringOps
  BY <1>3 DEF SThread, StringOps
<1>4. QED
  BY <1>1, <1>2, <1>3 DEF StringOps

-----------------------------------------------------------------------------
(* Strings at the engine *)

\* In a batch of one request the data area is the request's.
LEMMA OneArea ==
  ASSUME NEW T, NEW hs, Batch(T, hs), Len(T.reqs) = 1
  PROVE  /\ 1 \in DOMAIN T.reqs /\ T.area \in ByteSeq /\ Len(T.area) = Bytes(T.reqs[1])
         /\ Bytes(T.reqs[1]) \in Nat /\ Offsets(T.reqs)[0] = 0
<1>1. PICK off : off = Offsets(T.reqs)
  OBVIOUS
<1>2. IsOffsets(T.reqs, off) /\ DOMAIN T.reqs = 1 .. 1
  BY <1>1, OffsetsAre, ListIs DEF Batch, IsBatch
<1>3. 1 \in DOMAIN T.reqs
  BY <1>2
<1>4. off[0] = 0
  BY <1>2 DEF IsOffsets
<1>5. 1 - 1 = 0
  OBVIOUS
<1>6. off[1] = off[1 - 1] + Bytes(T.reqs[1]) /\ Bytes(T.reqs[1]) \in Nat
  BY <1>2, <1>3, PlaceOf
<1>7. off[1] = Bytes(T.reqs[1])
  BY <1>4, <1>5, <1>6
<1>8. T.area \in ByteSeq /\ Len(T.area) = off[1]
  BY <1>1 DEF Batch, AreaOf
<1>9. QED
  BY <1>1, <1>3, <1>4, <1>6, <1>7, <1>8

\* What the answer of a batch of one read hands back.
LEMMA OneData ==
  ASSUME NEW T, NEW hs, Batch(T, hs), Len(T.reqs) = 1, T.reqs[1].act = "read"
  PROVE  AccessRead(T.reqs, T.res, T.area)[1] = T.area
<1>1. PICK h : h = T.area
  OBVIOUS
<1>2. /\ 1 \in DOMAIN T.reqs /\ h \in ByteSeq /\ Len(h) = Bytes(T.reqs[1])
      /\ Bytes(T.reqs[1]) \in Nat /\ Offsets(T.reqs)[0] = 0
  BY <1>1, OneArea
<1>3. 1 - 1 = 0 /\ \A j \in 1 .. Bytes(T.reqs[1]) : 0 + j = j
  OBVIOUS
<1>4. AreaHas(T.reqs, T.area, 1, h)
  BY <1>1, <1>2, <1>3 DEF AreaHas
<1>5. Bytes(T.reqs[1]) <= Len(h)
  BY <1>2
<1>6. AccessRead(T.reqs, T.res, T.area)[1] = SubSeq(h, 1, Bytes(T.reqs[1]))
  BY <1>2, <1>4, <1>5, DataIs
<1>7. SubSeq(h, 1, Len(h)) = h
  BY <1>2 DEF ByteSeq
<1>8. QED
  BY <1>1, <1>2, <1>6, <1>7

\* A batch of read_string reads LEN, or the part of DATA that fits the caller's room.
ToRead(T) == Least({T.len, T.call.room - 1, MaxCount})

\* What a read_string has at the engine.
LEMMA StringRead ==
  ASSUME NEW T, NEW hs, Batch(T, hs), T.call.op = "read_string"
  PROVE  /\ T.call \in Calls /\ T.call.tag \in StringTags
         /\ DOMAIN T.reqs = {1} /\ Len(T.reqs) = 1 /\ T.reqs[1].act = "read"
         /\ T.area \in ByteSeq /\ Len(T.area) = Bytes(T.reqs[1]) /\ Offsets(T.reqs)[0] = 0
         /\ T.call.room - 1 \in Nat
         /\ \/ /\ AtLen(T) /\ T.reqs[1].type = "DINT" /\ Bytes(T.reqs[1]) = 4
               /\ T.reqs[1].tag = LenOf(T.call.tag)
            \/ /\ ~AtLen(T) /\ T.reqs[1].type = "SINT" /\ Bytes(T.reqs[1]) = ToRead(T)
               /\ T.reqs[1].tag = DataOf(T.call.tag)
               /\ T.len \in Nat /\ ToRead(T) \in Nat /\ ToRead(T) <= T.len
<1>1. PICK c : c = T.call
  OBVIOUS
<1>2. c \in Calls /\ RequestsOf(c, T.reqs, T.len) /\ c.op = "read_string"
  BY <1>1 DEF Batch
<1>3. c.tag \in StringTags
  BY <1>2, StringTagIs DEF StringOps
<1>4. c.room \in Nat /\ c.room # 0
  BY <1>2, CallsAssumption DEF IsCall, RequestsOf
<1>5. \/ T.reqs = <<ReadOf(LenOf(c.tag), "DINT", 1)>>
      \/ /\ T.reqs = <<ReadOf(DataOf(c.tag), "SINT", ToRead(T))>>
         /\ T.len \in Nat
  BY <1>1, <1>2 DEF RequestsOf, ToRead
<1>6. PICK r : T.reqs = <<r>>
  BY <1>5
<1>7. DOMAIN T.reqs = {1} /\ Len(T.reqs) = 1 /\ T.reqs[1] = r
  BY <1>6
<1>8. T.area \in ByteSeq /\ Len(T.area) = Bytes(T.reqs[1]) /\ Offsets(T.reqs)[0] = 0
  BY <1>7, OneArea
<1>9. LenOf(c.tag) # DataOf(c.tag)
  BY <1>3, Members2
<1>10. CASE r = ReadOf(LenOf(c.tag), "DINT", 1)
  <2>1. r.tag = LenOf(c.tag) /\ r.type = "DINT" /\ r.act = "read" /\ r.count = 1 /\ r.size = Width["DINT"]
    BY <1>10, ReadRequest
  <2>2. Bytes(r) = 4
    BY <2>1, WidthIs DEF Bytes
  <2>3. QED
    BY <1>1, <1>2, <1>3, <1>4, <1>7, <1>8, <2>1, <2>2 DEF AtLen
<1>11. CASE r = ReadOf(DataOf(c.tag), "SINT", ToRead(T)) /\ T.len \in Nat
  <2>1. PICK n : n = ToRead(T)
    OBVIOUS
  <2>2. n \in {T.len, c.room - 1, MaxCount} /\ n <= T.len
    <3>1. T.len \in Int /\ c.room - 1 \in Int /\ MaxCount \in Int
      BY <1>4, <1>11, TagAccessAssumption
    <3>2. QED
      BY <1>1, <2>1, <3>1, LeastOf DEF ToRead
  <2>3. n \in Nat
    BY <1>4, <1>11, <2>2, TagAccessAssumption
  <2>4. r.tag = DataOf(c.tag) /\ r.type = "SINT" /\ r.act = "read" /\ r.count = n /\ r.size = Width["SINT"]
    BY <1>11, <2>1, ReadRequest
  <2>5. Bytes(r) = n
    BY <2>3, <2>4, WidthIs DEF Bytes
  <2>6. QED
    BY <1>1, <1>2, <1>3, <1>4, <1>7, <1>8, <1>9, <1>11, <2>1, <2>2, <2>3, <2>4, <2>5 DEF AtLen
<1>12. QED
  BY <1>5, <1>6, <1>7, <1>10, <1>11

\* A batch of one request has no results, or one.
LEMMA OneResult ==
  ASSUME NEW T, NEW hs, Batch(T, hs), NEW b \in {0, 1}, NEW area, Len(T.reqs) = 1, Len(T.res) + 1 \in DOMAIN T.reqs,
         NEW U, U = Steps(T, b, area)
  PROVE  /\ T.res = <<>> /\ U.res = <<b>> /\ (Got(U) <=> b = 0) /\ ~Got(T)
         /\ U.call = T.call /\ U.reqs = T.reqs /\ U.area = area /\ U.len = T.len
         /\ (AtLen(U) <=> AtLen(T))
<1>1. U.res = Append(T.res, b) /\ U.call = T.call /\ U.reqs = T.reqs /\ U.area = area /\ U.len = T.len
  BY DEF Steps
<1>2. T.res \in Seq({0, 1}) /\ DOMAIN T.reqs = 1 .. 1
  BY ListIs DEF Batch, IsBatch
<1>3. T.res = <<>>
  <2>1. Len(T.res) = 0
    BY <1>2
  <2>2. QED
    BY <1>2, <2>1
<1>4. U.res = <<b>>
  BY <1>1, <1>3
<1>5. (Got(U) <=> b = 0) /\ ~Got(T)
  BY <1>3, <1>4 DEF Got
<1>6. QED
  BY <1>1, <1>3, <1>4, <1>5 DEF AtLen

\* LEN has been read: it is the string's, and its bytes are there.
LEMMA LenIsRead ==
  ASSUME BInv, SInv, NEW t \in Threads, Busy(t), thr[t].call.op = "read_string", AtLen(thr[t]),
         Accepts(thr[t].reqs[1]), NEW area \in ByteSeq, Len(area) = 4,
         \A j \in 1 .. 4 : area[j] = mem[LenOf(thr[t].call.tag)][j]
  PROVE  /\ NonZero(mem, thr[t].call.tag, PlcValue("DINT", area))
         /\ whole[thr[t].call.tag] # None => PlcValue("DINT", area) = Len(whole[thr[t].call.tag])
<1>1. PICK T, x, b : T = thr[t] /\ x = T.call.tag /\ b = mem[LenOf(x)]
  OBVIOUS
<1>2. Batch(T, held[t])
  BY <1>1, BusyIs
<1>3. /\ x \in StringTags /\ T.reqs[1].type = "DINT" /\ Bytes(T.reqs[1]) = 4
      /\ T.reqs[1].tag = LenOf(x)
  BY <1>1, <1>2, StringRead
<1>4. LenOf(x) \in DOMAIN Memory /\ Memory[LenOf(x)].type = "DINT" /\ b \in ByteSeq /\ 4 <= Len(b)
  BY <1>1, <1>3, AcceptsIs
<1>5. Len(b) = Len(Memory[LenOf(x)].bytes)
  BY <1>1, <1>4 DEF BInv, MemOK, BytesOf
<1>6. LenUsable(x)
  BY <1>4, <1>5 DEF LenUsable
<1>7. Element(area, 4, 1) = Element(b, 4, 1)
  <2>1. 1 * 4 <= Len(area) /\ 1 * 4 <= Len(b) /\ \A j \in 1 .. 1 * 4 : area[j] = b[j]
    BY <1>1, <1>4
  <2>2. 1 \in Nat /\ 1 \in 1 .. 1 /\ 4 \in {1, 2, 4, 8}
    OBVIOUS
  <2>3. QED
    BY <1>4, <2>1, <2>2, ElementSame
<1>8. Element(area, 4, 1) = area
  BY FirstElement
<1>9. PlcValue("DINT", area) = LenNow(mem, x)
  BY <1>1, <1>7, <1>8 DEF LenNow
<1>10. NonZero(mem, x, LenNow(mem, x)) /\ WholeAt(mem, x, whole[x])
  BY <1>3, <1>6 DEF SInv, StringsOK
<1>11. QED
  BY <1>1, <1>6, <1>9, <1>10 DEF WholeAt

\* DATA has been read: no byte of it is NUL, and they are the string's.
LEMMA DataIsRead ==
  ASSUME BInv, SInv, NEW t \in Threads, Busy(t), thr[t].call.op = "read_string", ~AtLen(thr[t]),
         NEW area \in ByteSeq, Len(area) = ToRead(thr[t]),
         \A j \in 1 .. Len(area) : area[j] = mem[DataOf(thr[t].call.tag)][j]
  PROVE  /\ \A j \in DOMAIN area : area[j] # 0
         /\ whole[thr[t].call.tag] # None /\ alone[t] =>
               \A j \in DOMAIN area : Char(area[j]) = whole[thr[t].call.tag][j]
<1>1. PICK T, x, w, a : T = thr[t] /\ x = T.call.tag /\ w = whole[x] /\ a = alone[t]
  OBVIOUS
<1>2. Batch(T, held[t])
  BY <1>1, BusyIs
<1>3. x \in StringTags /\ T.len \in Nat /\ ToRead(T) \in Nat /\ ToRead(T) <= T.len
  BY <1>1, <1>2, StringRead
<1>4. ReadStr(T, mem, IF a THEN w ELSE None)
  BY <1>1 DEF SInv, SThread
<1>5. NonZero(mem, x, T.len) /\ (a /\ w # None => T.len = Len(w))
  BY <1>1, <1>4 DEF ReadStr
<1>6. DOMAIN area = 1 .. Len(area) /\ \A j \in DOMAIN area : j \in 1 .. T.len
  BY <1>1, <1>3 DEF ByteSeq
<1>7. \A j \in DOMAIN area : area[j] # 0
  BY <1>1, <1>5, <1>6 DEF NonZero
<1>8. w # None => DataHolds(mem, x, w)
  BY <1>1, <1>3 DEF SInv, WholeAt
<1>9. w # None /\ a => \A j \in DOMAIN area : Char(area[j]) = w[j]
  BY <1>1, <1>5, <1>6, <1>8 DEF DataHolds
<1>10. QED
  BY <1>1, <1>7, <1>9

\* What Store does to the memory.
LEMMA StoreMem ==
  ASSUME BInv, NEW r, IsRequest(r), Accepts(r), NEW data \in ByteSeq, Len(data) = Bytes(r), Store(r, data)
  PROVE  /\ r.tag \in DOMAIN Memory /\ MemOK(mem') /\ \A x \in DOMAIN Memory : x # r.tag => mem'[x] = mem[x]
         /\ \A j \in 1 .. Bytes(r) : mem'[r.tag][j] = data[j]
         /\ \A j \in 1 .. Len(mem[r.tag]) : j > Bytes(r) => mem'[r.tag][j] = mem[r.tag][j]
<1>1. /\ r.tag \in DOMAIN Memory /\ MemOK(mem')
      /\ \A j \in 1 .. Bytes(r) : mem'[r.tag][j] = data[j]
  BY StoreIs
<1>2. PICK n, old : n \in Nat /\ n = Bytes(r) /\ old = mem[r.tag]
  BY RequestBytes
<1>3. old \in ByteSeq
  BY <1>2, AcceptsIs
<1>4. PICK N \in Nat : N = Len(old) /\ DOMAIN old = 1 .. N
  BY <1>3 DEF ByteSeq
<1>5. PICK bytes : bytes = [j \in DOMAIN old |-> IF j <= n THEN data[j] ELSE old[j]]
  OBVIOUS
<1>6. mem' = [mem EXCEPT ![r.tag] = bytes]
  BY <1>2, <1>5 DEF Store
<1>7. DOMAIN mem = DOMAIN Memory
  BY DEF BInv, MemOK
<1>8. mem'[r.tag] = bytes /\ \A x \in DOMAIN Memory : x # r.tag => mem'[x] = mem[x]
  BY <1>1, <1>6, <1>7
<1>9. \A j \in 1 .. N : j > n => bytes[j] = old[j]
  BY <1>2, <1>4, <1>5
<1>10. QED
  BY <1>1, <1>2, <1>4, <1>8, <1>9

\* The strings other threads see when one request has been carried out.
LEMMA StepS ==
  ASSUME BInv, SInv, NEW t \in Threads, Busy(t), NEW i, NEW b, NEW area, ExecStep(t, i, b, area),
         UNCHANGED <<late, alone, whole>>, StringsOK(mem'),
         \A x \in StringTags : WholeAt(mem', x, whole[x]),
         \A x \in StringTags : \A n : NonZero(mem, x, n) => NonZero(mem', x, n),
         \A q : Harmless(mem, q) => Harmless(mem', q),
         \A u \in Threads : u # t /\ Busy(u) /\ thr[u].call.op = "write_string" /\ alone[u]
                               => StringSame(mem, mem', thr[u].call.tag),
         SThread(Steps(thr[t], b, area), mem', alone[t], whole[thr[t].call.tag])
  PROVE  SInv'
<1>1. DOMAIN thr' = Threads /\ thr'[t] = Steps(thr[t], b, area) /\ \A u \in Threads : u # t => thr'[u] = thr[u]
  BY DEF ExecStep
<1>2. Steps(thr[t], b, area).pc = thr[t].pc /\ Steps(thr[t], b, area).call = thr[t].call
  BY DEF Steps
<1>3. \A u \in Threads : thr'[u].pc = thr[u].pc /\ thr'[u].call = thr[u].call
  BY <1>1, <1>2
<1>4. DOMAIN whole' = StringTags /\ \A x \in StringTags : WholeAt(mem', x, whole'[x])
  BY DEF SInv
<1>5. \A k \in DOMAIN late' : Harmless(mem', late'[k])
  BY DEF SInv
<1>6. ASSUME NEW u \in Threads, Busy(u) PROVE SThread(thr'[u], mem', alone'[u], whole'[thr'[u].call.tag])
  <2>1. CASE u = t
    BY <1>1, <1>2, <2>1
  <2>2. CASE u # t
    <3>1. thr'[u] = thr[u] /\ SThread(thr[u], mem, alone[u], whole[thr[u].call.tag]) /\ thr[u].call \in Calls
      BY <1>1, <1>6, <2>2, BusyIs DEF SInv
    <3>2. CASE thr[u].call.op \in StringOps
      <4>1. thr[u].call.tag \in StringTags
        BY <3>1, <3>2, StringTagIs
      <4>2. PICK T, m, n, a, w : T = thr[u] /\ m = mem /\ n = mem' /\ a = alone[u] /\ w = whole[T.call.tag]
        OBVIOUS
      <4>3. /\ SThread(T, m, a, w) /\ \A k : NonZero(m, T.call.tag, k) => NonZero(n, T.call.tag, k)
            /\ T.call.op = "write_string" => w = None /\ (a => StringSame(m, n, T.call.tag))
        BY <1>6, <2>2, <3>1, <4>1, <4>2 DEF SThread
      <4>4. SThread(T, n, a, w)
        BY <4>3, KeepThread
      <4>5. QED
        BY <3>1, <4>2, <4>4
    <3>3. CASE thr[u].call.op \notin StringOps
      BY <3>1, <3>3 DEF SThread, StringOps
    <3>4. QED
      BY <3>2, <3>3
  <2>3. QED
    BY <2>1, <2>2
<1>7. \A u \in Threads : Busy(u)' <=> Busy(u)
  BY <1>3 DEF Busy
<1>8. \A u \in Threads : Busy(u)' => Undisturbed(u)'
  <2>1. \A u \in Threads : \A x : Writing(u, x)' => Writing(u, x)
    BY <1>3, <1>7 DEF Writing
  <2>2. \A u \in Threads : Busy(u) => Undisturbed(u)
    BY DEF SInv
  <2>3. QED
    BY <1>3, <1>7, <2>1, <2>2 DEF Undisturbed
<1>9. \A u \in Threads : StringOut(thr'[u])
  <2>1. \A u \in Threads : StringOut(thr[u])
    BY DEF SInv
  <2>2. ~Ended(thr'[t], "read_string")
    BY <1>3 DEF Ended, Busy
  <2>3. StringOut(thr'[t])
    BY <2>2 DEF StringOut
  <2>4. QED
    BY <1>1, <2>1, <2>3, Zenon
<1>10. QED
  BY <1>4, <1>5, <1>6, <1>7, <1>8, <1>9 DEF SInv

\* The request r has turned the memory m into n.
Stored(m, n, r) ==
    /\ r.tag \in DOMAIN Memory /\ MemOK(n) /\ Bytes(r) <= Len(n[r.tag])
    /\ \A x \in DOMAIN Memory : x # r.tag => n[x] = m[x]
    /\ \A j \in 1 .. Bytes(r) : n[r.tag][j] = r.data[j]
    /\ \A x \in StringTags : \A k : NonZero(m, x, k) => NonZero(n, x, k)
    /\ \A x \in StringTags : r.tag = LenOf(x) => LenNow(n, x) = PlcValue("DINT", r.data)

\* A thread that has written the next request of its batch.
LEMMA StringWritten ==
  ASSUME NEW T, NEW hs, Batch(T, hs), NEW m, NEW n, NEW a, NEW w, SThread(T, m, a, w),
         NEW i \in DOMAIN T.reqs, i = Len(T.res) + 1, T.reqs[i].act = "write", Stored(m, n, T.reqs[i])
  PROVE  SThread(Steps(T, 0, T.area), n, a, w)
<1>0. PICK r : r = T.reqs[i]
  OBVIOUS
<1>1. PICK U, c : U = Steps(T, 0, T.area) /\ c = T.call
  OBVIOUS
<1>2. /\ r.tag \in DOMAIN Memory /\ MemOK(n) /\ Bytes(r) <= Len(n[r.tag])
      /\ \A x \in DOMAIN Memory : x # r.tag => n[x] = m[x]
      /\ \A j \in 1 .. Bytes(r) : n[r.tag][j] = r.data[j]
      /\ \A x \in StringTags : \A k : NonZero(m, x, k) => NonZero(n, x, k)
      /\ \A x \in StringTags : r.tag = LenOf(x) => LenNow(n, x) = PlcValue("DINT", r.data)
  BY <1>0 DEF Stored
<1>3. U.call = c
  BY <1>1 DEF Steps
<1>4. CASE c.op = "read_string"
  <2>1. DOMAIN T.reqs = {1} /\ T.reqs[1].act = "read"
    BY <1>1, <1>4, StringRead
  <2>2. QED
    BY <2>1
<1>5. CASE c.op = "write_string"
  <2>1. /\ c \in Calls /\ c.tag \in StringTags /\ Len(c.str) <= MaxCount /\ Len(c.str) \in Nat
        /\ DOMAIN T.reqs = {1} /\ Len(T.reqs) = 1
        /\ \/ AtLen(T) /\ T.reqs[1] = LenReq(c)
           \/ ~AtLen(T) /\ T.reqs[1] = DataReq(c)
    BY <1>1, <1>5, StringWrite
  <2>2. Got(U) /\ (AtLen(U) <=> AtLen(T))
    <3>1. 0 \in {0, 1}
      OBVIOUS
    <3>2. QED
      BY <1>1, <2>1, <3>1, OneResult
  <2>3. r = T.reqs[1]
    BY <1>0, <2>1
  <2>4. WriteStr(T, m, a) /\ w = None
    BY <1>1, <1>5 DEF SThread
  <2>5. CASE AtLen(T) /\ r = LenReq(c)
    <3>1. r.tag = LenOf(c.tag) /\ PlcValue("DINT", r.data) = Len(c.str)
      BY <1>5, <2>1, <2>5, LenRequest DEF LenReq
    <3>2. LenNow(n, c.tag) = Len(c.str)
      BY <1>2, <2>1, <3>1
    <3>3. NonZero(n, c.tag, Len(c.str))
      BY <1>2, <1>1, <2>1, <2>4, <2>5 DEF WriteStr
    <3>4. DataOf(c.tag) # r.tag
      BY <2>1, <3>1, Members2
    <3>5. a => DataHolds(m, c.tag, c.str)
      BY <1>1, <2>4, <2>5 DEF WriteStr
    <3>6. a => DataHolds(n, c.tag, c.str)
      BY <1>2, <3>4, <3>5 DEF DataHolds
    <3>7. WriteStr(U, n, a)
      BY <1>3, <2>2, <2>5, <3>2, <3>3, <3>6 DEF WriteStr
    <3>8. QED
      BY <1>1, <1>3, <1>5, <2>4, <3>7 DEF SThread
  <2>6. CASE ~AtLen(T) /\ r = DataReq(c)
    <3>1. /\ r.tag = DataOf(c.tag) /\ Bytes(r) = Len(c.str)
          /\ \A j \in 1 .. Len(c.str) : r.data[j] # 0 /\ Char(r.data[j]) = c.str[j]
      BY <1>5, <2>1, <2>6, DataRequest DEF DataReq
    <3>2. Len(n[r.tag]) \in Nat
      BY <1>2 DEF MemOK, BytesOf, ByteSeq
    <3>3. \A j \in 1 .. Len(c.str) : j <= Len(n[r.tag]) /\ n[r.tag][j] = r.data[j]
      BY <1>2, <2>1, <3>1, <3>2
    <3>4. NonZero(n, c.tag, Len(c.str)) /\ DataHolds(n, c.tag, c.str)
      BY <1>2, <3>1, <3>3 DEF NonZero, DataHolds
    <3>5. WriteStr(U, n, a)
      BY <1>3, <2>2, <2>6, <3>4 DEF WriteStr
    <3>6. QED
      BY <1>1, <1>3, <1>5, <2>4, <3>5 DEF SThread
  <2>7. QED
    BY <2>1, <2>3, <2>5, <2>6
<1>6. CASE c.op \notin StringOps
  BY <1>1, <1>3, <1>6 DEF SThread, StringOps
<1>7. QED
  BY <1>4, <1>5, <1>6 DEF StringOps

\* A thread whose next request was refused.
LEMMA StringRefused ==
  ASSUME NEW T, NEW hs, Batch(T, hs), NEW m, NEW a, NEW w, SThread(T, m, a, w),
         NEW i \in DOMAIN T.reqs, i = Len(T.res) + 1
  PROVE  SThread(Steps(T, 1, T.area), m, a, w)
<1>1. PICK U, c : U = Steps(T, 1, T.area) /\ c = T.call
  OBVIOUS
<1>2. U.call = c
  BY <1>1 DEF Steps
<1>3. CASE c.op \in StringOps
  <2>1. Len(T.reqs) = 1
    BY <1>1, <1>3, StringRead, StringWrite DEF StringOps
  <2>2. ~Got(U) /\ (AtLen(U) <=> AtLen(T)) /\ U.len = T.len
    <3>1. 1 \in {0, 1} /\ 1 # 0
      OBVIOUS
    <3>2. QED
      BY <1>1, <2>1, <3>1, OneResult
  <2>3. CASE c.op = "read_string"
    <3>1. PICK s : s = (IF a THEN w ELSE None)
      OBVIOUS
    <3>2. ReadStr(T, m, s)
      BY <1>1, <2>3, <3>1 DEF SThread
    <3>3. ReadStr(U, m, s)
      BY <1>1, <1>2, <2>2, <3>2 DEF ReadStr
    <3>4. QED
      BY <1>1, <1>2, <2>3, <3>1, <3>3 DEF SThread
  <2>4. CASE c.op = "write_string"
    <3>1. WriteStr(T, m, a) /\ w = None
      BY <1>1, <2>4 DEF SThread
    <3>2. WriteStr(U, m, a)
      BY <1>1, <1>2, <2>2, <3>1 DEF WriteStr
    <3>3. QED
      BY <1>1, <1>2, <2>4, <3>1, <3>2 DEF SThread
  <2>5. QED
    BY <1>3, <2>3, <2>4 DEF StringOps
<1>4. CASE c.op \notin StringOps
  BY <1>1, <1>2, <1>4 DEF SThread, StringOps
<1>5. QED
  BY <1>3, <1>4

\* A thread that has read the next request of its batch.
LEMMA StringFetched ==
  ASSUME BInv, SInv, NEW t \in Threads, Busy(t), NEW i \in DOMAIN thr[t].reqs, i = Len(thr[t].res) + 1,
         thr[t].reqs[i].act = "read", Accepts(thr[t].reqs[i]), NEW area \in ByteSeq, Len(area) = Len(thr[t].area),
         AreaHas(thr[t].reqs, area, i, mem[thr[t].reqs[i].tag])
  PROVE  SThread(Steps(thr[t], 0, area), mem, alone[t], whole[thr[t].call.tag])
<1>1. PICK T, U, c, a, w : /\ T = thr[t] /\ U = Steps(T, 0, area) /\ c = T.call
                           /\ a = alone[t] /\ w = whole[c.tag]
  OBVIOUS
<1>2. U.call = c /\ Batch(T, held[t]) /\ SThread(T, mem, a, w)
  BY <1>1, BusyIs DEF Steps, SInv
<1>3. CASE c.op = "read_string"
  <2>1. /\ DOMAIN T.reqs = {1} /\ Len(T.reqs) = 1 /\ Len(T.area) = Bytes(T.reqs[1]) /\ Offsets(T.reqs)[0] = 0
        /\ \/ /\ AtLen(T) /\ T.reqs[1].type = "DINT" /\ Bytes(T.reqs[1]) = 4
              /\ T.reqs[1].tag = LenOf(c.tag)
           \/ /\ ~AtLen(T) /\ T.reqs[1].type = "SINT" /\ Bytes(T.reqs[1]) = ToRead(T)
              /\ T.reqs[1].tag = DataOf(c.tag)
              /\ T.len \in Nat /\ ToRead(T) \in Nat /\ ToRead(T) <= T.len
    BY <1>1, <1>2, <1>3, StringRead
  <2>2. i = 1
    BY <1>1, <2>1
  <2>3. Got(U) /\ (AtLen(U) <=> AtLen(T)) /\ U.len = T.len /\ U.area = area
    <3>1. 0 \in {0, 1}
      OBVIOUS
    <3>2. Len(T.res) + 1 \in DOMAIN T.reqs
      BY <1>1
    <3>3. QED
      BY SMTT(90), <1>1, <1>2, <2>1, <3>1, <3>2, OneResult
  <2>4. 1 - 1 = 0 /\ \A j \in 1 .. Bytes(T.reqs[1]) : 0 + j = j
    OBVIOUS
  <2>5. \A j \in 1 .. Bytes(T.reqs[1]) : area[j] = mem[T.reqs[1].tag][j]
    BY SMTT(90), <1>1, <2>1, <2>2, <2>4 DEF AreaHas
  <2>6. PICK s : s = (IF a THEN w ELSE None)
    OBVIOUS
  <2>7. ReadStr(T, mem, s)
    BY <1>1, <1>2, <1>3, <2>6 DEF SThread
  <2>8. ReadStr(U, mem, s)
    <3>1. CASE AtLen(T)
      <4>1. Len(area) = 4 /\ \A j \in 1 .. 4 : area[j] = mem[LenOf(c.tag)][j]
        BY <1>1, <2>1, <2>5, <3>1
      <4>2. /\ NonZero(mem, c.tag, PlcValue("DINT", area))
            /\ w # None => PlcValue("DINT", area) = Len(w)
        BY <1>1, <1>3, <2>2, <3>1, <4>1, LenIsRead
      <4>3. s # None => s = w
        BY <2>6
      <4>4. QED
        BY <1>2, <2>3, <3>1, <4>2, <4>3 DEF ReadStr
    <3>2. CASE ~AtLen(T)
      <4>1. Len(area) = ToRead(T) /\ \A j \in 1 .. Len(area) : area[j] = mem[DataOf(c.tag)][j]
        BY <1>1, <2>1, <2>5, <3>2
      <4>2. /\ \A j \in DOMAIN area : area[j] # 0
            /\ w # None /\ a => \A j \in DOMAIN area : Char(area[j]) = w[j]
        BY <1>1, <1>3, <3>2, <4>1, DataIsRead
      <4>3. s # None => s = w /\ a
        BY <2>6
      <4>4. NonZero(mem, c.tag, T.len) /\ (s # None => T.len = Len(s))
        BY <1>1, <2>7, <3>2 DEF ReadStr
      <4>5. QED
        BY <1>2, <2>3, <3>2, <4>2, <4>3, <4>4 DEF ReadStr
    <3>3. QED
      BY <3>1, <3>2
  <2>9. QED
    BY <1>1, <1>2, <1>3, <2>6, <2>8 DEF SThread
<1>4. CASE c.op = "write_string"
  <2>1. /\ c \in Calls /\ Len(c.str) <= MaxCount /\ DOMAIN T.reqs = {1}
        /\ (T.reqs[1] = LenReq(c) \/ T.reqs[1] = DataReq(c))
    BY <1>1, <1>2, <1>4, StringWrite
  <2>2. T.reqs[1].act = "write"
    BY <2>1 DEF LenReq, DataReq, WriteOf, Request
  <2>3. QED
    BY <1>1, <2>1, <2>2
<1>5. CASE c.op \notin StringOps
  BY <1>1, <1>2, <1>5 DEF SThread, StringOps
<1>6. QED
  BY <1>3, <1>4, <1>5 DEF StringOps

\* A write changes a string only when it is a write_string's.
LEMMA MemberSame ==
  ASSUME NEW tag, NEW x \in StringTags, NEW m, NEW n, \A y \in DOMAIN Memory : y # tag => n[y] = m[y],
         tag \notin {LenOf(x), DataOf(x)}
  PROVE  StringSame(m, n, x)
  BY DEF StringSame

\* Only a write_string of the string writes its LEN and DATA.
LEMMA WriterOf ==
  ASSUME NEW T, NEW hs, Batch(T, hs), NEW i \in DOMAIN T.reqs, T.reqs[i].act = "write", NEW x \in StringTags,
         T.reqs[i].tag \in {LenOf(x), DataOf(x)}
  PROVE  T.call.op = "write_string" /\ T.call.tag = x
<1>1. T.reqs[i].tag \in Members
  BY DEF Members
<1>2. T.call.op = "write_string" /\ i = 1
  BY <1>1, MemberWrite
<1>3. PICK c : c = T.call
  OBVIOUS
<1>4. c.tag \in StringTags /\ (T.reqs[1] = LenReq(c) \/ T.reqs[1] = DataReq(c))
  BY <1>2, <1>3, StringWrite
<1>5. T.reqs[1].tag \in {LenOf(c.tag), DataOf(c.tag)}
  BY <1>4 DEF LenReq, DataReq, WriteOf, Request
<1>6. QED
  BY <1>2, <1>3, <1>4, <1>5, Members2

\* The engine keeps the strings right.
LEMMA ExecS ==
  ASSUME BInv, SInv, NEW t \in Threads, Exec(t)
  PROVE  SInv'
<1>1. Busy(t) /\ UNCHANGED <<late, alone, whole, calls>>
  BY ExecIs
<1>2. PICK i : ExecWritesStep(t, i) \/ ExecReadsStep(t, i) \/ ExecRefusesStep(t, i)
  BY ExecIs
<1>3. PICK T, hs, r, a, w : T = thr[t] /\ hs = held[t] /\ r = T.reqs[i] /\ a = alone[t] /\ w = whole[T.call.tag]
  OBVIOUS
<1>4. Batch(T, hs) /\ IsThread(T) /\ T.pc = "engine" /\ SThread(T, mem, a, w) /\ Seen(mem, hs)
  BY <1>1, <1>3, BusyIs DEF Busy, SInv
<1>5. i \in DOMAIN T.reqs /\ i = Len(T.res) + 1
  BY <1>2, <1>3 DEF ExecWritesStep, ExecReadsStep, ExecRefusesStep, ExecStep
<1>6. IsRequest(r)
  BY <1>3, <1>4, <1>5 DEF Batch, IsBatch
<1>7. /\ StringsOK(mem) /\ \A x \in StringTags : WholeAt(mem, x, whole[x])
      /\ \A u \in Threads : Busy(u) => Undisturbed(u)
  BY DEF SInv
<1>8. ASSUME UNCHANGED mem, NEW b, NEW area, ExecStep(t, i, b, area), SThread(Steps(T, b, area), mem, a, w)
      PROVE  SInv'
  <2>1. /\ StringsOK(mem') /\ \A x \in StringTags : WholeAt(mem', x, whole[x])
        /\ \A x \in StringTags : \A n : NonZero(mem, x, n) => NonZero(mem', x, n)
        /\ \A q : Harmless(mem, q) => Harmless(mem', q)
        /\ \A x : StringSame(mem, mem', x)
    BY <1>7, <1>8 DEF StringSame
  <2>2. QED
    BY <1>1, <1>3, <1>8, <2>1, StepS
<1>9. CASE ExecWritesStep(t, i)
  <2>1. PICK data : data = SubSeq(T.area, Offsets(T.reqs)[i - 1] + 1, Offsets(T.reqs)[i])
    OBVIOUS
  <2>2. /\ data \in ByteSeq /\ Len(data) = Bytes(r)
        /\ \A j \in 1 .. Bytes(r) : data[j] = T.area[Offsets(T.reqs)[i - 1] + j]
    <3>1. /\ SubSeq(T.area, Offsets(T.reqs)[i - 1] + 1, Offsets(T.reqs)[i]) \in ByteSeq
          /\ Len(SubSeq(T.area, Offsets(T.reqs)[i - 1] + 1, Offsets(T.reqs)[i])) = Bytes(T.reqs[i])
          /\ \A j \in 1 .. Bytes(T.reqs[i]) :
                SubSeq(T.area, Offsets(T.reqs)[i - 1] + 1, Offsets(T.reqs)[i])[j] = T.area[Offsets(T.reqs)[i - 1] + j]
      BY <1>4, <1>5, AreaPart
    <3>2. QED
      BY <1>3, <2>1, <3>1
  <2>3. Accepts(r) /\ r.act = "write" /\ Store(r, data) /\ ExecStep(t, i, 0, T.area)
    BY <1>3, <1>9, <2>1 DEF ExecWritesStep
  <2>4. AreaHas(T.reqs, T.area, i, r.data)
    BY <1>3, <1>4, <1>5, <2>3 DEF Batch
  <2>5. \A j \in 1 .. Bytes(r) : data[j] = r.data[j]
    BY <1>3, <2>2, <2>4 DEF AreaHas
  <2>6. /\ r.tag \in DOMAIN Memory /\ MemOK(mem') /\ \A x \in DOMAIN Memory : x # r.tag => mem'[x] = mem[x]
        /\ \A j \in 1 .. Bytes(r) : mem'[r.tag][j] = data[j]
        /\ \A j \in 1 .. Len(mem[r.tag]) : j > Bytes(r) => mem'[r.tag][j] = mem[r.tag][j]
    BY <1>6, <2>2, <2>3, StoreMem
  <2>7. \A j \in 1 .. Bytes(r) : mem'[r.tag][j] = r.data[j]
    BY <2>5, <2>6
  <2>8. Bytes(r) <= Len(mem'[r.tag])
    BY <1>6, <2>2, <2>3, StoreIs
  <2>9. Harmless(mem, r)
    BY <1>3, <1>4, <1>5, ReqHarmless
  <2>10. /\ StringsOK(mem')
         /\ \A x \in StringTags : \A n : NonZero(mem, x, n) => NonZero(mem', x, n)
         /\ \A q : Harmless(mem, q) => Harmless(mem', q)
         /\ \A x \in StringTags : r.tag = LenOf(x) => LenNow(mem', x) = PlcValue("DINT", r.data)
    BY <1>6, <1>7, <2>3, <2>6, <2>7, <2>9, StoreStrings
  <2>11. \A x \in StringTags : r.tag \in {LenOf(x), DataOf(x)} => Writing(t, x) /\ whole[x] = None
    <3>1. TAKE x \in StringTags
    <3>2. HAVE r.tag \in {LenOf(x), DataOf(x)}
    <3>3. T.call.op = "write_string" /\ T.call.tag = x
      BY <1>3, <1>4, <1>5, <2>3, <3>2, WriterOf
    <3>4. w = None
      BY <1>4, <3>3 DEF SThread
    <3>5. QED
      BY <1>1, <1>3, <3>3, <3>4 DEF Writing
  <2>12. \A x \in StringTags : WholeAt(mem', x, whole[x])
    <3>1. TAKE x \in StringTags
    <3>2. CASE r.tag \in {LenOf(x), DataOf(x)}
      BY <2>11, <3>2 DEF WholeAt
    <3>3. CASE r.tag \notin {LenOf(x), DataOf(x)}
      <4>1. StringSame(mem, mem', x)
        BY <2>6, <3>3, MemberSame
      <4>2. QED
        BY <1>7, <4>1, SameString
    <3>4. QED
      BY <3>2, <3>3
  <2>13. \A u \in Threads : u # t /\ Busy(u) /\ thr[u].call.op = "write_string" /\ alone[u]
                               => StringSame(mem, mem', thr[u].call.tag)
    <3>1. TAKE u \in Threads
    <3>2. HAVE u # t /\ Busy(u) /\ thr[u].call.op = "write_string" /\ alone[u]
    <3>3. PICK x \in StringTags : x = thr[u].call.tag
      BY <3>2, BusyIs, StringTagIs DEF StringOps
    <3>4. ~Writing(t, x)
      BY <1>7, <3>2, <3>3 DEF Undisturbed, StringOps
    <3>5. r.tag \notin {LenOf(x), DataOf(x)}
      BY <2>11, <3>4
    <3>6. StringSame(mem, mem', x)
      BY <2>6, <3>5, MemberSame
    <3>7. QED
      BY <3>3, <3>6
  <2>14. SThread(Steps(T, 0, T.area), mem', a, w)
    <3>1. PICK m, n : m = mem /\ n = mem'
      OBVIOUS
    <3>2. Stored(m, n, r)
      BY <2>6, <2>7, <2>8, <2>10, <3>1 DEF Stored
    <3>3. T.reqs[i].act = "write" /\ Stored(m, n, T.reqs[i]) /\ SThread(T, m, a, w)
      BY <1>3, <1>4, <2>3, <3>1, <3>2
    <3>4. SThread(Steps(T, 0, T.area), n, a, w)
      BY <1>4, <1>5, <3>3, StringWritten
    <3>5. QED
      BY <3>1, <3>4
  <2>15. QED
    BY <1>1, <1>3, <2>3, <2>10, <2>12, <2>13, <2>14, StepS
<1>10. CASE ExecReadsStep(t, i)
  <2>1. PICK area, h : area = ReadArea(t, i) /\ h = mem[r.tag]
    OBVIOUS
  <2>2. Accepts(r) /\ r.act = "read" /\ ExecStep(t, i, 0, area) /\ UNCHANGED mem
    BY <1>3, <1>10, <2>1 DEF ExecReadsStep
  <2>3. /\ r.tag \in DOMAIN Memory /\ r.type = Memory[r.tag].type /\ r.size = Width[r.type]
        /\ h \in ByteSeq /\ Bytes(r) <= Len(h)
    BY <2>1, <2>2, AcceptsIs
  <2>4. h \in hs[r.tag]
    BY <1>4, <2>1, <2>3 DEF Seen
  <2>5. Fetched(T, i, h, area)
    BY <1>3, <2>1 DEF ReadArea, Fetched
  <2>6. area \in ByteSeq /\ Len(area) = Len(T.area) /\ AreaHas(T.reqs, area, i, h)
    <3>1. /\ T.reqs[i].act = "read" /\ T.reqs[i].tag \in DOMAIN Memory
          /\ T.reqs[i].type = Memory[T.reqs[i].tag].type /\ T.reqs[i].size = Width[T.reqs[i].type]
          /\ h \in hs[T.reqs[i].tag] /\ h \in ByteSeq /\ Bytes(T.reqs[i]) <= Len(h)
      BY <1>3, <2>2, <2>3, <2>4
    <3>2. /\ ThreadOK(Steps(T, 0, area), hs) /\ area \in ByteSeq /\ Len(area) = Len(T.area)
          /\ AreaHas(T.reqs, area, i, h)
      BY ONLY <1>4, <1>5, <2>5, <3>1, ExecReads
    <3>3. QED
      BY <3>2
  <2>7. SThread(Steps(T, 0, area), mem, a, w)
    BY <1>1, <1>3, <1>5, <2>1, <2>2, <2>6, StringFetched
  <2>8. QED
    BY <1>8, <2>2, <2>7
<1>11. CASE ExecRefusesStep(t, i)
  <2>1. ExecStep(t, i, 1, T.area) /\ UNCHANGED mem
    BY <1>3, <1>11 DEF ExecRefusesStep
  <2>2. SThread(Steps(T, 1, T.area), mem, a, w)
    BY <1>4, <1>5, StringRefused
  <2>3. QED
    BY <1>8, <2>1, <2>2
<1>12. QED
  BY <1>2, <1>9, <1>10, <1>11

\* Late executions keep the strings right.
LEMMA LateS ==
  ASSUME BInv, SInv, Late
  PROVE  SInv'
<1>1. late # <<>> /\ late' = Tail(late) /\ thr' = thr
  BY DEF Late
<1>2. IsBatch(late) /\ \A i \in DOMAIN late : Harmless(mem, late[i])
  BY DEF BInv, SInv
<1>3. PICK r : r = Head(late)
  OBVIOUS
<1>4. /\ IsRequest(r) /\ Harmless(mem, r)
      /\ \A i \in DOMAIN late' : Harmless(mem, late'[i])
  <2>1. PICK S : S = Elems(late) /\ late \in Seq(S)
    BY <1>2 DEF IsBatch
  <2>2. /\ DOMAIN Tail(late) = 1 .. Len(late) - 1
        /\ \A i \in 1 .. Len(late) - 1 : Tail(late)[i] = late[i + 1] /\ i + 1 \in DOMAIN late
    BY <1>1, <2>1
  <2>3. r = late[1] /\ 1 \in DOMAIN late
    BY <1>1, <1>3, <2>1
  <2>4. QED
    BY <1>1, <1>2, <2>2, <2>3 DEF IsBatch
<1>5. \A u \in Threads : (Busy(u)' <=> Busy(u)) /\ StringOut(thr'[u])
  BY <1>1 DEF Busy, SInv
<1>6. CASE UNCHANGED <<mem, held, alone, whole>>
  <2>1. \A u \in Threads : Undisturbed(u) => Undisturbed(u)'
    BY <1>1, <1>6 DEF Undisturbed, Writing, Busy
  <2>2. QED
    BY <1>1, <1>4, <1>5, <1>6, <2>1 DEF SInv
<1>7. CASE /\ Accepts(Head(late)) /\ Head(late).act = "write" /\ Store(Head(late), Head(late).data)
           /\ alone' = [t \in Threads |-> FALSE] /\ whole' = [x \in StringTags |-> None]
  <2>1. r.data \in ByteSeq /\ Len(r.data) = Bytes(r) /\ Accepts(r) /\ r.act = "write" /\ Store(r, r.data)
    BY <1>3, <1>4, <1>7 DEF IsRequest, ByteSeq
  <2>2. /\ MemOK(mem') /\ \A x \in DOMAIN Memory : x # r.tag => mem'[x] = mem[x]
        /\ \A j \in 1 .. Bytes(r) : mem'[r.tag][j] = r.data[j]
        /\ \A j \in 1 .. Len(mem[r.tag]) : j > Bytes(r) => mem'[r.tag][j] = mem[r.tag][j]
    BY <1>4, <2>1, StoreMem
  <2>3. /\ StringsOK(mem')
        /\ \A x \in StringTags : \A n : NonZero(mem, x, n) => NonZero(mem', x, n)
        /\ \A q : Harmless(mem, q) => Harmless(mem', q)
    BY <1>4, <2>1, <2>2, StoreStrings DEF SInv
  <2>4. DOMAIN whole' = StringTags /\ \A x \in StringTags : whole'[x] = None /\ WholeAt(mem', x, whole'[x])
    BY <1>7 DEF WholeAt
  <2>5. \A u \in Threads : ~alone'[u] /\ Undisturbed(u)'
    BY <1>7 DEF Undisturbed
  <2>6. ASSUME NEW u \in Threads, Busy(u) PROVE SThread(thr'[u], mem', alone'[u], whole'[thr'[u].call.tag])
    <3>1. PICK T, m, n, a, w : T = thr[u] /\ m = mem /\ n = mem' /\ a = alone[u] /\ w = whole[T.call.tag]
      OBVIOUS
    <3>2. SThread(T, m, a, w) /\ T.call \in Calls
      BY <2>6, <3>1, BusyIs DEF SInv
    <3>3. CASE T.call.op \in StringOps
      <4>1. T.call.tag \in StringTags
        BY <3>2, <3>3, StringTagIs
      <4>2. \A k : NonZero(m, T.call.tag, k) => NonZero(n, T.call.tag, k)
        BY <2>3, <3>1, <4>1
      <4>3. PICK b, v : b = alone'[u] /\ v = whole'[T.call.tag]
        OBVIOUS
      <4>4. ~b /\ v = None
        BY <2>4, <2>5, <4>1, <4>3
      <4>5. SThread(T, n, b, v)
        BY <3>2, <4>2, <4>4, KeepThread
      <4>6. QED
        BY <1>1, <3>1, <4>3, <4>5
    <3>4. CASE T.call.op \notin StringOps
      BY <1>1, <3>1, <3>4 DEF SThread, StringOps
    <3>5. QED
      BY <3>3, <3>4
  <2>7. \A i \in DOMAIN late' : Harmless(mem', late'[i])
    BY <1>4, <2>3
  <2>8. QED
    BY <1>5, <2>3, <2>4, <2>5, <2>6, <2>7 DEF SInv
<1>8. QED
  BY <1>6, <1>7 DEF Late

-----------------------------------------------------------------------------
(* Strings while threads change *)

\* What a thread is after Send: it has failed, or its batch is at the engine.
Sent(T, c, reqs, len) ==
    /\ T.call = c
    /\ \/ T.pc = "idle" /\ T.out.rc # "OK"
       \/ T.pc = "engine" /\ T.reqs = reqs /\ T.res = <<>> /\ T.len = len

\* Send does that.
LEMMA SendIs ==
  ASSUME NEW t, NEW c, NEW reqs, NEW form, NEW len, Send(t, c, reqs, form, len)
  PROVE  \E T : Becomes(t, T) /\ Sent(T, c, reqs, len)
<1>1. CASE AccessRc(reqs, form) # "OK"
  <2>1. PICK T : T = EndOf(c, AccessRc(reqs, form), None, None)
    OBVIOUS
  <2>2. T.pc = "idle" /\ T.call = c /\ T.out.rc = AccessRc(reqs, form)
    BY <2>1, EndOfIs
  <2>3. Becomes(t, T)
    BY <1>1, <2>1 DEF Send, Fails, Returns, EndOf
  <2>4. QED
    BY <1>1, <2>2, <2>3 DEF Sent
<1>2. CASE AccessRc(reqs, form) = "OK"
  <2>1. PICK T : T = SentBy(c, reqs, form, len)
    OBVIOUS
  <2>2. T.pc = "engine" /\ T.call = c /\ T.reqs = reqs /\ T.res = <<>> /\ T.len = len
    BY <2>1, SentByIs
  <2>3. Becomes(t, T)
    BY <1>2, <2>1 DEF Send, SentBy
  <2>4. QED
    BY <2>2, <2>3 DEF Sent
<1>3. QED
  BY <1>1, <1>2

\* What a thread is after Returns.
LEMMA ReturnsIs ==
  ASSUME NEW t, NEW c, NEW rc, NEW val, NEW str, Returns(t, c, rc, val, str)
  PROVE  \E T : /\ Becomes(t, T) /\ T.pc = "idle" /\ T.call = c
                /\ T.out.rc = rc /\ T.out.val = val /\ T.out.str = str
<1>1. PICK T : T = EndOf(c, rc, val, str)
  OBVIOUS
<1>2. T.pc = "idle" /\ T.call = c /\ T.out.rc = rc /\ T.out.val = val /\ T.out.str = str
  BY <1>1, EndOfIs
<1>3. Becomes(t, T)
  BY <1>1 DEF Returns, EndOf
<1>4. QED
  BY <1>2, <1>3

\* One thread changes, the memory does not.
LEMMA BecomesS ==
  ASSUME BInv, SInv, NEW t \in Threads, NEW T, Becomes(t, T), UNCHANGED mem, DOMAIN whole' = StringTags,
         \A x \in StringTags : WholeAt(mem, x, whole'[x]),
         \A i \in DOMAIN late' : Harmless(mem, late'[i]),
         \A u \in Threads : u # t /\ Busy(u) /\ thr[u].call.op \in StringOps =>
             /\ alone'[u] => alone[u]
             /\ thr[u].call.op = "read_string" /\ alone'[u] => whole'[thr[u].call.tag] = whole[thr[u].call.tag]
             /\ thr[u].call.op = "write_string" => whole'[thr[u].call.tag] = None,
         T.pc = "engine" => SThread(T, mem, alone'[t], whole'[T.call.tag]),
         \A u \in Threads : Busy(u)' => Undisturbed(u)',
         StringOut(T)
  PROVE  SInv'
<1>1. DOMAIN thr' = Threads /\ thr'[t] = T
  BY DEF Becomes
<1>2. \A u \in Threads : u # t => thr'[u] = IF Busy(u) THEN thr[u] ELSE Idle
  BY DEF Becomes
<1>3. Idle.pc = "idle" /\ Idle.call = None
  BY DEF Idle
<1>4. ASSUME NEW u \in Threads, thr'[u].pc = "engine"
      PROVE  SThread(thr'[u], mem', alone'[u], whole'[thr'[u].call.tag])
  <2>1. CASE u = t
    BY <1>1, <1>4, <2>1
  <2>2. CASE u # t
    <3>1. Busy(u) /\ thr'[u] = thr[u]
      BY <1>2, <1>3, <1>4, <2>2
    <3>2. PICK U, a, w, b, v : /\ U = thr[u] /\ a = alone[u] /\ w = whole[U.call.tag]
                               /\ b = alone'[u] /\ v = whole'[U.call.tag]
      OBVIOUS
    <3>3. SThread(U, mem, a, w) /\ a \in BOOLEAN
      BY <3>1, <3>2 DEF SInv, BInv
    <3>4. CASE U.call.op \in StringOps
      <4>1. /\ b => a
            /\ U.call.op = "read_string" /\ b => v = w
            /\ U.call.op = "write_string" => v = None
        BY <2>2, <3>1, <3>2, <3>4
      <4>2. StringSame(mem, mem, U.call.tag)
        BY DEF StringSame
      <4>3. PICK m : m = mem
        OBVIOUS
      <4>4. SThread(U, m, b, v)
        BY <3>3, <4>1, <4>2, <4>3, KeepThread
      <4>5. QED
        BY <3>1, <3>2, <4>3, <4>4
    <3>5. CASE U.call.op \notin StringOps
      BY <3>1, <3>2, <3>5 DEF SThread, StringOps
    <3>6. QED
      BY <3>4, <3>5
  <2>3. QED
    BY <2>1, <2>2
<1>5. ASSUME NEW u \in Threads PROVE StringOut(thr'[u])
  <2>1. CASE u = t
    BY <1>1, <2>1
  <2>2. CASE u # t /\ Busy(u)
    BY <1>2, <2>2 DEF SInv
  <2>3. CASE u # t /\ ~Busy(u)
    <3>1. thr'[u].call = None
      BY <1>2, <1>3, <2>3
    <3>2. QED
      BY <3>1 DEF StringOut, Ended
  <2>4. QED
    BY <2>1, <2>2, <2>3
<1>6. StringsOK(mem')
  BY DEF SInv
<1>7. QED
  BY <1>4, <1>5, <1>6 DEF SInv, Busy

\* A thread that answers or gives up disturbs nobody.
LEMMA QuietIs ==
  ASSUME SInv, NEW t \in Threads, NEW T, Becomes(t, T), Busy(t), T.call = thr[t].call, UNCHANGED alone,
         NEW u \in Threads, Busy(u)'
  PROVE  Undisturbed(u)'
<1>1. thr'[t] = T /\ \A v \in Threads : v # t => thr'[v] = IF Busy(v) THEN thr[v] ELSE Idle
  BY DEF Becomes
<1>2. Idle.pc = "idle"
  BY DEF Idle
<1>3. \A v \in Threads : Busy(v)' => Busy(v) /\ thr'[v].call = thr[v].call
  BY <1>1, <1>2 DEF Busy
<1>4. \A v \in Threads : \A x : Writing(v, x)' => Writing(v, x)
  BY <1>3 DEF Writing
<1>5. Undisturbed(u)
  BY <1>3 DEF SInv
<1>6. QED
  BY <1>3, <1>4, <1>5 DEF Undisturbed

\* Answers that leave whole alone.
LEMMA QuietS ==
  ASSUME BInv, SInv, NEW t \in Threads, NEW T, Becomes(t, T), Busy(t), T.call = thr[t].call,
         UNCHANGED <<mem, alone, whole>>, \A i \in DOMAIN late' : Harmless(mem, late'[i]),
         T.pc = "engine" => SThread(T, mem, alone[t], whole[T.call.tag]), StringOut(T)
  PROVE  SInv'
<1>1. \A u \in Threads : Busy(u)' => Undisturbed(u)'
  BY QuietIs
<1>2. DOMAIN whole' = StringTags /\ \A x \in StringTags : WholeAt(mem, x, whole'[x])
  BY DEF SInv
<1>3. \A u \in Threads : Busy(u) /\ thr[u].call.op = "write_string" => whole'[thr[u].call.tag] = None
  BY DEF SInv, SThread
<1>4. QED
  BY <1>1, <1>2, <1>3, BecomesS

\* What an abandoned batch leaves behind is harmless.
LEMMA LostS ==
  ASSUME BInv, SInv, NEW t \in Threads, Lost(t)
  PROVE  SInv'
<1>1. /\ Busy(t) /\ UNCHANGED <<mem, alone, whole>>
      /\ late' = late \o SubSeq(thr[t].reqs, Len(thr[t].res) + 1, Len(thr[t].reqs))
      /\ Returns(t, thr[t].call, "RECV_ANSWER", None, None)
  BY DEF Lost, Fails
<1>2. PICK T : Becomes(t, T) /\ T.pc = "idle" /\ T.call = thr[t].call /\ T.out.rc = "RECV_ANSWER"
  BY <1>1, ReturnsIs
<1>3. StringOut(T)
  BY <1>2 DEF StringOut
<1>4. PICK s, m : s = thr[t].reqs /\ m = Len(thr[t].res)
  OBVIOUS
<1>5. IsBatch(s) /\ m \in Nat /\ m <= Len(s) /\ Batch(thr[t], held[t])
  BY <1>1, <1>4, BusyIs DEF Batch
<1>6. IsBatch(late) /\ \A i \in DOMAIN late : Harmless(mem, late[i])
  BY DEF BInv, SInv
<1>7. \A i \in DOMAIN s : Harmless(mem, s[i])
  <2>1. PICK U, a, w : U = thr[t] /\ a = alone[t] /\ w = whole[U.call.tag]
    OBVIOUS
  <2>2. SThread(U, mem, a, w) /\ Batch(U, held[t])
    BY <1>1, <1>5, <2>1 DEF SInv
  <2>3. \A i \in DOMAIN U.reqs : Harmless(mem, U.reqs[i])
    BY <2>2, ReqHarmless
  <2>4. QED
    BY <1>4, <2>1, <2>3
<1>8. PICK l : l = late \o SubSeq(s, m + 1, Len(s))
  OBVIOUS
<1>9. \A i \in DOMAIN l : (\E j \in DOMAIN late : l[i] = late[j]) \/ (\E j \in DOMAIN s : l[i] = s[j])
  <2>1. From(late \o SubSeq(s, m + 1, Len(s)), late, s)
    BY <1>5, <1>6, LateIs
  <2>2. QED
    BY <1>8, <2>1 DEF From
<1>10. \A i \in DOMAIN late' : Harmless(mem, late'[i])
  BY <1>1, <1>4, <1>6, <1>7, <1>8, <1>9
<1>11. T.pc # "engine"
  BY <1>2
<1>12. QED
  BY <1>1, <1>2, <1>3, <1>10, <1>11, QuietS

-----------------------------------------------------------------------------
(* Strings when calls start *)

\* What Begin does to the threads at work.
LEMMA BeginAlone ==
  ASSUME NEW t \in Threads, NEW c, NEW op, Begin(t, c, op)
  PROVE  /\ c.op = op /\ ~Busy(t) /\ UNCHANGED <<mem, late>>
         /\ \A u \in Threads : u # t /\ Busy(u) => (alone'[u] => alone[u])
         /\ \A u \in Threads : u # t /\ Busy(u) /\ StringTag(thr[u].call) = StringTag(c) =>
               /\ alone'[u] => op # "write_string"
               /\ alone'[t] => op = "read_string" /\ thr[u].call.op = op
<1>1. c.op = op /\ ~Busy(t) /\ UNCHANGED <<mem, late>>
  BY DEF Begin
<1> DEFINE others == {u \in Threads \ {t} : Busy(u) /\ StringTag(thr[u].call) = StringTag(c)}
<1>2. alone' = [u \in Threads |->
           CASE u = t -> \A v \in others : op = "read_string" /\ thr[v].call.op = op
             [] u \in others -> alone[u] /\ op # "write_string"
             [] OTHER -> Busy(u) /\ alone[u]]
  BY DEF Begin
<1>3. \A u \in Threads : u \in others <=> u # t /\ Busy(u) /\ StringTag(thr[u].call) = StringTag(c)
  OBVIOUS
<1>4. t \notin others
  OBVIOUS
<1> HIDE DEF others
<1>5. alone'[t] => \A v \in others : op = "read_string" /\ thr[v].call.op = op
  <2>1. alone'[t] = CASE t = t -> (\A v \in others : op = "read_string" /\ thr[v].call.op = op)
                      [] t \in others -> alone[t] /\ op # "write_string"
                      [] OTHER -> Busy(t) /\ alone[t]
    BY <1>2, Zenon
  <2>2. alone'[t] = (\A v \in others : op = "read_string" /\ thr[v].call.op = op)
    BY <1>4, <2>1
  <2>3. QED
    BY <2>2
<1>6. \A u \in Threads : u \in others /\ alone'[u] => alone[u] /\ op # "write_string"
  BY <1>2, <1>4
<1>7. \A u \in Threads : u \notin others /\ u # t /\ alone'[u] => alone[u]
  BY <1>2
<1>8. QED
  BY <1>1, <1>3, <1>5, <1>6, <1>7

\* Calls of the same string have the same string tag.
LEMMA SameTag ==
  ASSUME NEW c, NEW d, c.op \in StringOps, d.op \in StringOps, c.tag = d.tag
  PROVE  StringTag(c) = StringTag(d)
  BY DEF StringTag

\* A thread that starts is undisturbed, and those that are alone stay so.
LEMMA StartDisturbs ==
  ASSUME SInv, NEW t \in Threads, NEW c, NEW op, Begin(t, c, op), NEW T, Becomes(t, T), T.call = c,
         NEW u \in Threads, Busy(u)'
  PROVE  Undisturbed(u)'
<1>1. thr'[t] = T /\ \A v \in Threads : v # t => thr'[v] = IF Busy(v) THEN thr[v] ELSE Idle
  BY DEF Becomes
<1>2. Idle.pc = "idle"
  BY DEF Idle
<1>3. \A v \in Threads : v # t /\ Busy(v)' => Busy(v) /\ thr'[v] = thr[v]
  BY <1>1, <1>2 DEF Busy
<1>4. /\ c.op = op
      /\ \A v \in Threads : v # t /\ Busy(v) => (alone'[v] => alone[v])
      /\ \A v \in Threads : v # t /\ Busy(v) /\ StringTag(thr[v].call) = StringTag(c) =>
            /\ alone'[v] => op # "write_string"
            /\ alone'[t] => op = "read_string" /\ thr[v].call.op = op
  BY BeginAlone
<1>5. SUFFICES ASSUME thr'[u].call.op \in StringOps, alone'[u], NEW v \in Threads, v # u,
                      Writing(v, thr[u].call.tag)'
               PROVE  FALSE
  BY DEF Undisturbed
<1>6. Busy(v)' /\ thr'[v].call.op = "write_string" /\ thr'[v].call.tag = thr'[u].call.tag
  BY <1>5 DEF Writing
<1>7. thr'[v].call.op \in StringOps
  BY <1>6 DEF StringOps
<1>8. StringTag(thr'[v].call) = StringTag(thr'[u].call)
  BY <1>5, <1>6, <1>7, SameTag
<1>9. CASE u = t
  <2>1. Busy(v) /\ thr'[v] = thr[v] /\ v # t
    BY <1>3, <1>5, <1>6, <1>9
  <2>2. StringTag(thr[v].call) = StringTag(c)
    BY <1>1, <1>8, <1>9, <2>1
  <2>3. op = "read_string" /\ thr[v].call.op = op
    BY <1>4, <1>5, <1>9, <2>1, <2>2
  <2>4. QED
    BY <1>6, <2>1, <2>3
<1>10. CASE u # t /\ v = t
  <2>1. Busy(u) /\ thr'[u] = thr[u]
    BY <1>3, <1>10
  <2>2. StringTag(thr[u].call) = StringTag(c)
    BY <1>1, <1>8, <1>10, <2>1
  <2>3. op # "write_string"
    BY <1>4, <1>5, <1>10, <2>1, <2>2
  <2>4. QED
    BY <1>1, <1>4, <1>6, <1>10, <2>3
<1>11. CASE u # t /\ v # t
  <2>1. Busy(u) /\ thr'[u] = thr[u] /\ Busy(v) /\ thr'[v] = thr[v] /\ alone[u]
    BY <1>3, <1>4, <1>5, <1>6, <1>11
  <2>2. Undisturbed(u)
    BY <2>1 DEF SInv
  <2>3. ~Writing(v, thr[u].call.tag)
    BY <1>5, <2>1, <2>2 DEF Undisturbed
  <2>4. QED
    BY <1>6, <2>1, <2>3 DEF Writing
<1>12. QED
  BY <1>9, <1>10, <1>11

\* A thread whose call has just begun.
Fresh(T, c) ==
    /\ T.call = c /\ StringOut(T)
    /\ T.pc = "engine" /\ c.op \in StringOps => T.res = <<>>
    /\ T.pc = "engine" /\ c.op = "read_string" => AtLen(T)
    /\ T.pc = "engine" /\ c.op = "write_string" /\ AtLen(T) => c.str = <<>>

\* A fresh thread is right about its string.
LEMMA FreshThread ==
  ASSUME NEW T, NEW c, Fresh(T, c), T.pc = "engine", NEW m, NEW a, NEW w, c.op = "write_string" => w = None
  PROVE  SThread(T, m, a, w)
<1>1. T.call = c
  BY DEF Fresh
<1>2. CASE c.op \in StringOps
  <2>1. ~Got(T)
    <3>1. T.res = <<>>
      BY <1>2 DEF Fresh
    <3>2. Len(<<>>) # Len(<<0>>)
      OBVIOUS
    <3>3. QED
      BY <3>1, <3>2 DEF Got
  <2>2. CASE c.op = "read_string"
    <3>1. AtLen(T)
      BY <2>2 DEF Fresh
    <3>2. QED
      BY <1>1, <2>1, <2>2, <3>1 DEF SThread, ReadStr
  <2>3. CASE c.op = "write_string"
    <3>1. AtLen(T) => c.str = <<>>
      BY <2>3 DEF Fresh
    <3>2. Len(<<>>) = 0 /\ \A j : j \notin 1 .. 0
      OBVIOUS
    <3>3. NonZero(m, c.tag, Len(<<>>)) /\ DataHolds(m, c.tag, <<>>)
      BY <3>2 DEF NonZero, DataHolds
    <3>4. WriteStr(T, m, a)
      BY <1>1, <2>1, <3>1, <3>3 DEF WriteStr
    <3>5. QED
      BY <1>1, <2>3, <3>4 DEF SThread
  <2>4. QED
    BY <1>2, <2>2, <2>3 DEF StringOps
<1>3. CASE c.op \notin StringOps
  BY <1>1, <1>3 DEF SThread, StringOps
<1>4. QED
  BY <1>2, <1>3

\* What Send, Returns and Fails make of a thread, for the strings.
LEMMA OtherFresh ==
  ASSUME NEW T, NEW c, T.call = c, c.op \notin StringOps
  PROVE  Fresh(T, c)
  BY DEF Fresh, StringOut, Ended, StringOps

\* A call that fails at once is fresh.
LEMMA FailFresh ==
  ASSUME NEW t, NEW c, NEW rc, rc # "OK", Fails(t, c, rc)
  PROVE  \E T : Becomes(t, T) /\ Fresh(T, c)
<1>1. PICK T : Becomes(t, T) /\ T.pc = "idle" /\ T.call = c /\ T.out.rc = rc
  BY ReturnsIs DEF Fails
<1>2. StringOut(T)
  BY <1>1 DEF StringOut
<1>3. QED
  BY <1>1, <1>2 DEF Fresh

\* A thread after Send has no string to answer for.
LEMMA SentOut ==
  ASSUME NEW T, NEW c, NEW reqs, NEW len, Sent(T, c, reqs, len)
  PROVE  StringOut(T)
  BY DEF Sent, StringOut, Ended

\* Calls of other operations are fresh after Send,
LEMMA OtherSend ==
  ASSUME NEW t, NEW c, c.op \notin StringOps, NEW reqs, NEW form, NEW len, Send(t, c, reqs, form, len)
  PROVE  \E T : Becomes(t, T) /\ Fresh(T, c)
<1>1. PICK T : Becomes(t, T) /\ Sent(T, c, reqs, len)
  BY SendIs
<1>2. QED
  BY <1>1, OtherFresh DEF Sent

\* and after Returns.
LEMMA OtherReturns ==
  ASSUME NEW t, NEW c, c.op \notin StringOps, NEW rc, NEW val, NEW str, Returns(t, c, rc, val, str)
  PROVE  \E T : Becomes(t, T) /\ T.call = c /\ T.pc = "idle" /\ Fresh(T, c)
<1>1. PICK T : Becomes(t, T) /\ T.pc = "idle" /\ T.call = c
  BY ReturnsIs
<1>2. QED
  BY <1>1, OtherFresh

\* Every call starts fresh; a write_string leaves no whole string.
LEMMA OtherStart ==
  ASSUME NEW t, NEW c, c.op \notin StringOps, Start(t, c)
  PROVE  (\E T : Becomes(t, T) /\ Fresh(T, c)) /\ whole' = whole
<1>1. c.op # "read_string" /\ c.op # "write_string"
  BY DEF StringOps
<1>2. ~ReadString(t, c) /\ ~WriteString(t, c)
  BY <1>1 DEF ReadString, WriteString, Begin
<1>3. \/ \E reqs, form, len : Send(t, c, reqs, form, len)
      \/ \E rc, val, str : Returns(t, c, rc, val, str)
  BY <1>2 DEF Start, Access, ReadTags, WriteTags, ReadTyped, WriteTyped, ReadBools, WriteBools, Fails
<1>4. whole' = whole
  BY <1>2 DEF Start, Access, ReadTags, WriteTags, ReadTyped, WriteTyped, ReadBools, WriteBools
<1>5. QED
  BY <1>3, <1>4, OtherSend, OtherReturns

\* A string call starts fresh; a write_string that is sent leaves no whole string.
LEMMA StringStart ==
  ASSUME NEW t, NEW c \in Calls, c.op \in StringOps, Start(t, c)
  PROVE  \E T : /\ Becomes(t, T) /\ Fresh(T, c)
                /\ \/ whole' = whole /\ (c.op = "write_string" => T.pc = "idle")
                   \/ c.op = "write_string" /\ whole' = [whole EXCEPT ![c.tag] = None]
<1>1. ReadString(t, c) \/ WriteString(t, c)
  BY DEF Start, Access, ReadTags, WriteTags, ReadTyped, WriteTyped, ReadBools, WriteBools, Begin, StringOps
<1>2. c.tag \in StringTags
  BY StringTagIs
<1>3. CASE ReadString(t, c)
  <2>1. c.op = "read_string" /\ c.op # "write_string" /\ whole' = whole
    BY <1>3 DEF ReadString, Begin
  <2>2. CASE c.room = 0
    <3>1. Fails(t, c, "NULL_ARG")
      BY <1>3, <2>2 DEF ReadString
    <3>2. QED
      BY <2>1, <3>1, FailFresh
  <2>3. CASE c.room # 0
    <3>1. PICK reqs : reqs = <<ReadOf(LenOf(c.tag), "DINT", 1)>> /\ Send(t, c, reqs, "path", 0)
      BY <1>3, <2>3 DEF ReadString
    <3>2. PICK T : Becomes(t, T) /\ Sent(T, c, reqs, 0)
      BY <3>1, SendIs
    <3>3. reqs[1].tag = LenOf(c.tag)
      BY <3>1, ReadRequest
    <3>4. Fresh(T, c)
      BY <2>1, <3>2, <3>3, SentOut DEF Fresh, Sent, AtLen
    <3>5. QED
      BY <2>1, <3>2, <3>4
  <2>4. QED
    BY <2>2, <2>3
<1>4. CASE WriteString(t, c)
  <2>1. c.op = "write_string" /\ c.op # "read_string"
    BY <1>4 DEF WriteString, Begin
  <2>2. CASE Len(c.str) > MaxCount
    <3>1. Returns(t, c, "PARAM_RANGE", None, None) /\ whole' = whole
      BY <1>4, <2>2 DEF WriteString, Fails
    <3>2. PICK T : Becomes(t, T) /\ T.pc = "idle" /\ T.call = c /\ T.out.rc = "PARAM_RANGE"
      BY <3>1, ReturnsIs
    <3>3. StringOut(T)
      BY <3>2 DEF StringOut
    <3>4. QED
      BY <3>1, <3>2, <3>3 DEF Fresh
  <2>3. CASE ~(Len(c.str) > MaxCount)
    <3>1. /\ whole' = [whole EXCEPT ![c.tag] = None]
          /\ IF c.str = <<>> THEN SendLen(t, c) ELSE SendData(t, c)
      BY <1>4, <2>3 DEF WriteString
    <3>2. CASE c.str = <<>>
      <4>1. PICK reqs : Send(t, c, reqs, "path", 0)
        BY <3>1, <3>2 DEF SendLen
      <4>2. PICK T : Becomes(t, T) /\ Sent(T, c, reqs, 0)
        BY <4>1, SendIs
      <4>3. Fresh(T, c)
        BY <2>1, <3>2, <4>2, SentOut DEF Fresh, Sent
      <4>4. QED
        BY <2>1, <3>1, <4>2, <4>3
    <3>3. CASE c.str # <<>>
      <4>1. PICK reqs : reqs = <<DataReq(c)>> /\ Send(t, c, reqs, "path", 0)
        BY <3>1, <3>3 DEF SendData, DataReq
      <4>2. PICK T : Becomes(t, T) /\ Sent(T, c, reqs, 0)
        BY <4>1, SendIs
      <4>3. reqs[1].tag = DataOf(c.tag)
        BY <4>1 DEF DataReq, WriteOf, Request
      <4>4. DataOf(c.tag) # LenOf(c.tag)
        BY <1>2, Members2
      <4>5. T.pc = "engine" => ~AtLen(T)
        BY <4>2, <4>3, <4>4 DEF AtLen, Sent
      <4>6. Fresh(T, c)
        BY <2>1, <4>2, <4>5, SentOut DEF Fresh, Sent
      <4>7. QED
        BY <2>1, <3>1, <4>2, <4>6
    <3>4. QED
      BY <3>2, <3>3
  <2>4. QED
    BY <2>2, <2>3
<1>5. QED
  BY <1>1, <1>3, <1>4

\* Starting a call keeps the strings right.
LEMMA StartS ==
  ASSUME BInv, SInv, NEW t \in Threads, NEW c \in Calls, Start(t, c)
  PROVE  SInv'
<1>1. PICK op : Begin(t, c, op)
  BY DEF Start, Access, ReadTags, WriteTags, ReadTyped, WriteTyped, ReadBools, WriteBools, ReadString, WriteString
<1>2. PICK T : /\ Becomes(t, T) /\ Fresh(T, c)
               /\ \/ whole' = whole /\ (c.op = "write_string" => T.pc = "idle")
                  \/ c.op = "write_string" /\ whole' = [whole EXCEPT ![c.tag] = None]
  <2>1. CASE c.op \in StringOps
    BY <2>1, StringStart
  <2>2. CASE c.op \notin StringOps
    BY <2>2, OtherStart DEF StringOps
  <2>3. QED
    BY <2>1, <2>2
<1>3. /\ c.op = op /\ ~Busy(t) /\ UNCHANGED <<mem, late>>
      /\ \A u \in Threads : u # t /\ Busy(u) => (alone'[u] => alone[u])
      /\ \A u \in Threads : u # t /\ Busy(u) /\ StringTag(thr[u].call) = StringTag(c) =>
            (alone'[u] => op # "write_string")
  BY <1>1, BeginAlone
<1>4. T.call = c /\ StringOut(T)
  BY <1>2 DEF Fresh
<1>5. \A u \in Threads : Busy(u)' => Undisturbed(u)'
  BY <1>1, <1>2, <1>4, StartDisturbs
<1>6. /\ DOMAIN whole = StringTags /\ \A x \in StringTags : WholeAt(mem, x, whole[x])
      /\ \A i \in DOMAIN late' : Harmless(mem, late'[i])
  BY <1>3 DEF SInv
<1>7. \/ whole' = whole /\ (c.op = "write_string" => T.pc = "idle")
      \/ /\ c.op = "write_string" /\ c.tag \in StringTags /\ DOMAIN whole' = StringTags
         /\ whole'[c.tag] = None /\ \A x \in StringTags : x # c.tag => whole'[x] = whole[x]
  <2>1. c.op = "write_string" => c.tag \in StringTags
    BY StringTagIs DEF StringOps
  <2>2. QED
    BY <1>2, <1>6, <2>1
<1>8. DOMAIN whole' = StringTags /\ \A x \in StringTags : WholeAt(mem, x, whole'[x])
  BY <1>6, <1>7 DEF WholeAt
<1>9. ASSUME NEW u \in Threads, u # t, Busy(u), thr[u].call.op \in StringOps
      PROVE  /\ alone'[u] => alone[u]
             /\ thr[u].call.op = "read_string" /\ alone'[u] => whole'[thr[u].call.tag] = whole[thr[u].call.tag]
             /\ thr[u].call.op = "write_string" => whole'[thr[u].call.tag] = None
  <2>1. thr[u].call.tag \in StringTags
    BY <1>9, BusyIs, StringTagIs
  <2>2. thr[u].call.op = "write_string" => whole[thr[u].call.tag] = None
    BY <1>9 DEF SInv, SThread
  <2>3. CASE whole' = whole
    BY <1>3, <1>9, <2>2, <2>3
  <2>4. CASE c.op = "write_string" /\ thr[u].call.tag = c.tag /\ whole'[c.tag] = None
    <3>1. StringTag(thr[u].call) = StringTag(c)
      BY <1>9, <2>4, SameTag DEF StringOps
    <3>2. ~alone'[u]
      BY <1>3, <1>9, <2>4, <3>1
    <3>3. QED
      BY <2>4, <3>2
  <2>5. CASE whole'[thr[u].call.tag] = whole[thr[u].call.tag]
    BY <1>3, <1>9, <2>2, <2>5
  <2>6. QED
    BY <1>7, <2>1, <2>3, <2>4, <2>5
<1>10. T.pc = "engine" => SThread(T, mem, alone'[t], whole'[T.call.tag])
  <2>1. HAVE T.pc = "engine"
  <2>2. c.op = "write_string" => whole'[c.tag] = None
    BY <1>7, <2>1
  <2>3. PICK a, w : a = alone'[t] /\ w = whole'[c.tag]
    OBVIOUS
  <2>4. SThread(T, mem, a, w)
    BY <1>2, <2>1, <2>2, <2>3, FreshThread
  <2>5. QED
    BY <1>4, <2>3, <2>4
<1>11. QED
  BY <1>2, <1>3, <1>4, <1>5, <1>6, <1>8, <1>9, <1>10, BecomesS

-----------------------------------------------------------------------------
(* Strings when answers arrive *)

\* One request and no error.
LEMMA GotIs ==
  ASSUME NEW T, NEW hs, Batch(T, hs), Len(T.reqs) = 1, Len(T.res) = Len(T.reqs), \A i \in DOMAIN T.res : T.res[i] = 0
  PROVE  Got(T)
<1>1. T.res \in Seq({0, 1}) /\ Len(T.res) = 1
  BY DEF Batch
<1>2. 1 \in DOMAIN T.res
  BY <1>1
<1>3. QED
  BY <1>1, <1>2 DEF Got

\* LEN has arrived: what it says of DATA.
LEMMA LenAnswer ==
  ASSUME NEW T, NEW hs, Batch(T, hs), T.call.op = "read_string", AtLen(T), Got(T), NEW m, NEW s, ReadStr(T, m, s),
         NEW len, len = DecodeScalar("DINT", AccessRead(T.reqs, T.res, T.area)[1])
  PROVE  len \in Int /\ NonZero(m, T.call.tag, len) /\ (s # None => len = Len(s))
<1>1. /\ Len(T.reqs) = 1 /\ T.reqs[1].act = "read" /\ T.area \in ByteSeq /\ Len(T.area) = 4
  BY StringRead
<1>2. AccessRead(T.reqs, T.res, T.area)[1] = T.area
  BY <1>1, OneData
<1>3. PICK type \in DOMAIN Width : type = "DINT" /\ Width[type] = 4
  BY WidthIs
<1>4. DecodeScalar(type, T.area) = PlcValue(type, T.area)
  BY <1>1, <1>3, DecodeIsPlc DEF ByteSeq
<1>5. PlcValue(type, T.area) \in Int
  BY <1>1, <1>3, PlcInt
<1>6. len = PlcValue("DINT", T.area) /\ len \in Int
  BY <1>2, <1>3, <1>4, <1>5
<1>7. QED
  BY <1>6 DEF ReadStr

\* DATA has arrived: its characters.
LEMMA DataAnswer ==
  ASSUME NEW T, NEW hs, Batch(T, hs), T.call.op = "read_string", ~AtLen(T), Got(T), NEW m, NEW s, ReadStr(T, m, s),
         s # None => Chars(s),
         NEW chars, chars = DecodeArray("SINT", AccessRead(T.reqs, T.res, T.area)[1])
  PROVE  /\ \A i \in DOMAIN chars : chars[i] # 0
         /\ s # None => T.len = Len(s) /\ chars = SubSeq(s, 1, Least({Len(s), T.call.room - 1, MaxCount}))
<1>1. /\ Len(T.reqs) = 1 /\ T.reqs[1].act = "read" /\ T.area \in ByteSeq /\ Len(T.area) = ToRead(T)
      /\ ToRead(T) \in Nat /\ ToRead(T) <= T.len /\ T.len \in Nat
  BY StringRead
<1>2. AccessRead(T.reqs, T.res, T.area)[1] = T.area
  BY <1>1, OneData
<1>3. PICK type \in DOMAIN Width : type = "SINT" /\ Width[type] = 1
  BY WidthIs
<1>4. PICK n, b : n \in Nat /\ n = ToRead(T) /\ b = T.area
  BY <1>1
<1>5. Len(b) = n /\ b \in ByteSeq /\ Len(b) = Width[type] * n
  BY <1>1, <1>3, <1>4
<1>6. DecodeArray(type, b) = [k \in 1 .. n |-> PlcValue(type, Element(b, Width[type], k))]
  BY <1>5, DecodeArrayIs
<1>7. \A k \in 1 .. n : PlcValue(type, Element(b, Width[type], k)) = Char(b[k]) /\ b[k] \in 0 .. Byte - 1
  <2>1. TAKE k \in 1 .. n
  <2>2. Element(b, 1, k) = <<b[k]>> /\ b[k] \in 0 .. Byte - 1
    BY <1>5, ElementOne
  <2>3. QED
    BY <1>3, <2>2 DEF Char
<1>8. chars = [k \in 1 .. n |-> Char(b[k])]
  BY <1>2, <1>3, <1>4, <1>6, <1>7
<1>9. DOMAIN b = 1 .. n
  BY <1>5 DEF ByteSeq
<1>10. \A k \in 1 .. n : b[k] # 0
  BY <1>4, <1>9 DEF ReadStr
<1>11. \A k \in 1 .. n : Char(b[k]) # 0
  BY <1>7, <1>10, CharIs
<1>12. \A i \in DOMAIN chars : chars[i] # 0
  BY <1>8, <1>11
<1>13. ASSUME s # None
       PROVE  T.len = Len(s) /\ chars = SubSeq(s, 1, Least({Len(s), T.call.room - 1, MaxCount}))
  <2>1. T.len = Len(s) /\ \A k \in 1 .. n : Char(b[k]) = s[k]
    BY <1>4, <1>9, <1>13 DEF ReadStr
  <2>2. n = Least({Len(s), T.call.room - 1, MaxCount}) /\ n <= Len(s)
    BY <1>1, <1>4, <2>1 DEF ToRead
  <2>3. PICK S : s \in Seq(S)
    BY <1>13 DEF Chars
  <2>4. PICK q : q = SubSeq(s, 1, n)
    OBVIOUS
  <2>5. q \in Seq(S) /\ Len(q) = n /\ \A k \in 1 .. n : q[k] = s[k]
    <3>1. n \in Nat /\ n <= Len(s) /\ Len(s) \in Nat
      BY <1>1, <1>4, <2>1, <2>2
    <3>2. s \in Seq(S) /\ q = SubSeq(s, 1, n)
      BY <2>3, <2>4
    <3>3. QED
      BY <3>1, <3>2
  <2>6. q = [k \in 1 .. n |-> q[k]]
    BY <2>5
  <2>7. q = [k \in 1 .. n |-> Char(b[k])]
    BY <2>1, <2>5, <2>6
  <2>8. QED
    BY <1>8, <2>1, <2>2, <2>4, <2>7
<1>14. QED
  BY <1>12, <1>13

\* Answers of other operations keep the strings right.
LEMMA OtherAnswer ==
  ASSUME BInv, SInv, NEW t \in Threads, Answer(t), thr[t].call.op \notin StringOps
  PROVE  SInv'
<1>1. PICK c : c = thr[t].call
  OBVIOUS
<1>2. c.op # "read_string" /\ c.op # "write_string"
  BY <1>1 DEF StringOps
<1>3. AccessAnswer(t) \/ ReadTagsAnswer(t) \/ WriteTagsAnswer(t) \/ WriteAnswer(t) \/ ReadTypedAnswer(t) \/ ReadBoolsAnswer(t)
  BY <1>1, <1>2 DEF Answer, ReadStringLen, ReadStringData, WriteStringData, WriteStringLen, Answered
<1>4. Busy(t) /\ UNCHANGED <<mem, late, alone, whole>>
  BY <1>3 DEF AccessAnswer, ReadTagsAnswer, WriteTagsAnswer, WriteAnswer, ReadTypedAnswer, ReadBoolsAnswer, Answered
<1>5. \E rc, val, str : Returns(t, c, rc, val, str)
  BY <1>1, <1>3 DEF AccessAnswer, ReadTagsAnswer, WriteTagsAnswer, WriteAnswer, ReadTypedAnswer, ReadBoolsAnswer, Fails
<1>6. PICK T : Becomes(t, T) /\ T.call = c /\ T.pc = "idle" /\ Fresh(T, c)
  BY <1>1, <1>5, OtherReturns
<1>7. StringOut(T) /\ T.pc # "engine"
  BY <1>6 DEF Fresh
<1>8. \A i \in DOMAIN late' : Harmless(mem, late'[i])
  BY <1>4 DEF SInv
<1>9. QED
  BY <1>1, <1>4, <1>6, <1>7, <1>8, QuietS

\* An answer that fails the call.
LEMMA FailS ==
  ASSUME BInv, SInv, NEW t \in Threads, Busy(t), UNCHANGED <<mem, late, alone, whole>>, NEW rc, rc # "OK",
         Fails(t, thr[t].call, rc)
  PROVE  SInv'
<1>1. PICK T : Becomes(t, T) /\ T.pc = "idle" /\ T.call = thr[t].call /\ T.out.rc = rc
  BY ReturnsIs DEF Fails
<1>2. StringOut(T) /\ T.pc # "engine"
  BY <1>1 DEF StringOut
<1>3. \A i \in DOMAIN late' : Harmless(mem, late'[i])
  BY DEF SInv
<1>4. QED
  BY <1>1, <1>2, <1>3, QuietS

\* An answer that sends the second batch of a string.
LEMMA SecondS ==
  ASSUME BInv, SInv, NEW t \in Threads, Busy(t), UNCHANGED <<mem, late, alone, whole>>, NEW reqs, NEW form, NEW len,
         Send(t, thr[t].call, reqs, form, len),
         \A T : T.pc = "engine" /\ Sent(T, thr[t].call, reqs, len)
                  => SThread(T, mem, alone[t], whole[thr[t].call.tag])
  PROVE  SInv'
<1>1. PICK T : Becomes(t, T) /\ Sent(T, thr[t].call, reqs, len)
  BY SendIs
<1>2. T.call = thr[t].call /\ StringOut(T)
  BY <1>1, SentOut DEF Sent
<1>3. T.pc = "engine" => SThread(T, mem, alone[t], whole[T.call.tag])
  BY <1>1, <1>2
<1>4. \A i \in DOMAIN late' : Harmless(mem, late'[i])
  BY DEF SInv
<1>5. QED
  BY <1>1, <1>2, <1>3, <1>4, QuietS

\* An answer that ends read_string.
LEMMA StringS ==
  ASSUME BInv, SInv, NEW t \in Threads, Busy(t), UNCHANGED <<mem, late, alone, whole>>, NEW len, NEW chars,
         ReturnsString(t, len, chars), \A i \in DOMAIN chars : chars[i] # 0,
         alone[t] /\ whole[thr[t].call.tag] # None =>
             /\ len = Len(whole[thr[t].call.tag])
             /\ chars = SubSeq(whole[thr[t].call.tag], 1,
                               Least({Len(whole[thr[t].call.tag]), thr[t].call.room - 1, MaxCount}))
  PROVE  SInv'
<1>1. PICK c, s : c = thr[t].call /\ s = (IF alone[t] THEN whole[c.tag] ELSE None)
  OBVIOUS
<1>2. PICK val : val = [len |-> len, chars |-> chars]
  OBVIOUS
<1>3. Returns(t, c, "OK", val, s)
  BY <1>1, <1>2 DEF ReturnsString
<1>4. PICK T : Becomes(t, T) /\ T.pc = "idle" /\ T.call = c /\ T.out.val = val /\ T.out.str = s
  BY <1>3, ReturnsIs
<1>5. val.len = len /\ val.chars = chars
  BY <1>2
<1>6. s # None => len = Len(s) /\ chars = SubSeq(s, 1, Least({Len(s), c.room - 1, MaxCount}))
  BY <1>1
<1>7. StringOut(T)
  BY <1>4, <1>5, <1>6 DEF StringOut
<1>8. \A i \in DOMAIN late' : Harmless(mem, late'[i])
  BY DEF SInv
<1>9. T.pc # "engine" /\ T.call = thr[t].call
  BY <1>1, <1>4
<1>10. QED
  BY <1>4, <1>7, <1>8, <1>9, QuietS

\* The answer to the read of LEN keeps the strings right,
LEMMA ReadLenS ==
  ASSUME BInv, SInv, NEW t \in Threads, ReadStringLen(t)
  PROVE  SInv'
<1>1. PICK T, c, a, w : T = thr[t] /\ c = T.call /\ a = alone[t] /\ w = whole[c.tag]
  OBVIOUS
<1>2. /\ Busy(t) /\ UNCHANGED <<mem, late, alone, whole>> /\ c.op = "read_string" /\ Len(T.res) = Len(T.reqs)
      /\ AtLen(T)
  BY <1>1 DEF ReadStringLen, Answered, InLen, AtLen
<1>3. Batch(T, held[t]) /\ SThread(T, mem, a, w)
  BY <1>1, <1>2, BusyIs DEF SInv
<1>4. PICK s : s = (IF a THEN w ELSE None)
  OBVIOUS
<1>5. ReadStr(T, mem, s)
  BY <1>1, <1>2, <1>3, <1>4 DEF SThread
<1>6. c.tag \in StringTags /\ Len(T.reqs) = 1 /\ c.room - 1 \in Nat
  BY <1>1, <1>2, <1>3, StringRead
<1>7. PICK len, n : /\ len = DecodeScalar("DINT", AccessRead(T.reqs, T.res, T.area)[1])
                    /\ n = Least({len, c.room - 1, MaxCount})
  OBVIOUS
<1>8. CASE Refused(t)
  <2>1. Fails(t, thr[t].call, "GENERIC")
    BY <1>8 DEF ReadStringLen
  <2>2. QED
    BY <1>2, <2>1, FailS
<1>9. CASE ~Refused(t)
  <2>1. Got(T)
    BY <1>1, <1>2, <1>3, <1>6, <1>9, GotIs DEF Refused
  <2>2. len \in Int /\ NonZero(mem, c.tag, len) /\ (s # None => len = Len(s))
    BY <1>1, <1>2, <1>3, <1>5, <1>7, <2>1, LenAnswer
  <2>3. CASE len < 0
    <3>1. Fails(t, thr[t].call, "GENERIC")
      BY <1>1, <1>7, <1>9, <2>3, <2>2 DEF ReadStringLen, Data
    <3>2. QED
      BY <1>2, <3>1, FailS
  <2>4. ~(len < 0) => len \in Nat
    BY <2>2
  <2>5. CASE ~(len < 0) /\ n = 0
    <3>1. ReturnsString(t, len, <<>>)
      BY <1>1, <1>7, <1>9, <2>4, <2>5 DEF ReadStringLen, Data
    <3>2. s # None => Chars(w) /\ a /\ s = w
      BY <1>1, <1>4, <1>6 DEF SInv, WholeAt
    <3>3. s # None => <<>> = SubSeq(s, 1, Least({Len(s), c.room - 1, MaxCount}))
      <4>1. HAVE s # None
      <4>2. Least({Len(s), c.room - 1, MaxCount}) = 0
        BY <1>7, <2>2, <2>5, <4>1
      <4>3. PICK S : s \in Seq(S)
        BY <3>2, <4>1 DEF Chars
      <4>4. SubSeq(s, 1, 0) = <<>>
        BY <4>3
      <4>5. QED
        BY <4>2, <4>4
    <3>4. \A i \in DOMAIN <<>> : <<>>[i] # 0
      OBVIOUS
    <3>5. alone[t] /\ whole[thr[t].call.tag] # None =>
             /\ len = Len(whole[thr[t].call.tag])
             /\ <<>> = SubSeq(whole[thr[t].call.tag], 1,
                               Least({Len(whole[thr[t].call.tag]), thr[t].call.room - 1, MaxCount}))
      BY <1>1, <1>4, <2>2, <3>3
    <3>6. PICK chars : chars = <<>>
      OBVIOUS
    <3>7. QED
      BY <1>2, <3>1, <3>4, <3>5, <3>6, StringS
  <2>6. CASE ~(len < 0) /\ n # 0
    <3>1. PICK reqs : /\ reqs = <<ReadOf(DataOf(c.tag), "SINT", n)>>
                      /\ Send(t, thr[t].call, reqs, "path", len)
      BY <1>1, <1>7, <1>9, <2>4, <2>6 DEF ReadStringLen, Data
    <3>2. reqs[1].tag = DataOf(c.tag)
      BY <3>1, ReadRequest
    <3>3. DataOf(c.tag) # LenOf(c.tag)
      BY <1>6, Members2
    <3>4. ASSUME NEW U, U.pc = "engine", Sent(U, thr[t].call, reqs, len)
          PROVE  SThread(U, mem, alone[t], whole[thr[t].call.tag])
      <4>1. U.call = c /\ U.reqs = reqs /\ U.res = <<>> /\ U.len = len
        BY <1>1, <3>4 DEF Sent
      <4>2. Len(<<>>) # Len(<<0>>)
        OBVIOUS
      <4>3. ~AtLen(U) /\ ~Got(U)
        BY <3>2, <3>3, <4>1, <4>2 DEF AtLen, Got
      <4>4. ReadStr(U, mem, s)
        BY <2>2, <4>1, <4>3 DEF ReadStr
      <4>5. QED
        BY <1>1, <1>2, <1>4, <4>1, <4>4 DEF SThread
    <3>5. QED
      BY <1>2, <3>1, <3>4, SecondS
  <2>7. QED
    BY <2>3, <2>5, <2>6
<1>10. QED
  BY <1>8, <1>9

\* and that to the read of DATA,
LEMMA ReadDataS ==
  ASSUME BInv, SInv, NEW t \in Threads, ReadStringData(t)
  PROVE  SInv'
<1>1. PICK T, c, a, w : T = thr[t] /\ c = T.call /\ a = alone[t] /\ w = whole[c.tag]
  OBVIOUS
<1>2. /\ Busy(t) /\ UNCHANGED <<mem, late, alone, whole>> /\ c.op = "read_string" /\ Len(T.res) = Len(T.reqs)
      /\ ~AtLen(T)
  BY <1>1 DEF ReadStringData, Answered, InLen, AtLen
<1>3. Batch(T, held[t]) /\ SThread(T, mem, a, w)
  BY <1>1, <1>2, BusyIs DEF SInv
<1>4. PICK s : s = (IF a THEN w ELSE None)
  OBVIOUS
<1>5. ReadStr(T, mem, s)
  BY <1>1, <1>2, <1>3, <1>4 DEF SThread
<1>6. c.tag \in StringTags /\ Len(T.reqs) = 1
  BY <1>1, <1>2, <1>3, StringRead
<1>7. CASE Refused(t)
  <2>1. Fails(t, thr[t].call, "GENERIC")
    BY <1>7 DEF ReadStringData
  <2>2. QED
    BY <1>2, <2>1, FailS
<1>8. CASE ~Refused(t)
  <2>1. Got(T)
    BY <1>1, <1>2, <1>3, <1>6, <1>8, GotIs DEF Refused
  <2>2. PICK chars, len : chars = DecodeArray("SINT", AccessRead(T.reqs, T.res, T.area)[1]) /\ len = T.len
    OBVIOUS
  <2>3. ReturnsString(t, len, chars)
    BY <1>1, <1>8, <2>2 DEF ReadStringData, Data
  <2>4. s # None => Chars(s)
    BY <1>1, <1>4, <1>6 DEF SInv, WholeAt
  <2>5. /\ \A i \in DOMAIN chars : chars[i] # 0
        /\ s # None => T.len = Len(s) /\ chars = SubSeq(s, 1, Least({Len(s), T.call.room - 1, MaxCount}))
    <3>1. T.call.op = "read_string"
      BY <1>1, <1>2
    <3>2. PICK m, hs : m = mem /\ hs = held[t]
      OBVIOUS
    <3>3. Batch(T, hs) /\ ReadStr(T, m, s) /\ ~AtLen(T)
      BY <1>2, <1>3, <1>5, <3>2
    <3>4. QED
      BY ONLY <2>1, <2>2, <2>4, <3>1, <3>3, DataAnswer
  <2>6. alone[t] /\ whole[thr[t].call.tag] # None =>
             /\ len = Len(whole[thr[t].call.tag])
             /\ chars = SubSeq(whole[thr[t].call.tag], 1,
                               Least({Len(whole[thr[t].call.tag]), thr[t].call.room - 1, MaxCount}))
    BY <1>1, <1>4, <2>2, <2>5
  <2>7. QED
    BY <1>2, <2>3, <2>5, <2>6, StringS
<1>9. QED
  BY <1>7, <1>8

\* and that to the write of DATA.
LEMMA WriteDataS ==
  ASSUME BInv, SInv, NEW t \in Threads, WriteStringData(t)
  PROVE  SInv'
<1>1. PICK T, c, a, w : T = thr[t] /\ c = T.call /\ a = alone[t] /\ w = whole[c.tag]
  OBVIOUS
<1>2. /\ Busy(t) /\ UNCHANGED <<mem, late, alone, whole>> /\ c.op = "write_string" /\ Len(T.res) = Len(T.reqs)
      /\ ~AtLen(T)
  BY <1>1 DEF WriteStringData, Answered, InLen, AtLen
<1>3. Batch(T, held[t]) /\ SThread(T, mem, a, w)
  BY <1>1, <1>2, BusyIs DEF SInv
<1>4. Len(T.reqs) = 1
  BY <1>1, <1>2, <1>3, StringWrite
<1>5. CASE Refused(t)
  <2>1. Fails(t, thr[t].call, "GENERIC")
    BY <1>5 DEF WriteStringData
  <2>2. QED
    BY <1>2, <2>1, FailS
<1>6. CASE ~Refused(t)
  <2>1. Got(T)
    BY <1>1, <1>2, <1>3, <1>4, <1>6, GotIs DEF Refused
  <2>2. PICK reqs : Send(t, thr[t].call, reqs, "path", 0)
    BY <1>6 DEF WriteStringData, SendLen
  <2>3. WriteStr(T, mem, a) /\ w = None
    BY <1>1, <1>2, <1>3 DEF SThread
  <2>4. NonZero(mem, c.tag, Len(c.str)) /\ (a => DataHolds(mem, c.tag, c.str))
    BY <1>1, <2>1, <2>3 DEF WriteStr
  <2>5. ASSUME NEW U, U.pc = "engine", Sent(U, thr[t].call, reqs, 0)
        PROVE  SThread(U, mem, alone[t], whole[thr[t].call.tag])
    <3>1. U.call = c /\ U.res = <<>>
      BY <1>1, <2>5 DEF Sent
    <3>2. Len(<<>>) # Len(<<0>>)
      OBVIOUS
    <3>3. ~Got(U)
      BY <3>1, <3>2 DEF Got
    <3>4. WriteStr(U, mem, a)
      BY <2>4, <3>1, <3>3 DEF WriteStr
    <3>5. QED
      BY <1>1, <1>2, <2>3, <3>1, <3>4 DEF SThread
  <2>6. QED
    BY <1>2, <2>2, <2>5, SecondS
<1>7. QED
  BY <1>5, <1>6

\* LEN is written: when nobody else was at the string, it is whole.
LEMMA WriteLenS ==
  ASSUME BInv, SInv, NEW t \in Threads, WriteStringLen(t)
  PROVE  SInv'
<1>1. PICK T, c, a, x : T = thr[t] /\ c = T.call /\ a = alone[t] /\ x = c.tag
  OBVIOUS
<1>2. /\ Busy(t) /\ UNCHANGED <<mem, late, alone>> /\ c.op = "write_string" /\ Len(T.res) = Len(T.reqs)
      /\ AtLen(T)
  BY <1>1 DEF WriteStringLen, Answered, InLen, AtLen
<1>3. Batch(T, held[t]) /\ SThread(T, mem, a, whole[x])
  BY <1>1, <1>2, BusyIs DEF SInv
<1>4. Len(T.reqs) = 1 /\ x \in StringTags /\ c \in Calls
  BY <1>1, <1>2, <1>3, StringWrite
<1>5. PICK T2 : Becomes(t, T2) /\ T2.pc = "idle" /\ T2.call = c
  BY <1>1, ReturnsIs DEF WriteStringLen
<1>6. StringOut(T2) /\ T2.pc # "engine" /\ T2.call = thr[t].call
  BY <1>1, <1>2, <1>5 DEF StringOut, Ended
<1>7. \A u \in Threads : Busy(u)' => Undisturbed(u)'
  BY <1>2, <1>5, <1>6, QuietIs
<1>8. /\ DOMAIN whole = StringTags /\ \A y \in StringTags : WholeAt(mem, y, whole[y])
      /\ \A i \in DOMAIN late' : Harmless(mem, late'[i])
  BY <1>2 DEF SInv
<1>9. /\ DOMAIN whole' = StringTags /\ \A y \in StringTags : y # x => whole'[y] = whole[y]
      /\ whole'[x] = IF a /\ ~Refused(t) THEN c.str ELSE whole[x]
  BY <1>1, <1>4, <1>8 DEF WriteStringLen
<1>10. CASE a /\ ~Refused(t)
  <2>1. Got(T)
    BY <1>1, <1>2, <1>3, <1>4, <1>10, GotIs DEF Refused
  <2>2. WriteStr(T, mem, a) /\ Chars(c.str)
    BY <1>1, <1>2, <1>3, <1>4, CallChars DEF SThread
  <2>3. WholeAt(mem, x, c.str)
    BY <1>1, <1>2, <1>10, <2>1, <2>2 DEF WriteStr, WholeAt
  <2>4. \A y \in StringTags : WholeAt(mem, y, whole'[y])
    BY <1>8, <1>9, <1>10, <2>3
  <2>5. ASSUME NEW u \in Threads, u # t, Busy(u), thr[u].call.op \in StringOps
        PROVE  /\ alone'[u] => alone[u]
               /\ thr[u].call.op = "read_string" /\ alone'[u] => whole'[thr[u].call.tag] = whole[thr[u].call.tag]
               /\ thr[u].call.op = "write_string" => whole'[thr[u].call.tag] = None
    <3>1. PICK y \in StringTags : y = thr[u].call.tag
      BY <2>5, BusyIs, StringTagIs
    <3>2. thr[u].call.op = "write_string" => whole[y] = None
      BY <2>5, <3>1 DEF SInv, SThread
    <3>3. CASE y # x
      BY <1>2, <1>9, <3>1, <3>2, <3>3
    <3>4. CASE y = x
      <4>1. Undisturbed(t) /\ Undisturbed(u)
        BY <1>2, <2>5 DEF SInv
      <4>2. ~Writing(u, x)
        BY <1>1, <1>2, <1>10, <2>5, <4>1 DEF Undisturbed, StringOps
      <4>3. thr[u].call.op # "write_string"
        BY <2>5, <3>1, <3>4, <4>2 DEF Writing
      <4>4. Writing(t, x)
        BY <1>1, <1>2 DEF Writing
      <4>5. ~alone[u]
        BY <2>5, <3>1, <3>4, <4>1, <4>4 DEF Undisturbed
      <4>6. QED
        BY <1>2, <4>3, <4>5
    <3>5. QED
      BY <3>3, <3>4
  <2>6. QED
    BY <1>2, <1>5, <1>6, <1>7, <1>8, <1>9, <2>4, <2>5, BecomesS
<1>11. CASE ~(a /\ ~Refused(t))
  <2>1. \A y \in StringTags : whole'[y] = whole[y]
    BY <1>9, <1>11
  <2>2. \A y \in StringTags : WholeAt(mem, y, whole'[y])
    BY <1>8, <2>1
  <2>3. ASSUME NEW u \in Threads, u # t, Busy(u), thr[u].call.op \in StringOps
        PROVE  /\ alone'[u] => alone[u]
               /\ thr[u].call.op = "read_string" /\ alone'[u] => whole'[thr[u].call.tag] = whole[thr[u].call.tag]
               /\ thr[u].call.op = "write_string" => whole'[thr[u].call.tag] = None
    <3>1. PICK y \in StringTags : y = thr[u].call.tag
      BY <2>3, BusyIs, StringTagIs
    <3>2. thr[u].call.op = "write_string" => whole[y] = None
      BY <2>3, <3>1 DEF SInv, SThread
    <3>3. QED
      BY <1>2, <2>1, <3>1, <3>2
  <2>4. QED
    BY <1>2, <1>5, <1>6, <1>7, <1>8, <1>9, <2>2, <2>3, BecomesS
<1>12. QED
  BY <1>10, <1>11

\* Every answer keeps the strings right.
LEMMA AnswerS ==
  ASSUME BInv, SInv, NEW t \in Threads, Answer(t)
  PROVE  SInv'
<1>1. CASE thr[t].call.op \notin StringOps
  BY <1>1, OtherAnswer
<1>2. CASE thr[t].call.op \in StringOps
  <2>1. thr[t].call.op = "read_string" \/ thr[t].call.op = "write_string"
    BY <1>2 DEF StringOps
  <2>2. ReadStringLen(t) \/ ReadStringData(t) \/ WriteStringData(t) \/ WriteStringLen(t)
    BY <2>1 DEF Answer, AccessAnswer, ReadTagsAnswer, WriteTagsAnswer, WriteAnswer, ReadTypedAnswer, ReadBoolsAnswer, Answered
  <2>3. QED
    BY <2>2, ReadLenS, ReadDataS, WriteDataS, WriteLenS
<1>3. QED
  BY <1>1, <1>2

\* Stuttering keeps the strings right.
LEMMA StutterS ==
  ASSUME SInv, UNCHANGED vars
  PROVE  SInv'
<1>1. \A u \in Threads : (Busy(u)' <=> Busy(u)) /\ (Undisturbed(u) => Undisturbed(u)')
  BY DEF vars, Busy, Undisturbed, Writing
<1>2. QED
  BY <1>1 DEF SInv, vars

\* Every step keeps the strings right.
LEMMA SNext == BInv /\ SInv /\ [Next]_vars => SInv'
  BY StartS, ExecS, LostS, AnswerS, LateS, StutterS DEF Next

\* The invariant implies StringWhole.
LEMMA SInvStrings == SInv => StringWhole
<1>1. \A t \in Threads : Done(t, "read_string") => Ended(thr[t], "read_string")
  BY DEF Done, Ended
<1>2. QED
  BY <1>1 DEF SInv, StringOut, StringWhole

\* The inductive invariant of the strings: the first LEN bytes of DATA have been
\* written, also for a LEN a reader has in hand and for every LEN that is still to
\* be written, and what whole remembers of an undisturbed write is in the controller.
THEOREM StringInvariant == Spec => []SInv
<1>1. Init => SInv
  BY SInitOK
<1>2. BInv /\ SInv /\ [Next]_vars => SInv'
  BY SNext
<1>3. QED
  BY <1>1, <1>2, BatchInvariant, PTL DEF Spec

\* A string read while nobody writes it is the one written, and no reader gets a byte
\* nobody wrote: bp_tagdb_write_string writes DATA before LEN and bp_tagdb_read_string
\* reads LEN before DATA, whatever overlaps, fails half-way or is executed late.
THEOREM StringsAreWhole == Spec => []StringWhole
<1>1. SInv => StringWhole
  BY SInvStrings
<1>2. QED
  BY <1>1, StringInvariant, PTL
=============================================================================
