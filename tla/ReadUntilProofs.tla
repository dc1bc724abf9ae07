-------------------------- MODULE ReadUntilProofs ---------------------------
(***************************************************************************)
(* FrameAccumulator stays in step with the frames of its peer, and so      *)
(* implements FrameStream, for every encoding, frame length and schedule   *)
(* of partial reads and timeouts.  The supervisor's waits use it only as   *)
(* FrameReader says, and keep to their budgets for every value of the      *)
(* timeouts.                                                               *)
(***************************************************************************)
EXTENDS ReadUntil, WellFoundedInduction, TLAPS

\* A non-empty set of naturals has a least element: induction over data, as the provers
\* can use it.
LEMMA LeastElement ==
    ASSUME NEW T \in SUBSET Nat, T # {}
    PROVE  \E i \in T : \A j \in T : i <= j
<1> DEFINE R == OpToRel(<, Nat)
<1>1. IsWellFoundedOn(R, Nat) BY NatLessThanWellFounded, Zenon
<1>2. \A i, j \in Nat : j < i => <<j, i>> \in R BY Zenon DEF OpToRel
<1> HIDE DEF R
<1>3. PICK i \in T : \A j \in T : ~(<<j, i>> \in R) BY <1>1, WFMin, Zenon
<1>4. \A j \in T : ~(j < i) BY <1>2, <1>3, Zenon
<1> QED BY <1>3, <1>4

\* Induction up to w.
LEMMA Induction ==
    ASSUME NEW w \in Nat, NEW T \in SUBSET (0..w), 0 \in T,
           \A i \in 1..w : i - 1 \in T => i \in T
    PROVE  T = 0..w
<1>1. SUFFICES ASSUME (0..w) \ T # {} PROVE FALSE BY Zenon
<1>2. PICK i \in (0..w) \ T : \A j \in (0..w) \ T : i <= j
  <2>1. (0..w) \ T \in SUBSET Nat OBVIOUS
  <2> QED BY <1>1, <2>1, LeastElement, Zenon
<1>3. i # 0 BY <1>2
<1>4. i \in 1..w BY <1>2, <1>3
<1>5. i - 1 \in 0..w /\ ~(i <= i - 1) BY <1>4
<1>6. i - 1 \in T BY <1>2, <1>5
<1> QED BY <1>2, <1>4, <1>6

\* A function defined by primitive recursion on 0..w exists, and has the type of its steps.
LEMMA Recursion ==
    ASSUME NEW w \in Nat, NEW a \in Nat, NEW step \in [1..w -> [Nat -> Nat]]
    PROVE  \E f \in [0..w -> Nat] : f[0] = a /\ \A i \in 1..w : f[i] = step[i][f[i - 1]]
<1> DEFINE Fcn(k, f) == f \in [0..k -> Nat] /\ f[0] = a /\ \A i \in 1..k : f[i] = step[i][f[i - 1]]
           T == {k \in 0..w : \E f : Fcn(k, f)}
<1>1. 0 \in T
  <2>1. Fcn(0, [i \in 0..0 |-> a]) OBVIOUS
  <2> HIDE DEF Fcn
  <2> QED BY <2>1
<1>2. ASSUME NEW k \in 1..w, k - 1 \in T PROVE k \in T
  <2>1. PICK f : Fcn(k - 1, f) BY <1>2, Zenon
  <2>2. PICK e \in Nat : e = step[k][f[k - 1]]
    <3>1. f[k - 1] \in Nat /\ step[k] \in [Nat -> Nat] BY <2>1
    <3> QED BY <3>1, Zenon
  <2> DEFINE g == [i \in 0..k |-> IF i < k THEN f[i] ELSE e]
  <2>3. \A i \in 0..k : g[i] \in Nat BY <2>1
  <2>4. g \in [0..k -> Nat] BY <2>3
  <2>5. g[0] = a /\ g[k] = e /\ \A i \in 0..(k - 1) : g[i] = f[i] BY <2>1
  <2> HIDE DEF g
  <2>6. ASSUME NEW i \in 1..k PROVE g[i] = step[i][g[i - 1]]
    <3>1. i - 1 \in 0..(k - 1) BY <2>6
    <3>2. CASE i = k BY <2>2, <2>5, <3>1, <3>2, Zenon
    <3>3. CASE i # k
      <4>1. i \in 0..(k - 1) /\ i \in 1..(k - 1) BY <3>3
      <4> QED BY <2>1, <2>5, <3>1, <4>1, Zenon
    <3> QED BY <3>2, <3>3
  <2>7. Fcn(k, g) BY <2>4, <2>5, <2>6, Zenon
  <2> HIDE DEF Fcn
  <2> QED BY <2>7
<1>3. w \in T
  <2> HIDE DEF T
  <2>1. T \in SUBSET (0..w) BY DEF T
  <2>2. T = 0..w BY <1>1, <1>2, <2>1, Induction
  <2> QED BY <2>2
<1>4. PICK f : Fcn(w, f)
  <2> HIDE DEF Fcn
  <2> QED BY <1>3
<1> QED BY <1>4, Zenon

\* A byte and what is above it make up a number.
LEMMA Remainder == ASSUME NEW x \in Nat
    PROVE  /\ x \div Base \in Nat /\ x % Base \in Nat
           /\ (x \div Base) * Base + (x % Base) = x
BY BaseAssumption

\* to_le_bytes takes a length apart byte by byte.
LEMMA ShiftedFacts ==
    ASSUME NEW n \in Nat, NEW w \in Nat
    PROVE  /\ Shifted(n, w) \in [0..w -> Nat] /\ Shifted(n, w)[0] = n
           /\ \A i \in 1..w : Shifted(n, w)[i] = Shifted(n, w)[i - 1] \div Base
<1> DEFINE Step(f) == [i \in 0..w |-> IF i = 0 THEN n ELSE f[i - 1] \div Base]
           r == CHOOSE f : f = Step(f)
           step == [i \in 1..w |-> [x \in Nat |-> x \div Base]]
<1>1. step \in [1..w -> [Nat -> Nat]] BY Remainder
<1>0. 0 \in Nat OBVIOUS
<1>2. PICK f \in [0..w -> Nat] : f[0] = n /\ \A i \in 1..w : f[i] = step[i][f[i - 1]]
  <2> HIDE DEF step
  <2> QED BY <1>1, Recursion, Zenon
<1>3. \A i \in 0..w : f[i] = IF i = 0 THEN n ELSE f[i - 1] \div Base
  <2> TAKE i \in 0..w
  <2>1. CASE i # 0
    <3>1. i \in 1..w /\ i - 1 \in 0..w BY <2>1
    <3>2. f[i - 1] \in Nat /\ step[i] = [x \in Nat |-> x \div Base] BY <3>1
    <3> HIDE DEF step
    <3> QED BY <1>2, <2>1, <3>1, <3>2
  <2> QED BY <1>2, <2>1
<1>4. f = Step(f)  BY <1>2, <1>3
<1>5. r = Step(r) BY <1>4, Zenon
<1>6. Shifted(n, w) = r BY DEF Shifted
<1> HIDE DEF r
<1>7. /\ r[0] = n /\ \A i \in 1..w : r[i] = r[i - 1] \div Base BY <1>5
<1>8. \A i \in 0..w : r[i] \in Nat
  <2> DEFINE T == {i \in 0..w : r[i] \in Nat}
  <2>a. 0 \in T BY <1>7
  <2>b. ASSUME NEW i \in 1..w, i - 1 \in T PROVE i \in T
    <3>1. r[i - 1] \in Nat /\ r[i] = r[i - 1] \div Base /\ i \in 0..w BY <1>7, <2>b
    <3>2. r[i] \in Nat BY <3>1, Remainder, Zenon
    <3> QED BY <3>1, <3>2
  <2>1. 0 \in T /\ \A i \in 1..w : i - 1 \in T => i \in T BY <2>a, <2>b
  <2>2. T \in SUBSET (0..w) OBVIOUS
  <2> HIDE DEF T
  <2>3. T = 0..w BY <2>1, <2>2, Induction
  <2> QED BY <2>3 DEF T
<1>9. r \in [0..w -> Nat]  BY <1>5, <1>8
<1> QED BY <1>6, <1>7, <1>9

\* from_le_bytes puts one together byte by byte.
LEMMA ValueFacts ==
    ASSUME NEW b \in Seq(Nat)
    PROVE  \E v \in [0..Len(b) -> Nat] :
              /\ v[0] = 0 /\ \A i \in 1..Len(b) : v[i] = v[i - 1] * Base + b[Len(b) + 1 - i]
              /\ FromLittleEndian(b) = v[Len(b)]
<1> DEFINE w == Len(b)
           Step(f) == [i \in 0..w |-> IF i = 0 THEN 0 ELSE f[i - 1] * Base + b[w + 1 - i]]
           r == CHOOSE f : f = Step(f)
           step == [i \in 1..w |-> [x \in Nat |-> x * Base + b[w + 1 - i]]]
<1>w. w \in Nat /\ \A i \in 1..w : b[w + 1 - i] \in Nat OBVIOUS
<1>6. FromLittleEndian(b) = r[w] BY DEF FromLittleEndian
<1> HIDE DEF w
<1>t. \A i \in 1..w : \A x \in Nat : x * Base + b[w + 1 - i] \in Nat BY <1>w, BaseAssumption, SMTT(30)
<1>1. step \in [1..w -> [Nat -> Nat]] BY <1>t, Zenon
<1>0. 0 \in Nat OBVIOUS
<1>2. PICK f \in [0..w -> Nat] : f[0] = 0 /\ \A i \in 1..w : f[i] = step[i][f[i - 1]]
  <2> HIDE DEF step
  <2> QED BY <1>0, <1>w, <1>1, Recursion, ZenonT(30)
<1>3. \A i \in 0..w : f[i] = IF i = 0 THEN 0 ELSE f[i - 1] * Base + b[w + 1 - i]
  <2> TAKE i \in 0..w
  <2>1. CASE i # 0
    <3>1. i \in 1..w /\ i - 1 \in 0..w BY <1>w, <2>1
    <3>2. f[i - 1] \in Nat /\ step[i] = [x \in Nat |-> x * Base + b[w + 1 - i]] BY <3>1
    <3> HIDE DEF step
    <3> QED BY <1>2, <2>1, <3>1, <3>2
  <2> QED BY <1>2, <2>1
<1>4. f = Step(f)  BY <1>2, <1>3
<1>5. r = Step(r) BY <1>4, Zenon
<1> HIDE DEF r
<1>7. /\ r[0] = 0 /\ \A i \in 1..w : r[i] = r[i - 1] * Base + b[w + 1 - i] BY <1>5, <1>w, SMTT(30)
<1>8. \A i \in 0..w : r[i] \in Nat
  <2> DEFINE T == {i \in 0..w : r[i] \in Nat}
  <2>a. 0 \in T BY <1>7, <1>w
  <2>b. ASSUME NEW i \in 1..w, i - 1 \in T PROVE i \in T
    <3>1. r[i - 1] \in Nat /\ r[i] = r[i - 1] * Base + b[w + 1 - i] /\ i \in 0..w BY <1>7, <1>w, <2>b
    <3>2. r[i] \in Nat BY <1>t, <3>1, Zenon
    <3> QED BY <3>1, <3>2
  <2>1. 0 \in T /\ \A i \in 1..w : i - 1 \in T => i \in T BY <2>a, <2>b
  <2>2. T \in SUBSET (0..w) OBVIOUS
  <2> HIDE DEF T
  <2>3. T = 0..w BY <1>w, <2>1, <2>2, Induction, Zenon
  <2> QED BY <2>3 DEF T
<1>9. r \in [0..w -> Nat]  BY <1>5, <1>8
<1> QED BY <1>6, <1>7, <1>9 DEF w

\* The length a prefix carries is the length that was written, when it fits.
LEMMA LengthRoundTrip ==
    ASSUME NEW n \in Nat, NEW w \in Nat, Shifted(n, w)[w] = 0
    PROVE  /\ LittleEndian(n, w) \in Seq(Nat) /\ Len(LittleEndian(n, w)) = w
           /\ FromLittleEndian(LittleEndian(n, w)) = n
<1> DEFINE b == LittleEndian(n, w)
           r == Shifted(n, w)
<1>1. r \in [0..w -> Nat] /\ r[0] = n /\ \A i \in 1..w : r[i] = r[i - 1] \div Base
  BY ShiftedFacts, Zenon
<1>2. b = [i \in 1..w |-> r[i - 1] % Base] BY DEF LittleEndian
<1>n. r[w] = 0 OBVIOUS
<1> HIDE DEF r, b
<1>3. \A i \in 1..w : r[i - 1] % Base \in Nat
  <2> TAKE i \in 1..w
  <2>1. r[i - 1] \in Nat BY <1>1
  <2> QED BY <2>1, Remainder
<1>4. b \in Seq(Nat) /\ Len(b) = w BY <1>2, <1>3
<1>5. PICK v \in [0..w -> Nat] :
         /\ v[0] = 0 /\ \A i \in 1..w : v[i] = v[i - 1] * Base + b[w + 1 - i]
         /\ FromLittleEndian(b) = v[w]
  BY <1>4, ValueFacts, Zenon
<1>6. \A i \in 0..w : v[i] = r[w - i]
  <2> DEFINE T == {i \in 0..w : v[i] = r[w - i]}
  <2>1. 0 \in T BY <1>n, <1>5
  <2>2. ASSUME NEW i \in 1..w, i - 1 \in T PROVE i \in T
    <3> DEFINE k == w - i
    <3>1. k \in 0..w /\ k + 1 \in 1..w /\ w - (i - 1) = k + 1 /\ w + 1 - i = k + 1 /\ (k + 1) - 1 = k
      OBVIOUS
    <3>2. v[i - 1] = r[k + 1] BY <2>2, <3>1
    <3>3. r[k + 1] = r[k] \div Base /\ r[k] \in Nat BY <1>1, <3>1
    <3>4. b[k + 1] = r[k] % Base BY <1>2, <3>1
    <3>5. v[i] = v[i - 1] * Base + b[k + 1] BY <1>5, <3>1
    <3>6. v[i] = (r[k] \div Base) * Base + (r[k] % Base) BY <3>2, <3>3, <3>4, <3>5
    <3>7. v[i] = r[k] BY <3>3, <3>6, Remainder, Zenon
    <3> QED BY <3>7
  <2>3. T \in SUBSET (0..w) OBVIOUS
  <2> HIDE DEF T
  <2>4. T = 0..w BY <2>1, <2>2, <2>3, Induction
  <2> QED BY <2>4, Zenon DEF T
<1>7. v[w] = r[0] BY <1>6
<1> QED BY <1>1, <1>4, <1>5, <1>7 DEF b
\* A smaller length has no more bytes.
LEMMA ShiftedMonotone ==
    ASSUME NEW n \in Nat, NEW m \in Nat, n <= m, NEW w \in Nat, Shifted(m, w)[w] = 0
    PROVE  Shifted(n, w)[w] = 0
<1> DEFINE p == Shifted(n, w)
           q == Shifted(m, w)
           T == {i \in 0..w : p[i] <= q[i]}
<1>1. /\ p \in [0..w -> Nat] /\ p[0] = n /\ \A i \in 1..w : p[i] = p[i - 1] \div Base
      /\ q \in [0..w -> Nat] /\ q[0] = m /\ \A i \in 1..w : q[i] = q[i - 1] \div Base
  BY ShiftedFacts, ZenonT(30)
<1>2. q[w] = 0 OBVIOUS
<1> HIDE DEF p, q
<1>3. 0 \in T BY <1>1
<1>4. ASSUME NEW i \in 1..w, i - 1 \in T PROVE i \in T
  <2>1. /\ p[i - 1] \in Nat /\ q[i - 1] \in Nat /\ p[i - 1] <= q[i - 1] /\ i \in 0..w
        /\ p[i] = p[i - 1] \div Base /\ q[i] = q[i - 1] \div Base
    BY <1>1, <1>4
  <2>2. \A x, y \in Nat : x <= y => x \div Base <= y \div Base BY BaseAssumption
  <2> QED BY <2>1, <2>2
<1>5. T \in SUBSET (0..w) OBVIOUS
<1> HIDE DEF T
<1>6. T = 0..w BY <1>3, <1>4, <1>5, Induction
<1>7. w \in T BY <1>6
<1>8. p[w] <= q[w] /\ p[w] \in Nat BY <1>1, <1>7 DEF T
<1> QED BY <1>2, <1>8 DEF p

\* The bytes of two sequences, one after the other.
LEMMA ConcatFacts ==
    ASSUME NEW a \in Seq(Nat), NEW b \in Seq(Nat)
    PROVE  /\ a \o b \in Seq(Nat) /\ Len(a \o b) = Len(a) + Len(b)
           /\ \A i \in 1..Len(a) : (a \o b)[i] = a[i]
           /\ \A i \in 1..Len(b) : (a \o b)[Len(a) + i] = b[i]
  OBVIOUS

\* ... are the first, and from there on the second.
LEMMA ConcatParts ==
    ASSUME NEW a \in Seq(Nat), NEW b \in Seq(Nat)
    PROVE  /\ SubSeq(a \o b, 1, Len(a)) = a
           /\ SubSeq(a \o b, Len(a) + 1, Len(a \o b)) = b
<1> DEFINE c == a \o b
<1>1. /\ c \in Seq(Nat) /\ Len(c) = Len(a) + Len(b)
      /\ \A i \in 1..Len(a) : c[i] = a[i]
      /\ \A i \in 1..Len(b) : c[Len(a) + i] = b[i]
  BY ConcatFacts
<1>2. Len(a) \in Nat /\ Len(b) \in Nat OBVIOUS
<1> HIDE DEF c
<1>3. SubSeq(c, 1, Len(a)) = a
  <2>1. SubSeq(c, 1, Len(a)) = [i \in 1..Len(a) |-> c[i]] BY <1>1, <1>2
  <2> QED BY <1>1, <1>2, <2>1
<1>4. SubSeq(c, Len(a) + 1, Len(c)) = b
  <2>1. SubSeq(c, Len(a) + 1, Len(c)) = [i \in 1..Len(b) |-> c[Len(a) + i]] BY <1>1, <1>2, SMTT(30)
  <2>2. b = [i \in 1..Len(b) |-> b[i]] OBVIOUS
  <2>3. [i \in 1..Len(b) |-> c[Len(a) + i]] = [i \in 1..Len(b) |-> b[i]] BY <1>1, SMTT(30)
  <2> QED BY <2>1, <2>2, <2>3, Zenon
<1> QED BY <1>3, <1>4 DEF c

\* encode and poll_read agree, for every message: the prefix announces the length of what
\* follows, within the limits, and the frame decodes to that message and to no other.
THEOREM CodecRoundTrip ==
    \A m \in Message :
        /\ Encode(m) \in Seq(Nat)
        /\ Len(Encode(m)) = LenPrefix + FrameLen(Encode(m))
        /\ FrameLen(Encode(m)) \in Nat /\ ValidLen(FrameLen(Encode(m)))
        /\ Decoded(Encode(m)) = {m}
<1> TAKE m \in Message
<1> DEFINE n == Len(Version) + Len(Payload[m])
           p == LittleEndian(n, LenPrefix)
           d == Payload[m]
<1>1. /\ LenPrefix \in Nat /\ Version \in Seq(Nat) /\ d \in Seq(Nat)
      /\ Len(Version) \in Nat /\ Len(d) \in Nat
      /\ n \in Nat /\ n <= MaxFrameBytes /\ MaxFrameBytes \in Nat
      /\ \A k \in Message : Payload[k] = d => k = m
  BY CodecAssumption
<1>2. p \in Seq(Nat) /\ Len(p) = LenPrefix /\ FromLittleEndian(p) = n
  <2>1. Shifted(n, LenPrefix)[LenPrefix] = 0 BY <1>1, CodecAssumption, ShiftedMonotone
  <2> HIDE DEF n
  <2> QED BY <1>1, <2>1, LengthRoundTrip
<1>3. Encode(m) = (p \o Version) \o d BY DEF Encode
<1>n. n = Len(Version) + Len(d) OBVIOUS
<1> HIDE DEF n, p, d
<1> DEFINE h == p \o Version
           e == h \o d
<1>4. h \in Seq(Nat) /\ Len(h) = LenPrefix + Len(Version) /\ \A i \in 1..Len(p) : h[i] = p[i]
  BY <1>1, <1>2, ConcatFacts, Zenon
<1> HIDE DEF h
<1>5. e \in Seq(Nat) /\ Len(e) = Len(h) + Len(d) /\ \A i \in 1..Len(h) : e[i] = h[i]
  BY <1>1, <1>4, ConcatFacts, Zenon
<1>6. SubSeq(e, LenPrefix + Len(Version) + 1, Len(e)) = d
  BY <1>1, <1>4, ConcatParts
<1> HIDE DEF e
<1>7. SubSeq(e, 1, LenPrefix) = p
  <2>1. SubSeq(e, 1, LenPrefix) = [i \in 1..LenPrefix |-> e[i]] BY <1>1, <1>4, <1>5
  <2>2. \A i \in 1..LenPrefix : e[i] = p[i] BY <1>1, <1>2, <1>4, <1>5
  <2> QED BY <1>1, <1>2, <2>1, <2>2
<1>8. Encode(m) = e BY <1>3 DEF e, h
<1>9. FrameLen(e) = n BY <1>2, <1>7, Zenon DEF FrameLen
<1>10. Decoded(e) = {m}
  <2>1. Decoded(e) = {k \in Message : Payload[k] = d} BY <1>6, Zenon DEF Decoded
  <2> QED BY <1>1, <2>1 DEF d
<1>11. Len(e) = LenPrefix + n BY <1>1, <1>4, <1>5, <1>n
<1>12. ValidLen(n) BY <1>1, <1>n DEF ValidLen
<1> QED BY <1>1, <1>5, <1>8, <1>9, <1>10, <1>11, <1>12

\* What the codec guarantees for each item: its bytes, and a frame as long as its
\* prefix announces.
LEMMA BytesFacts ==
    ASSUME NEW x \in Item
    PROVE  /\ Bytes(x) \in Seq(Nat) /\ Len(Bytes(x)) \in Nat
           /\ LenPrefix \in Nat /\ LenPrefix > 0 /\ Len(Bytes(x)) >= LenPrefix
           /\ FrameLen(Bytes(x)) \in Nat
           /\ ValidLen(FrameLen(Bytes(x))) =>
                 Len(Bytes(x)) = LenPrefix + FrameLen(Bytes(x)) /\ FrameLen(Bytes(x)) > 0
<1>1. Len(Version) \in Nat /\ Len(Version) > 0 /\ LenPrefix \in Nat /\ LenPrefix > 0
  BY CodecAssumption
<1>2. Bytes(x) \in Seq(Nat)
  BY CodecAssumption, CodecRoundTrip DEF Bytes, Item
<1>3. ASSUME Len(Bytes(x)) >= LenPrefix PROVE FrameLen(Bytes(x)) \in Nat
  <2> DEFINE b == SubSeq(Bytes(x), 1, LenPrefix)
  <2>1. b \in Seq(Nat) BY <1>1, <1>2, <1>3
  <2> HIDE DEF b
  <2>2. FromLittleEndian(b) \in Nat BY <2>1, ValueFacts
  <2> QED BY <2>2 DEF FrameLen, b
<1>4. CASE x \in Message
  <2>1. Bytes(x) = Encode(x) BY <1>4 DEF Bytes
  <2>2. /\ Len(Encode(x)) = LenPrefix + FrameLen(Encode(x)) /\ FrameLen(Encode(x)) \in Nat
        /\ FrameLen(Encode(x)) >= Len(Version)
    BY <1>4, CodecRoundTrip DEF ValidLen
  <2> QED BY <1>1, <1>2, <2>1, <2>2
<1>5. CASE x \notin Message
  <2>1. x \in Bad /\ Bytes(x) = BadBytes[x] BY <1>5 DEF Item, Bytes
  <2>2. /\ Len(Bytes(x)) >= LenPrefix
        /\ ValidLen(FrameLen(Bytes(x))) => Len(Bytes(x)) = LenPrefix + FrameLen(Bytes(x))
    BY <2>1, CodecAssumption
  <2>3. FrameLen(Bytes(x)) \in Nat BY <1>3, <2>2
  <2>4. ValidLen(FrameLen(Bytes(x))) => FrameLen(Bytes(x)) > 0 BY <1>1, <2>3 DEF ValidLen
  <2> QED BY <1>1, <1>2, <2>2, <2>3, <2>4
<1> QED BY <1>4, <1>5

-----------------------------------------------------------------------------
\* What read(2) appends to buf: at least one byte when there is one, no more than is
\* wanted, and the bytes of the stream that follow those taken.
LEMMA FilledFacts ==
    ASSUME FrameInv, CanRead, InStep
    PROVE  /\ Filled \in Seq(Nat)
           /\ Len(Filled) \in Nat /\ Len(Filled) > Len(buf) /\ Len(Filled) <= want
           /\ taken + Len(Filled) - Len(buf) <= arrived
           /\ \A i \in 1..Len(Filled) : Filled[i] = stream[taken - Len(buf) + i]
<1> DEFINE room == want - Len(buf)
           n == IF arrived - taken < room THEN arrived - taken ELSE room
           part == SubSeq(stream, taken + 1, taken + n)
<1>1. /\ buf \in Seq(Nat) /\ stream \in Seq(Nat) /\ Len(buf) \in Nat /\ Len(stream) \in Nat
      /\ want \in Nat /\ taken \in Nat /\ arrived \in Nat
      /\ taken < arrived /\ arrived <= Len(stream) /\ Len(buf) < want
      /\ \A i \in 1..Len(buf) : buf[i] = stream[taken - Len(buf) + i]
  BY SMTT(30) DEF FrameInv, FrameTypeOK, Layout, CanRead, InStep
<1>2. n \in Nat /\ n > 0 /\ n <= want - Len(buf) /\ taken + n <= arrived
  BY <1>1
<1>3. Filled = buf \o part
  BY DEF Filled
<1> HIDE DEF n
<1>4. part \in Seq(Nat) /\ Len(part) = n /\ \A j \in 1..n : part[j] = stream[taken + j]
  BY <1>1, <1>2
<1> HIDE DEF part
<1>5. Filled \in Seq(Nat) /\ Len(Filled) = Len(buf) + n
  BY <1>1, <1>3, <1>4, ConcatFacts, Zenon
<1>6. ASSUME NEW i \in 1..Len(Filled) PROVE Filled[i] = stream[taken - Len(buf) + i]
  <2>1. CASE i <= Len(buf)
    <3>1. Filled[i] = buf[i] BY <2>1, <1>1, <1>3, <1>4, <1>5, ConcatFacts
    <3> QED BY <3>1, <2>1, <1>1
  <2>2. CASE i > Len(buf)
    <3>1. i - Len(buf) \in 1..n BY <2>2, <1>1, <1>2, <1>5
    <3>2. Filled[Len(buf) + (i - Len(buf))] = part[i - Len(buf)]
      BY <3>1, <1>1, <1>3, <1>4, ConcatFacts
    <3>4. Len(buf) + (i - Len(buf)) = i BY <1>1, <1>5
    <3>3. taken + (i - Len(buf)) = taken - Len(buf) + i BY <1>1, <1>5
    <3> QED BY <3>1, <3>2, <3>3, <3>4, <1>4
  <2> QED BY <2>1, <2>2, <1>1, <1>5
<1> QED BY <1>1, <1>2, <1>5, <1>6

\* What is wanted tells a length prefix from a frame, and whichever read(2) completes
\* belongs to a frame the peer has started.
LEMMA CurrentFrame ==
    ASSUME FrameInv, CanRead, InStep
    PROVE  /\ Index \in 1..Len(sent) /\ sent[Index] \in Item
           /\ starts[Index] \in Nat /\ taken = starts[Index] + Len(buf)
           /\ want = LenPrefix => Len(buf) < LenPrefix
           /\ want # LenPrefix =>
                 /\ Len(buf) >= LenPrefix
                 /\ want = Len(Bytes(sent[Index]))
                 /\ ValidLen(FrameLen(Bytes(sent[Index])))
<1>1. /\ sent \in Seq(Item) /\ starts \in Seq(Nat) /\ Len(starts) = Len(sent)
      /\ Len(sent) \in Nat /\ Len(got) \in Nat /\ Index \in Nat /\ Index > 0
      /\ Len(stream) \in Nat /\ Len(buf) \in Nat /\ taken \in Nat /\ arrived \in Nat
      /\ want \in Nat /\ taken < arrived /\ arrived <= Len(stream) /\ LenPrefix \in Nat
  BY CodecAssumption DEF FrameInv, FrameTypeOK, Layout, CanRead, Index
<1>2. /\ Index <= Len(sent) + 1
      /\ taken = Len(buf) + IF Index <= Len(sent) THEN starts[Index] ELSE Len(stream)
      /\ Len(buf) < want
      /\ IF Len(buf) < LenPrefix
         THEN want = LenPrefix
         ELSE /\ Index <= Len(sent)
              /\ want = Len(Bytes(sent[Index]))
              /\ ValidLen(FrameLen(Bytes(sent[Index])))
  BY DEF InStep
<1>3. Index <= Len(sent)
  BY <1>1, <1>2
<1>4. sent[Index] \in Item /\ starts[Index] \in Nat /\ taken = starts[Index] + Len(buf)
  <2>1. Index \in 1..Len(sent) /\ Index \in 1..Len(starts) BY ONLY <1>1, <1>3
  <2>2. sent[Index] \in Item BY ONLY <1>1, <2>1
  <2>3. starts[Index] \in Nat BY ONLY <1>1, <2>1
  <2>4. taken = starts[Index] + Len(buf) BY ONLY <1>1, <1>2, <1>3, <2>3
  <2> QED BY <2>2, <2>3, <2>4
<1>5. want = LenPrefix => Len(buf) < LenPrefix
  BY <1>1, <1>2
<1>6. want # LenPrefix => Len(buf) >= LenPrefix
  BY <1>1, <1>2
<1> QED BY <1>1, <1>2, <1>3, <1>4, <1>5, <1>6, SMTT(30)

\* The bytes read(2) has filled in are those of the current frame.
LEMMA FilledIsFrame ==
    ASSUME FrameInv, CanRead, InStep
    PROVE  \A i \in 1..Len(Filled) :
              i <= Len(Bytes(sent[Index])) => Filled[i] = Bytes(sent[Index])[i]
<1> SUFFICES ASSUME NEW i \in 1..Len(Filled), i <= Len(Bytes(sent[Index]))
             PROVE  Filled[i] = Bytes(sent[Index])[i]
  OBVIOUS
<1>1. /\ Index \in 1..Len(sent) /\ sent[Index] \in Item /\ starts[Index] \in Nat
      /\ taken = starts[Index] + Len(buf)
  BY CurrentFrame
<1>2. Filled[i] = stream[taken - Len(buf) + i] /\ Len(Filled) \in Nat
  BY FilledFacts
<1>3. Len(buf) \in Nat /\ Len(Bytes(sent[Index])) \in Nat
  <2>1. Len(Bytes(sent[Index])) \in Nat BY <1>1, BytesFacts
  <2>2. buf \in Seq(Nat) BY DEF FrameInv, FrameTypeOK
  <2> QED BY <2>1, <2>2
<1>4. taken - Len(buf) + i = starts[Index] + i
  BY <1>1, <1>2, <1>3
<1>5. i \in 1..Len(Bytes(sent[Index]))
  BY <1>2, <1>3
<1>6. stream[starts[Index] + i] = Bytes(sent[Index])[i]
  BY <1>1, <1>5 DEF FrameInv, Layout
<1> QED BY <1>2, <1>4, <1>6

\* A complete prefix announces the length of the current frame.
LEMMA PrefixAnnounces ==
    ASSUME FrameInv, CanRead, InStep, Len(Filled) = want, want = LenPrefix
    PROVE  FrameLen(Filled) = FrameLen(Bytes(sent[Index]))
<1>1. sent[Index] \in Item BY CurrentFrame
<1>2. /\ Bytes(sent[Index]) \in Seq(Nat) /\ Len(Bytes(sent[Index])) \in Nat
      /\ LenPrefix \in Nat /\ Len(Bytes(sent[Index])) >= LenPrefix
  BY <1>1, BytesFacts
<1>3. Filled \in Seq(Nat) /\ Len(Filled) = LenPrefix
  BY FilledFacts
<1>4. \A i \in 1..LenPrefix : Filled[i] = Bytes(sent[Index])[i]
  BY <1>2, <1>3, FilledIsFrame
<1> DEFINE a == SubSeq(Filled, 1, LenPrefix)
           b == SubSeq(Bytes(sent[Index]), 1, LenPrefix)
<1>5. /\ a \in Seq(Nat) /\ Len(a) = LenPrefix /\ b \in Seq(Nat) /\ Len(b) = LenPrefix
      /\ \A i \in 1..LenPrefix : a[i] = Filled[i] /\ b[i] = Bytes(sent[Index])[i]
  BY <1>2, <1>3, SMTT(30)
<1>6. FrameLen(Filled) = FromLittleEndian(a) /\ FrameLen(Bytes(sent[Index])) = FromLittleEndian(b)
  BY DEF FrameLen
<1> HIDE DEF a, b
<1>7. a = b
  BY <1>4, <1>5, SMTT(30)
<1> QED BY <1>6, <1>7

\* A complete frame is the current frame, byte for byte.
LEMMA FrameIsWhole ==
    ASSUME FrameInv, CanRead, InStep, Len(Filled) = want, want # LenPrefix
    PROVE  Filled = Bytes(sent[Index])
<1>1. sent[Index] \in Item /\ want = Len(Bytes(sent[Index])) BY CurrentFrame
<1>2. Bytes(sent[Index]) \in Seq(Nat) /\ Len(Bytes(sent[Index])) \in Nat BY <1>1, BytesFacts
<1>3. Filled \in Seq(Nat) /\ Len(Filled) = Len(Bytes(sent[Index])) BY <1>1, FilledFacts
<1>4. \A i \in 1..Len(Filled) : Filled[i] = Bytes(sent[Index])[i]
  BY <1>2, <1>3, FilledIsFrame
<1> QED BY <1>2, <1>3, <1>4, SMTT(30)

\* The accumulator starts in step.
LEMMA InitFrame == FreshStream => FrameInv
<1> SUFFICES ASSUME FreshStream PROVE FrameInv
  OBVIOUS
<1>1. LenPrefix \in Nat /\ LenPrefix > 0 BY CodecAssumption
<1>2. FrameTypeOK
  <2>1. /\ sent \in Seq(Item) /\ starts \in Seq(Nat) /\ stream \in Seq(Nat)
        /\ buf \in Seq(Nat) /\ got \in Seq(Message)
    BY DEF FreshStream
  <2>2. arrived \in Nat /\ taken \in Nat /\ want \in Nat BY <1>1 DEF FreshStream
  <2>3. open \in BOOLEAN /\ failed \in BOOLEAN BY Zenon DEF FreshStream
  <2> QED BY <2>1, <2>2, <2>3 DEF FrameTypeOK
<1>3. Layout BY DEF FreshStream, Layout
<1>4. InStep BY <1>1 DEF FreshStream, InStep, Index
<1> QED BY <1>2, <1>3, <1>4 DEF FrameInv

\* Every step keeps the types.
LEMMA NextFrameType == FrameInv /\ [FrameNext]_frameVars => FrameTypeOK'
<1> SUFFICES ASSUME FrameInv, [FrameNext]_frameVars PROVE FrameTypeOK'
  OBVIOUS
<1>0. FrameTypeOK /\ LenPrefix \in Nat /\ LenPrefix > 0
  BY CodecAssumption DEF FrameInv
<1> USE <1>0 DEF FrameTypeOK
<1>1. ASSUME NEW x \in Item, Send(x) PROVE FrameTypeOK'
  <2>1. Bytes(x) \in Seq(Nat) BY BytesFacts
  <2>2. stream' \in Seq(Nat) BY <1>1, <2>1, ConcatFacts DEF Send
  <2>3. Len(stream) \in Nat OBVIOUS
  <2>4. sent' \in Seq(Item) /\ starts' \in Seq(Nat) BY <1>1, <2>3 DEF Send
  <2> QED BY <1>1, <2>2, <2>4 DEF Send, accVars
<1>2. CASE Arrive
  <2>1. arrived' \in Nat BY <1>2 DEF Arrive
  <2> QED BY <1>2, <2>1 DEF Arrive, peerVars, accVars
<1>3. CASE PeerClose BY <1>3, Zenon DEF PeerClose, accVars
<1>4. CASE Reconnect
  <2>1. /\ sent' \in Seq(Item) /\ starts' \in Seq(Nat) /\ stream' \in Seq(Nat)
        /\ buf' \in Seq(Nat) /\ got' \in Seq(Message)
    BY <1>4 DEF Reconnect, Reset
  <2>2. arrived' \in Nat /\ taken' \in Nat /\ want' \in Nat
    BY <1>4 DEF Reconnect, Reset
  <2>3. open' \in BOOLEAN /\ failed' \in BOOLEAN BY <1>4, Zenon DEF Reconnect
  <2> QED BY <2>1, <2>2, <2>3
<1>5. CASE ReadPart
  <2>1. CanRead /\ InStep BY <1>5 DEF ReadPart, CanRead, FrameInv
  <2>2. Filled \in Seq(Nat) /\ Len(Filled) \in Nat /\ Len(Filled) > Len(buf)
    BY <2>1, FilledFacts
  <2>3. taken' \in Nat BY <1>5, <2>2 DEF ReadPart, Take
  <2> QED BY <1>5, <2>2, <2>3 DEF ReadPart, peerVars
<1>6. CASE ReadLength
  <2>1. CanRead /\ InStep BY <1>6 DEF ReadLength, CanRead, FrameInv
  <2>2. Filled \in Seq(Nat) /\ Len(Filled) \in Nat /\ Len(Filled) > Len(buf)
    BY <2>1, FilledFacts
  <2>3. taken' \in Nat BY <1>6, <2>2 DEF ReadLength, Take
  <2>4. sent[Index] \in Item BY <2>1, CurrentFrame
  <2>5. FrameLen(Filled) \in Nat
    BY <1>6, <2>1, <2>4, PrefixAnnounces, BytesFacts DEF ReadLength
  <2>6. buf' \in Seq(Nat) /\ want' \in Nat /\ failed' \in BOOLEAN
    <3>1. CASE ValidLen(FrameLen(Filled))
      <4>1. buf' = Filled /\ want' = LenPrefix + FrameLen(Filled) /\ failed' = failed
        BY <1>6, <3>1 DEF ReadLength
      <4> QED BY <4>1, <2>2, <2>5
    <3>2. CASE ~ValidLen(FrameLen(Filled))
      <4>1. buf' = <<>> /\ want' = LenPrefix /\ failed' = TRUE
        BY <1>6, <3>2 DEF ReadLength, Reset
      <4> QED BY <4>1
    <3> QED BY <3>1, <3>2
  <2> QED BY <1>6, <2>3, <2>6 DEF ReadLength, peerVars
<1>7. CASE ReadFrame
  <2>1. CanRead /\ InStep BY <1>7 DEF ReadFrame, CanRead, FrameInv
  <2>2. Len(Filled) \in Nat /\ Len(Filled) > Len(buf) BY <2>1, FilledFacts
  <2>3. taken' \in Nat BY <1>7, <2>2 DEF ReadFrame, Take
  <2>4. got' \in Seq(Message) /\ failed' \in BOOLEAN
    <3>1. CASE Decoded(Filled) # {}
      <4>1. PICK m \in Decoded(Filled) : got' = Append(got, m) /\ failed' = failed
        BY <1>7, <3>1 DEF ReadFrame
      <4>2. m \in Message BY DEF Decoded
      <4> QED BY <4>1, <4>2
    <3>2. CASE Decoded(Filled) = {}
      <4>1. got' = got /\ failed' = TRUE BY <1>7, <3>2 DEF ReadFrame
      <4> QED BY <4>1
    <3> QED BY <3>1, <3>2
  <2> QED BY <1>7, <2>3, <2>4 DEF ReadFrame, Reset, peerVars
<1>8. CASE ReadTimedOut BY <1>8 DEF ReadTimedOut, frameVars
<1>9. CASE ReadEof BY <1>9 DEF ReadEof, peerVars
<1>10. CASE UNCHANGED frameVars BY <1>10 DEF frameVars
<1> HIDE DEF FrameTypeOK
<1> QED BY <1>1, <1>2, <1>3, <1>4, <1>5, <1>6, <1>7, <1>8, <1>9, <1>10 DEF FrameNext

\* A new frame is laid out after the last.
LEMMA SendLayout ==
    ASSUME FrameInv, NEW x \in Item, Send(x)
    PROVE  Layout'
<1>1. /\ sent \in Seq(Item) /\ starts \in Seq(Nat) /\ stream \in Seq(Nat)
      /\ Len(sent) \in Nat /\ Len(stream) \in Nat /\ Len(starts) = Len(sent)
      /\ taken \in Nat /\ arrived \in Nat /\ taken <= arrived /\ arrived <= Len(stream)
  BY DEF FrameInv, FrameTypeOK, Layout
<1>2. /\ sent' = Append(sent, x) /\ starts' = Append(starts, Len(stream))
      /\ stream' = stream \o Bytes(x) /\ taken' = taken /\ arrived' = arrived
  BY DEF Send, accVars
<1>3. Bytes(x) \in Seq(Nat) /\ Len(Bytes(x)) \in Nat BY BytesFacts
<1>4. /\ Len(sent') = Len(sent) + 1 /\ Len(starts') = Len(sent) + 1
      /\ sent'[Len(sent) + 1] = x /\ starts'[Len(sent) + 1] = Len(stream)
      /\ \A k \in 1..Len(sent) : sent'[k] = sent[k] /\ starts'[k] = starts[k]
  BY <1>1, <1>2
<1>5. /\ Len(stream') = Len(stream) + Len(Bytes(x))
      /\ \A i \in 1..Len(stream) : stream'[i] = stream[i]
      /\ \A i \in 1..Len(Bytes(x)) : stream'[Len(stream) + i] = Bytes(x)[i]
  BY <1>1, <1>2, <1>3, ConcatFacts
<1>6. ASSUME NEW k \in 1..Len(sent')
      PROVE  /\ starts'[k] + Len(Bytes(sent'[k])) =
                   IF k < Len(sent') THEN starts'[k + 1] ELSE Len(stream')
             /\ starts'[k] + Len(Bytes(sent'[k])) <= Len(stream')
             /\ \A i \in 1..Len(Bytes(sent'[k])) : stream'[starts'[k] + i] = Bytes(sent'[k])[i]
  <2>1. CASE k = Len(sent) + 1
    BY <2>1, <1>1, <1>3, <1>4, <1>5
  <2>2. CASE k <= Len(sent)
    <3>1. k \in 1..Len(sent) /\ sent'[k] = sent[k] /\ starts'[k] = starts[k]
      BY <2>2, <1>1, <1>4
    <3>2. /\ starts[k] + Len(Bytes(sent[k])) =
                IF k < Len(sent) THEN starts[k + 1] ELSE Len(stream)
          /\ starts[k] + Len(Bytes(sent[k])) <= Len(stream)
          /\ \A i \in 1..Len(Bytes(sent[k])) : stream[starts[k] + i] = Bytes(sent[k])[i]
      BY <3>1 DEF FrameInv, Layout
    <3>3. starts[k] \in Nat /\ sent[k] \in Item BY <3>1, <1>1
    <3>4. Len(Bytes(sent[k])) \in Nat BY <3>3, BytesFacts
    <3>5. starts'[k + 1] = IF k < Len(sent) THEN starts[k + 1] ELSE Len(stream)
      BY <3>1, <1>1, <1>4, SMTT(30)
    <3>6. ASSUME NEW i \in 1..Len(Bytes(sent[k]))
          PROVE  stream'[starts[k] + i] = Bytes(sent[k])[i]
      <4>1. i <= Len(Bytes(sent[k])) /\ i \in Nat /\ i > 0 BY <3>4
      <4>2. starts[k] + Len(Bytes(sent[k])) <= Len(stream) BY <3>2
      <4>4. starts[k] \in Nat /\ Len(stream) \in Nat BY <3>3, <1>1
      <4> HIDE <3>2, <3>3
      <4>3. starts[k] + i \in 1..Len(stream) BY <4>1, <4>2, <4>4, <3>4
      <4> QED BY <4>3, <3>2, <1>5
    <3>7. k < Len(sent') BY <3>1, <1>1, <1>4
    <3>8. starts[k] + Len(Bytes(sent[k])) <= Len(stream') BY <3>2, <3>3, <3>4, <1>1, <1>3, <1>5
    <3> QED BY <3>1, <3>2, <3>5, <3>6, <3>7, <3>8
  <2> QED BY <2>1, <2>2, <1>1, <1>4
<1>7. taken' <= arrived' /\ arrived' <= Len(stream') BY <1>1, <1>2, <1>3, <1>5
<1> QED BY <1>4, <1>6, <1>7 DEF Layout

\* Every step keeps the frames laid out one after the other.
LEMMA NextLayout == FrameInv /\ [FrameNext]_frameVars => Layout'
<1> SUFFICES ASSUME FrameInv, [FrameNext]_frameVars PROVE Layout'
  OBVIOUS
<1>0. /\ Layout /\ taken \in Nat /\ arrived \in Nat /\ Len(stream) \in Nat
      /\ Len(buf) \in Nat
  BY DEF FrameInv, FrameTypeOK
<1>a. ASSUME UNCHANGED <<sent, starts, stream>>, taken' <= arrived', arrived' <= Len(stream)
      PROVE  Layout'
  BY <1>0, <1>a DEF Layout
<1>1. ASSUME NEW x \in Item, Send(x) PROVE Layout'
  BY <1>1, SendLayout
<1>2. CASE Arrive
  <2>1. PICK n \in 1..(Len(stream) - arrived) : arrived' = arrived + n
    BY <1>2 DEF Arrive
  <2>2. taken <= arrived BY <1>0 DEF Layout
  <2>3. UNCHANGED <<sent, starts, stream, taken>> BY <1>2 DEF Arrive, peerVars, accVars
  <2>4. taken' <= arrived' /\ arrived' <= Len(stream) BY <2>1, <2>2, <2>3, <1>0
  <2> QED BY <2>3, <2>4, <1>a
<1>3. CASE PeerClose BY <1>3, <1>0 DEF PeerClose, accVars, Layout
<1>4. CASE Reconnect
  <2>1. sent' = <<>> /\ starts' = <<>> /\ stream' = <<>> /\ taken' = 0 /\ arrived' = 0
    BY <1>4 DEF Reconnect
  <2> QED BY <2>1 DEF Layout
<1>5. CASE ReadPart \/ ReadLength \/ ReadFrame
  <2>1. CanRead /\ InStep BY <1>5 DEF ReadPart, ReadLength, ReadFrame, CanRead, FrameInv
  <2>2. /\ UNCHANGED <<sent, starts, stream, arrived>>
        /\ taken' = taken + Len(Filled) - Len(buf)
    BY <1>5 DEF ReadPart, ReadLength, ReadFrame, Take, peerVars
  <2>3. taken' <= arrived' BY <2>1, <2>2, FilledFacts
  <2>4. arrived' <= Len(stream) BY <2>2, <1>0 DEF Layout
  <2> QED BY <2>2, <2>3, <2>4, <1>a
<1>6. CASE ReadTimedOut \/ ReadEof \/ UNCHANGED frameVars
  <2>1. UNCHANGED <<sent, starts, stream, arrived, taken>>
    BY <1>6 DEF ReadTimedOut, ReadEof, frameVars, peerVars
  <2> QED BY <2>1, <1>0 DEF Layout
<1> QED BY <1>1, <1>2, <1>3, <1>4, <1>5, <1>6 DEF FrameNext

\* A frame the peer adds behind the one being read does not disturb it.
LEMMA SendInStep ==
    ASSUME FrameInv, InStep, NEW x \in Item, Send(x)
    PROVE  InStep'
<1>1. /\ sent \in Seq(Item) /\ starts \in Seq(Nat) /\ stream \in Seq(Nat)
      /\ Len(sent) \in Nat /\ Len(stream) \in Nat /\ Len(starts) = Len(sent)
      /\ taken \in Nat /\ taken <= Len(stream) /\ Len(buf) \in Nat
      /\ Index \in Nat /\ Index > 0
  BY DEF FrameInv, FrameTypeOK, Layout, Index
<1>2. /\ sent' = Append(sent, x) /\ starts' = Append(starts, Len(stream))
      /\ stream' = stream \o Bytes(x)
      /\ taken' = taken /\ buf' = buf /\ want' = want /\ Index' = Index
  BY DEF Send, accVars, Index
<1>3. Bytes(x) \in Seq(Nat) BY BytesFacts
<1>4. /\ Len(sent') = Len(sent) + 1
      /\ starts'[Len(sent) + 1] = Len(stream)
      /\ \A k \in 1..Len(sent) : sent'[k] = sent[k] /\ starts'[k] = starts[k]
  BY <1>1, <1>2
<1>5. \A i \in 1..Len(stream) : stream'[i] = stream[i]
  BY <1>1, <1>2, <1>3, ConcatFacts
<1>6. /\ Index <= Len(sent) + 1
      /\ taken = Len(buf) + IF Index <= Len(sent) THEN starts[Index] ELSE Len(stream)
      /\ Len(buf) < want
      /\ \A i \in 1..Len(buf) : buf[i] = stream[taken - Len(buf) + i]
      /\ IF Len(buf) < LenPrefix
         THEN want = LenPrefix
         ELSE /\ Index <= Len(sent)
              /\ want = Len(Bytes(sent[Index]))
              /\ ValidLen(FrameLen(Bytes(sent[Index])))
  BY DEF InStep
<1>7. starts'[Index] = IF Index <= Len(sent) THEN starts[Index] ELSE Len(stream)
  BY <1>1, <1>4, <1>6
<1>8. Index <= Len(sent) => sent'[Index] = sent[Index] BY <1>1, <1>4
<1>9. taken - Len(buf) \in Nat
  <2>1. Index <= Len(sent) => starts[Index] \in Nat BY <1>1
  <2> QED BY <2>1, <1>1, <1>6
<1>10. ASSUME NEW i \in 1..Len(buf) PROVE buf[i] = stream'[taken - Len(buf) + i]
  <2>1. taken - Len(buf) + i \in 1..Len(stream) BY <1>1, <1>9
  <2> QED BY <2>1, <1>5, <1>6, Zenon
<1>11. Index <= Len(sent') BY <1>1, <1>4, <1>6
<1>12. taken = Len(buf) + starts'[Index] BY <1>6, <1>7
<1>13. Index <= Len(sent') + 1 BY <1>1, <1>4, <1>6
<1> QED BY <1>2, <1>6, <1>8, <1>10, <1>11, <1>12, <1>13, Zenon DEF InStep

\* What is taken grows as the buffer does: where the frame starts does not move.
LEMMA Advance ==
    ASSUME NEW t \in Nat, NEW s \in Nat, NEW b \in Nat, NEW f \in Nat, NEW u,
           t = s + b, u = t + f - b
    PROVE  u = f + s /\ u - f = t - b
  OBVIOUS

\* More bytes of the current prefix or frame.
LEMMA ReadPartInStep ==
    ASSUME FrameInv, InStep, ReadPart
    PROVE  InStep'
<1>1. CanRead BY DEF ReadPart
<1>2. /\ UNCHANGED <<sent, starts, stream, want, got>> /\ buf' = Filled
      /\ taken' = taken + Len(Filled) - Len(buf) /\ Len(Filled) < want
  BY DEF ReadPart, Take, peerVars
<1>3. /\ Index \in 1..Len(sent) /\ starts[Index] \in Nat /\ taken = starts[Index] + Len(buf)
      /\ want = LenPrefix => Len(buf) < LenPrefix
      /\ want # LenPrefix =>
            /\ Len(buf) >= LenPrefix
            /\ want = Len(Bytes(sent[Index]))
            /\ ValidLen(FrameLen(Bytes(sent[Index])))
  BY <1>1, CurrentFrame
<1>4. /\ Len(Filled) \in Nat /\ Len(Filled) > Len(buf)
      /\ \A i \in 1..Len(Filled) : Filled[i] = stream[taken - Len(buf) + i]
  BY <1>1, FilledFacts
<1>5. /\ Len(buf) \in Nat /\ want \in Nat /\ taken \in Nat /\ Len(sent) \in Nat
      /\ LenPrefix \in Nat
  BY CodecAssumption DEF FrameInv, FrameTypeOK
<1>6. Index' = Index BY <1>2 DEF Index
<1>7. taken' = Len(buf') + starts[Index] /\ taken' - Len(buf') = taken - Len(buf)
  <2>1. taken' = taken + Len(buf') - Len(buf) BY <1>2
  <2>2. Len(buf') \in Nat BY <1>2, <1>4
  <2> QED BY <2>1, <2>2, <1>3, <1>5, Advance, SMTT(30)
<1>8. Index <= Len(sent) /\ Index <= Len(sent) + 1 BY <1>3, <1>5
<1>9. IF Len(buf') < LenPrefix
      THEN want = LenPrefix
      ELSE want = Len(Bytes(sent[Index])) /\ ValidLen(FrameLen(Bytes(sent[Index])))
  BY <1>2, <1>3, <1>4, <1>5
<1>10. \A i \in 1..Len(buf') : buf'[i] = stream[taken' - Len(buf') + i]
  BY <1>2, <1>4, <1>7
<1>11. Len(buf') < want BY <1>2
<1> QED BY <1>2, <1>6, <1>7, <1>8, <1>9, <1>10, <1>11 DEF InStep

\* A complete prefix, if it is not refused.
LEMMA ReadLengthInStep ==
    ASSUME FrameInv, InStep, ReadLength, ~failed'
    PROVE  InStep'
<1>1. CanRead /\ Len(Filled) = want /\ want = LenPrefix BY DEF ReadLength
<1>2. ValidLen(FrameLen(Filled)) BY DEF ReadLength
<1>3. /\ UNCHANGED <<sent, starts, stream, got>> /\ buf' = Filled
      /\ want' = LenPrefix + FrameLen(Filled)
      /\ taken' = taken + Len(Filled) - Len(buf)
  BY <1>2 DEF ReadLength, Take, peerVars
<1>4. /\ Index \in 1..Len(sent) /\ sent[Index] \in Item /\ starts[Index] \in Nat
      /\ taken = starts[Index] + Len(buf)
  BY <1>1, CurrentFrame
<1>5. \A i \in 1..Len(Filled) : Filled[i] = stream[taken - Len(buf) + i]
  BY <1>1, FilledFacts
<1>6. FrameLen(Filled) = FrameLen(Bytes(sent[Index])) BY <1>1, PrefixAnnounces
<1>7. /\ LenPrefix \in Nat /\ FrameLen(Filled) \in Nat /\ FrameLen(Filled) > 0
      /\ Len(Bytes(sent[Index])) = LenPrefix + FrameLen(Filled)
  BY <1>2, <1>4, <1>6, BytesFacts
<1>8. Len(buf) \in Nat /\ taken \in Nat /\ Len(sent) \in Nat
  BY DEF FrameInv, FrameTypeOK
<1>9. Index' = Index BY <1>3 DEF Index
<1>10. /\ Len(buf') = LenPrefix /\ Len(buf') < want' /\ ~(Len(buf') < LenPrefix)
       /\ want' = Len(Bytes(sent[Index])) /\ ValidLen(FrameLen(Bytes(sent[Index])))
  BY <1>1, <1>2, <1>3, <1>6, <1>7
<1>11. taken' = Len(buf') + starts[Index] /\ taken' - Len(buf') = taken - Len(buf)
  <2>1. taken' = taken + Len(buf') - Len(buf) BY <1>3
  <2>2. Len(buf') \in Nat BY <1>7, <1>10
  <2> QED BY <2>1, <2>2, <1>4, <1>8, Advance, SMTT(30)
<1>12. \A i \in 1..Len(buf') : buf'[i] = stream[taken' - Len(buf') + i]
  BY <1>3, <1>5, <1>11
<1>13. Index <= Len(sent) /\ Index <= Len(sent) + 1 BY <1>4, <1>8
<1> QED BY <1>3, <1>9, <1>10, <1>11, <1>12, <1>13 DEF InStep

\* A complete frame decodes to the message that was written, and to nothing else.
LEMMA FrameDecodes ==
    ASSUME FrameInv, InStep, ReadFrame
    PROVE  /\ Index \in 1..Len(sent) /\ taken' = starts[Index] + Len(Bytes(sent[Index]))
           /\ sent[Index] \in Message => got' = Append(got, sent[Index]) /\ failed' = failed
           /\ sent[Index] \notin Message => got' = got /\ failed' = TRUE
<1>1. CanRead /\ Len(Filled) = want /\ want # LenPrefix BY DEF ReadFrame
<1>2. Filled = Bytes(sent[Index]) BY <1>1, FrameIsWhole
<1>3. /\ Index \in 1..Len(sent) /\ sent[Index] \in Item /\ starts[Index] \in Nat
      /\ taken = starts[Index] + Len(buf)
      /\ ValidLen(FrameLen(Bytes(sent[Index])))
  BY <1>1, CurrentFrame
<1>4. taken' = starts[Index] + Len(Bytes(sent[Index]))
  <2>1. taken' = taken + Len(Bytes(sent[Index])) - Len(buf) BY <1>2 DEF ReadFrame, Take
  <2>2. Len(Bytes(sent[Index])) \in Nat BY <1>3, BytesFacts
  <2>3. Len(buf) \in Nat BY DEF FrameInv, FrameTypeOK
  <2> QED BY <2>1, <2>2, <2>3, <1>3
<1>5. ASSUME sent[Index] \in Message
      PROVE  got' = Append(got, sent[Index]) /\ failed' = failed
  <2>1. Decoded(Filled) = {sent[Index]} BY <1>2, <1>5, CodecRoundTrip DEF Bytes
  <2>2. \E m \in Decoded(Filled) : got' = Append(got, m) /\ failed' = failed
    BY <2>1 DEF ReadFrame
  <2> QED BY <2>1, <2>2
<1>6. ASSUME sent[Index] \notin Message PROVE got' = got /\ failed' = TRUE
  <2>1. sent[Index] \in Bad BY <1>3, <1>6 DEF Item
  <2>2. Bytes(sent[Index]) = BadBytes[sent[Index]] BY <1>6 DEF Bytes
  <2>3. Decoded(Bytes(sent[Index])) = {} BY <2>1, <2>2, <1>3, CodecAssumption
  <2>4. Decoded(Filled) = {} BY <2>3, <1>2
  <2> QED BY <2>4 DEF ReadFrame
<1> QED BY <1>3, <1>4, <1>5, <1>6, Zenon

\* A complete frame, if it decodes.
LEMMA ReadFrameInStep ==
    ASSUME FrameInv, InStep, ReadFrame, ~failed'
    PROVE  InStep'
<1>1. /\ Index \in 1..Len(sent) /\ taken' = starts[Index] + Len(Bytes(sent[Index]))
      /\ got' = Append(got, sent[Index])
  BY FrameDecodes, Zenon
<1>2. /\ UNCHANGED <<sent, starts, stream>> /\ buf' = <<>> /\ want' = LenPrefix
  BY DEF ReadFrame, Reset, peerVars
<1>3. Len(got) \in Nat /\ Len(sent) \in Nat /\ LenPrefix \in Nat /\ LenPrefix > 0
  BY CodecAssumption DEF FrameInv, FrameTypeOK
<1>4. Index' = Index + 1
  <2>1. got \in Seq(Message) BY DEF FrameInv, FrameTypeOK
  <2>2. sent[Index] \in Message BY FrameDecodes, Zenon
  <2>3. Len(got') = Len(got) + 1 BY <2>1, <2>2, <1>1
  <2> QED BY <2>3, <1>3 DEF Index
<1>5. taken' = IF Index < Len(sent) THEN starts[Index + 1] ELSE Len(stream)
  BY <1>1 DEF FrameInv, Layout
<1>6. Index \in Nat /\ Index <= Len(sent) BY <1>1, <1>3
<1>7. Len(buf') = 0 BY <1>2
<1>8. taken' \in Nat BY NextFrameType DEF FrameNext, FrameTypeOK
<1>9. taken' = Len(buf') + IF Index' <= Len(sent) THEN starts[Index'] ELSE Len(stream)
  <2>1. Index' <= Len(sent) <=> Index < Len(sent) BY <1>3, <1>4, <1>6
  <2>2. taken' = IF Index' <= Len(sent) THEN starts[Index'] ELSE Len(stream)
    BY <2>1, <1>4, <1>5
  <2>3. \A n \in Nat : n = 0 + n OBVIOUS
  <2> QED BY <2>2, <2>3, <1>7, <1>8
<1>10. Index' <= Len(sent) + 1 BY <1>3, <1>4, <1>6
<1>11. Len(buf') < want' /\ Len(buf') < LenPrefix BY <1>2, <1>3, <1>7
<1>12. \A i \in 1..Len(buf') : buf'[i] = stream[taken' - Len(buf') + i] BY <1>7
<1> QED BY <1>2, <1>9, <1>10, <1>11, <1>12 DEF InStep

\* Every step that does not fail keeps the accumulator in step.
LEMMA NextInStep == FrameInv /\ [FrameNext]_frameVars => (~failed' => InStep')
<1> SUFFICES ASSUME FrameInv, [FrameNext]_frameVars, ~failed' PROVE InStep'
  OBVIOUS
<1>1. CASE Reconnect
  <2>1. /\ sent' = <<>> /\ starts' = <<>> /\ stream' = <<>> /\ taken' = 0 /\ got' = <<>>
        /\ buf' = <<>> /\ want' = LenPrefix
    BY <1>1 DEF Reconnect, Reset
  <2>2. LenPrefix \in Nat /\ LenPrefix > 0 BY CodecAssumption
  <2>3. Index' = 1 BY <2>1 DEF Index
  <2> QED BY <2>1, <2>2, <2>3 DEF InStep
<1>2. CASE ~Reconnect
  <2>1. InStep
    <3>1. ~failed
      BY <1>2 DEF FrameNext, Send, Arrive, PeerClose, ReadPart, ReadLength, ReadFrame,
                  ReadTimedOut, ReadEof, CanRead, accVars, frameVars
    <3> QED BY <3>1 DEF FrameInv
  <2>2. ASSUME NEW x \in Item, Send(x) PROVE InStep' BY <2>1, <2>2, SendInStep, SMTT(30)
  <2>3. CASE Arrive \/ PeerClose \/ ReadTimedOut \/ UNCHANGED frameVars
    <3>1. UNCHANGED <<sent, starts, stream, taken, buf, want, got>>
      BY <2>3 DEF Arrive, PeerClose, ReadTimedOut, peerVars, accVars, frameVars
    <3> QED BY <3>1, <2>1 DEF InStep, Index
  <2>4. CASE ReadEof BY <2>4 DEF ReadEof
  <2>5. CASE ReadPart BY <2>1, <2>5, ReadPartInStep
  <2>6. CASE ReadLength BY <2>1, <2>6, ReadLengthInStep
  <2>7. CASE ReadFrame BY <2>1, <2>7, ReadFrameInStep
  <2> QED BY <1>2, <2>2, <2>3, <2>4, <2>5, <2>6, <2>7 DEF FrameNext
<1> QED BY <1>1, <1>2

\* Every step keeps the inductive invariant.
LEMMA NextFrameInv == FrameInv /\ [FrameNext]_frameVars => FrameInv'
  BY NextFrameType, NextLayout, NextInStep DEF FrameInv

\* poll_read stays in step with the frames of its peer for every length of prefix,
\* version, payload and connection, and across partial reads and timeouts.
THEOREM FrameInvariance == FrameSpec => []FrameInv
<1>1. FreshStream => FrameInv BY InitFrame
<1>2. FrameInv /\ [FrameNext]_frameVars => FrameInv' BY NextFrameInv
<1> QED BY <1>1, <1>2, PTL DEF FrameSpec

\* Every step of the reader is a step of FrameStream, or hidden from it.
LEMMA StepImplements ==
    FrameInv /\ [FrameNext]_frameVars => [FS!Next]_<<sent, got>>
<1> SUFFICES ASSUME FrameInv, [FrameNext]_frameVars PROVE [FS!Next]_<<sent, got>>
  OBVIOUS
<1>1. ASSUME NEW x \in Item, Send(x) PROVE FS!Send
  BY <1>1 DEF Send, FS!Send, Item, accVars
<1>2. CASE Reconnect BY <1>2 DEF Reconnect, FS!Reconnect, FS!Next
<1>3. CASE ReadFrame
  <2>1. InStep BY <1>3 DEF ReadFrame, CanRead, FrameInv
  <2>2. UNCHANGED sent BY <1>3 DEF ReadFrame, peerVars
  <2>3. CASE sent[Index] \notin Message
    BY <2>1, <2>2, <2>3, <1>3, FrameDecodes
  <2>4. CASE sent[Index] \in Message
    <3>1. got' = Append(got, sent[Index]) /\ Index \in 1..Len(sent)
      BY <2>1, <2>4, <1>3, FrameDecodes
    <3>2. Len(got) \in Nat /\ Len(sent) \in Nat BY DEF FrameInv, FrameTypeOK
    <3>3. Len(got) < Len(sent) BY <3>1, <3>2 DEF Index
    <3>4. FS!Receive BY <2>2, <2>4, <3>1, <3>3 DEF FS!Receive, Index
    <3> QED BY <3>4 DEF FS!Next
  <2> QED BY <2>3, <2>4
<1>4. CASE Arrive \/ PeerClose \/ ReadPart \/ ReadLength \/ ReadTimedOut \/ ReadEof
           \/ UNCHANGED frameVars
  BY <1>4 DEF Arrive, PeerClose, ReadPart, ReadLength, ReadTimedOut, ReadEof, accVars,
              peerVars, frameVars
<1> QED BY <1>1, <1>2, <1>3, <1>4 DEF FrameNext, FS!Next

\* The accumulator implements FrameStream: every message comes out once, whole and in
\* order, however its bytes arrive.
THEOREM ReaderImplements == FrameSpec => ImplementsFrameStream
<1>1. FreshStream => FS!Init BY DEF FreshStream, FS!Init
<1>2. FrameInv /\ [FrameNext]_frameVars => [FS!Next]_<<sent, got>> BY StepImplements
<1> QED BY <1>1, <1>2, FrameInvariance, PTL DEF FrameSpec, ImplementsFrameStream, FS!Spec
-----------------------------------------------------------------------------
\* Each step of a wait is a step of the frame reader, or leaves it alone.
LEMMA StepReads == [Next]_vars => [FrameNext]_frameVars
<1> SUFFICES ASSUME [Next]_vars PROVE [FrameNext]_frameVars
  OBVIOUS
<1>1. CASE PeerSends \/ PeerCloses \/ BytesArrive
  BY <1>1 DEF PeerSends, PeerCloses, BytesArrive, FrameNext
<1>2. CASE Tick \/ Expire \/ Arm
  BY <1>2 DEF Tick, Expire, Arm
<1>3. CASE ReadsOn BY <1>3 DEF ReadsOn, FrameNext
<1>4. CASE ReadsOther \/ ReadsDrained \/ ReadsLast
  BY <1>4 DEF ReadsOther, ReadsDrained, ReadsLast, FrameNext
<1>5. CASE ReadsSealComplete \/ NextHandoff
  BY <1>5 DEF ReadsSealComplete, NextHandoff, FrameNext
<1>6. CASE TimesOut \/ Fails BY <1>6 DEF TimesOut, Fails, FrameNext
<1>7. CASE UNCHANGED vars BY <1>7 DEF vars
<1> QED BY <1>1, <1>2, <1>3, <1>4, <1>5, <1>6, <1>7 DEF Next

\* The messages of both peers reach the waits whole and in order.
THEOREM WaitsImplementStream == Spec => ImplementsFrameStream
<1>1. Init => FreshStream BY DEF Init
<1>2. [Next]_vars => [FrameNext]_frameVars BY StepReads
<1>3. Spec => FrameSpec BY <1>1, <1>2, PTL DEF Spec, FrameSpec
<1> QED BY <1>3, ReaderImplements

\* The constants of the waits.
LEMMA TimeFacts ==
    /\ Liveness \in Nat /\ MinRead \in Nat /\ Slack \in Nat /\ Grace \in Nat
    /\ Total \in Nat /\ MaxHello \in Nat /\ 0 < MinRead /\ MinRead <= Liveness
  BY TimeAssumption

\* A longer buffer allows one receive timeout more.
LEMMA OneMore ==
    ASSUME NEW a \in Nat, NEW b \in Nat, NEW t \in Nat, a < b
    PROVE  a * t + t <= b * t /\ a * t \in Nat /\ b * t \in Nat
<1>1. PICK d \in Nat : b = a + 1 + d
  <2>1. b - a - 1 \in Nat /\ b = a + 1 + (b - a - 1) OBVIOUS
  <2> QED BY <2>1
<1>2. b * t = a * t + t + d * t BY <1>1
<1>3. d * t \in Nat /\ a * t \in Nat OBVIOUS
<1> QED BY <1>2, <1>3

\* The receive timeout is between the two limits, and silence for as long means a
\* dead peer or the deadline.
LEMMA RecvFacts ==
    ASSUME now \in Nat, deadline \in Nat, now < deadline
    PROVE  /\ RecvTimeout \in Nat /\ MinRead <= RecvTimeout /\ RecvTimeout <= Liveness
           /\ now + RecvTimeout < deadline + MinRead
           /\ RecvTimeout = Liveness \/ now + RecvTimeout >= deadline
  BY TimeFacts DEF RecvTimeout, Greater, Lesser

\* The deadlines are naturals, and that of Ready is within the slack of two phases.
LEMMA DeadlineFacts ==
    ASSUME now \in Nat
    PROVE  /\ ReadyDeadline \in Nat
           /\ now < Total + Slack + MinRead => ReadyDeadline <= Total + 2 * (Slack + MinRead)
           /\ \A t \in 0..MaxHello :
                 DrainDeadline(t) \in Nat /\ DrainDeadline(t) <= DrainDeadline(MaxHello)
  BY TimeFacts DEF ReadyDeadline, DrainDeadline, Greater

\* What the invariant says of the state of a wait apart from the frames.
LEMMA InvFacts ==
    ASSUME WaitInv
    PROVE  /\ now \in Nat /\ deadline \in Nat /\ recv \in Nat /\ since \in Nat
           /\ heard \in Nat /\ straddled \in BOOLEAN /\ heard <= now
           /\ buf \in Seq(Nat) /\ Len(buf) \in Nat /\ (buf = <<>> <=> Len(buf) = 0)
           /\ taken \in Nat /\ arrived \in Nat
           /\ (Waiting => ~failed /\ InStep)
  BY DEF WaitInv, TypeOK, FrameInv, FrameTypeOK

\* A read that does not wait inside a frame is within the deadline.
LEMMA ReadInTime ==
    ASSUME WaitInv, rpc = "read", ~straddled
    PROVE  now < deadline + MinRead
<1>1. now \in Nat /\ deadline \in Nat /\ recv \in Nat /\ since \in Nat /\ Len(buf) \in Nat
  BY InvFacts
<1>2. /\ now <= since + recv
      /\ since + recv < deadline + MinRead + Len(buf) * Liveness
      /\ buf # <<>> => now < deadline + MinRead
  BY DEF WaitInv, Reading
<1>3. CASE buf = <<>>
  <2>1. Len(buf) * Liveness = 0 BY <1>3, TimeFacts
  <2> QED BY <2>1, <1>1, <1>2, TimeFacts
<1> QED BY <1>2, <1>3

\* The part of the invariant that is not the frame reader's.
TimeInv ==
    /\ TypeOK /\ heard <= now /\ (Waiting => ~failed)
    /\ Deadlines /\ Reading /\ Arming /\ OnlySilenceIsDeath

\* The peer, and the arrival of its bytes, disturb nothing a wait relies on.
LEMMA PeerKeeps ==
    ASSUME WaitInv, PeerSends \/ PeerCloses \/ BytesArrive
    PROVE  TimeInv'
<1>1. /\ UNCHANGED <<waitVars, now, since, straddled, buf, taken, failed>>
      /\ Waiting /\ heard' \in {heard, now}
      /\ heard' # heard => arrived' > taken
  <2>1. CASE PeerSends BY <2>1 DEF PeerSends, Send, accVars, timeVars
  <2>2. CASE PeerCloses BY <2>2 DEF PeerCloses, PeerClose, accVars, timeVars
  <2>3. CASE BytesArrive
    <3>1. PICK n \in 1..(Len(stream) - arrived) : arrived' = arrived + n
      BY <2>3 DEF BytesArrive, Arrive
    <3>2. taken <= arrived /\ taken \in Nat /\ arrived \in Nat
      BY DEF WaitInv, FrameInv, FrameTypeOK, Layout
    <3>3. arrived' > taken BY <3>1, <3>2
    <3> QED BY <2>3, <3>3 DEF BytesArrive, Arrive, accVars
  <2> QED BY <2>1, <2>2, <2>3
<1>2. arrived' # arrived => arrived' > taken
  <2>1. CASE PeerSends \/ PeerCloses BY <2>1 DEF PeerSends, Send, PeerCloses, PeerClose
  <2>2. CASE BytesArrive
    <3>1. PICK n \in 1..(Len(stream) - arrived) : arrived' = arrived + n
      BY <2>2 DEF BytesArrive, Arrive
    <3>2. taken <= arrived /\ taken \in Nat /\ arrived \in Nat
      BY DEF WaitInv, FrameInv, FrameTypeOK, Layout
    <3> QED BY <3>1, <3>2
  <2> QED BY <2>1, <2>2
<1>3. TypeOK' /\ heard' <= now'
  BY <1>1, InvFacts DEF WaitInv, TypeOK, waitVars
<1>4. (Waiting => ~failed)' /\ Deadlines' /\ Arming'
  BY <1>1 DEF WaitInv, Waiting, Deadlines, Arming, waitVars
<1>5. Reading'
  <2>1. arrived' = taken => heard' = heard /\ arrived' = arrived
    BY <1>1, <1>2, InvFacts
  <2> QED BY <1>1, <2>1 DEF WaitInv, Reading, waitVars
<1>6. OnlySilenceIsDeath'
  BY <1>1 DEF Waiting, OnlySilenceIsDeath, waitVars
<1> QED BY <1>3, <1>4, <1>5, <1>6 DEF TimeInv

\* The clock: a read is not waited for longer than was armed, and not inside a
\* frame without being noticed.
LEMMA TickKeeps ==
    ASSUME WaitInv, Tick
    PROVE  TimeInv'
<1>1. /\ rpc = "read" /\ now < since + recv /\ now' = now + 1
      /\ UNCHANGED <<phase, deadline, rpc, recv, since, heard, buf, arrived, taken, failed>>
      /\ straddled' = (straddled \/ buf # <<>>)
  BY DEF Tick, frameVars, waitVars
<1>2. TypeOK' /\ heard' <= now'
  <2>1. straddled' \in BOOLEAN BY <1>1
  <2> QED BY <1>1, <2>1, InvFacts DEF WaitInv, TypeOK
<1>3. ~straddled' => ~straddled /\ buf = <<>> BY <1>1, Zenon
<1>4. (Waiting => ~failed)' /\ Deadlines' /\ Arming' /\ OnlySilenceIsDeath'
  BY <1>1, <1>3 DEF WaitInv, Waiting, Deadlines, Arming, OnlySilenceIsDeath
<1>5. Reading'
  <2>1. /\ since <= now /\ MinRead <= recv /\ recv <= Liveness
        /\ since + recv < deadline + MinRead + Len(buf) * Liveness
        /\ buf = <<>> => recv = Liveness \/ since + recv >= deadline
        /\ arrived = taken => heard <= since
    BY <1>1 DEF WaitInv, Reading
  <2>2. since <= now' /\ now' <= since + recv BY <1>1, <2>1, InvFacts
  <2> QED BY <1>1, <1>3, <2>1, <2>2 DEF Reading
<1> QED BY <1>2, <1>4, <1>5 DEF TimeInv

\* The top of the loop.
LEMMA LoopTopKeeps ==
    ASSUME WaitInv, Expire \/ Arm
    PROVE  TimeInv'
<1>1. CASE Expire
  <2>1. /\ rpc' = "timeout" /\ now >= deadline
        /\ UNCHANGED <<phase, deadline, recv, now, since, heard, straddled, failed>>
    BY <1>1 DEF Expire, frameVars, timeVars
  <2>2. TypeOK' /\ heard' <= now' BY <2>1, InvFacts DEF WaitInv, TypeOK
  <2>3. OnlySilenceIsDeath' BY <2>1, InvFacts DEF OnlySilenceIsDeath
  <2> QED BY <2>1, <2>2, <2>3 DEF TimeInv, WaitInv, Waiting, Deadlines, Reading, Arming
<1>2. CASE Arm
  <2>1. /\ rpc = "arm" /\ rpc' = "read" /\ now < deadline /\ recv' = RecvTimeout /\ since' = now
        /\ UNCHANGED <<phase, deadline, now, heard, straddled, buf, arrived, taken, failed>>
    BY <1>2 DEF Arm, frameVars
  <2>2. /\ RecvTimeout \in Nat /\ MinRead <= RecvTimeout /\ RecvTimeout <= Liveness
        /\ now + RecvTimeout < deadline + MinRead
        /\ RecvTimeout = Liveness \/ now + RecvTimeout >= deadline
    BY <2>1, InvFacts, RecvFacts
  <2>3. TypeOK' /\ heard' <= now' BY <2>1, <2>2, InvFacts DEF WaitInv, TypeOK
  <2>4. now + RecvTimeout < deadline + MinRead + Len(buf) * Liveness
    <3> DEFINE more == Len(buf) * Liveness
    <3>1. more \in Nat BY InvFacts, TimeFacts
    <3>2. now \in Nat /\ deadline \in Nat BY InvFacts
    <3> HIDE DEF more
    <3>3. now + RecvTimeout < deadline + MinRead + more BY <3>1, <3>2, <2>2, TimeFacts
    <3> QED BY <3>3 DEF more
  <2>5. ~straddled => buf = <<>> BY <2>1 DEF WaitInv, Arming
  <2>6. now <= now + RecvTimeout /\ heard <= now BY <2>2, InvFacts
  <2>7. Reading' BY <2>1, <2>2, <2>4, <2>5, <2>6, InvFacts DEF Reading
  <2> QED BY <2>1, <2>3, <2>7 DEF TimeInv, WaitInv, Waiting, Deadlines, Arming, OnlySilenceIsDeath
<1> QED BY <1>1, <1>2

\* A part of a frame: the next read(2) may wait as long again.
LEMMA ReadsOnKeeps ==
    ASSUME WaitInv, ReadsOn
    PROVE  TimeInv'
<1>1. /\ rpc = "read" /\ since' = now
      /\ UNCHANGED <<phase, deadline, recv, now, heard, straddled>>
      /\ rpc' = IF failed' THEN "error" ELSE "read"
  BY DEF ReadsOn
<1>2. FrameInv /\ CanRead /\ InStep
  BY <1>1, InvFacts DEF WaitInv, Waiting, ReadsOn, ReadPart, ReadLength
<1>3. TypeOK' /\ heard' <= now' BY <1>1, InvFacts DEF WaitInv, TypeOK
<1>4. CASE failed'
  BY <1>1, <1>3, <1>4 DEF TimeInv, WaitInv, Waiting, Deadlines, Reading, Arming, OnlySilenceIsDeath
<1>5. CASE ~failed'
  <2>1. buf' = Filled BY <1>5 DEF ReadsOn, ReadPart, ReadLength
  <2>2. /\ Len(buf') \in Nat /\ Len(buf) \in Nat /\ Len(buf) < Len(buf') /\ buf' # <<>>
    BY <2>1, <1>2, FilledFacts, InvFacts
  <2>3. /\ Len(buf) * Liveness + Liveness <= Len(buf') * Liveness
        /\ Len(buf) * Liveness \in Nat /\ Len(buf') * Liveness \in Nat
    BY <2>2, OneMore, TimeFacts
  <2>4. /\ now <= since + recv /\ MinRead <= recv /\ recv <= Liveness
        /\ since + recv < deadline + MinRead + Len(buf) * Liveness
    BY <1>1 DEF WaitInv, Reading
  <2>5. now + recv < deadline + MinRead + Len(buf') * Liveness
    BY <2>3, <2>4, InvFacts, TimeFacts, SMTT(30)
  <2>6. ~straddled => now < deadline + MinRead BY <1>1, ReadInTime
  <2>7. now <= now + recv /\ heard <= now BY InvFacts
  <2>8. Reading' BY <1>1, <2>2, <2>4, <2>5, <2>6, <2>7, InvFacts DEF Reading
  <2> QED BY <1>1, <1>3, <1>5, <2>8 DEF TimeInv, WaitInv, Waiting, Deadlines, Arming, OnlySilenceIsDeath
<1> QED BY <1>4, <1>5

\* A whole frame ends the wait, or leaves nothing in the buffer.
LEMMA FrameKeeps ==
    ASSUME WaitInv, ReadsOther \/ ReadsDrained \/ ReadsLast
    PROVE  TimeInv'
<1>1. /\ rpc = "read" /\ buf' = <<>>
      /\ UNCHANGED <<recv, now, since, heard, straddled>>
      /\ rpc' \in {"arm", "done", "unexpected", "error"}
      /\ rpc' = "arm" => ~failed'
  BY DEF ReadsOther, ReadsDrained, ReadsLast, ReadFrame, Reset, timeVars
<1>2. \/ UNCHANGED <<phase, deadline>>
      \/ phase' = "SealComplete" /\ deadline' = Total + Slack
  BY DEF ReadsOther, ReadsDrained, ReadsLast
<1>3. TypeOK' /\ heard' <= now'
  <2>1. deadline' \in Nat /\ phase' \in {"Drained", "SealComplete", "Ready"}
    BY <1>2, InvFacts, TimeFacts DEF WaitInv, TypeOK
  <2> QED BY <1>1, <2>1, InvFacts DEF TypeOK
<1>4. Deadlines' BY <1>1, <1>2 DEF WaitInv, Deadlines
<1> QED BY <1>1, <1>3, <1>4 DEF TimeInv, Waiting, Reading, Arming, OnlySilenceIsDeath

\* The seal is complete: the budget of Ready starts from here.
LEMMA SealKeeps ==
    ASSUME WaitInv, ReadsSealComplete
    PROVE  TimeInv'
<1>1. /\ rpc = "read" /\ phase = "SealComplete"
      /\ phase' = "Ready" /\ deadline' = ReadyDeadline /\ rpc' = "arm" /\ heard' = now
      /\ buf' = <<>> /\ failed' = FALSE
      /\ UNCHANGED <<recv, now, since, straddled>>
  BY DEF ReadsSealComplete, Reconnect, Reset
<1>2. deadline = Total + Slack BY <1>1 DEF WaitInv, Deadlines
<1>3. ReadyDeadline \in Nat BY InvFacts, DeadlineFacts
<1>4. ~straddled => ReadyDeadline <= Total + 2 * (Slack + MinRead)
  BY <1>1, <1>2, ReadInTime, InvFacts, DeadlineFacts
<1>5. TypeOK' /\ heard' <= now' BY <1>1, <1>3, InvFacts DEF TypeOK
<1>6. Deadlines' BY <1>1, <1>4 DEF Deadlines
<1> QED BY <1>1, <1>5, <1>6 DEF TimeInv, Waiting, Reading, Arming, OnlySilenceIsDeath

\* The receive timeout: inside a frame the wait goes on, and was inside it before.
LEMMA TimesOutKeeps ==
    ASSUME WaitInv, TimesOut
    PROVE  TimeInv'
<1>1. /\ rpc = "read" /\ now >= since + recv /\ arrived = taken /\ ~failed
      /\ rpc' = IF buf # <<>> THEN "arm" ELSE "timeout"
      /\ UNCHANGED <<phase, deadline, recv, now, since, heard, straddled, buf, arrived, taken, failed>>
  BY DEF TimesOut, ReadTimedOut, frameVars, timeVars
<1>2. TypeOK' /\ heard' <= now' BY <1>1, InvFacts DEF WaitInv, TypeOK
<1>3. /\ MinRead <= recv /\ heard <= since
      /\ buf = <<>> => recv = Liveness \/ since + recv >= deadline
      /\ buf # <<>> /\ ~straddled => since = now
  BY <1>1 DEF WaitInv, Reading
<1>4. buf # <<>> => straddled BY <1>1, <1>3, InvFacts, TimeFacts
<1>5. buf = <<>> => now >= deadline \/ now - heard >= Liveness
  BY <1>1, <1>3, InvFacts, TimeFacts
<1>6. OnlySilenceIsDeath' BY <1>1, <1>5, InvFacts DEF OnlySilenceIsDeath
<1>7. Arming' BY <1>1, <1>4 DEF Arming
<1>8. Deadlines' BY <1>1 DEF WaitInv, Deadlines
<1>9. Reading' /\ (Waiting => ~failed)' BY <1>1 DEF Reading, Waiting
<1> QED BY <1>2, <1>6, <1>7, <1>8, <1>9 DEF TimeInv

\* The end of the stream ends the wait, and the next handoff starts from nothing.
LEMMA EndKeeps ==
    ASSUME WaitInv, Fails \/ NextHandoff
    PROVE  TimeInv'
<1>1. CASE Fails
  <2>1. rpc' = "error" /\ UNCHANGED <<phase, deadline, recv, now, since, heard, straddled>>
    BY <1>1 DEF Fails, timeVars
  <2>2. TypeOK' /\ heard' <= now' BY <2>1, InvFacts DEF WaitInv, TypeOK
  <2> QED BY <2>1, <2>2 DEF TimeInv, WaitInv, Waiting, Deadlines, Reading, Arming, OnlySilenceIsDeath
<1>2. CASE NextHandoff
  <2>1. /\ now' \in 0..MaxHello /\ deadline' = DrainDeadline(now') /\ phase' = "Drained"
        /\ rpc' = "arm" /\ recv' = 0 /\ since' = now' /\ heard' = now' /\ straddled' = FALSE
        /\ buf' = <<>> /\ failed' = FALSE
    BY <1>2 DEF NextHandoff, Reconnect, Reset
  <2>2. now' \in Nat BY <2>1, TimeFacts
  <2>3. deadline' \in Nat /\ deadline' <= DrainDeadline(MaxHello)
    BY <2>1, InvFacts, DeadlineFacts
  <2>4. TypeOK' /\ heard' <= now'
    <3>1. {now', deadline', recv', since', heard'} \subseteq Nat BY <2>1, <2>2, <2>3
    <3>2. straddled' \in BOOLEAN BY <2>1, Zenon
    <3> QED BY <2>1, <2>2, <3>1, <3>2 DEF TypeOK
  <2>5. Deadlines' BY <2>1, <2>3 DEF Deadlines
  <2> QED BY <2>1, <2>4, <2>5 DEF TimeInv, Waiting, Reading, Arming, OnlySilenceIsDeath
<1> QED BY <1>1, <1>2

\* A first wait is within its budget.
LEMMA InitWait == Init => WaitInv
<1> SUFFICES ASSUME Init PROVE WaitInv
  OBVIOUS
<1>1. /\ now \in 0..MaxHello /\ deadline = DrainDeadline(now) /\ phase = "Drained"
      /\ rpc = "arm" /\ recv = 0 /\ since = now /\ heard = now /\ straddled = FALSE
      /\ buf = <<>> /\ failed = FALSE
  BY DEF Init, FreshStream
<1>2. FrameInv BY InitFrame DEF Init
<1>3. now \in Nat BY <1>1, TimeFacts
<1>4. deadline \in Nat /\ deadline <= DrainDeadline(MaxHello) BY <1>1, <1>3, DeadlineFacts
<1>5. TypeOK /\ heard <= now
  <2>1. {now, deadline, recv, since, heard} \subseteq Nat BY <1>1, <1>3, <1>4
  <2>2. straddled \in BOOLEAN BY <1>1, Zenon
  <2> QED BY <1>1, <1>3, <2>1, <2>2 DEF TypeOK
<1> QED BY <1>1, <1>2, <1>4, <1>5 DEF WaitInv, Waiting, Deadlines, Reading, Arming, OnlySilenceIsDeath

\* Every step of a wait keeps its invariant.
LEMMA NextWait == WaitInv /\ [Next]_vars => WaitInv'
<1> SUFFICES ASSUME WaitInv, [Next]_vars PROVE WaitInv'
  OBVIOUS
<1>1. FrameInv' BY StepReads, NextFrameInv, SMTT(30) DEF WaitInv
<1>2. CASE UNCHANGED vars
  BY <1>1, <1>2 DEF WaitInv, TypeOK, Waiting, Deadlines, Reading, Arming, OnlySilenceIsDeath,
                    vars, frameVars, waitVars, timeVars
<1>3. CASE Next
  <2>1. TimeInv'
    BY <1>3, PeerKeeps, TickKeeps, LoopTopKeeps, ReadsOnKeeps, FrameKeeps, SealKeeps,
       TimesOutKeeps, EndKeeps DEF Next
  <2> QED BY <1>1, <2>1 DEF WaitInv, TimeInv
<1> QED BY <1>2, <1>3

\* The inductive invariant of the waits, for every value of the timeouts.
THEOREM WaitInvariance == Spec => []WaitInv
  BY InitWait, NextWait, PTL DEF Spec

\* read_until never declares a peer dead that it has heard from within
\* LIVENESS_TIMEOUT or that is in the middle of a frame.
THEOREM OnlySilenceKills == Spec => []OnlySilenceIsDeath
<1>1. WaitInv => OnlySilenceIsDeath BY DEF WaitInv
<1> QED BY <1>1, WaitInvariance, PTL

\* Whatever the peer sends, a wait ends at its deadline, give or take a minimal read
\* and the frame it is in the middle of.
THEOREM WaitsEnd == Spec => []WaitEndsAtDeadline
<1>1. ASSUME WaitInv PROVE WaitEndsAtDeadline
  <2>1. SUFFICES ASSUME rpc = "read"
                 PROVE  now < deadline + MinRead + Len(buf) * Liveness
    BY DEF WaitEndsAtDeadline
  <2>2. now <= since + recv /\ since + recv < deadline + MinRead + Len(buf) * Liveness
    BY <1>1, <2>1 DEF WaitInv, Reading
  <2> DEFINE more == Len(buf) * Liveness
  <2>3. /\ now \in Nat /\ since \in Nat /\ recv \in Nat /\ deadline \in Nat /\ more \in Nat
    BY <1>1, InvFacts, TimeFacts
  <2>4. since + recv < deadline + MinRead + more BY <2>2
  <2> HIDE DEF more
  <2>5. now < deadline + MinRead + more BY <2>2, <2>3, <2>4, TimeFacts
  <2> QED BY <2>5 DEF more
<1> QED BY <1>1, WaitInvariance, PTL

\* The three waits together end within the budget of the handoff and the slacks of
\* its last two phases, however many heartbeats the peers send.
THEOREM HandoffEnds == Spec => []HandoffWithinBudget
<1>1. ASSUME WaitInv PROVE HandoffWithinBudget
  <2>1. SUFFICES ASSUME rpc = "read", ~straddled PROVE now < Cap + MinRead
    BY DEF HandoffWithinBudget
  <2>2. now < deadline + MinRead BY <1>1, <2>1, ReadInTime
  <2>3. DrainDeadline(MaxHello) \in Nat BY TimeFacts DEF DrainDeadline, Greater
  <2>4. phase \in {"Drained", "SealComplete", "Ready"} /\ Deadlines
    BY <1>1 DEF WaitInv, TypeOK
  <2>5. deadline <= Cap
    BY <1>1, <2>1, <2>3, <2>4, InvFacts, TimeFacts DEF Deadlines, Cap, Greater
  <2>6. Cap \in Nat BY <2>3, TimeFacts DEF Cap, Greater
  <2> QED BY <1>1, <2>2, <2>5, <2>6, InvFacts, TimeFacts
<1> QED BY <1>1, WaitInvariance, PTL
=============================================================================
