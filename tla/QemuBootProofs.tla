--------------------------- MODULE QemuBootProofs ---------------------------
(***************************************************************************)
(* What the boot driver reports is what happened, for every marker, every  *)
(* ring and every order of the four actors.  The proof rests on where the  *)
(* bytes are: what the guest wrote and the output did not refuse is in the *)
(* writer or still in the pipe.                                            *)
(*                                                                         *)
(* The writer comes first: the marker search and the capture ring, however *)
(* the stream is cut.  Its invariant says what it keeps of the stream, its *)
(* last Len(Marker) - 1 bytes, and its last CaptureLimit bytes in the ring.*)
(***************************************************************************)
EXTENDS QemuBoot, SequenceTheorems, TLAPS

\* p occurs in s after the first i bytes.
Occurs(s, p, i) ==
  /\ i \in Nat /\ i + Len(p) <= Len(s)
  /\ \A k \in 1 .. Len(p) : s[i + k] = p[k]

\* u is the part of v that follows the first d bytes.
Window(u, v, d) ==
  /\ d \in Nat /\ d + Len(u) <= Len(v)
  /\ \A k \in 1 .. Len(u) : u[k] = v[d + k]

Smaller(a, b) == IF a < b THEN a ELSE b

\* The cell k places after cell a.
Turn(a, k) == (a + k) % CaptureLimit

\* The cells from start on hold the end of w.
HoldsEnd(data, start, size, w) ==
  \A i \in 0 .. size - 1 : data[Turn(start, i)] = w[Len(w) - size + i + 1]

\* What tailBuffer keeps of the stream w.
RingIsTail(b, w) ==
  /\ b.size = Smaller(Len(w), CaptureLimit)
  /\ HoldsEnd(b.data, b.start, b.size, w)
  /\ b.truncated <=> Len(w) > CaptureLimit

\* Rings of bytes, some perhaps never written.
RingCells == [Cells -> Bytes \cup {Zero}]

Rings ==
  [data : RingCells, start : Cells, size : 0 .. CaptureLimit, truncated : BOOLEAN]

\* What the writer knows between two chunks.
WriterInv ==
  /\ written \in Seq(Bytes)
  /\ markerTail = LastBytes(written, TailLimit)
  /\ matched \in BOOLEAN /\ found = matched
  /\ matched <=> BytesContain(written, Marker)
  /\ capture \in Rings
  /\ RingIsTail(capture, written)

-----------------------------------------------------------------------------
\* What MarkerAssumption says of the numbers.
LEMMA Constants ==
  /\ Marker \in Seq(Bytes) /\ Len(Marker) \in Nat \ {0}
  /\ TailLimit \in Nat /\ TailLimit = Len(Marker) - 1
  /\ CaptureLimit \in Nat \ {0} /\ MaxWritten \in Nat
<1>1. Len(Marker) # 0
  BY MarkerAssumption, EmptySeq
<1>. QED  BY <1>1, MarkerAssumption, LenProperties DEF TailLimit

\* BytesContain by positions.
LEMMA ContainsOccurs ==
  ASSUME NEW s \in Seq(Bytes), NEW p \in Seq(Bytes)
  PROVE  BytesContain(s, p) <=> \E i \in Nat : Occurs(s, p, i)
<1>0. Len(s) \in Nat /\ Len(p) \in Nat /\ s \in [1 .. Len(s) -> Bytes]
  BY LenProperties
<1>1. ASSUME NEW i \in 0 .. Len(s) - Len(p)
      PROVE  SubSeq(s, i + 1, i + Len(p)) = p <=> Occurs(s, p, i)
  <2>1. i \in Nat /\ i + Len(p) <= Len(s) /\ i + 1 \in Int /\ i + Len(p) \in Int
    BY <1>0
  <2>2. \A k \in i + 1 .. i + Len(p) : s[k] \in Bytes
    BY <1>0, <2>1
  <2>3. /\ SubSeq(s, i + 1, i + Len(p)) \in Seq(Bytes)
        /\ Len(SubSeq(s, i + 1, i + Len(p))) = Len(p)
        /\ \A k \in 1 .. Len(p) : SubSeq(s, i + 1, i + Len(p))[k] = s[i + k]
    <3>1. /\ SubSeq(s, i + 1, i + Len(p)) \in Seq(Bytes)
          /\ Len(SubSeq(s, i + 1, i + Len(p)))
               = IF i + 1 <= i + Len(p) THEN i + Len(p) - (i + 1) + 1 ELSE 0
          /\ \A k \in 1 .. i + Len(p) - (i + 1) + 1 : SubSeq(s, i + 1, i + Len(p))[k] = s[i + 1 + k - 1]
      BY <2>1, <2>2, SubSeqProperties
    <3>2. i + Len(p) - (i + 1) + 1 = Len(p) /\ \A k \in 1 .. Len(p) : i + 1 + k - 1 = i + k
      BY <1>0, <2>1
    <3>3. Len(SubSeq(s, i + 1, i + Len(p))) = Len(p)
      BY <1>0, <2>1, <3>1
    <3>. QED  BY <3>1, <3>2, <3>3
  <2>4. CASE SubSeq(s, i + 1, i + Len(p)) = p
    BY <2>1, <2>3, <2>4 DEF Occurs
  <2>5. CASE Occurs(s, p, i)
    <3>1. \A k \in 1 .. Len(p) : SubSeq(s, i + 1, i + Len(p))[k] = p[k]
      BY <2>3, <2>5 DEF Occurs
    <3>2. SubSeq(s, i + 1, i + Len(p)) = p
      BY <2>3, <3>1, SeqEqual
    <3>. QED  BY <2>5, <3>2
  <2>. QED  BY <2>4, <2>5
<1>2. \A i \in Nat : Occurs(s, p, i) => i \in 0 .. Len(s) - Len(p)
  BY <1>0 DEF Occurs
<1>3. 0 .. Len(s) - Len(p) \subseteq Nat
  BY <1>0
<1>. QED  BY <1>1, <1>2, <1>3 DEF BytesContain

\* What lies in a window lies in the whole, and the other way round.
LEMMA WindowKeeps ==
  ASSUME NEW u \in Seq(Bytes), NEW v \in Seq(Bytes), NEW d \in Nat, Window(u, v, d)
  PROVE  /\ BytesContain(u, Marker) => BytesContain(v, Marker)
         /\ \A i \in Nat : Occurs(v, Marker, i) /\ d <= i /\ i + Len(Marker) <= d + Len(u)
                             => BytesContain(u, Marker)
<1>0. Len(u) \in Nat /\ Len(v) \in Nat
  BY LenProperties
<1>1. ASSUME NEW i \in Nat, Occurs(u, Marker, i)
      PROVE  Occurs(v, Marker, d + i)
  <2>1. \A k \in 1 .. Len(Marker) : i + k \in 1 .. Len(u) /\ v[d + (i + k)] = u[i + k]
    BY <1>0, <1>1, Constants DEF Occurs, Window
  <2>2. \A k \in 1 .. Len(Marker) : v[(d + i) + k] = Marker[k]
    <3>1. TAKE k \in 1 .. Len(Marker)
    <3>2. d + (i + k) = (d + i) + k
      BY Constants
    <3>. QED  BY <2>1, <3>2, <1>1 DEF Occurs
  <2>. QED  BY <1>0, <1>1, <2>2, Constants DEF Occurs, Window
<1>2. ASSUME NEW i \in Nat, Occurs(v, Marker, i), d <= i, i + Len(Marker) <= d + Len(u)
      PROVE  Occurs(u, Marker, i - d)
  <2>1. i - d \in Nat /\ (i - d) + Len(Marker) <= Len(u)
    BY <1>0, <1>2, Constants
  <2>2. \A k \in 1 .. Len(Marker) : u[(i - d) + k] = Marker[k]
    <3>1. TAKE k \in 1 .. Len(Marker)
    <3>2. (i - d) + k \in 1 .. Len(u) /\ d + ((i - d) + k) = i + k
      BY <1>0, <2>1, Constants
    <3>. QED  BY <1>2, <3>2 DEF Occurs, Window
  <2>. QED  BY <2>1, <2>2 DEF Occurs
<1>3. \A i \in Nat : d + i \in Nat
  OBVIOUS
<1>4. \A i \in Nat : d <= i => i - d \in Nat
  OBVIOUS
<1>. QED  BY <1>1, <1>2, <1>3, <1>4, ContainsOccurs, Constants

\* LastBytes is the window at the end.
LEMMA LastBytesFacts ==
  ASSUME NEW s \in Seq(Bytes), NEW n \in Nat
  PROVE  /\ LastBytes(s, n) \in Seq(Bytes)
         /\ Len(LastBytes(s, n)) = Smaller(Len(s), n)
         /\ \A k \in 1 .. Smaller(Len(s), n) :
               LastBytes(s, n)[k] = s[Len(s) - Smaller(Len(s), n) + k]
<1>. DEFINE m == IF Len(s) > n THEN Len(s) - n + 1 ELSE 1
<1>0. Len(s) \in Nat /\ s \in [1 .. Len(s) -> Bytes]
  BY LenProperties
<1>1. m \in Int /\ Len(s) \in Int /\ \A i \in m .. Len(s) : s[i] \in Bytes
  BY <1>0
<1>. HIDE DEF m
<1>2. /\ SubSeq(s, m, Len(s)) \in Seq(Bytes)
      /\ Len(SubSeq(s, m, Len(s))) = IF m <= Len(s) THEN Len(s) - m + 1 ELSE 0
      /\ \A i \in 1 .. Len(s) - m + 1 : SubSeq(s, m, Len(s))[i] = s[m + i - 1]
  BY <1>1, SubSeqProperties
<1>3. LastBytes(s, n) = SubSeq(s, m, Len(s))
  BY DEF LastBytes, m
<1>4. Len(s) - m + 1 = Smaller(Len(s), n) /\ Smaller(Len(s), n) \in Nat
      /\ (IF m <= Len(s) THEN Len(s) - m + 1 ELSE 0) = Smaller(Len(s), n)
      /\ m = Len(s) - Smaller(Len(s), n) + 1
  <2>0. Len(s) \in Nat
    BY <1>0
  <2>1. m = IF Len(s) > n THEN Len(s) - n + 1 ELSE 1
    BY DEF m
  <2>2. Smaller(Len(s), n) = IF Len(s) < n THEN Len(s) ELSE n
    BY DEF Smaller
  <2>3. CASE Len(s) > n
    <3>1. m = Len(s) - n + 1
      BY <2>1, <2>3
    <3>2. Smaller(Len(s), n) = n
      BY <2>0, <2>2, <2>3
    <3>. QED  BY <2>0, <3>1, <3>2, <2>3
  <2>4. CASE ~ (Len(s) > n)
    <3>1. m = 1
      BY <2>1, <2>4
    <3>2. Smaller(Len(s), n) = Len(s)
      BY <2>0, <2>2, <2>4
    <3>. QED  BY <2>0, <3>1, <3>2, <2>4
  <2>. QED  BY <2>3, <2>4
<1>5. \A k \in 1 .. Smaller(Len(s), n) : m + k - 1 = Len(s) - Smaller(Len(s), n) + k
  BY <1>0, <1>4
<1>. QED  BY <1>2, <1>3, <1>4, <1>5

\* The same, with names for the two lengths.
LEMMA LastBytesAt ==
  ASSUME NEW s \in Seq(Bytes), NEW n \in Nat, NEW L, Len(s) = L, NEW m, Smaller(L, n) = m
  PROVE  /\ LastBytes(s, n) \in Seq(Bytes) /\ Len(LastBytes(s, n)) = m
         /\ \A k \in 1 .. m : LastBytes(s, n)[k] = s[L - m + k]
BY LastBytesFacts

\* A concatenation, byte by byte.
LEMMA JoinedAt ==
  ASSUME NEW a \in Seq(Bytes), NEW b \in Seq(Bytes), NEW A, Len(a) = A, NEW B, Len(b) = B
  PROVE  /\ a \o b \in Seq(Bytes) /\ Len(a \o b) = A + B
         /\ \A k \in 1 .. A + B : k <= A => (a \o b)[k] = a[k]
         /\ \A k \in 1 .. A + B : ~ (k <= A) => (a \o b)[k] = b[k - A]
         /\ \A k \in 1 .. B : (a \o b)[A + k] = b[k]
<1>0. A \in Nat /\ B \in Nat
  BY LenProperties
<1>1. /\ a \o b \in Seq(Bytes) /\ Len(a \o b) = A + B
      /\ \A k \in 1 .. A + B : k <= A => (a \o b)[k] = a[k]
      /\ \A k \in 1 .. A + B : ~ (k <= A) => (a \o b)[k] = b[k - A]
  BY ConcatProperties
<1>2. ASSUME NEW k \in 1 .. B PROVE (a \o b)[A + k] = b[k]
  <2>1. A + k \in 1 .. A + B /\ ~ (A + k <= A) /\ A + k - A = k
    BY <1>0
  <2>2. (a \o b)[A + k] = b[A + k - A]
    BY <1>1, <2>1
  <2>. QED  BY <2>1, <2>2
<1>. QED  BY <1>1, <1>2

\* The Min of match is the smaller length.
LEMMA MinOfTwo ==
  ASSUME NEW a \in Int, NEW b \in Int
  PROVE  Min({a, b}) = IF b < a THEN b ELSE a
<1>1. CASE b < a
  <2>1. b \in {a, b} /\ \A y \in {a, b} : b <= y
    BY <1>1
  <2>2. \A x \in {a, b} : (\A y \in {a, b} : x <= y) => x = b
    BY <1>1
  <2>. QED  BY <1>1, <2>1, <2>2 DEF Min
<1>2. CASE ~ (b < a)
  <2>1. a \in {a, b} /\ \A y \in {a, b} : a <= y
    BY <1>2
  <2>2. \A x \in {a, b} : (\A y \in {a, b} : x <= y) => x = a
    BY <1>2
  <2>. QED  BY <1>2, <2>1, <2>2 DEF Min
<1>. QED  BY <1>1, <1>2

-----------------------------------------------------------------------------
\* The search in a chunk and across its front finds the marker exactly when the
\* stream has it and did not have it before: an occurrence that straddles the
\* boundary lies within the last TailLimit bytes before and after it.
LEMMA MatchIsExact ==
  ASSUME NEW w \in Seq(Bytes), NEW chunk \in Seq(Bytes), Len(chunk) > 0,
         markerTail = LastBytes(w, TailLimit)
  PROVE  BytesContain(w \o chunk, Marker) <=> BytesContain(w, Marker) \/ match(chunk)
<1>. DEFINE M == Len(Marker)
            W == Len(w)
            C == Len(chunk)
            t == Smaller(W, TailLimit)
            h == IF TailLimit < C THEN TailLimit ELSE C
            front == SubSeq(chunk, 1, Min({C, TailLimit}))
            whole == w \o chunk
            edge == markerTail \o front
<1>0. W \in Nat /\ C \in Nat \ {0} /\ M \in Nat \ {0} /\ TailLimit = M - 1
      /\ chunk \in [1 .. C -> Bytes]
  BY LenProperties, Constants
<1>1. t \in Nat /\ h \in Nat /\ t <= W /\ h <= C /\ Min({C, TailLimit}) = h
  <2>1. t \in Nat /\ t <= W
    BY <1>0 DEF Smaller
  <2>2. h \in Nat /\ h <= C
    BY <1>0
  <2>3. Min({C, TailLimit}) = h
    BY <1>0, MinOfTwo
  <2>. QED  BY <2>1, <2>2, <2>3
<1>2. /\ whole \in Seq(Bytes) /\ Len(whole) = W + C
      /\ \A i \in 1 .. W + C : i <= W => whole[i] = w[i]
      /\ \A k \in 1 .. C : whole[W + k] = chunk[k]
  BY JoinedAt
<1>3. markerTail \in Seq(Bytes) /\ Len(markerTail) = t
      /\ \A k \in 1 .. t : markerTail[k] = w[W - t + k]
  BY LastBytesFacts, Constants
<1>4. front \in Seq(Bytes) /\ Len(front) = h /\ \A k \in 1 .. h : front[k] = chunk[k]
  <2>1. \A k \in 1 .. h : chunk[k] \in Bytes
    BY <1>0, <1>1
  <2>2. /\ SubSeq(chunk, 1, h) \in Seq(Bytes)
        /\ Len(SubSeq(chunk, 1, h)) = IF 1 <= h THEN h - 1 + 1 ELSE 0
        /\ \A k \in 1 .. h - 1 + 1 : SubSeq(chunk, 1, h)[k] = chunk[1 + k - 1]
    BY <1>1, <2>1, SubSeqProperties
  <2>3. front = SubSeq(chunk, 1, h)
    BY <1>1
  <2>. HIDE DEF h, front
  <2>. QED  BY <1>1, <2>2, <2>3
<1>. HIDE DEF front
<1>. HIDE DEF t, h
<1>5. /\ edge \in Seq(Bytes) /\ Len(edge) = t + h
      /\ \A k \in 1 .. t + h : k <= t => edge[k] = markerTail[k]
      /\ \A k \in 1 .. t + h : ~ (k <= t) => edge[k] = front[k - t]
  BY <1>3, <1>4, JoinedAt
<1>. HIDE DEF whole, edge, M, W, C
<1>6. Window(w, whole, 0) /\ Window(chunk, whole, W)
  <2>1. \A k \in 1 .. W : 0 + k \in 1 .. W + C /\ 0 + k <= W /\ 0 + k = k
    BY <1>0
  <2>3. \A k \in 1 .. W : w[k] = whole[0 + k]
    BY <1>2, <2>1
  <2>4. \A k \in 1 .. C : chunk[k] = whole[W + k]
    BY <1>2
  <2>. QED  BY <1>0, <1>2, <2>3, <2>4 DEF Window, W, C
<1>7. Window(edge, whole, W - t)
  <2>1. \A k \in 1 .. t + h : (W - t) + k \in 1 .. W + C
    BY <1>0, <1>1
  <2>2. \A k \in 1 .. t + h : k <= t => (W - t) + k <= W /\ k \in 1 .. t
    BY <1>0, <1>1
  <2>3. \A k \in 1 .. t + h : ~ (k <= t) => /\ k - t \in 1 .. h /\ k - t \in 1 .. C
                                             /\ (W - t) + k = W + (k - t)
    BY <1>0, <1>1
  <2>4. ASSUME NEW k \in 1 .. t + h PROVE edge[k] = whole[(W - t) + k]
    <3>1. CASE k <= t
      <4>1. edge[k] = w[W - t + k] /\ whole[(W - t) + k] = w[(W - t) + k]
        BY <3>1, <1>2, <1>3, <1>5, <2>1, <2>2
      <4>. QED  BY <4>1
    <3>2. CASE ~ (k <= t)
      <4>1. edge[k] = chunk[k - t]
        BY <3>2, <1>4, <1>5, <2>3
      <4>2. whole[W + (k - t)] = chunk[k - t]
        BY <3>2, <1>2, <2>3
      <4>. QED  BY <3>2, <4>1, <4>2, <2>3
    <3>. QED  BY <3>1, <3>2
  <2>5. W - t \in Nat /\ (W - t) + (t + h) <= W + C
    BY <1>0, <1>1
  <2>. QED  BY <1>2, <1>5, <2>4, <2>5 DEF Window
<1>8. W \in Nat /\ 0 \in Nat /\ W - t \in Nat
  BY <1>0, <1>1
<1>9. match(chunk) <=> \/ BytesContain(chunk, Marker)
                       \/ markerTail # <<>> /\ TailLimit > 0 /\ BytesContain(edge, Marker)
  BY DEF match, edge, front, C
<1>10. BytesContain(w, Marker) \/ match(chunk) => BytesContain(whole, Marker)
  BY <1>2, <1>5, <1>6, <1>7, <1>8, <1>9, WindowKeeps
<1>11. ASSUME NEW i \in Nat, Occurs(whole, Marker, i)
       PROVE  BytesContain(w, Marker) \/ match(chunk)
  <2>0. i + M <= W + C
    BY <1>2, <1>11 DEF Occurs, M
  <2>1. CASE i + M <= W
    <3>1. 0 <= i /\ i + M <= 0 + W
      BY <1>0, <2>1
    <3>. QED  BY <1>2, <1>6, <1>8, <1>11, <3>1, WindowKeeps DEF M, W
  <2>2. CASE i >= W
    <3>1. W <= i /\ i + M <= W + C
      BY <1>0, <2>0, <2>2
    <3>. QED  BY <1>2, <1>6, <1>8, <1>9, <1>11, <3>1, WindowKeeps DEF M, C
  <2>3. CASE i < W /\ W < i + M
    <3>1. TailLimit > 0
      BY <1>0, <2>3
    <3>2. t > 0 /\ W - t <= i
      <4>1. CASE W < TailLimit
        BY <1>0, <2>3, <4>1 DEF t, Smaller
      <4>2. CASE ~ (W < TailLimit)
        <5>1. t = TailLimit
          BY <4>2 DEF t, Smaller
        <5>. QED  BY <1>0, <2>3, <3>1, <5>1
      <4>. QED  BY <4>1, <4>2
    <3>3. i + M <= (W - t) + (t + h)
      <4>1. CASE TailLimit < C
        <5>1. h = TailLimit
          BY <4>1 DEF h
        <5>. QED  BY <1>0, <1>1, <2>3, <5>1
      <4>2. CASE ~ (TailLimit < C)
        <5>1. h = C
          BY <4>2 DEF h
        <5>. QED  BY <1>0, <1>1, <2>0, <5>1
      <4>. QED  BY <4>1, <4>2
    <3>4. markerTail # <<>>
      BY <1>3, <3>2, EmptySeq
    <3>5. BytesContain(edge, Marker)
      BY <1>2, <1>5, <1>7, <1>8, <1>11, <3>2, <3>3, WindowKeeps DEF M
    <3>. QED  BY <1>9, <3>1, <3>4, <3>5
  <2>4. i + M <= W \/ i >= W \/ (i < W /\ W < i + M)
    <3>1. i \in Nat /\ W \in Nat /\ M \in Nat
      BY <1>0
    <3>. QED  BY <3>1
  <2>. QED  BY <2>1, <2>2, <2>3, <2>4
<1>12. BytesContain(whole, Marker) => BytesContain(w, Marker) \/ match(chunk)
  BY <1>2, <1>11, ContainsOccurs, Constants
<1>. QED  BY <1>10, <1>12 DEF whole

\* The tail stays the end of the stream.
LEMMA TailIsExact ==
  ASSUME NEW w \in Seq(Bytes), NEW chunk \in Seq(Bytes)
  PROVE  updatedMarkerTail(LastBytes(w, TailLimit), chunk) = LastBytes(w \o chunk, TailLimit)
<1>. DEFINE T == TailLimit
            W == Len(w)
            C == Len(chunk)
            whole == w \o chunk
            tail == LastBytes(w, T)
            n == Smaller(W + C, T)
            t == Smaller(W, T)
<1>0. W \in Nat /\ C \in Nat /\ T \in Nat
  BY LenProperties, Constants
<1>1. /\ whole \in Seq(Bytes) /\ Len(whole) = W + C
      /\ \A i \in 1 .. W + C : i <= W => whole[i] = w[i]
      /\ \A k \in 1 .. C : whole[W + k] = chunk[k]
  BY JoinedAt
<1>2. LastBytes(whole, T) \in Seq(Bytes) /\ Len(LastBytes(whole, T)) = n
      /\ \A k \in 1 .. n : LastBytes(whole, T)[k] = whole[W + C - n + k]
  <2>. DEFINE total == W + C
  <2>1. Smaller(total, T) = n /\ Len(whole) = total
    BY <1>1
  <2>. HIDE DEF whole, W, C, T, n, total
  <2>2. /\ LastBytes(whole, T) \in Seq(Bytes) /\ Len(LastBytes(whole, T)) = n
        /\ \A k \in 1 .. n : LastBytes(whole, T)[k] = whole[total - n + k]
    BY <1>0, <1>1, <2>1, LastBytesAt
  <2>. QED  BY <1>0, <2>2 DEF total
<1>3. tail \in Seq(Bytes) /\ Len(tail) = t /\ \A k \in 1 .. t : tail[k] = w[W - t + k]
  BY <1>0, LastBytesFacts
<1>. HIDE DEF W, C, T, whole, tail
<1>4. t \in Nat /\ t <= W /\ n \in Nat /\ n <= W + C
  BY <1>0 DEF Smaller
<1>5. CASE T <= 0
  <2>1. n = 0
    BY <1>0, <1>5 DEF Smaller
  <2>2. LastBytes(whole, T) = <<>>
    BY <1>2, <2>1, EmptySeq
  <2>3. updatedMarkerTail(tail, chunk) = <<>>
    BY <1>5 DEF updatedMarkerTail, T
  <2>. QED  BY <2>2, <2>3 DEF whole, tail, T
<1>6. CASE T > 0 /\ C >= T
  <2>1. n = T /\ Smaller(C, T) = T
    BY <1>0, <1>6 DEF Smaller
  <2>2. LastBytes(chunk, T) \in Seq(Bytes) /\ Len(LastBytes(chunk, T)) = T
        /\ \A k \in 1 .. T : LastBytes(chunk, T)[k] = chunk[C - T + k]
    <3>1. Len(chunk) = C
      BY DEF C
    <3>. QED  BY <1>0, <2>1, <3>1, LastBytesAt
  <2>3. ASSUME NEW k \in 1 .. T PROVE LastBytes(chunk, T)[k] = LastBytes(whole, T)[k]
    <3>1. C - T + k \in 1 .. C /\ W + C - T + k = W + (C - T + k)
      BY <1>0, <1>6
    <3>2. whole[W + C - T + k] = chunk[C - T + k]
      BY <1>1, <3>1
    <3>3. LastBytes(whole, T)[k] = whole[W + C - T + k]
      BY <1>2, <2>1
    <3>. QED  BY <2>2, <3>2, <3>3
  <2>4. LastBytes(chunk, T) = LastBytes(whole, T)
    BY <1>2, <2>1, <2>2, <2>3, SeqEqual
  <2>5. updatedMarkerTail(tail, chunk) = LastBytes(chunk, T)
    BY <1>0, <1>6 DEF updatedMarkerTail, T, C
  <2>. QED  BY <2>4, <2>5 DEF whole, tail, T
<1>7. CASE T > 0 /\ C < T
  <2>. DEFINE joined == tail \o chunk
  <2>1. /\ joined \in Seq(Bytes) /\ Len(joined) = t + C
        /\ \A k \in 1 .. t + C : k <= t => joined[k] = tail[k]
        /\ \A k \in 1 .. t + C : ~ (k <= t) => joined[k] = chunk[k - t]
    <3>. HIDE DEF t
    <3>1. Len(chunk) = C
      BY DEF C
    <3>. QED  BY <1>3, <3>1, JoinedAt
  <2>. HIDE DEF joined
  <2>2. Smaller(t + C, T) = n
    BY <1>0, <1>7 DEF Smaller
  <2>3. LastBytes(joined, T) \in Seq(Bytes) /\ Len(LastBytes(joined, T)) = n
        /\ \A k \in 1 .. n : LastBytes(joined, T)[k] = joined[t + C - n + k]
    <3>. DEFINE total == t + C
    <3>1. Smaller(total, T) = n /\ Len(joined) = total
      BY <2>1, <2>2
    <3>. HIDE DEF n, t, total
    <3>2. /\ LastBytes(joined, T) \in Seq(Bytes) /\ Len(LastBytes(joined, T)) = n
          /\ \A k \in 1 .. n : LastBytes(joined, T)[k] = joined[total - n + k]
      BY <1>0, <2>1, <3>1, LastBytesAt
    <3>. QED  BY <1>0, <1>4, <3>2 DEF total
  <2>4. n <= t + C
    BY <1>0, <1>7 DEF Smaller
  <2>. HIDE DEF n, t
  <2>5. ASSUME NEW k \in 1 .. n PROVE LastBytes(joined, T)[k] = LastBytes(whole, T)[k]
    <3>. DEFINE j == t + C - n + k
                i == W + C - n + k
    <3>1. j \in 1 .. t + C /\ i \in 1 .. W + C /\ i - W = j - t /\ (i <= W <=> j <= t)
      BY <1>0, <1>4, <2>4
    <3>2. CASE j <= t
      <4>1. j \in 1 .. t /\ W - t + j = i
        BY <1>0, <1>4, <2>4, <3>1, <3>2
      <4>. HIDE DEF i, j
      <4>2. joined[j] = w[i] /\ whole[i] = w[i]
        BY <1>1, <1>3, <2>1, <3>1, <3>2, <4>1
      <4>. QED  BY <1>2, <2>3, <4>2 DEF i, j
    <3>3. CASE ~ (j <= t)
      <4>. HIDE DEF i, j
      <4>1. joined[j] = chunk[j - t]
        BY <2>1, <3>1, <3>3
      <4>2. j - t \in 1 .. C /\ i = W + (j - t)
        BY <1>0, <1>4, <3>1, <3>3
      <4>3. whole[i] = chunk[j - t]
        BY <1>1, <4>2
      <4>. QED  BY <2>3, <1>2, <4>1, <4>3 DEF i, j
    <3>. QED  BY <3>2, <3>3
  <2>6. LastBytes(joined, T) = LastBytes(whole, T)
    BY <1>2, <2>3, <2>5, SeqEqual
  <2>7. updatedMarkerTail(tail, chunk) = LastBytes(joined, T)
    BY <1>0, <1>7 DEF updatedMarkerTail, T, C, joined
  <2>. QED  BY <2>6, <2>7 DEF whole, tail, T
<1>. QED  BY <1>0, <1>5, <1>6, <1>7

-----------------------------------------------------------------------------
\* Going round the ring at most once.
LEMMA Wrap ==
  ASSUME NEW a \in Cells, NEW k \in 0 .. CaptureLimit
  PROVE  /\ Turn(a, k) \in Cells
         /\ a + k < CaptureLimit => Turn(a, k) = a + k
         /\ ~ (a + k < CaptureLimit) => Turn(a, k) = a + k - CaptureLimit
<1>1. CaptureLimit \in Nat /\ CaptureLimit > 0
  BY Constants
<1>2. a \in Nat /\ a < CaptureLimit /\ k \in Nat /\ k <= CaptureLimit
  BY <1>1 DEF Cells
<1>. QED  BY <1>1, <1>2 DEF Cells, Turn

\* Two turns are one turn, and a turn backwards is a turn forwards.
LEMMA Turns ==
  ASSUME NEW a \in Cells, NEW k \in Nat, NEW m \in Nat, k <= CaptureLimit
  PROVE  /\ k + m <= CaptureLimit => Turn(Turn(a, k), m) = Turn(a, k + m)
         /\ m <= k => Turn(Turn(a, k), CaptureLimit - k + m) = Turn(a, m)
<1>0. CaptureLimit \in Nat /\ CaptureLimit > 0 /\ a \in Nat /\ a < CaptureLimit
  BY Constants DEF Cells
<1>1. PICK t \in Nat : /\ t = Turn(a, k) /\ t \in Cells /\ t < CaptureLimit
                       /\ a + k < CaptureLimit => t = a + k
                       /\ ~ (a + k < CaptureLimit) => t = a + k - CaptureLimit
  <2>1. k \in 0 .. CaptureLimit
    BY <1>0
  <2>2. \A t \in Cells : t \in Nat /\ t < CaptureLimit
    BY <1>0 DEF Cells
  <2>. QED  BY <2>1, <2>2, Wrap
<1>2. ASSUME k + m <= CaptureLimit PROVE Turn(t, m) = Turn(a, k + m)
  <2>1. m \in 0 .. CaptureLimit /\ k + m \in 0 .. CaptureLimit
    BY <1>0, <1>2
  <2>2. /\ t + m < CaptureLimit => Turn(t, m) = t + m
        /\ ~ (t + m < CaptureLimit) => Turn(t, m) = t + m - CaptureLimit
        /\ a + (k + m) < CaptureLimit => Turn(a, k + m) = a + (k + m)
        /\ ~ (a + (k + m) < CaptureLimit) => Turn(a, k + m) = a + (k + m) - CaptureLimit
    BY <1>1, <2>1, Wrap
  <2>. QED  BY <1>0, <1>1, <1>2, <2>2
<1>3. ASSUME m <= k PROVE Turn(t, CaptureLimit - k + m) = Turn(a, m)
  <2>1. m \in 0 .. CaptureLimit /\ CaptureLimit - k + m \in 0 .. CaptureLimit
    BY <1>0, <1>3
  <2>2. PICK n \in Nat : n = CaptureLimit - k + m
    BY <2>1
  <2>3. /\ t + n < CaptureLimit => Turn(t, n) = t + n
        /\ ~ (t + n < CaptureLimit) => Turn(t, n) = t + n - CaptureLimit
        /\ a + m < CaptureLimit => Turn(a, m) = a + m
        /\ ~ (a + m < CaptureLimit) => Turn(a, m) = a + m - CaptureLimit
    BY <1>1, <2>1, <2>2, Wrap
  <2>4. Turn(t, n) = Turn(a, m)
    BY <1>0, <1>1, <1>3, <2>2, <2>3
  <2>. QED  BY <2>2, <2>4
<1>. QED  BY <1>1, <1>2, <1>3

\* The cells that storing p from cell e on changes, and the ones it keeps.
LEMMA StoredFacts ==
  ASSUME NEW data \in RingCells, NEW e \in Cells,
         NEW p \in Seq(Bytes), NEW P, Len(p) = P, P <= CaptureLimit
  PROVE  /\ storedFrom(data, e, p) \in RingCells
         /\ \A j \in 0 .. P - 1 : storedFrom(data, e, p)[Turn(e, j)] = p[j + 1]
         /\ \A j \in P .. CaptureLimit - 1 :
              storedFrom(data, e, p)[Turn(e, j)] = data[Turn(e, j)]
<1>. DEFINE L == CaptureLimit
            at(k) == Turn(k, L - e)
<1>0. P \in Nat /\ L \in Nat /\ L > 0 /\ e \in Nat /\ e < L
  BY LenProperties, Constants DEF Cells
<1>p. \A i \in 1 .. P : p[i] \in Bytes
  BY ElementOfSeq
<1>1. ASSUME NEW k \in Cells
      PROVE  /\ at(k) \in Cells /\ at(k) \in Nat
             /\ storedFrom(data, e, p)[k] = IF at(k) < P THEN p[at(k) + 1] ELSE data[k]
  <2>1. L - e \in 0 .. CaptureLimit /\ k + L - e = k + (L - e) /\ k \in Nat
    BY <1>0 DEF Cells
  <2>2. at(k) \in Cells
    BY <2>1, Wrap
  <2>3. at(k) \in Nat
    BY <2>2 DEF Cells
  <2>. QED  BY <2>1, <2>2, <2>3 DEF storedFrom, Turn
<1>2. ASSUME NEW j \in Cells
      PROVE  Turn(e, j) \in Cells /\ at(Turn(e, j)) = j
  <2>0. j \in Nat /\ j < L /\ j \in 0 .. CaptureLimit
    BY <1>0 DEF Cells
  <2>. DEFINE k == Turn(e, j)
  <2>1. /\ k \in Cells /\ k \in Nat /\ k < L
        /\ e + j < L => k = e + j
        /\ ~ (e + j < L) => k = e + j - L
    <3>1. /\ k \in Cells
          /\ e + j < L => k = e + j
          /\ ~ (e + j < L) => k = e + j - L
      BY <2>0, Wrap
    <3>. HIDE DEF k
    <3>. QED  BY <1>0, <3>1 DEF Cells
  <2>. HIDE DEF k
  <2>2. L - e \in 0 .. CaptureLimit /\ k + L - e = k + (L - e)
    BY <1>0, <2>1
  <2>3. /\ k + (L - e) < L => at(k) = k + (L - e)
        /\ ~ (k + (L - e) < L) => at(k) = k + (L - e) - L
    BY <2>1, <2>2, Wrap
  <2>. HIDE DEF at
  <2>4. at(k) = j
    <3>1. CASE e + j < L
      BY <1>0, <2>0, <2>1, <2>3, <3>1
    <3>2. CASE ~ (e + j < L)
      BY <1>0, <2>0, <2>1, <2>3, <3>2
    <3>. QED  BY <3>1, <3>2
  <2>. QED  BY <2>1, <2>4 DEF k
<1>. HIDE DEF at
<1>3. storedFrom(data, e, p) \in RingCells
  <2>1. storedFrom(data, e, p) = [k \in Cells |-> storedFrom(data, e, p)[k]]
    BY DEF storedFrom
  <2>2. \A k \in Cells : storedFrom(data, e, p)[k] \in Bytes \cup {Zero}
    <3>1. TAKE k \in Cells
    <3>2. CASE at(k) < P
      <4>0. at(k) \in Nat /\ P \in Nat
        BY <1>0, <1>1
      <4>1. at(k) + 1 \in 1 .. P
        BY <3>2, <4>0
      <4>. QED  BY <1>p, <1>1, <3>2, <4>1
    <3>3. CASE ~ (at(k) < P)
      BY <1>1, <3>3 DEF RingCells
    <3>. QED  BY <3>2, <3>3
  <2>. QED  BY <2>1, <2>2 DEF RingCells
<1>4. ASSUME NEW j \in 0 .. P - 1
      PROVE  storedFrom(data, e, p)[Turn(e, j)] = p[j + 1]
  <2>1. j \in Cells /\ j < P
    BY <1>0 DEF Cells
  <2>. QED  BY <1>1, <1>2, <2>1
<1>5. ASSUME NEW j \in P .. CaptureLimit - 1
      PROVE  storedFrom(data, e, p)[Turn(e, j)] = data[Turn(e, j)]
  <2>1. j \in Cells /\ ~ (j < P)
    BY <1>0 DEF Cells
  <2>. QED  BY <1>1, <1>2, <2>1
<1>. QED  BY <1>3, <1>4, <1>5

\* The same, for a name of the ring that is stored into.
LEMMA StoredAs ==
  ASSUME NEW cells \in RingCells, NEW e \in Cells, NEW p \in Seq(Bytes), NEW P, Len(p) = P,
         P <= CaptureLimit, NEW u, u = storedFrom(cells, e, p)
  PROVE  /\ u \in RingCells
         /\ \A j \in 0 .. P - 1 : u[Turn(e, j)] = p[j + 1]
         /\ \A j \in P .. CaptureLimit - 1 : u[Turn(e, j)] = cells[Turn(e, j)]
BY StoredFacts

\* A chunk stored behind the last K cells: those and the chunk are the end of
\* the longer stream.
LEMMA RingContent ==
  ASSUME NEW cells \in RingCells, NEW first \in Cells,
         NEW w \in Seq(Bytes), NEW W \in Nat, Len(w) = W,
         NEW p \in Seq(Bytes), NEW P \in Nat, Len(p) = P,
         NEW d \in Nat, NEW K \in Nat, d + K <= CaptureLimit, K + P <= CaptureLimit, d + K <= W,
         HoldsEnd(cells, first, d + K, w)
  PROVE  LET start == Turn(first, d)
             data == storedFrom(cells, Turn(start, K), p)
         IN  /\ data \in RingCells
             /\ HoldsEnd(data, start, K + P, w \o p)
<1>. DEFINE start == Turn(first, d)
            end == Turn(start, K)
            data == storedFrom(cells, end, p)
            whole == w \o p
<1>0. CaptureLimit \in Nat
  BY Constants
<1>1. start \in Cells /\ end \in Cells
  <2>1. d \in 0 .. CaptureLimit /\ K \in 0 .. CaptureLimit
    BY <1>0
  <2>. QED  BY <2>1, Wrap
<1>2. /\ data \in RingCells
      /\ \A j \in 0 .. P - 1 : data[Turn(end, j)] = p[j + 1]
      /\ \A j \in P .. CaptureLimit - 1 : data[Turn(end, j)] = cells[Turn(end, j)]
  <2>1. P <= CaptureLimit
    BY <1>0
  <2>2. end \in Cells
    BY <1>1
  <2>3. data = storedFrom(cells, end, p)
    OBVIOUS
  <2>. HIDE DEF data, end, start
  <2>4. data \in RingCells
    BY <2>1, <2>2, <2>3, StoredAs
  <2>5. \A j \in 0 .. P - 1 : data[Turn(end, j)] = p[j + 1]
    BY <2>1, <2>2, <2>3, StoredAs
  <2>6. \A j \in P .. CaptureLimit - 1 : data[Turn(end, j)] = cells[Turn(end, j)]
    BY <2>1, <2>2, <2>3, StoredAs
  <2>. QED  BY <2>4, <2>5, <2>6
<1>3. /\ Len(whole) = W + P
      /\ \A i \in 1 .. W + P : i <= W => whole[i] = w[i]
      /\ \A i \in 1 .. P : whole[W + i] = p[i]
  <2>1. Len(w \o p) = W + P
    <3>1. Len(w \o p) = Len(w) + Len(p)
      BY ConcatProperties
    <3>. QED  BY <3>1
  <2>2. \A i \in 1 .. W + P : i <= W => (w \o p)[i] = w[i]
    BY JoinedAt
  <2>3. \A i \in 1 .. P : (w \o p)[W + i] = p[i]
    BY JoinedAt
  <2>. QED  BY <2>1, <2>2, <2>3
<1>. HIDE DEF data, whole
<1>4. ASSUME NEW i \in Nat, i < K
      PROVE  data[Turn(start, i)] = whole[(W + P) - (K + P) + i + 1]
  <2>1. /\ CaptureLimit - K + i \in P .. CaptureLimit - 1 /\ i <= K /\ K <= CaptureLimit
        /\ d <= CaptureLimit /\ d + i <= CaptureLimit /\ d + i \in 0 .. (d + K) - 1
    BY <1>0, <1>4
  <2>2. Turn(end, CaptureLimit - K + i) = Turn(start, i)
    <3>1. start \in Cells /\ K <= CaptureLimit /\ i <= K
      BY <1>1, <2>1
    <3>. HIDE DEF start
    <3>2. Turn(Turn(start, K), CaptureLimit - K + i) = Turn(start, i)
      BY <3>1, Turns
    <3>. QED  BY <3>2
  <2>3. Turn(start, i) = Turn(first, d + i)
    <3>1. d <= CaptureLimit /\ d + i <= CaptureLimit
      BY <2>1
    <3>. QED  BY <3>1, Turns
  <2>4. data[Turn(start, i)] = cells[Turn(first, d + i)]
    BY <1>2, <2>1, <2>2, <2>3
  <2>5. cells[Turn(first, d + i)] = w[W - (d + K) + (d + i) + 1]
    BY <2>1 DEF HoldsEnd
  <2>6. /\ W - (d + K) + (d + i) + 1 = (W + P) - (K + P) + i + 1
        /\ (W + P) - (K + P) + i + 1 \in 1 .. W + P
        /\ (W + P) - (K + P) + i + 1 <= W
    BY <1>4
  <2>7. whole[(W + P) - (K + P) + i + 1] = w[(W + P) - (K + P) + i + 1]
    BY <1>3, <2>6
  <2>. QED  BY <2>4, <2>5, <2>6, <2>7
<1>5. ASSUME NEW i \in Nat, ~ (i < K), i < K + P
      PROVE  data[Turn(start, i)] = whole[(W + P) - (K + P) + i + 1]
  <2>1. PICK j \in Nat : j = i - K
    BY <1>5
  <2>2. j \in 0 .. P - 1 /\ K + j = i /\ K <= CaptureLimit /\ K + j <= CaptureLimit /\ j + 1 \in 1 .. P
    BY <1>0, <1>5, <2>1
  <2>3. Turn(end, j) = Turn(start, i)
    <3>1. start \in Cells /\ K <= CaptureLimit /\ K + j <= CaptureLimit
      BY <1>1, <2>2
    <3>. HIDE DEF start
    <3>2. Turn(Turn(start, K), j) = Turn(start, K + j)
      BY <3>1, Turns
    <3>. QED  BY <2>2, <3>2
  <2>4. data[Turn(start, i)] = p[j + 1] /\ whole[W + (j + 1)] = p[j + 1]
    BY <1>2, <1>3, <2>2, <2>3
  <2>5. W + (j + 1) = (W + P) - (K + P) + i + 1
    BY <2>2
  <2>. QED  BY <2>4, <2>5
<1>6. \A i \in 0 .. (K + P) - 1 : i \in Nat /\ i < K + P
  OBVIOUS
<1>7. HoldsEnd(data, start, K + P, whole)
  BY <1>3, <1>4, <1>5, <1>6 DEF HoldsEnd
<1>. QED  BY <1>2, <1>7 DEF data, whole

\* A chunk that fills the ring replaces it.
LEMMA RingReplaced ==
  ASSUME NEW b \in Rings, NEW w \in Seq(Bytes), RingIsTail(b, w),
         NEW p \in Seq(Bytes), NEW P \in Nat, Len(p) = P, P >= CaptureLimit
  PROVE  captureWrite(b, p) \in Rings /\ RingIsTail(captureWrite(b, p), w \o p)
<1>. DEFINE L == CaptureLimit
            W == Len(w)
            last == LastBytes(p, L)
            data == storedFrom(b.data, 0, last)
            lost == b.truncated \/ b.size > 0 \/ P > L
            c == [data |-> data, start |-> 0, size |-> L, truncated |-> lost]
            whole == w \o p
<1>0. W \in Nat /\ L \in Nat /\ L > 0 /\ P >= L
  BY LenProperties, Constants
<1>b. /\ b.data \in RingCells /\ b.size \in 0 .. L
      /\ b.truncated \in BOOLEAN
  BY DEF Rings
<1>1. captureWrite(b, p) = c
  BY <1>0 DEF captureWrite
<1>2. last \in Seq(Bytes) /\ Len(last) = L /\ \A k \in 1 .. L : last[k] = p[P - L + k]
  <2>1. Smaller(P, L) = L
    BY <1>0 DEF Smaller
  <2>. HIDE DEF L
  <2>. QED  BY <1>0, <2>1, LastBytesAt
<1>3. Len(whole) = W + P /\ \A k \in 1 .. P : whole[W + k] = p[k]
  BY JoinedAt
<1>. HIDE DEF W, last, whole
<1>4. 0 \in Cells /\ L <= CaptureLimit
  BY <1>0 DEF Cells
<1>5. data \in RingCells /\ \A j \in 0 .. L - 1 : data[Turn(0, j)] = last[j + 1]
  <2>1. data = storedFrom(b.data, 0, last) /\ b.data \in RingCells
    BY <1>b
  <2>. HIDE DEF L, data
  <2>. QED  BY <1>2, <1>4, <2>1, StoredAs
<1>. HIDE DEF data
<1>6. c \in Rings
  <2>1. lost \in BOOLEAN /\ L \in 0 .. CaptureLimit
    BY <1>0
  <2>. HIDE DEF lost, L
  <2>. QED  BY <1>4, <1>5, <2>1 DEF Rings
<1>7. Smaller(W + P, L) = L
  BY <1>0 DEF Smaller
<1>8. ASSUME NEW i \in 0 .. L - 1
      PROVE  data[Turn(0, i)] = whole[(W + P) - L + i + 1]
  <2>1. P - L + (i + 1) \in 1 .. P /\ W + (P - L + (i + 1)) = (W + P) - L + i + 1 /\ i + 1 \in 1 .. L
    BY <1>0
  <2>2. whole[W + (P - L + (i + 1))] = p[P - L + (i + 1)]
    BY <1>3, <2>1
  <2>. QED  BY <1>2, <1>5, <2>1, <2>2
<1>9. lost <=> W + P > L
  <2>1. b.size = Smaller(W, L) /\ (b.truncated <=> W > L)
    BY DEF RingIsTail, W
  <2>2. b.size > 0 <=> W > 0
    BY <1>0, <2>1 DEF Smaller
  <2>. QED  BY <1>0, <2>1, <2>2
<1>10. RingIsTail(c, whole)
  BY <1>3, <1>7, <1>8, <1>9 DEF RingIsTail, HoldsEnd
<1>. QED  BY <1>1, <1>6, <1>10 DEF whole

\* A shorter chunk goes behind what is there, and drops the front if it must.
LEMMA RingExtended ==
  ASSUME NEW b \in Rings, NEW w \in Seq(Bytes), RingIsTail(b, w),
         NEW p \in Seq(Bytes), NEW P \in Nat, Len(p) = P, P > 0, P < CaptureLimit
  PROVE  captureWrite(b, p) \in Rings /\ RingIsTail(captureWrite(b, p), w \o p)
<1>0. CaptureLimit \in Nat /\ Len(w) \in Nat
  BY LenProperties, Constants
<1>b. /\ b.data \in RingCells /\ b.size \in Nat /\ b.start \in Cells
      /\ b.truncated \in BOOLEAN
      /\ b.size = Smaller(Len(w), CaptureLimit) /\ (b.truncated <=> Len(w) > CaptureLimit)
      /\ HoldsEnd(b.data, b.start, b.size, w)
  BY <1>0 DEF Rings, RingIsTail
<1>1. PICK W \in Nat : W = Len(w)
  BY <1>0
<1>2. PICK z \in Nat : z = b.size /\ z = Smaller(W, CaptureLimit) /\ z <= CaptureLimit /\ z <= W
  BY <1>0, <1>1, <1>b DEF Smaller
<1>3. PICK d \in Nat : d = IF P > CaptureLimit - z THEN P - (CaptureLimit - z) ELSE 0
  BY <1>0, <1>2
<1>4. PICK K \in Nat : K = z - d /\ d + K = z /\ K + P <= CaptureLimit
  BY <1>0, <1>2, <1>3
<1>5. K + P = Smaller(W + P, CaptureLimit) /\ (d > 0 \/ W > CaptureLimit <=> W + P > CaptureLimit)
  BY <1>0, <1>2, <1>3, <1>4 DEF Smaller
<1>. DEFINE start == Turn(b.start, d)
            data == storedFrom(b.data, Turn(start, K), p)
            c == [data |-> data, start |-> start, size |-> K + P,
                  truncated |-> b.truncated \/ d > 0]
<1>6. captureWrite(b, p) = c
  <2>1. Len(p) # 0 /\ ~ (Len(p) >= CaptureLimit)
    BY <1>0
  <2>2. b.size = z /\ d = IF Len(p) > CaptureLimit - z THEN Len(p) - (CaptureLimit - z) ELSE 0
    BY <1>2, <1>3
  <2>3. captureWrite(b, p)
          = [data |-> storedFrom(b.data, (((b.start + d) % CaptureLimit) + (b.size - d)) % CaptureLimit, p),
             start |-> (b.start + d) % CaptureLimit,
             size |-> b.size - d + Len(p),
             truncated |-> b.truncated \/ d > 0]
    BY <2>1, <2>2, Zenon DEF captureWrite
  <2>. QED  BY <2>3, <1>2, <1>4 DEF Turn
<1>7. data \in RingCells /\ HoldsEnd(data, start, K + P, w \o p)
  <2>1. d + K <= CaptureLimit /\ d + K <= W /\ HoldsEnd(b.data, b.start, d + K, w)
    BY <1>b, <1>2, <1>4
  <2>. QED  BY <1>1, <1>b, <1>4, <2>1, RingContent
<1>8. start \in Cells
  <2>1. d \in 0 .. CaptureLimit
    BY <1>0, <1>2, <1>4
  <2>. QED  BY <1>b, <2>1, Wrap
<1>. HIDE DEF start, data
<1>9. c \in Rings
  <2>1. K + P \in 0 .. CaptureLimit /\ (b.truncated \/ d > 0) \in BOOLEAN
    BY <1>0, <1>4
  <2>. QED  BY <1>7, <1>8, <2>1 DEF Rings
<1>10. RingIsTail(c, w \o p)
  <2>1. Len(w \o p) = W + P
    BY <1>1, JoinedAt
  <2>. QED  BY <2>1, <1>1, <1>b, <1>5, <1>7 DEF RingIsTail
<1>. QED  BY <1>6, <1>9, <1>10

\* Writing a chunk of any size keeps the ring the end of the stream.
LEMMA RingStaysTail ==
  ASSUME NEW b \in Rings, NEW w \in Seq(Bytes), RingIsTail(b, w),
         NEW p \in Seq(Bytes), Len(p) > 0
  PROVE  captureWrite(b, p) \in Rings /\ RingIsTail(captureWrite(b, p), w \o p)
<1>1. PICK P \in Nat : Len(p) = P
  BY LenProperties
<1>2. CASE P >= CaptureLimit
  BY <1>1, <1>2, RingReplaced
<1>3. CASE P < CaptureLimit
  BY <1>1, <1>3, RingExtended
<1>. QED  BY <1>1, <1>2, <1>3, Constants

-----------------------------------------------------------------------------
\* A fresh writer knows of the empty stream what there is to know.
LEMMA WriterStarts == WriterInit => WriterInv
<1>. SUFFICES ASSUME WriterInit PROVE WriterInv
  OBVIOUS
<1>1. written \in Seq(Bytes) /\ Len(written) = 0 /\ markerTail \in Seq(Bytes) /\ Len(markerTail) = 0
  BY EmptySeq DEF WriterInit
<1>2. markerTail = LastBytes(written, TailLimit)
  <2>1. Smaller(0, TailLimit) = 0
    BY Constants DEF Smaller
  <2>2. LastBytes(written, TailLimit) \in Seq(Bytes) /\ Len(LastBytes(written, TailLimit)) = 0
    BY <1>1, <2>1, Constants, LastBytesAt
  <2>3. LastBytes(written, TailLimit) = <<>>
    BY <2>2, EmptySeq
  <2>. QED  BY <2>3 DEF WriterInit
<1>3. ~ BytesContain(written, Marker)
  <2>1. \A i \in Nat : ~ Occurs(written, Marker, i)
    BY <1>1, Constants DEF Occurs
  <2>. QED  BY <1>1, <2>1, Constants, ContainsOccurs
<1>4. EmptyCapture \in Rings
  <2>1. [k \in Cells |-> Zero] \in RingCells
    BY DEF RingCells
  <2>2. 0 \in Cells /\ 0 \in 0 .. CaptureLimit
    BY Constants DEF Cells
  <2>. QED  BY <2>1, <2>2 DEF EmptyCapture, Rings
<1>5. RingIsTail(EmptyCapture, written)
  BY <1>1, Constants DEF RingIsTail, HoldsEnd, EmptyCapture, Smaller
<1>. QED  BY <1>1, <1>2, <1>3, <1>4, <1>5 DEF WriterInv, WriterInit

\* Accepting a chunk extends the stream and keeps all of it.
LEMMA AcceptKeeps ==
  ASSUME WriterInv, NEW chunk \in Seq(Bytes), Len(chunk) > 0, Accept(chunk)
  PROVE  WriterInv' /\ written' = written \o chunk /\ (matched => matched') /\ (found => found')
<1>1. written' \in Seq(Bytes) /\ written' = written \o chunk
  BY ConcatProperties DEF WriterInv, Accept
<1>2. markerTail' = LastBytes(written', TailLimit)
  <2>1. updatedMarkerTail(markerTail, chunk) = LastBytes(written \o chunk, TailLimit)
    BY TailIsExact DEF WriterInv
  <2>. QED  BY <1>1, <2>1 DEF Accept
<1>3. match(chunk) \in BOOLEAN
  BY DEF match, BytesContain
<1>4. matched' \in BOOLEAN /\ found' = matched' /\ (matched => matched') /\ (found => found')
  BY <1>3 DEF WriterInv, Accept
<1>5. matched' <=> BytesContain(written', Marker)
  <2>1. BytesContain(written \o chunk, Marker) <=> BytesContain(written, Marker) \/ match(chunk)
    BY MatchIsExact DEF WriterInv
  <2>. QED  BY <1>1, <2>1 DEF WriterInv, Accept
<1>6. capture' \in Rings /\ RingIsTail(capture', written')
  <2>1. captureWrite(capture, chunk) \in Rings
        /\ RingIsTail(captureWrite(capture, chunk), written \o chunk)
    BY RingStaysTail DEF WriterInv
  <2>. QED  BY <1>1, <2>1 DEF Accept
<1>. QED  BY <1>1, <1>2, <1>4, <1>5, <1>6 DEF WriterInv

\* What the invariant is for: String returns the end of the stream.
LEMMA ReportIsExact == WriterInv => WriterExact
<1>. SUFFICES ASSUME WriterInv PROVE WriterExact
  OBVIOUS
<1>0. CaptureLimit \in Nat /\ Len(written) \in Nat
  BY Constants, LenProperties DEF WriterInv
<1>1. PICK W \in Nat : W = Len(written)
  BY <1>0
<1>2. PICK z \in Nat : z = capture.size /\ z = Smaller(W, CaptureLimit) /\ z <= W /\ z <= CaptureLimit
  BY <1>0, <1>1 DEF WriterInv, RingIsTail, Smaller
<1>3. capture.start \in Cells /\ HoldsEnd(capture.data, capture.start, z, written)
  BY <1>2 DEF WriterInv, Rings, RingIsTail
<1>4. ASSUME NEW i \in 1 .. z
      PROVE  capture.data[(capture.start + i - 1) % CaptureLimit] = written[W - z + i]
  <2>1. i - 1 \in 0 .. z - 1 /\ W - z + (i - 1) + 1 = W - z + i
    BY <1>0
  <2>2. capture.start \in Nat
    BY <1>0, <1>3 DEF Cells
  <2>3. capture.start + i - 1 = capture.start + (i - 1)
    BY <2>2
  <2>4. capture.data[Turn(capture.start, i - 1)] = written[W - z + (i - 1) + 1]
    BY <1>1, <1>3, <2>1 DEF HoldsEnd
  <2>. QED  BY <2>1, <2>3, <2>4 DEF Turn
<1>5. LastBytes(written, CaptureLimit) \in Seq(Bytes) /\ Len(LastBytes(written, CaptureLimit)) = z
      /\ \A k \in 1 .. z : LastBytes(written, CaptureLimit)[k] = written[W - z + k]
  BY <1>0, <1>1, <1>2, LastBytesAt DEF WriterInv
<1>6. captureString(capture) = [i \in 1 .. z |-> LastBytes(written, CaptureLimit)[i]]
  BY <1>2, <1>4, <1>5 DEF captureString
<1>7. LastBytes(written, CaptureLimit) = [i \in 1 .. z |-> LastBytes(written, CaptureLimit)[i]]
  BY <1>5, LenProperties
<1>. QED  BY <1>6, <1>7 DEF WriterExact, MatchedIffSeen, CaptureIsTail, WriterInv, RingIsTail

-----------------------------------------------------------------------------
(* The boot. *)

\* Where the bytes are, how far each actor has come, and what was concluded.
BootInv ==
  /\ WriterInv
  /\ emitted \in Seq(Bytes) /\ pipe \in Seq(Bytes)
  /\ copier \in {"copying", "eof", "error"}
  /\ done \in WaitValues \cup {"empty", "taken"}
  /\ pc \in {"select", "kill", "reap", "returned"}
  \* the bytes of the guest
  /\ \E rest \in Seq(Bytes) : written \o rest = emitted
  /\ copier # "error" => written \o pipe = emitted
  /\ copier = "eof" => pipe = <<>>
  \* the order of the actors
  /\ copier = "eof" => qemu # "running"
  /\ done # "empty" => qemu # "running" /\ copier # "copying"
  /\ done = "copyError" => copier = "error"
  /\ pc = "returned" => done = "taken"
  /\ pc \in {"kill", "reap"} => chosen \in {"found", "timer"}
  /\ chosen = "found" => found
  \* the verdict
  /\ pc # "returned" => result = "none"
  /\ result = "pass" => matched
  /\ result = "exited" => done = "taken" /\ ~matched
  /\ pc = "returned" /\ matched /\ copier # "error" => result = "pass" \/ chosen = "timer"

\* Cutting the first n bytes off a sequence.
LEMMA Cut ==
  ASSUME NEW s \in Seq(Bytes), NEW n \in Nat, n <= Len(s)
  PROVE  /\ SubSeq(s, 1, n) \in Seq(Bytes) /\ Len(SubSeq(s, 1, n)) = n
         /\ SubSeq(s, n + 1, Len(s)) \in Seq(Bytes)
         /\ SubSeq(s, 1, n) \o SubSeq(s, n + 1, Len(s)) = s
<1>0. Len(s) \in Nat
  BY LenProperties
<1>1. \A i \in 1 .. Len(s) : s[i] \in Bytes
  BY ElementOfSeq
<1>2. SubSeq(s, 1, n) \in Seq(Bytes) /\ Len(SubSeq(s, 1, n)) = IF 1 <= n THEN n - 1 + 1 ELSE 0
  <2>1. \A i \in 1 .. n : s[i] \in Bytes
    BY <1>0, <1>1
  <2>. QED  BY <2>1, SubSeqProperties
<1>3. Len(SubSeq(s, 1, n)) = n
  <2>1. (IF 1 <= n THEN n - 1 + 1 ELSE 0) = n
    OBVIOUS
  <2>. QED  BY <1>2, <2>1
<1>4. SubSeq(s, n + 1, Len(s)) \in Seq(Bytes)
  <2>1. \A i \in n + 1 .. Len(s) : s[i] \in Bytes
    BY <1>0, <1>1
  <2>2. n + 1 \in Int /\ Len(s) \in Int
    BY <1>0
  <2>. QED  BY <2>1, <2>2, SubSeqProperties
<1>5. SubSeq(s, 1, n) \o SubSeq(s, n + 1, Len(s)) = s
  <2>1. /\ 1 \in 1 .. Len(s) + 1 /\ n \in 1 - 1 .. Len(s) /\ Len(s) \in n .. Len(s)
    BY <1>0
  <2>2. SubSeq(s, 1, n) \o SubSeq(s, n + 1, Len(s)) = SubSeq(s, 1, Len(s))
    BY <2>1, ConcatAdjacentSubSeq
  <2>. QED  BY <2>2, SubSeqFull
<1>. QED  BY <1>2, <1>4, <1>5, <1>3

\* What the copier hands on is a prefix of what it read.
LEMMA PrefixOfPrefix ==
  ASSUME NEW s \in Seq(Bytes), NEW n \in Nat, NEW m \in Nat, n <= Len(s), m <= n
  PROVE  SubSeq(SubSeq(s, 1, n), 1, m) = SubSeq(s, 1, m)
<1>0. Len(s) \in Nat
  BY LenProperties
<1>1. \A i \in 1 .. n : s[i] \in Bytes
  BY <1>0, ElementOfSeq
<1>. DEFINE u == SubSeq(s, 1, n)
<1>2. u \in Seq(Bytes) /\ \A i \in 1 .. n : u[i] = s[i]
  <2>1. u \in Seq(Bytes) /\ \A i \in 1 .. n - 1 + 1 : u[i] = s[1 + i - 1]
    BY <1>1, SubSeqProperties
  <2>. QED  BY <2>1
<1>3. \A i \in 1 .. m : i \in 1 .. n /\ u[i] = s[i] /\ u[i] \in Bytes /\ s[i] \in Bytes
  BY <1>1, <1>2
<1>. HIDE DEF u
<1>4. /\ SubSeq(u, 1, m) \in Seq(Bytes) /\ SubSeq(s, 1, m) \in Seq(Bytes)
      /\ Len(SubSeq(u, 1, m)) = Len(SubSeq(s, 1, m))
  <2>1. /\ SubSeq(u, 1, m) \in Seq(Bytes)
        /\ Len(SubSeq(u, 1, m)) = IF 1 <= m THEN m - 1 + 1 ELSE 0
    BY <1>3, SubSeqProperties
  <2>2. /\ SubSeq(s, 1, m) \in Seq(Bytes)
        /\ Len(SubSeq(s, 1, m)) = IF 1 <= m THEN m - 1 + 1 ELSE 0
    BY <1>3, SubSeqProperties
  <2>. QED  BY <2>1, <2>2
<1>5. ASSUME NEW i \in 1 .. Len(SubSeq(s, 1, m))
      PROVE  SubSeq(u, 1, m)[i] = SubSeq(s, 1, m)[i]
  <2>1. Len(SubSeq(s, 1, m)) = IF 1 <= m THEN m - 1 + 1 ELSE 0
    BY <1>3, SubSeqProperties
  <2>2. i \in 1 .. m /\ 1 + i - 1 = i
    BY <2>1
  <2>3. \A k \in 1 .. m - 1 + 1 : SubSeq(u, 1, m)[k] = u[1 + k - 1]
    BY <1>3, SubSeqProperties
  <2>4. \A k \in 1 .. m - 1 + 1 : SubSeq(s, 1, m)[k] = s[1 + k - 1]
    BY <1>3, SubSeqProperties
  <2>5. i \in 1 .. m - 1 + 1
    BY <2>2
  <2>. QED  BY <1>3, <2>2, <2>3, <2>4, <2>5
<1>. QED  BY <1>4, <1>5, SeqEqual DEF u

\* A copy of taken of the first n bytes in the pipe.
LEMMA CopyKeeps ==
  ASSUME BootInv, copier = "copying", NEW n \in 1 .. Len(pipe), NEW taken \in 0 .. n,
         Write(SubSeq(pipe, 1, n), taken)
  PROVE  /\ WriterInv'
         /\ written' = written \o SubSeq(pipe, 1, taken)
         /\ written' \o SubSeq(pipe, taken + 1, Len(pipe)) = emitted
         /\ (matched => matched') /\ (found => found')
<1>0. Len(pipe) \in Nat /\ n \in Nat /\ taken \in Nat /\ taken <= n /\ n <= Len(pipe) /\ taken <= Len(pipe)
  BY LenProperties DEF BootInv
<1>1. /\ pipe \in Seq(Bytes) /\ written \in Seq(Bytes) /\ WriterInv
      /\ written \o pipe = emitted
  BY DEF BootInv, WriterInv
<1>. DEFINE chunk == SubSeq(pipe, 1, taken)
            rest == SubSeq(pipe, taken + 1, Len(pipe))
<1>2. chunk \in Seq(Bytes) /\ Len(chunk) = taken /\ rest \in Seq(Bytes) /\ chunk \o rest = pipe
  BY <1>0, <1>1, Cut
<1>3. SubSeq(SubSeq(pipe, 1, n), 1, taken) = chunk
  BY <1>0, <1>1, PrefixOfPrefix
<1>4. /\ WriterInv' /\ written' = written \o chunk
      /\ (matched => matched') /\ (found => found')
  <2>1. CASE taken > 0
    <3>1. Accept(chunk)
      <4>1. Accept(SubSeq(SubSeq(pipe, 1, n), 1, taken))
        BY <2>1, <1>0 DEF Write
      <4>. HIDE DEF chunk
      <4>. QED  BY <1>3, <4>1 DEF Accept
    <3>. HIDE DEF chunk
    <3>. QED  BY <1>1, <1>2, <2>1, <3>1, AcceptKeeps
  <2>2. CASE taken = 0
    <3>1. UNCHANGED writerVars
      BY <2>2 DEF Write
    <3>2. chunk = <<>>
      BY <1>2, <2>2, EmptySeq
    <3>3. written \o chunk = written
      BY <1>1, <3>2, ConcatEmptySeq
    <3>. QED  BY <1>1, <3>1, <3>3 DEF writerVars, WriterInv
  <2>. QED  BY <1>0, <2>1, <2>2
<1>. HIDE DEF chunk, rest
<1>5. (written \o chunk) \o rest = emitted
  <2>1. written \in Seq(Bytes) /\ chunk \in Seq(Bytes) /\ rest \in Seq(Bytes)
    BY <1>1, <1>2
  <2>2. (written \o chunk) \o rest = written \o (chunk \o rest)
    BY <2>1, ConcatAssociative
  <2>. QED  BY <1>1, <1>2, <2>2
<1>. QED  BY <1>4, <1>5 DEF chunk, rest

-----------------------------------------------------------------------------
\* Nothing has happened yet.
LEMMA BootStarts == BootInit => BootInv
<1>. SUFFICES ASSUME BootInit PROVE BootInv
  OBVIOUS
<1>1. WriterInv
  BY WriterStarts DEF BootInit
<1>2. <<>> \in Seq(Bytes) /\ written = <<>> /\ written \o <<>> = <<>>
  BY EmptySeq, ConcatEmptySeq DEF BootInit, WriterInit
<1>3. \E rest \in Seq(Bytes) : written \o rest = emitted
  BY <1>2 DEF BootInit
<1>. QED  BY <1>1, <1>2, <1>3 DEF BootInit, BootInv, WaitValues

\* Every step of every actor keeps the invariant.
LEMMA BootStep == BootInv /\ [BootNext]_bootVars => BootInv'
<1>. SUFFICES ASSUME BootInv, [BootNext]_bootVars PROVE BootInv'
  OBVIOUS
<1>w. WriterInv /\ written \in Seq(Bytes) /\ emitted \in Seq(Bytes) /\ pipe \in Seq(Bytes)
  BY DEF BootInv, WriterInv
<1>u. UNCHANGED writerVars => WriterInv'
  BY <1>w DEF writerVars, WriterInv
<1>1. ASSUME NEW b \in Bytes, Emit(b) PROVE BootInv'
  <2>1. WriterInv' /\ UNCHANGED <<written, matched, found, qemu, copier, done, pc, chosen, result>>
    BY <1>1, <1>u DEF Emit, writerVars, runVars
  <2>2. emitted' \in Seq(Bytes) /\ pipe' \in Seq(Bytes)
    BY <1>1, <1>w, AppendProperties DEF Emit
  <2>3. written \o pipe = emitted /\ copier # "error" /\ qemu = "running"
    BY <1>1 DEF Emit, BootInv
  <2>4. written \o Append(pipe, b) = Append(emitted, b)
    <3>1. <<b>> \in Seq(Bytes)
      BY EmptySeq, IsASeq, AppendProperties
    <3>2. Append(pipe, b) = pipe \o <<b>> /\ Append(emitted, b) = emitted \o <<b>>
      BY <1>w, AppendIsConcat
    <3>3. (written \o pipe) \o <<b>> = written \o (pipe \o <<b>>)
      BY <1>w, <3>1, ConcatAssociative
    <3>. QED  BY <2>3, <3>2, <3>3
  <2>5. written' \o pipe' = emitted'
    BY <1>1, <2>1, <2>4 DEF Emit
  <2>6. copier' # "eof" /\ done' = "empty"
    BY <2>1, <2>3 DEF BootInv
  <2>. QED  BY <2>1, <2>2, <2>3, <2>5, <2>6 DEF BootInv
<1>2. ASSUME NEW status \in {"clean", "failed"}, Exit(status) PROVE BootInv'
  <2>1. WriterInv' /\ qemu' # "running"
        /\ UNCHANGED <<written, matched, found, emitted, pipe, copier, done, pc, chosen, result>>
    BY <1>2, <1>u DEF Exit, writerVars, runVars
  <2>. QED  BY <2>1 DEF BootInv
<1>3. ASSUME NEW n \in 1 .. MaxEmitted, Copy(n) PROVE BootInv'
  <2>1. /\ copier = "copying" /\ copier' = copier /\ done = "empty" /\ n \in 1 .. Len(pipe)
        /\ Write(SubSeq(pipe, 1, n), n)
        /\ pipe' = SubSeq(pipe, n + 1, Len(pipe))
        /\ UNCHANGED <<emitted, qemu, done, pc, chosen, result>>
    BY <1>3 DEF Copy, BootInv, runVars
  <2>0. Len(pipe) \in Nat /\ n \in Nat /\ n \in 0 .. n /\ n <= Len(pipe)
    BY <2>1, <1>w, LenProperties
  <2>2. WriterInv' /\ written' \o pipe' = emitted /\ (matched => matched') /\ (found => found')
    BY <2>0, <2>1, CopyKeeps
  <2>3. pipe' \in Seq(Bytes)
    BY <2>0, <2>1, <1>w, Cut
  <2>4. pc # "returned" /\ result = "none"
    BY <2>1 DEF BootInv
  <2>. QED  BY <2>1, <2>2, <2>3, <2>4 DEF BootInv
<1>4. ASSUME NEW n \in 1 .. MaxEmitted, NEW taken \in 0 .. n - 1, CopyFails(n, taken)
      PROVE  BootInv'
  <2>1. /\ copier = "copying" /\ copier' = "error" /\ done = "empty" /\ n \in 1 .. Len(pipe)
        /\ Write(SubSeq(pipe, 1, n), taken)
        /\ pipe' = <<>>
        /\ UNCHANGED <<emitted, qemu, done, pc, chosen, result>>
    BY <1>4 DEF CopyFails, BootInv, runVars
  <2>0. Len(pipe) \in Nat /\ taken \in Nat /\ taken \in 0 .. n /\ taken <= Len(pipe)
    BY <2>1, <1>w, LenProperties
  <2>2. /\ WriterInv' /\ written' \o SubSeq(pipe, taken + 1, Len(pipe)) = emitted
        /\ (matched => matched') /\ (found => found')
    BY <2>0, <2>1, CopyKeeps
  <2>3. SubSeq(pipe, taken + 1, Len(pipe)) \in Seq(Bytes) /\ pipe' \in Seq(Bytes)
    BY <2>0, <2>1, <1>w, Cut, EmptySeq
  <2>4. pc # "returned" /\ result = "none"
    BY <2>1 DEF BootInv
  <2>5. \E rest \in Seq(Bytes) : written' \o rest = emitted'
    BY <2>1, <2>2, <2>3
  <2>. QED  BY <2>1, <2>2, <2>3, <2>4, <2>5 DEF BootInv
<1>5. ASSUME CopyEnds PROVE BootInv'
  <2>1. WriterInv' /\ copier = "copying" /\ copier' = "eof" /\ pipe = <<>> /\ qemu # "running"
        /\ UNCHANGED <<written, matched, found, emitted, pipe, qemu, done, pc, chosen, result>>
    BY <1>5, <1>u DEF CopyEnds, writerVars, runVars
  <2>2. done = "empty"
    BY <2>1 DEF BootInv
  <2>. QED  BY <2>1, <2>2 DEF BootInv
<1>6. ASSUME Wait PROVE BootInv'
  <2>1. WriterInv' /\ done = "empty" /\ qemu # "running" /\ copier # "copying" /\ done' = WaitValue
        /\ UNCHANGED <<written, matched, found, emitted, pipe, copier, qemu, pc, chosen, result>>
    BY <1>6, <1>u DEF Wait, writerVars, runVars
  <2>2. done' \in WaitValues /\ (done' = "copyError" => copier = "error")
    BY <2>1 DEF WaitValue, WaitValues
  <2>3. pc # "returned" /\ result = "none"
    BY <2>1 DEF BootInv
  <2>. QED  BY <2>1, <2>2, <2>3 DEF BootInv
<1>7. ASSUME Tick PROVE BootInv'
  <2>1. WriterInv'
        /\ UNCHANGED <<written, matched, found, emitted, pipe, copier, done, qemu, pc, chosen, result>>
    BY <1>7, <1>u DEF Tick, writerVars, processVars
  <2>. QED  BY <2>1 DEF BootInv
<1>8. ASSUME SelectFound \/ SelectTimer PROVE BootInv'
  <2>1. /\ WriterInv' /\ pc' = "kill" /\ chosen' \in {"found", "timer"} /\ (chosen' = "found" => found)
        /\ pc = "select"
        /\ UNCHANGED <<written, matched, found, emitted, pipe, copier, done, qemu, result>>
    BY <1>8, <1>u DEF SelectFound, SelectTimer, writerVars, processVars
  <2>. QED  BY <2>1 DEF BootInv
<1>9. ASSUME SelectDone PROVE BootInv'
  <2>1. /\ WriterInv' /\ pc = "select" /\ done \in WaitValues /\ done' = "taken" /\ chosen' = "done"
        /\ pc' = "returned" /\ result' = IF matched THEN "pass" ELSE "exited"
        /\ UNCHANGED <<written, matched, found, emitted, pipe, copier, qemu>>
    BY <1>9, <1>u DEF SelectDone, writerVars
  <2>2. qemu # "running" /\ copier # "copying"
    BY <2>1 DEF BootInv, WaitValues
  <2>. QED  BY <2>1, <2>2 DEF BootInv
<1>10. ASSUME Kill PROVE BootInv'
  <2>1. /\ WriterInv' /\ pc = "kill" /\ pc' = "reap" /\ qemu' # "running"
        /\ UNCHANGED <<written, matched, found, emitted, pipe, copier, done, chosen, result>>
    BY <1>10, <1>u DEF Kill, writerVars
  <2>. QED  BY <2>1 DEF BootInv
<1>11. ASSUME Reap PROVE BootInv'
  <2>1. /\ WriterInv' /\ pc = "reap" /\ done \in WaitValues /\ done' = "taken" /\ pc' = "returned"
        /\ result' = IF chosen = "timer" THEN "timeout"
                     ELSE IF done = "copyError" THEN "stopFailed" ELSE "pass"
        /\ UNCHANGED <<written, matched, found, emitted, pipe, copier, qemu, chosen>>
    BY <1>11, <1>u DEF Reap, writerVars
  <2>2. /\ qemu # "running" /\ copier # "copying" /\ chosen \in {"found", "timer"}
        /\ (chosen = "found" => matched) /\ (done = "copyError" => copier = "error")
    BY <2>1, <1>w DEF BootInv, WaitValues, WriterInv
  <2>. QED  BY <2>1, <2>2 DEF BootInv
<1>12. CASE UNCHANGED bootVars
  <2>1. UNCHANGED <<writerVars, qemu, emitted, pipe, copier, done, pc, chosen, result>>
    BY <1>12 DEF bootVars, processVars, runVars
  <2>. QED  BY <2>1, <1>u DEF BootInv, writerVars
<1>. QED  BY <1>1, <1>2, <1>3, <1>4, <1>5, <1>6, <1>7, <1>8, <1>9, <1>10, <1>11, <1>12 DEF BootNext

\* The invariant holds throughout.
LEMMA BootInvariant == BootSpec => []BootInv
BY BootStarts, BootStep, PTL DEF BootSpec

-----------------------------------------------------------------------------
\* However QEMU, the copier, the waiter and run interleave and however the
\* stream is cut, markerWriter has matched exactly the streams that hold the
\* marker, and tailBuffer.String is exactly their end.
THEOREM WriterIsExact == BootSpec => []WriterExact
<1>1. BootInv => WriterExact
  BY ReportIsExact DEF BootInv
<1>. QED  BY <1>1, BootInvariant, PTL

\* run passes only a guest that printed the marker, says that QEMU exited before
\* the marker only when it is nowhere in the output, and fails a guest that
\* printed it only for the timer or an output that refused bytes.
THEOREM VerdictHolds == BootSpec => []VerdictIsTrue
<1>1. BootInv => VerdictIsTrue
  <2>. SUFFICES ASSUME BootInv PROVE VerdictIsTrue
    OBVIOUS
  <2>0. /\ written \in Seq(Bytes) /\ emitted \in Seq(Bytes)
        /\ (matched <=> BytesContain(written, Marker))
    BY DEF BootInv, WriterInv
  <2>1. PassMeansPrinted
    <3>1. PICK rest \in Seq(Bytes) : written \o rest = emitted
      BY DEF BootInv
    <3>2. Window(written, emitted, 0)
      <4>1. PICK W \in Nat, R \in Nat : W = Len(written) /\ R = Len(rest)
        BY <2>0, LenProperties
      <4>2. Len(emitted) = W + R /\ \A k \in 1 .. W + R : k <= W => emitted[k] = written[k]
        BY <2>0, <3>1, <4>1, JoinedAt
      <4>3. \A k \in 1 .. W : k \in 1 .. W + R /\ k <= W /\ 0 + k = k
        BY <4>1
      <4>4. \A k \in 1 .. W : written[k] = emitted[0 + k]
        BY <4>2, <4>3
      <4>. QED  BY <4>1, <4>2, <4>4 DEF Window
    <3>3. BytesContain(written, Marker) => BytesContain(emitted, Marker)
      BY <2>0, <3>2, WindowKeeps
    <3>. QED  BY <2>0, <3>3 DEF PassMeansPrinted, BootInv
  <2>2. ExitedMeansAbsent
    <3>. SUFFICES ASSUME result = "exited", copier # "error"
                  PROVE  ~ BytesContain(emitted, Marker)
      BY DEF ExitedMeansAbsent
    <3>1. copier = "eof" /\ pipe = <<>> /\ written \o pipe = emitted /\ ~ matched
      BY DEF BootInv
    <3>2. written = emitted
      BY <2>0, <3>1, ConcatEmptySeq
    <3>. QED  BY <2>0, <3>1, <3>2
  <2>3. StopIsNoFailure
    BY DEF StopIsNoFailure, BootInv
  <2>. QED  BY <2>1, <2>2, <2>3 DEF VerdictIsTrue
<1>. QED  BY <1>1, BootInvariant, PTL
=============================================================================
