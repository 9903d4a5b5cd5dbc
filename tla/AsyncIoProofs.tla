--------------------------- MODULE AsyncIoProofs ---------------------------
(***************************************************************************)
(* The file with its thread implements a log, for every size of the        *)
(* buffers and any number of producers.                                    *)
(***************************************************************************)
EXTENDS AsyncIo, SequenceTheorems, SequenceNumbers

-----------------------------------------------------------------------------
(* The ring as a function of its parts: size n, positions r and w, bytes b. *)

LenOf(n, r, w) == IF w >= r THEN w - r ELSE n + w - r
At(n, r, i) == IF r + i < n THEN r + i ELSE r + i - n
Area(b, n, r, w) == [i \in 1 .. LenOf(n, r, w) |-> b[At(n, r, i - 1)]]

IsRing(S, n, b, r, w) ==
  /\ n \in Nat \ {0}
  /\ b \in [0 .. n - 1 -> S]
  /\ r \in 0 .. n - 1 /\ w \in 0 .. n - 1

\* c is b with the piece copied to w and behind, around the end if need be.
OffsetOf(n, w, i) == IF i >= w THEN i - w ELSE i + n - w
IsPut(n, b, w, piece, c) ==
  c = [i \in 0 .. n - 1 |-> IF OffsetOf(n, w, i) < Len(piece)
                               THEN piece[OffsetOf(n, w, i) + 1] ELSE b[i]]

\* c begins with the text.
IsFilled(n, text, g, c) ==
  c = [i \in 0 .. n - 1 |-> IF i < Len(text) THEN text[i + 1] ELSE g]

\* Equality of sequences, element by element.
LEMMA SameSeq ==
  ASSUME NEW S, NEW s \in Seq(S), NEW t \in Seq(S), Len(s) = Len(t),
         \A i \in 1 .. Len(s) : s[i] = t[i]
  PROVE  s = t
BY SeqEqual

\* What is where in two sequences put together.
LEMMA ConcatElements ==
  ASSUME NEW S, NEW s \in Seq(S), NEW t \in Seq(S), NEW k \in Nat, NEW m \in Nat,
         Len(s) = k, Len(t) = m
  PROVE  /\ s \o t \in Seq(S)
         /\ Len(s \o t) = k + m
         /\ \A i \in 1 .. k : (s \o t)[i] = s[i]
         /\ \A i \in 1 .. m : (s \o t)[k + i] = t[i]
<1>1. /\ s \o t \in Seq(S) /\ Len(s \o t) = k + m
      /\ \A i \in 1 .. k + m : (s \o t)[i] = IF i <= k THEN s[i] ELSE t[i - k]
  BY ConcatProperties
<1>2. ASSUME NEW i \in 1 .. m
      PROVE  (s \o t)[k + i] = t[i]
  <2>1. k + i \in 1 .. k + m /\ ~(k + i <= k) /\ k + i - k = i
    OBVIOUS
  <2> QED
    BY <1>1, <2>1
<1>3. \A i \in 1 .. k : i \in 1 .. k + m
  OBVIOUS
<1> QED
  BY <1>1, <1>2, <1>3

\* The first k elements of a sequence.
LEMMA PrefixElements ==
  ASSUME NEW S, NEW s \in Seq(S), NEW k \in 0 .. Len(s)
  PROVE  /\ SubSeq(s, 1, k) \in Seq(S)
         /\ Len(SubSeq(s, 1, k)) = k
         /\ \A i \in 1 .. k : SubSeq(s, 1, k)[i] = s[i]
<1>1. k \in Int /\ k \in Nat /\ \A i \in 1 .. k : s[i] \in S
  BY LenProperties, ElementOfSeq
<1>2. /\ SubSeq(s, 1, k) \in Seq(S)
      /\ Len(SubSeq(s, 1, k)) = IF 1 <= k THEN k - 1 + 1 ELSE 0
      /\ \A i \in 1 .. k - 1 + 1 : SubSeq(s, 1, k)[i] = s[1 + i - 1]
  BY <1>1, SubSeqProperties
<1>3. /\ k - 1 + 1 = k /\ \A i \in 1 .. k : 1 + i - 1 = i
      /\ (IF 1 <= k THEN k - 1 + 1 ELSE 0) = k
  BY <1>1
<1> QED
  BY <1>2, <1>3

\* A position moved by at most the size of the ring.
LEMMA ModWrap ==
  ASSUME NEW N \in Nat \ {0}, NEW a \in 0 .. N - 1, NEW d \in 0 .. N
  PROVE  (a + d) % N = IF a + d < N THEN a + d ELSE a + d - N
<1> DEFINE c == a + d
<1>1. c \in 0 .. 2 * N - 1 /\ c \in Nat /\ a \in Nat
  OBVIOUS
<1>2. a % N = a
  OBVIOUS
<1> HIDE DEF c
<1>3. CASE c < N
  BY <1>1, <1>3 DEF c
<1>4. CASE c >= N
  <2>1. (a % N) + (c - a) \in N .. 2 * N - 1
    BY <1>1, <1>2, <1>4
  <2>2. c % N = (a % N) + (c - a) - N
    BY <1>1, <2>1, ModShift
  <2>3. c % N = c - N
    BY <1>1, <1>2, <2>2
  <2> QED
    BY <1>1, <1>4, <2>3 DEF c
<1> QED
  BY <1>1, <1>3, <1>4

\* The content has fewer bytes than the ring, each at a position of the ring.
LEMMA AreaRange ==
  ASSUME NEW n \in Nat \ {0}, NEW r \in 0 .. n - 1, NEW w \in 0 .. n - 1
  PROVE  /\ LenOf(n, r, w) \in 0 .. n - 1
         /\ \A i \in 0 .. n - 1 : At(n, r, i) \in 0 .. n - 1
BY DEF LenOf, At

LEMMA AreaType ==
  ASSUME NEW S, NEW n, NEW b, NEW r, NEW w, IsRing(S, n, b, r, w)
  PROVE  /\ Area(b, n, r, w) \in Seq(S)
         /\ Len(Area(b, n, r, w)) = LenOf(n, r, w)
         /\ \A i \in 1 .. LenOf(n, r, w) : Area(b, n, r, w)[i] = b[At(n, r, i - 1)]
<1>0. n \in Nat \ {0}
  BY DEF IsRing
<1>1. LenOf(n, r, w) \in 0 .. n - 1
  BY AreaRange DEF IsRing
<1>2. \A i \in 0 .. n - 1 : At(n, r, i) \in 0 .. n - 1
  BY AreaRange DEF IsRing
<1>3. \A i \in 1 .. LenOf(n, r, w) : b[At(n, r, i - 1)] \in S
  <2> TAKE i \in 1 .. LenOf(n, r, w)
  <2>1. i - 1 \in 0 .. n - 1
    BY <1>0, <1>1
  <2> QED
    BY <1>2, <2>1 DEF IsRing
<1>4. Area(b, n, r, w) \in Seq(S) /\ Len(Area(b, n, r, w)) = LenOf(n, r, w)
  BY <1>1, <1>3, IsASeq DEF Area
<1> QED
  BY <1>4 DEF Area

\* Taking k bytes from the ring leaves the rest of them.
LEMMA TakeFromRing ==
  ASSUME NEW S, NEW n, NEW b, NEW r, NEW w, IsRing(S, n, b, r, w),
         NEW k \in 0 .. LenOf(n, r, w), NEW q, q = (r + k) % n
  PROVE  /\ IsRing(S, n, b, q, w)
         /\ SubSeq(Area(b, n, r, w), 1, k) \in Seq(S)
         /\ Len(SubSeq(Area(b, n, r, w), 1, k)) = k
         /\ SubSeq(Area(b, n, r, w), 1, k) \o Area(b, n, q, w) = Area(b, n, r, w)
<1> DEFINE L == LenOf(n, r, w)
           all == Area(b, n, r, w)
           first == SubSeq(all, 1, k)
           rest == Area(b, n, q, w)
<1>0. n \in Nat \ {0} /\ r \in 0 .. n - 1 /\ w \in 0 .. n - 1
  BY DEF IsRing
<1>1. L \in 0 .. n - 1
  BY <1>0, AreaRange
<1>2. q = IF r + k < n THEN r + k ELSE r + k - n
  BY <1>0, <1>1, ModWrap
<1>3. IsRing(S, n, b, q, w)
  BY <1>0, <1>1, <1>2 DEF IsRing
<1>4. LenOf(n, q, w) = L - k
  BY <1>0, <1>1, <1>2 DEF LenOf
<1>5. \A i \in 0 .. L - k : At(n, q, i) = At(n, r, k + i)
  BY <1>0, <1>1, <1>2 DEF At, LenOf
<1>6. all \in Seq(S) /\ Len(all) = L /\ \A i \in 1 .. L : all[i] = b[At(n, r, i - 1)]
  BY AreaType
<1>7. /\ rest \in Seq(S) /\ Len(rest) = L - k
      /\ \A i \in 1 .. L - k : rest[i] = b[At(n, q, i - 1)]
  BY <1>3, <1>4, AreaType
<1> HIDE DEF L, all, rest
<1>8. first \in Seq(S) /\ Len(first) = k /\ \A i \in 1 .. k : first[i] = all[i]
  <2>1. k \in 0 .. Len(all)
    BY <1>6 DEF L
  <2> QED
    BY <1>6, <2>1, PrefixElements
<1> HIDE DEF first
<1>12. k \in Int /\ k \in Nat /\ L \in Nat /\ k <= L /\ k + (L - k) = L
  BY <1>0, <1>1 DEF L
<1>9. /\ first \o rest \in Seq(S) /\ Len(first \o rest) = L
      /\ \A i \in 1 .. k : (first \o rest)[i] = first[i]
      /\ \A i \in 1 .. L - k : (first \o rest)[k + i] = rest[i]
  <2>1. L - k \in Nat
    BY <1>12
  <2>2. Len(first \o rest) = k + (L - k)
    BY <1>7, <1>8, <1>12, <2>1, ConcatElements
  <2> QED
    BY <1>7, <1>8, <1>12, <2>1, <2>2, ConcatElements
<1>10. ASSUME NEW i \in 1 .. L
       PROVE  (first \o rest)[i] = all[i]
  <2>1. CASE i <= k
    <3>1. i \in 1 .. k
      BY <1>12, <2>1
    <3> QED
      BY <1>8, <1>9, <3>1
  <2>2. CASE i > k
    <3> DEFINE j == i - k
    <3>1. /\ j \in 1 .. L - k /\ j - 1 \in 0 .. L - k
          /\ k + (j - 1) = i - 1 /\ k + j = i
      BY <1>12, <2>2
    <3> HIDE DEF j
    <3>2. rest[j] = b[At(n, r, i - 1)]
      BY <1>5, <1>7, <3>1
    <3>3. (first \o rest)[i] = rest[j]
      BY <1>9, <3>1
    <3> QED
      BY <1>6, <3>2, <3>3
  <2>3. i <= k \/ i > k
    BY <1>12
  <2> QED
    BY <2>1, <2>2, <2>3
<1>11. first \o rest = all
  BY <1>6, <1>9, <1>10, SameSeq
<1> QED
  BY <1>3, <1>8, <1>11 DEF first, rest, all

\* A piece for which there is room is put behind the content.
LEMMA PutIntoRing ==
  ASSUME NEW S, NEW n, NEW b, NEW r, NEW w, IsRing(S, n, b, r, w),
         NEW piece \in Seq(S), Len(piece) < n - LenOf(n, r, w),
         NEW v, v = (w + Len(piece)) % n,
         NEW c, IsPut(n, b, w, piece, c)
  PROVE  /\ IsRing(S, n, c, r, v)
         /\ Area(c, n, r, v) = Area(b, n, r, w) \o piece
<1> DEFINE L == LenOf(n, r, w)
           m == Len(piece)
           old == Area(b, n, r, w)
           new == Area(c, n, r, v)
           Off(i) == OffsetOf(n, w, i)
<1>0. n \in Nat \ {0} /\ r \in 0 .. n - 1 /\ w \in 0 .. n - 1
  BY DEF IsRing
<1>1. L \in 0 .. n - 1 /\ m \in 0 .. n - 1 /\ L + m \in 0 .. n - 1
  <2>1. L \in 0 .. n - 1 /\ m \in Nat /\ m < n - L
    BY <1>0, AreaRange, LenProperties
  <2> HIDE DEF L, m
  <2> QED
    BY <1>0, <2>1
<1>2. v = IF w + m < n THEN w + m ELSE w + m - n
  <2> HIDE DEF L
  <2>1. m \in 0 .. n
    BY <1>0, <1>1
  <2> QED
    BY <1>0, <2>1, ModWrap
<1>3. v \in 0 .. n - 1
  <2> HIDE DEF m
  <2> QED
    BY <1>0, <1>1, <1>2
<1>4. LenOf(n, r, v) = L + m
  <2>1. CASE w >= r
    <3>1. L = w - r
      BY <2>1 DEF LenOf
    <3> HIDE DEF L, m
    <3> QED
      BY <1>0, <1>1, <1>2, <2>1, <3>1 DEF LenOf
  <2>2. CASE w < r
    <3>1. L = n + w - r
      BY <1>0, <2>2 DEF LenOf
    <3> HIDE DEF L, m
    <3> QED
      BY <1>0, <1>1, <1>2, <2>2, <3>1 DEF LenOf
  <2> QED
    BY <1>0, <2>1, <2>2
<1>5. \A i \in 0 .. n - 1 : Off(i) \in 0 .. n - 1
  BY <1>0 DEF OffsetOf
<1>6. \A j \in 1 .. m : piece[j] \in S
  BY ElementOfSeq
<1>7. IsRing(S, n, c, r, v)
  <2> HIDE DEF Off, m
  <2>1. ASSUME NEW i \in 0 .. n - 1, Off(i) < m
        PROVE  Off(i) + 1 \in 1 .. m
    <3>1. Off(i) \in 0 .. n - 1
      BY <1>5
    <3> HIDE DEF Off
    <3> QED
      BY <1>0, <1>1, <2>1, <3>1
  <2>2. \A i \in 0 .. n - 1 : (IF Off(i) < m THEN piece[Off(i) + 1] ELSE b[i]) \in S
    BY <1>6, <2>1 DEF IsRing
  <2>3. c \in [0 .. n - 1 -> S]
    BY <2>2 DEF Off, m, IsPut
  <2> QED
    BY <1>0, <1>3, <2>3 DEF IsRing
<1>8. old \in Seq(S) /\ Len(old) = L /\ \A i \in 1 .. L : old[i] = b[At(n, r, i - 1)]
  BY AreaType
<1>9. /\ new \in Seq(S) /\ Len(new) = L + m
      /\ \A i \in 1 .. L + m : new[i] = c[At(n, r, i - 1)]
  BY <1>4, <1>7, AreaType
<1>10. \A i \in 0 .. L - 1 : At(n, r, i) \in 0 .. n - 1 /\ Off(At(n, r, i)) >= m
  <2> HIDE DEF m
  <2> QED
    BY <1>0, <1>1 DEF At, LenOf, OffsetOf
<1>11. \A i \in L .. L + m - 1 : At(n, r, i) \in 0 .. n - 1 /\ Off(At(n, r, i)) = i - L
  <2> HIDE DEF m
  <2> QED
    BY <1>0, <1>1 DEF At, LenOf, OffsetOf
<1>12. \A i \in 0 .. n - 1 : c[i] = IF Off(i) < m THEN piece[Off(i) + 1] ELSE b[i]
  BY DEF IsPut
<1> HIDE DEF L, m, old, new, Off
<1>16. L \in Nat /\ m \in Nat
  BY <1>0, <1>1
<1>13. /\ old \o piece \in Seq(S) /\ Len(old \o piece) = L + m
       /\ \A i \in 1 .. L : (old \o piece)[i] = old[i]
       /\ \A i \in 1 .. m : (old \o piece)[L + i] = piece[i]
  <2>1. Len(piece) = m /\ piece \in Seq(S)
    BY DEF m
  <2>2. Len(old) = L /\ old \in Seq(S)
    BY <1>8
  <2> QED
    BY SMTT(30), <1>16, <2>1, <2>2, ConcatElements
<1>14. ASSUME NEW i \in 1 .. L + m
       PROVE  new[i] = (old \o piece)[i]
  <2>1. CASE i <= L
    <3>1. i - 1 \in 0 .. L - 1 /\ i \in 1 .. L
      BY <1>16, <2>1
    <3>2. Off(At(n, r, i - 1)) \in 0 .. n - 1 /\ ~(Off(At(n, r, i - 1)) < m)
      <4>1. Off(At(n, r, i - 1)) \in 0 .. n - 1 /\ Off(At(n, r, i - 1)) >= m
        BY <1>5, <1>10, <3>1
      <4> QED
        BY <1>0, <1>16, <4>1
    <3>3. new[i] = b[At(n, r, i - 1)]
      BY <1>9, <1>10, <1>12, <3>1, <3>2
    <3> QED
      BY <1>8, <1>13, <3>1, <3>3
  <2>2. CASE i > L
    <3> DEFINE j == i - L
    <3>1. /\ i - 1 \in L .. L + m - 1 /\ i - 1 - L = j - 1 /\ j - 1 < m
          /\ j - 1 + 1 = j /\ j \in 1 .. m /\ L + j = i
      BY <1>16, <2>2
    <3> HIDE DEF j
    <3>2. At(n, r, i - 1) \in 0 .. n - 1 /\ Off(At(n, r, i - 1)) = j - 1
      BY <1>11, <3>1
    <3>3. c[At(n, r, i - 1)] = piece[j]
      BY <1>12, <3>1, <3>2
    <3>4. new[i] = piece[j]
      BY <1>9, <3>3
    <3>5. (old \o piece)[i] = piece[j]
      BY <1>13, <3>1
    <3> QED
      BY <3>4, <3>5
  <2>3. i <= L \/ i > L
    BY <1>16
  <2> QED
    BY <2>1, <2>2, <2>3
<1>15. new = old \o piece
  BY <1>9, <1>13, <1>14, SameSeq
<1> QED
  BY <1>7, <1>15 DEF new, old

\* A text copied to the start of a larger ring is its content.
LEMMA FillRing ==
  ASSUME NEW S, NEW text \in Seq(S), NEW n \in Nat \ {0}, Len(text) < n,
         NEW g \in S,
         NEW c, IsFilled(n, text, g, c)
  PROVE  /\ IsRing(S, n, c, 0, Len(text))
         /\ Area(c, n, 0, Len(text)) = text
<1> DEFINE m == Len(text)
<1>1. m \in 0 .. n - 1 /\ \A i \in 1 .. m : text[i] \in S
  BY LenProperties, ElementOfSeq
<1> HIDE DEF m
<1>2. IsRing(S, n, c, 0, m)
  <2>1. \A i \in 0 .. n - 1 : i < m => i + 1 \in 1 .. m
    BY <1>1
  <2>2. \A i \in 0 .. n - 1 : (IF i < m THEN text[i + 1] ELSE g) \in S
    BY <1>1, <2>1
  <2>3. c \in [0 .. n - 1 -> S]
    BY <2>2 DEF m, IsFilled
  <2> QED
    BY <1>1, <2>3 DEF IsRing
<1>3. LenOf(n, 0, m) = m /\ \A i \in 0 .. n - 1 : At(n, 0, i) = i
  BY <1>1 DEF LenOf, At
<1>4. /\ Area(c, n, 0, m) \in Seq(S) /\ Len(Area(c, n, 0, m)) = m
      /\ \A i \in 1 .. m : Area(c, n, 0, m)[i] = c[At(n, 0, i - 1)]
  BY <1>1, <1>2, <1>3, AreaType
<1>5. ASSUME NEW i \in 1 .. m
      PROVE  Area(c, n, 0, m)[i] = text[i]
  <2>1. i - 1 \in 0 .. n - 1 /\ i - 1 < m /\ i - 1 + 1 = i
    BY <1>1
  <2>2. c[i - 1] = text[i - 1 + 1]
    BY <2>1 DEF m, IsFilled
  <2> QED
    BY <1>3, <1>4, <2>1, <2>2
<1>6. Area(c, n, 0, m) = text
  BY <1>4, <1>5, SameSeq DEF m
<1> QED
  BY <1>2, <1>6 DEF m

-----------------------------------------------------------------------------
(* The ring of the structure.                                              *)

Stored == Byte \cup {Garbage}
RingOK == IsRing(Stored, buffer_size, buffer, read_pos, write_pos)

\* The content as a function of the parts of the ring, before and after a step.
LEMMA ContentIsArea ==
  /\ Content = Area(buffer, buffer_size, read_pos, write_pos)
  /\ Content' = Area(buffer', buffer_size', read_pos', write_pos')
  /\ BufferLen = LenOf(buffer_size, read_pos, write_pos)
  /\ BufferLen' = LenOf(buffer_size', read_pos', write_pos')
BY DEF Content, Area, BufferLen, LenOf, Position, At

LEMMA RingOfType ==
  /\ TypeOK => RingOK
  /\ RingOK <=> RingTypeOK
  /\ RingOK' <=> RingTypeOK'
  /\ RingOK => /\ buffer_size \in Nat \ {0}
               /\ buffer \in [0 .. buffer_size - 1 -> Stored]
               /\ read_pos \in 0 .. buffer_size - 1
               /\ write_pos \in 0 .. buffer_size - 1
BY DEF TypeOK, RingTypeOK, RingOK, IsRing, Stored

LEMMA ContentType ==
  ASSUME RingOK
  PROVE  /\ Content \in Seq(Stored) /\ Len(Content) = BufferLen
         /\ BufferLen \in 0 .. buffer_size - 1
BY ContentIsArea, AreaType, AreaRange, RingOfType DEF RingOK

\* The thread takes at least one byte and leaves the others.
LEMMA TakeText ==
  ASSUME TypeOK, WriterTake
  PROVE  /\ RingOK'
         /\ local_buffer' \in Seq(Stored) /\ local_buffer' # <<>>
         /\ Content = local_buffer' \o Content'
<1>1. PICK n : /\ n = IF BufferLen <= LocalSize THEN BufferLen ELSE LocalSize
               /\ read_pos # write_pos
               /\ local_buffer' = SubSeq(Content, 1, n)
               /\ read_pos' = (read_pos + n) % buffer_size
               /\ UNCHANGED <<buffer, buffer_size, write_pos>>
  BY DEF WriterTake
<1>2. RingOK
  BY RingOfType
<1>3. BufferLen \in Nat /\ BufferLen # 0
  <2>1. BufferLen \in 0 .. buffer_size - 1
    BY <1>2, ContentType
  <2>2. BufferLen # 0
    BY <1>1, <1>2, RingOfType DEF BufferLen
  <2> QED
    BY <1>2, <2>1, <2>2, RingOfType
<1>4. n \in 0 .. BufferLen /\ n # 0
  BY <1>1, <1>3, SizesAssumption
<1>5. /\ IsRing(Stored, buffer_size, buffer, read_pos', write_pos)
      /\ local_buffer' \in Seq(Stored) /\ Len(local_buffer') = n
      /\ local_buffer' \o Area(buffer, buffer_size, read_pos', write_pos) = Content
  <2> DEFINE all == Area(buffer, buffer_size, read_pos, write_pos)
  <2>1. /\ IsRing(Stored, buffer_size, buffer, read_pos, write_pos)
        /\ n \in 0 .. LenOf(buffer_size, read_pos, write_pos)
        /\ read_pos' = (read_pos + n) % buffer_size
    BY <1>1, <1>2, <1>4, ContentIsArea DEF RingOK
  <2>2. /\ IsRing(Stored, buffer_size, buffer, read_pos', write_pos)
        /\ SubSeq(all, 1, n) \in Seq(Stored) /\ Len(SubSeq(all, 1, n)) = n
        /\ SubSeq(all, 1, n) \o Area(buffer, buffer_size, read_pos', write_pos) = all
    BY <2>1, TakeFromRing
  <2>3. Content = all /\ local_buffer' = SubSeq(all, 1, n)
    BY <1>1, ContentIsArea
  <2> QED
    BY <2>2, <2>3
<1> QED
  BY <1>1, <1>4, <1>5, ContentIsArea DEF RingOK

\* The piece goes behind the content, into the buffer or into a larger one.
LEMMA PutText ==
  ASSUME TypeOK, NEW piece \in Seq(Byte), PutInPlace(piece) \/ PutInLarger(piece)
  PROVE  /\ RingOK'
         /\ Content' = Content \o piece
         /\ BufferLen' = BufferLen + Len(piece)
<1>1. RingOK /\ piece \in Seq(Stored) /\ Len(piece) \in Nat
  <2>1. piece \in Seq(Stored)
    BY ElementOfSeq, SeqDef DEF Stored
  <2> QED
    BY <2>1, RingOfType, LenProperties
<1>2. RingOK' /\ Content' = Content \o piece
  <2>1. CASE PutInPlace(piece)
    <3>1. /\ Len(piece) < buffer_size - LenOf(buffer_size, read_pos, write_pos)
          /\ IsPut(buffer_size, buffer, write_pos, piece, buffer')
          /\ write_pos' = (write_pos + Len(piece)) % buffer_size
          /\ UNCHANGED <<buffer_size, read_pos>>
      BY <2>1, ContentIsArea DEF PutInPlace, Put, IsPut, OffsetOf
    <3>2. /\ IsRing(Stored, buffer_size, buffer', read_pos, write_pos')
          /\ Area(buffer', buffer_size, read_pos, write_pos')
               = Area(buffer, buffer_size, read_pos, write_pos) \o piece
      BY <1>1, <3>1, PutIntoRing DEF RingOK
    <3> QED
      BY <3>1, <3>2, ContentIsArea DEF RingOK
  <2>2. CASE PutInLarger(piece)
    <3>1. PICK text, need, size :
             /\ text = Content \o piece /\ need = BufferLen + Len(piece) + 1
             /\ size \in NextBufferSizes(buffer_size, need)
             /\ buffer_size' = size
             /\ IsFilled(size, text, Garbage, buffer')
             /\ read_pos' = 0 /\ write_pos' = Len(text)
      BY <2>2 DEF PutInLarger, Grow, IsFilled
    <3>2. BufferLen \in Nat /\ Content \in Seq(Stored) /\ Len(Content) = BufferLen
      BY <1>1, ContentType, RingOfType
    <3>3. text \in Seq(Stored) /\ Len(text) = BufferLen + Len(piece)
      BY <1>1, <3>1, <3>2, ConcatElements
    <3>4. size \in Nat \ {0} /\ Len(text) < size
      BY <1>1, <3>1, <3>2, <3>3 DEF NextBufferSizes
    <3>5. IsRing(Stored, size, buffer', 0, Len(text)) /\ Area(buffer', size, 0, Len(text)) = text
      <4>1. Garbage \in Stored
        BY DEF Stored
      <4>2. text \in Seq(Stored) /\ IsFilled(size, text, Garbage, buffer')
        BY <3>1, <3>3
      <4> QED
        BY <3>4, <4>1, <4>2, FillRing
    <3> QED
      BY <3>1, <3>5, ContentIsArea DEF RingOK
  <2> QED
    BY <2>1, <2>2
<1>3. Content \in Seq(Stored) /\ Len(Content) = BufferLen /\ BufferLen \in Nat
  BY <1>1, ContentType, RingOfType
<1>4. Len(Content') = BufferLen'
  <2>1. RingOK' => Len(Content') = BufferLen'
    BY ContentIsArea, AreaType DEF RingOK
  <2> QED
    BY <1>2, <2>1
<1>5. Len(Content') = BufferLen + Len(piece)
  BY <1>1, <1>2, <1>3, ConcatElements
<1> QED
  BY <1>2, <1>4, <1>5


-----------------------------------------------------------------------------
(* The invariant.                                                          *)

\* Who is between aio_lock and aio_unlock has the lock; only a producer there
\* has begun a line, and only a thread that is writing has bytes of its own.
LockInv ==
  /\ \A p \in Producers : producer[p] = "locked" <=> lock = p
  /\ writer = "locked" <=> lock = "writer"
  /\ line # <<>> => lock \in Producers
  /\ local_buffer # <<>> <=> writer = "write"

\* Nothing is lost, and a line that has been begun is still in the buffer.
TextInv == NothingLost /\ Len(line) <= BufferLen

\* The thread ends after all that was due, and the owner knows that it has.
EndInv ==
  /\ writer # "stored" => error = damaged
  /\ due = -1 <=> owner = "running"
  /\ finish = "RUNNING" <=> owner = "running"
  /\ due <= Len(accepted)
  /\ writer \in {"free", "exited"} => finish # "RUNNING" /\ Len(written) >= due
  /\ owner \in {"joined", "informed"} => writer = "exited"
  /\ report = "none" \/ owner \in {"informed", "free", "done"}

\* The two references, and that the last one to give up its own frees.
CountInv ==
  /\ refcount = (IF writer \in {"free", "exited"} THEN 0 ELSE 1)
                + (IF owner \in {"free", "done"} THEN 0 ELSE 1)
  /\ writer = "free" => owner = "done"
  /\ owner = "free" => writer = "exited"
  /\ owner \in {"free", "done"} => \A p \in Producers : producer[p] = "idle"
  /\ freed => writer = "exited" /\ owner = "done"

IInv == TypeOK /\ LockInv /\ TextInv /\ EndInv /\ CountInv


\* No producer is called "free" or "writer".
LEMMA Names == "free" \notin Producers /\ "writer" \notin Producers
BY ProducersAssumption

\* Whoever changes the lock finds it free or has it.
LEMMA LockStep ==
  TypeOK /\ LockInv /\ [Next]_vars => LockInv'
<1> SUFFICES ASSUME TypeOK /\ LockInv, [Next]_vars
             PROVE  LockInv'
  OBVIOUS
<1> USE DEF TypeOK, LockInv, ringVars, fileVars, endVars, countVars, textVars, threadVars
<1>1. ASSUME NEW p \in Producers, Lock(p)
      PROVE  LockInv'
  BY <1>1, Names DEF Lock
<1>2. ASSUME NEW p \in Producers, NEW piece \in Pieces, WriteUnlocked(p, piece)
      PROVE  LockInv'
  BY <1>2 DEF WriteUnlocked
<1>3. ASSUME NEW p \in Producers, Unlock(p)
      PROVE  LockInv'
  BY <1>3, Names DEF Unlock
<1>4. ASSUME NEW p \in Producers, Signal(p)
      PROVE  LockInv'
  BY <1>4 DEF Signal
<1>5. CASE WriterLock
  BY <1>5, Names DEF WriterLock
<1>6. CASE WriterTake
  BY <1>6, Names, TakeText DEF WriterTake
<1>7. CASE WriterStore
  BY <1>7 DEF WriterStore, Store
<1>8. CASE WriterSleep
  BY <1>8, Names DEF WriterSleep
<1>9. CASE WriterWake
  BY <1>9 DEF WriterWake
<1>10. CASE WriterExit
  BY <1>10, Names DEF WriterExit, GiveUp
<1>11. CASE WriterFree
  BY <1>11 DEF WriterFree
<1>12. CASE Close
  BY <1>12 DEF Close
<1>13. CASE AskToExit
  BY <1>13 DEF AskToExit
<1>14. CASE OwnerSignal
  BY <1>14 DEF OwnerSignal
<1>15. CASE Join
  BY <1>15 DEF Join
<1>16. CASE Error
  BY <1>16 DEF Error
<1>17. CASE Free
  BY <1>17 DEF Free, Leave
<1>18. CASE OwnerFree
  BY <1>18 DEF OwnerFree
<1>19. CASE UNCHANGED vars
  BY <1>19 DEF vars
<1> QED
  BY <1>1, <1>2, <1>3, <1>4, <1>5, <1>6, <1>7, <1>8, <1>9, <1>10, <1>11, <1>12, <1>13, <1>14, <1>15, <1>16, <1>17, <1>18, <1>19 DEF Next, Producer,
     Write, Writer, Owner, Ending, Terminated

\* The count is the number of those who still have a reference.
LEMMA CountStep ==
  TypeOK /\ LockInv /\ CountInv /\ [Next]_vars => CountInv'
<1> SUFFICES ASSUME TypeOK /\ LockInv /\ CountInv, [Next]_vars
             PROVE  CountInv'
  OBVIOUS
<1> USE DEF TypeOK, LockInv, CountInv, ringVars, fileVars, endVars, countVars, textVars, threadVars
<1>1. ASSUME NEW p \in Producers, Lock(p)
      PROVE  CountInv'
  BY <1>1 DEF Lock
<1>2. ASSUME NEW p \in Producers, NEW piece \in Pieces, WriteUnlocked(p, piece)
      PROVE  CountInv'
  BY <1>2 DEF WriteUnlocked
<1>3. ASSUME NEW p \in Producers, Unlock(p)
      PROVE  CountInv'
  BY <1>3 DEF Unlock
<1>4. ASSUME NEW p \in Producers, Signal(p)
      PROVE  CountInv'
  BY <1>4 DEF Signal
<1>5. CASE WriterLock
  BY <1>5 DEF WriterLock
<1>6. CASE WriterTake
  BY <1>6 DEF WriterTake
<1>7. CASE WriterStore
  BY <1>7 DEF WriterStore, Store
<1>8. CASE WriterSleep
  BY <1>8 DEF WriterSleep
<1>9. CASE WriterWake
  BY <1>9 DEF WriterWake
<1>10. CASE WriterExit
  BY <1>10 DEF WriterExit, GiveUp
<1>11. CASE WriterFree
  BY <1>11 DEF WriterFree
<1>12. CASE Close
  BY <1>12 DEF Close
<1>13. CASE AskToExit
  BY <1>13 DEF AskToExit
<1>14. CASE OwnerSignal
  BY <1>14 DEF OwnerSignal
<1>15. CASE Join
  BY <1>15 DEF Join
<1>16. CASE Error
  BY <1>16 DEF Error
<1>17. CASE Free
  BY <1>17 DEF Free, Leave
<1>18. CASE OwnerFree
  BY <1>18 DEF OwnerFree
<1>19. CASE UNCHANGED vars
  BY <1>19 DEF vars
<1> QED
  BY <1>1, <1>2, <1>3, <1>4, <1>5, <1>6, <1>7, <1>8, <1>9, <1>10, <1>11, <1>12, <1>13, <1>14, <1>15, <1>16, <1>17, <1>18, <1>19 DEF Next, Producer,
     Write, Writer, Owner, Ending, Terminated


-----------------------------------------------------------------------------
(* The text of the invariant.                                              *)

\* A part of a text over S is one over S.
LEMMA MiddleType ==
  ASSUME NEW S, NEW T, NEW s \in Seq(S), NEW a \in Seq(T), NEW b \in Seq(T),
         NEW c \in Seq(T), s = (a \o b) \o c
  PROVE  b \in Seq(S)
<1>1. Len(a) \in Nat /\ Len(b) \in Nat /\ Len(c) \in Nat
  BY LenProperties
<1>2. /\ a \o b \in Seq(T) /\ Len(a \o b) = Len(a) + Len(b)
      /\ \A i \in 1 .. Len(b) : (a \o b)[Len(a) + i] = b[i]
  BY <1>1, ConcatElements
<1>3. /\ Len(s) = Len(a) + Len(b) + Len(c)
      /\ \A i \in 1 .. Len(a) + Len(b) : s[i] = (a \o b)[i]
  BY <1>1, <1>2, ConcatElements
<1>4. ASSUME NEW i \in 1 .. Len(b)
      PROVE  b[i] \in S
  <2>1. Len(a) + i \in 1 .. Len(a) + Len(b) /\ Len(a) + i \in 1 .. Len(s)
    BY <1>1, <1>3
  <2>2. b[i] = s[Len(a) + i]
    BY <1>2, <1>3, <2>1
  <2> QED
    BY <2>1, <2>2, ElementOfSeq
<1>5. b = [i \in 1 .. Len(b) |-> b[i]]
  BY LenProperties
<1> QED
  BY <1>1, <1>4, <1>5, IsASeq

LEMMA BytesAreStored ==
  ASSUME NEW s \in Seq(Byte)
  PROVE  s \in Seq(Stored)
BY ElementOfSeq, SeqDef DEF Stored

\* What the thread takes are bytes, and nothing is lost by its taking them.
LEMMA TakeBytes ==
  ASSUME TypeOK, LockInv, TextInv, WriterTake
  PROVE  /\ local_buffer' \in Seq(Byte)
         /\ accepted \o line = (written \o local_buffer') \o Content'
<1>1. local_buffer = <<>> /\ writer = "locked"
  BY DEF WriterTake, LockInv
<1>2. /\ RingOK' /\ local_buffer' \in Seq(Stored)
      /\ Content = local_buffer' \o Content'
  BY TakeText
<1>3. Content' \in Seq(Stored)
  BY <1>2, ContentIsArea, AreaType DEF RingOK
<1>4. accepted \in Seq(Byte) /\ line \in Seq(Byte) /\ written \in Seq(Byte)
  BY DEF TypeOK
<1>5. written \in Seq(Stored) /\ accepted \o line \in Seq(Byte)
  BY <1>4, BytesAreStored, ConcatProperties
<1>6. accepted \o line = written \o Content
  BY <1>1, <1>4, ConcatEmptySeq DEF TextInv, NothingLost
<1>7. accepted \o line = (written \o local_buffer') \o Content'
  BY <1>2, <1>3, <1>5, <1>6, ConcatAssociative
<1> DEFINE text == accepted \o line
<1>8. /\ text \in Seq(Byte) /\ written \in Seq(Stored) /\ Content' \in Seq(Stored)
      /\ text = (written \o local_buffer') \o Content'
  BY <1>3, <1>5, <1>7
<1> HIDE DEF text
<1>9. local_buffer' \in Seq(Byte)
  BY <1>2, <1>8, MiddleType
<1> QED
  BY <1>7, <1>9

\* When the thread is not writing, nobody else has the lock and the buffer is
\* empty, all is written.
LEMMA Drained ==
  ASSUME TypeOK, LockInv, TextInv, writer # "write", lock \notin Producers,
         read_pos = write_pos
  PROVE  written = accepted
<1>1. local_buffer = <<>> /\ line = <<>>
  BY Names DEF LockInv
<1>2. Content = <<>>
  <2>1. RingOK
    BY RingOfType
  <2>2. BufferLen = 0
    BY <2>1, RingOfType DEF BufferLen
  <2>3. Content \in Seq(Stored) /\ Len(Content) = 0
    BY <2>1, <2>2, ContentType
  <2> QED
    BY <2>3, EmptySeq
<1>3. accepted \in Seq(Byte) /\ written \in Seq(Byte)
  BY DEF TypeOK
<1> QED
  BY <1>1, <1>2, <1>3, ConcatEmptySeq DEF TextInv, NothingLost

LEMMA TextStep ==
  TypeOK /\ LockInv /\ TextInv /\ [Next]_vars => TextInv'
<1> SUFFICES ASSUME TypeOK, LockInv, TextInv, [Next]_vars
             PROVE  TextInv'
  OBVIOUS
<1>1. /\ accepted \in Seq(Byte) /\ line \in Seq(Byte) /\ written \in Seq(Byte)
      /\ local_buffer \in Seq(Byte) /\ Content \in Seq(Stored)
  BY RingOfType, ContentType DEF TypeOK
<1>2. /\ accepted \in Seq(Stored) /\ line \in Seq(Stored)
      /\ written \o local_buffer \in Seq(Stored)
  BY <1>1, BytesAreStored, ConcatProperties
<1>3. ASSUME UNCHANGED <<ringVars, textVars, written, local_buffer>>
      PROVE  TextInv'
  <2>1. Content' = Content /\ BufferLen' = BufferLen
    BY <1>3, ContentIsArea DEF ringVars
  <2> QED
    BY <1>3, <2>1 DEF TextInv, NothingLost, textVars
<1>4. ASSUME NEW p \in Producers, NEW piece \in Pieces, WriteUnlocked(p, piece)
      PROVE  TextInv'
  <2>1. /\ PutInPlace(piece) \/ PutInLarger(piece)
        /\ line' = line \o piece
        /\ UNCHANGED <<accepted, written, local_buffer>>
    BY <1>4 DEF WriteUnlocked, textVars, fileVars, threadVars
  <2>2. piece \in Seq(Byte) /\ piece \in Seq(Stored)
    BY PiecesAssumption, BytesAreStored
  <2>3. Content' = Content \o piece /\ BufferLen' = BufferLen + Len(piece)
    BY <2>1, <2>2, PutText
  <2>4. accepted \o line' = (accepted \o line) \o piece
    <3>1. (accepted \o line) \o piece = accepted \o (line \o piece)
      BY SMTT(30), <1>2, <2>2, ConcatAssociative
    <3> QED
      BY <2>1, <3>1
  <2>5. (written \o local_buffer) \o Content' = ((written \o local_buffer) \o Content) \o piece
    <3> DEFINE front == written \o local_buffer
    <3>1. (front \o Content) \o piece = front \o (Content \o piece)
      BY SMTT(30), <1>1, <1>2, <2>2, ConcatAssociative
    <3> QED
      BY <2>3, <3>1
  <2>6. Len(line') <= BufferLen'
    <3>1. Len(line) \in Nat /\ Len(piece) \in Nat /\ BufferLen \in Nat
      BY <1>1, <2>2, LenProperties, RingOfType, ContentType
    <3>2. Len(line') = Len(line) + Len(piece)
      BY <1>1, <2>1, <2>2, ConcatProperties
    <3> QED
      BY <2>3, <3>1, <3>2 DEF TextInv
  <2> QED
    BY <2>1, <2>4, <2>5, <2>6 DEF TextInv, NothingLost
<1>5. ASSUME NEW p \in Producers, Unlock(p)
      PROVE  TextInv'
  <2>1. /\ accepted' = accepted \o line /\ line' = <<>>
        /\ UNCHANGED <<ringVars, written, local_buffer>>
    BY <1>5 DEF Unlock, fileVars, threadVars
  <2>2. Content' = Content /\ BufferLen' = BufferLen
    BY <2>1, ContentIsArea DEF ringVars
  <2>3. accepted' \o line' = accepted \o line
    BY <1>1, <2>1, ConcatProperties, ConcatEmptySeq
  <2>4. Len(line') = 0 /\ BufferLen \in Nat
    BY <2>1, RingOfType, ContentType
  <2> QED
    BY <2>1, <2>2, <2>3, <2>4 DEF TextInv, NothingLost
<1>6. CASE WriterTake
  <2>1. UNCHANGED <<accepted, line, written>> /\ line = <<>>
    BY <1>6, Names DEF WriterTake, textVars, fileVars, LockInv
  <2>2. accepted \o line = (written \o local_buffer') \o Content'
    BY <1>6, TakeBytes
  <2>3. BufferLen' \in Nat
    <3>1. RingOK'
      BY <1>6, TakeText
    <3>2. /\ buffer_size' \in Nat \ {0}
          /\ LenOf(buffer_size', read_pos', write_pos') \in 0 .. buffer_size' - 1
      BY <3>1, AreaRange DEF RingOK, IsRing
    <3> QED
      BY <3>2, ContentIsArea
  <2>4. Len(line') <= BufferLen'
    <3>1. Len(line') = 0
      BY <2>1
    <3> QED
      BY <2>3, <3>1
  <2>5. UNCHANGED <<accepted, line, written>>
    BY <2>1
  <2> QED
    BY <2>2, <2>4, <2>5 DEF TextInv, NothingLost
<1>7. CASE WriterStore
  <2>1. /\ written' = written \o local_buffer /\ local_buffer' = <<>>
        /\ UNCHANGED <<ringVars, accepted, line>>
    BY <1>7 DEF WriterStore, Store, textVars
  <2>2. Content' = Content /\ BufferLen' = BufferLen
    BY <2>1, ContentIsArea DEF ringVars
  <2>3. written' \o local_buffer' = written \o local_buffer
    BY <1>2, <2>1, ConcatEmptySeq
  <2> QED
    BY <2>1, <2>2, <2>3 DEF TextInv, NothingLost
<1>8. \/ UNCHANGED <<ringVars, textVars, written, local_buffer>>
      \/ \E p \in Producers : \/ \E piece \in Pieces : WriteUnlocked(p, piece)
                              \/ Unlock(p)
      \/ WriterTake \/ WriterStore
  BY DEF Next, Producer, Write, Writer, Owner, Ending, Terminated, Lock, Signal, WriterLock,
     WriterSleep, WriterWake, WriterExit, GiveUp, WriterFree, Close, AskToExit, OwnerSignal,
     Join, Error, Free, Leave, OwnerFree, vars, ringVars, fileVars, textVars, threadVars
<1> QED
  BY <1>3, <1>4, <1>5, <1>6, <1>7, <1>8

\* Every step keeps the types.
LEMMA TypeStep ==
  IInv /\ [Next]_vars => TypeOK'
<1> SUFFICES ASSUME IInv, [Next]_vars
             PROVE  TypeOK'
  OBVIOUS
<1> USE DEF TypeOK, IInv, ringVars, fileVars, endVars, countVars, textVars, threadVars
<1>0. ASSUME UNCHANGED ringVars
       PROVE  RingTypeOK'
  BY <1>0 DEF RingTypeOK, ringVars
<1>1. ASSUME NEW p \in Producers, Lock(p)
      PROVE  TypeOK'
  BY <1>1, <1>0 DEF Lock
<1>2. ASSUME NEW p \in Producers, NEW piece \in Pieces, WriteUnlocked(p, piece)
      PROVE  TypeOK'
  <2>1. piece \in Seq(Byte)
    BY PiecesAssumption
  <2>3. RingOK' /\ line' \in Seq(Byte)
    BY <1>2, <2>1, PutText, ConcatProperties DEF WriteUnlocked
  <2>2. RingTypeOK'
    BY <2>3, RingOfType
  <2>4. UNCHANGED <<lock, sphore, error, damaged, finish, refcount, thread, freed, io, writer,
                    producer, owner, accepted, written, local_buffer, due, report>>
    BY <1>2 DEF WriteUnlocked
  <2> QED
    BY <2>2, <2>3, <2>4
<1>3. ASSUME NEW p \in Producers, Unlock(p)
      PROVE  TypeOK'
  <2>1. accepted' \in Seq(Byte) /\ line' \in Seq(Byte)
    BY <1>3, <1>0, ConcatProperties, EmptySeq DEF Unlock
  <2> QED
    BY <1>3, <1>0, <2>1 DEF Unlock
<1>4. ASSUME NEW p \in Producers, Signal(p)
      PROVE  TypeOK'
  BY <1>4, <1>0 DEF Signal
<1>5. CASE WriterLock
  BY <1>5, <1>0 DEF WriterLock
<1>6. CASE WriterTake
  <2>1. RingOK' /\ local_buffer' \in Seq(Byte)
    BY <1>6, TakeText, TakeBytes
  <2>2. RingTypeOK'
    BY <2>1, RingOfType
  <2>3. /\ lock' = "free" /\ writer' = "write"
        /\ UNCHANGED <<sphore, error, damaged, finish, refcount, thread, freed, io,
                       producer, owner, line, accepted, written, due, report>>
    BY <1>6 DEF WriterTake
  <2> QED
    BY <2>1, <2>2, <2>3
<1>7. CASE WriterStore
  <2>1. written' \in Seq(Byte) /\ local_buffer' \in Seq(Byte)
    BY <1>7, <1>0, ConcatProperties, EmptySeq DEF WriterStore, Store
  <2>2. damaged' \in BOOLEAN /\ writer' = "stored"
    BY <1>7 DEF WriterStore, Store
  <2>3. UNCHANGED <<lock, sphore, ringVars, error, finish, refcount, thread, freed, io,
                    producer, owner, line, accepted, due, report>>
    BY <1>7 DEF WriterStore, Store
  <2> QED
    BY <1>0, <2>1, <2>2, <2>3
<1>8. CASE WriterSleep
  BY <1>8, <1>0 DEF WriterSleep
<1>9. CASE WriterWake
  BY <1>9, <1>0 DEF WriterWake
<1>10. CASE WriterExit
  <2>1. refcount' \in 0 .. 2
    BY <1>10, <1>0 DEF WriterExit, GiveUp, CountInv
  <2> QED
    BY <1>10, <1>0, <2>1 DEF WriterExit, GiveUp
<1>11. CASE WriterFree
  BY <1>11, <1>0 DEF WriterFree
<1>12. CASE Close
  <2>1. Len(accepted) \in Nat
    BY LenProperties
  <2> QED
    BY <1>12, <1>0, <2>1 DEF Close
<1>13. CASE AskToExit
  <2>1. Len(accepted) \in Nat
    BY LenProperties
  <2> QED
    BY ZenonT(40), <1>13, <1>0, <2>1 DEF AskToExit
<1>14. CASE OwnerSignal
  BY <1>14, <1>0 DEF OwnerSignal
<1>15. CASE Join
  BY <1>15, <1>0 DEF Join
<1>16. CASE Error
  BY <1>16, <1>0 DEF Error
<1>17. CASE Free
  <2>1. refcount' \in 0 .. 2
    BY <1>17, <1>0 DEF Free, Leave, CountInv
  <2> QED
    BY ZenonT(40), <1>17, <1>0, <2>1 DEF Free, Leave
<1>18. CASE OwnerFree
  BY <1>18, <1>0 DEF OwnerFree
<1>19. CASE UNCHANGED vars
  BY <1>19, <1>0 DEF vars
<1> QED
  BY <1>1, <1>2, <1>3, <1>4, <1>5, <1>6, <1>7, <1>8, <1>9, <1>10, <1>11, <1>12, <1>13, <1>14, <1>15, <1>16, <1>17, <1>18, <1>19 DEF Next, Producer,
     Write, Writer, Owner, Ending, Terminated

\* The thread ends with nothing left to write, and the owner waits for that.
LEMMA EndStep ==
  IInv /\ [Next]_vars => EndInv'
<1> SUFFICES ASSUME IInv, [Next]_vars
             PROVE  EndInv'
  OBVIOUS
<1> USE DEF TypeOK, EndInv, IInv, ringVars, fileVars, endVars, countVars, textVars, threadVars
<1>1. ASSUME NEW p \in Producers, Lock(p)
      PROVE  EndInv'
  BY <1>1 DEF Lock
<1>2. ASSUME NEW p \in Producers, NEW piece \in Pieces, WriteUnlocked(p, piece)
      PROVE  EndInv'
  BY <1>2 DEF WriteUnlocked
<1>3. ASSUME NEW p \in Producers, Unlock(p)
      PROVE  EndInv'
  <2>1. Len(accepted') = Len(accepted) + Len(line)
    BY <1>3, ConcatProperties DEF Unlock
  <2>2. Len(accepted) \in Nat /\ Len(line) \in Nat
    BY LenProperties
  <2>3. due <= Len(accepted')
    BY <2>1, <2>2
  <2> QED
    BY <1>3, <2>3 DEF Unlock
<1>4. ASSUME NEW p \in Producers, Signal(p)
      PROVE  EndInv'
  BY <1>4 DEF Signal
<1>5. CASE WriterLock
  BY <1>5 DEF WriterLock
<1>6. CASE WriterTake
  BY <1>6 DEF WriterTake
<1>7. CASE WriterStore
  <2>1. writer' = "stored"
    BY <1>7 DEF WriterStore, Store
  <2>2. UNCHANGED <<error, due, owner, finish, accepted, report>>
    BY <1>7 DEF WriterStore, Store
  <2>3. writer = "write"
    BY <1>7 DEF WriterStore, Store
  <2> QED
    BY <2>1, <2>2, <2>3
<1>8. CASE WriterSleep
  BY <1>8 DEF WriterSleep
<1>9. CASE WriterWake
  BY <1>9 DEF WriterWake
<1>10. CASE WriterExit
  <2>1. written = accepted
    <3>1. writer # "write" /\ lock = "writer"
      BY <1>10 DEF WriterExit, GiveUp, LockInv
    <3> QED
      BY <1>10, <3>1, Names, Drained DEF WriterExit
  <2> QED
    BY <1>10, <2>1 DEF WriterExit, GiveUp
<1>11. CASE WriterFree
  BY <1>11 DEF WriterFree
<1>12. CASE Close
  <2>1. Len(accepted) \in Nat
    BY LenProperties
  <2> QED
    BY <1>12, <2>1 DEF Close
<1>13. CASE AskToExit
  <2>1. Len(accepted) \in Nat
    BY LenProperties
  <2> QED
    BY <1>13, <2>1 DEF AskToExit
<1>14. CASE OwnerSignal
  BY <1>14 DEF OwnerSignal
<1>15. CASE Join
  BY <1>15 DEF Join
<1>16. CASE Error
  BY <1>16 DEF Error
<1>17. CASE Free
  BY <1>17 DEF Free, Leave
<1>18. CASE OwnerFree
  BY <1>18 DEF OwnerFree
<1>19. CASE UNCHANGED vars
  BY <1>19 DEF vars
<1> QED
  BY <1>1, <1>2, <1>3, <1>4, <1>5, <1>6, <1>7, <1>8, <1>9, <1>10, <1>11, <1>12, <1>13, <1>14, <1>15, <1>16, <1>17, <1>18, <1>19 DEF Next, Producer,
     Write, Writer, Owner, Ending, Terminated


LEMMA InitIInv == Init => IInv
<1> SUFFICES ASSUME Init
             PROVE  IInv
  OBVIOUS
<1> USE DEF Init
<1>1. TypeOK
  BY EmptySeq, SizesAssumption DEF TypeOK, RingTypeOK
<1>2. LockInv
  BY Names DEF LockInv
<1>3. TextInv
  <2>1. BufferLen = 0 /\ RingOK
    BY <1>1, RingOfType DEF BufferLen
  <2>2. Content = <<>>
    BY <2>1, ContentType, EmptySeq
  <2>3. <<>> \o <<>> = (<<>> \o <<>>) \o <<>>
    <3>1. <<>> \in Seq(Byte)
      BY EmptySeq
    <3> QED
      BY <3>1, ConcatEmptySeq
  <2> QED
    BY <2>1, <2>2, <2>3, EmptySeq DEF TextInv, NothingLost
<1>4. EndInv
  <2>1. Len(accepted) = 0
    BY EmptySeq
  <2>2. /\ error = damaged /\ due = -1 /\ owner = "running" /\ finish = "RUNNING"
        /\ writer = "unlocked" /\ report = "none"
    OBVIOUS
  <2> HIDE DEF Init
  <2> QED
    BY <2>1, <2>2 DEF EndInv
<1>5. CountInv
  BY DEF CountInv
<1> QED
  BY <1>1, <1>2, <1>3, <1>4, <1>5 DEF IInv

LEMMA StepIInv == IInv /\ [Next]_vars => IInv'
BY TypeStep, LockStep, TextStep, EndStep, CountStep DEF IInv

LEMMA IInvHolds == Spec => []IInv
BY InitIInv, StepIInv, PTL DEF Spec

\* The variables of the file keep their types; the positions stay within the
\* buffer and the count never becomes negative.
THEOREM TypeCorrect == Spec => []TypeOK
<1>1. IInv => TypeOK
  BY DEF IInv
<1> QED
  BY <1>1, IInvHolds, PTL

\* However often the ring wraps around and grows, whatever the sizes of the
\* buffers, every byte is in one place and in order (aio.cpp).
THEOREM BytesKept == Spec => []NothingLost
<1>1. IInv => NothingLost
  BY DEF IInv, TextInv
<1> QED
  BY <1>1, IInvHolds, PTL

\* The last of owner and thread frees, when no one uses the structure.
THEOREM FreedLast == Spec => []NoUseAfterFree
<1>1. IInv => NoUseAfterFree
  BY DEF IInv, TypeOK, LockInv, CountInv, NoUseAfterFree
<1> QED
  BY <1>1, IInvHolds, PTL
-----------------------------------------------------------------------------
(* No lost signal, and no deadlock.                                        *)

\* When the thread sleeps and no signal is there, whoever has put something in
\* or has asked for the end is still going to signal.  The last of both frees.
Signalled ==
  /\ writer = "asleep" /\ sphore = 0 =>
       /\ read_pos # write_pos => \E p \in Producers : producer[p] \in {"locked", "signal"}
       /\ finish # "RUNNING" => owner \in {"closing", "waiting"}
  /\ writer = "exited" /\ owner = "done" => freed

\* Who is within one of the functions and does not have to wait for another.
ProducerMoves(p) == producer[p] \in {"locked", "signal"}
WriterMoves ==
  \/ writer \in {"locked", "write", "free"}
  \/ writer \in {"unlocked", "stored"} /\ lock = "free"
  \/ writer = "asleep" /\ sphore > 0
OwnerMoves ==
  \/ owner \in {"closing", "waiting", "free"}
  \/ owner = "join" /\ writer = "exited"
  \/ /\ owner \in {"closed", "joined", "informed"} /\ lock = "free"
     /\ \A p \in Producers : producer[p] = "idle"

\* As long as a line is not in the file, or an end once begun has not freed the
\* structure, one of the threads can go on.
NeverStuck ==
  written # accepted \/ owner # "running"
    => freed \/ (\E p \in Producers : ProducerMoves(p)) \/ WriterMoves \/ OwnerMoves

LEMMA SignalledStep ==
  IInv /\ Signalled /\ [Next]_vars => Signalled'
<1> SUFFICES ASSUME TypeOK, LockInv, EndInv, CountInv, Signalled, [Next]_vars
             PROVE  Signalled'
  BY DEF IInv
<1> USE DEF ringVars, fileVars, endVars, countVars, textVars, threadVars
<1>1. ASSUME NEW p \in Producers, Lock(p)
      PROVE  Signalled'
  BY <1>1 DEF Lock, Signalled, TypeOK
<1>2. ASSUME NEW p \in Producers, NEW piece \in Pieces, WriteUnlocked(p, piece)
      PROVE  Signalled'
  BY <1>2 DEF WriteUnlocked, Signalled
<1>3. ASSUME NEW p \in Producers, Unlock(p)
      PROVE  Signalled'
  BY <1>3 DEF Unlock, Signalled, TypeOK
<1>4. ASSUME NEW p \in Producers, Signal(p)
      PROVE  Signalled'
  <2>1. sphore' # 0
    BY <1>4 DEF Signal, TypeOK
  <2> QED
    BY <1>4, <2>1 DEF Signal, Signalled
<1>5. CASE WriterLock \/ WriterTake \/ WriterStore \/ WriterWake
  BY <1>5 DEF WriterLock, WriterTake, WriterStore, Store, WriterWake, Signalled
<1>6. CASE WriterSleep
  BY <1>6 DEF WriterSleep, Signalled
<1>7. CASE WriterExit
  <2>1. owner = "done" => refcount = 1
    BY <1>7 DEF WriterExit, GiveUp, CountInv
  <2>2. writer' = (IF refcount - 1 = 0 THEN "free" ELSE "exited") /\ owner' = owner
    BY <1>7 DEF WriterExit, GiveUp
  <2> QED
    BY <2>1, <2>2 DEF Signalled
<1>8. CASE WriterFree
  BY <1>8 DEF WriterFree, Signalled
<1>9. CASE Close \/ AskToExit
  BY <1>9 DEF Close, AskToExit, Signalled
<1>10. CASE OwnerSignal
  <2>1. sphore' # 0
    BY <1>10 DEF OwnerSignal, TypeOK
  <2> QED
    BY <1>10, <2>1 DEF OwnerSignal, Signalled
<1>11. CASE Join
  BY <1>11 DEF Join, Signalled
<1>12. CASE Error
  BY <1>12 DEF Error, Signalled
<1>13. CASE Free
  <2>1. owner' = (IF refcount = 1 THEN "free" ELSE "done") /\ owner \in {"closed", "joined", "informed"}
    BY <1>13 DEF Free, Leave
  <2>2. writer = "exited" => refcount = 1
    BY <2>1 DEF CountInv
  <2>3. UNCHANGED <<writer, sphore, read_pos, write_pos, producer, finish>>
    BY <1>13 DEF Free, Leave
  <2> QED
    BY <2>1, <2>2, <2>3 DEF Signalled
<1>14. CASE OwnerFree
  BY <1>14 DEF OwnerFree, Signalled, CountInv
<1>15. CASE UNCHANGED vars
  BY <1>15 DEF vars, Signalled
<1> QED
  BY <1>1, <1>2, <1>3, <1>4, <1>5, <1>6, <1>7, <1>8, <1>9, <1>10, <1>11, <1>12, <1>13, <1>14, <1>15
     DEF Next, Producer, Write, Writer, Owner, Ending, Terminated

\* The thread, which looks at the buffer under the lock and waits for the semaphore
\* without it (aio_thread), never sleeps through a line or an end, and producers,
\* thread and owner never wait for each other in a circle.
THEOREM NoDeadlock == Spec => []NeverStuck
<1>1. Init => Signalled
  BY DEF Init, Signalled
<1>2. IInv /\ Signalled => NeverStuck
  <2> SUFFICES ASSUME IInv, Signalled, ~freed, \A p \in Producers : ~ProducerMoves(p),
                      ~WriterMoves, ~OwnerMoves
               PROVE  written = accepted /\ owner = "running"
    BY DEF NeverStuck
  <2>1. \A p \in Producers : producer[p] = "idle"
    BY DEF ProducerMoves, IInv, TypeOK
  <2>2. lock = "free"
    BY <2>1 DEF WriterMoves, IInv, TypeOK, LockInv
  <2>3. writer = "exited" \/ (writer = "asleep" /\ sphore = 0)
    <3>1. sphore \in Nat /\ (sphore > 0 \/ sphore = 0)
      BY DEF IInv, TypeOK
    <3> QED
      BY <2>2, <3>1 DEF WriterMoves, IInv, TypeOK
  <2>4. owner \in {"running", "done"} \/ (owner = "join" /\ writer # "exited")
    BY <2>1, <2>2 DEF OwnerMoves, IInv, TypeOK
  <2>5. writer # "exited"
    BY <2>4 DEF IInv, EndInv, Signalled
  <2>6. finish = "RUNNING" /\ read_pos = write_pos
    BY <2>1, <2>3, <2>4, <2>5 DEF Signalled
  <2>7. owner = "running"
    BY <2>6 DEF IInv, EndInv
  <2> QED
    BY <2>2, <2>3, <2>5, <2>6, <2>7, Names, Drained DEF IInv
<1> QED
  BY <1>1, <1>2, SignalledStep, IInvHolds, PTL DEF Spec

-----------------------------------------------------------------------------
(* The refinement.                                                         *)

\* What is written after a chunk is the beginning of what is accepted.
LEMMA StoredPrefix ==
  ASSUME IInv, WriterStore
  PROVE  \E n \in Len(written) + 1 .. Len(accepted) : written' = SubSeq(accepted, 1, n)
<1>1. /\ accepted \in Seq(Stored) /\ line \in Seq(Stored) /\ written \in Seq(Stored)
      /\ local_buffer \in Seq(Stored) /\ local_buffer # <<>> /\ Content \in Seq(Stored)
      /\ Len(Content) = BufferLen
      /\ written' = written \o local_buffer
  BY RingOfType, ContentType, BytesAreStored
     DEF IInv, TypeOK, LockInv, WriterStore, Store
<1>2. PICK k, m, l, a, c : /\ k = Len(written) /\ m = Len(local_buffer) /\ l = Len(line)
                           /\ a = Len(accepted) /\ c = Len(Content)
  OBVIOUS
<1>3. k \in Nat /\ m \in Nat /\ l \in Nat /\ a \in Nat /\ c \in Nat /\ m # 0
  BY <1>1, <1>2, LenProperties, EmptySeq
<1>4. /\ written' \in Seq(Stored) /\ Len(written') = k + m
  BY <1>1, <1>2, <1>3, ConcatElements
<1>5. /\ k + m + c = a + l
      /\ \A i \in 1 .. k + m : (accepted \o line)[i] = written'[i]
      /\ \A i \in 1 .. a : (accepted \o line)[i] = accepted[i]
  <2>1. accepted \o line = written' \o Content
    BY <1>1 DEF IInv, TextInv, NothingLost
  <2>2. Len(accepted \o line) = a + l /\ \A i \in 1 .. a : (accepted \o line)[i] = accepted[i]
    BY <1>1, <1>2, <1>3, ConcatElements
  <2>3. /\ Len(written' \o Content) = k + m + c
        /\ \A i \in 1 .. k + m : (written' \o Content)[i] = written'[i]
    <3>1. k + m \in Nat /\ c \in Nat /\ Len(Content) = c /\ Content \in Seq(Stored)
      BY <1>1, <1>2, <1>3
    <3> QED
      BY <1>4, <3>1, ConcatElements
  <2> QED
    BY <2>1, <2>2, <2>3
<1>6. k + m \in k + 1 .. a
  <2>1. l <= c
    BY <1>1, <1>2 DEF IInv, TextInv
  <2> QED
    BY <1>3, <1>5, <2>1
<1>7. /\ SubSeq(accepted, 1, k + m) \in Seq(Stored) /\ Len(SubSeq(accepted, 1, k + m)) = k + m
      /\ \A i \in 1 .. k + m : SubSeq(accepted, 1, k + m)[i] = accepted[i]
  <2>1. k + m \in 0 .. Len(accepted)
    BY <1>2, <1>3, <1>6
  <2> QED
    BY <1>1, <2>1, PrefixElements
<1>8. written' = SubSeq(accepted, 1, k + m)
  <2>1. ASSUME NEW i \in 1 .. k + m
        PROVE  written'[i] = SubSeq(accepted, 1, k + m)[i]
    <3>1. i \in 1 .. a
      BY <1>3, <1>6
    <3>2. SubSeq(accepted, 1, k + m)[i] = accepted[i]
      BY <1>7
    <3>3. (accepted \o line)[i] = accepted[i] /\ (accepted \o line)[i] = written'[i]
      BY <1>5, <3>1
    <3> QED
      BY <3>2, <3>3
  <2> QED
    BY <1>4, <1>7, <2>1, SameSeq
<1> QED
  BY <1>2, <1>6, <1>8

\* A line that ends is appended to what is accepted.
LEMMA AcceptedPrefix ==
  ASSUME TypeOK, NEW p \in Producers, Unlock(p)
  PROVE  /\ accepted' \in Seq(Byte) /\ Len(accepted) <= Len(accepted')
         /\ SubSeq(accepted', 1, Len(accepted)) = accepted
<1>1. accepted \in Seq(Byte) /\ line \in Seq(Byte) /\ accepted' = accepted \o line
  BY DEF TypeOK, Unlock
<1>2. PICK a, l : a = Len(accepted) /\ l = Len(line)
  OBVIOUS
<1>3. a \in Nat /\ l \in Nat
  BY <1>1, <1>2, LenProperties
<1>4. /\ accepted' \in Seq(Byte) /\ Len(accepted') = a + l
      /\ \A i \in 1 .. a : accepted'[i] = accepted[i]
  BY <1>1, <1>2, <1>3, ConcatElements
<1>5. /\ SubSeq(accepted', 1, a) \in Seq(Byte) /\ Len(SubSeq(accepted', 1, a)) = a
      /\ \A i \in 1 .. a : SubSeq(accepted', 1, a)[i] = accepted'[i]
  <2>1. a \in 0 .. Len(accepted')
    BY <1>3, <1>4
  <2> QED
    BY <1>4, <2>1, PrefixElements
<1>6. SubSeq(accepted', 1, a) = accepted
  BY <1>1, <1>2, <1>4, <1>5, SameSeq
<1> QED
  BY <1>2, <1>3, <1>4, <1>6

\* A step of the file is a step of the log or does not show there.
LEMMA StepRefines == IInv /\ [Next]_vars => [Log!Next]_(Log!vars)
<1> SUFFICES ASSUME IInv, [Next]_vars
             PROVE  Log!Next \/ UNCHANGED <<accepted, written, damaged, due, report>>
  BY DEF Log!vars
<1>1. ASSUME NEW p \in Producers, Unlock(p)
      PROVE  Log!Next
  BY <1>1, AcceptedPrefix DEF IInv, Unlock, fileVars, endVars, Log!Next, Log!Accept
<1>2. CASE WriterStore
  BY <1>2, StoredPrefix
     DEF WriterStore, Store, endVars, textVars, Log!Next, Log!Store
<1>3. CASE Close
  BY <1>3 DEF IInv, EndInv, Close, fileVars, textVars, Log!Next, Log!Finish
<1>4. CASE AskToExit
  BY <1>4 DEF AskToExit, fileVars, textVars, Log!Next, Log!Finish
<1>5. CASE Error
  <2>1. writer = "exited" /\ owner = "joined"
    BY <1>5 DEF IInv, EndInv, Error
  <2>2. report = "none" /\ error = damaged /\ due # -1 /\ Len(written) >= due
    BY <2>1 DEF IInv, EndInv
  <2> QED
    BY <1>5, <2>2 DEF Error, fileVars, textVars, Log!Next, Log!Report
<1>6. \/ UNCHANGED <<accepted, written, damaged, due, report>>
      \/ \E p \in Producers : Unlock(p)
      \/ WriterStore \/ Close \/ AskToExit \/ Error
  BY DEF Next, Producer, Write, Writer, Owner, Ending, Terminated, Lock, WriteUnlocked, Signal,
     WriterLock, WriterTake, WriterSleep, WriterWake, WriterExit, GiveUp, WriterFree,
     OwnerSignal, Join, Free, Leave, OwnerFree, vars, fileVars, textVars, endVars
<1> QED
  BY <1>1, <1>2, <1>3, <1>4, <1>5, <1>6

\* ASYNCIO is a log: lines are stored in order, whole, without gaps, and the
\* end and the errors are reported truthfully (AppendLog), for every size of
\* the two buffers and any number of producers.
THEOREM FileIsLog == Spec => ImplementsLog
<1>1. Init => Log!Init
  BY DEF Init, Log!Init
<1> QED
  BY <1>1, StepRefines, IInvHolds, PTL DEF Spec, ImplementsLog, Log!Spec

=============================================================================
