---------------------------- MODULE BufferProofs ----------------------------
(****************************************************************************)
(* Proofs about Buffer for every kCheapPrepend, kInitialSize, kExtraSize    *)
(* and every bound on the stream: the index invariant, the assert of        *)
(* hasWritten, when the vector grows, and that it implements ByteStream.    *)
(****************************************************************************)
EXTENDS Buffer, TLAPS

USE SizesAssumption, MaxReceivedAssumption DEF size

WellFormed(b) ==
  /\ b \in [cells : Seq(Nat), readerIndex : Nat, writerIndex : Nat]
  /\ kCheapPrepend <= b.readerIndex
  /\ b.readerIndex <= b.writerIndex
  /\ b.writerIndex <= Len(b.cells)

\* n stream positions, from first + 1 on.
Run(first, n) == [i \in 1..n |-> first + i]

-----------------------------------------------------------------------------
(* Sequences. *)

\* A run is a sequence of numbers.
LEMMA RunIsSequence ==
  ASSUME NEW first \in Nat, NEW n \in Nat
  PROVE  /\ Run(first, n) \in Seq(Nat) /\ Len(Run(first, n)) = n
         /\ \A i \in 1..n : Run(first, n)[i] = first + i
  BY DEF Run

\* A function on 1..n is a sequence of length n.
LEMMA FunctionIsSequence ==
  ASSUME NEW n \in Nat, NEW S, NEW f \in [1..n -> S]
  PROVE  f \in Seq(S) /\ Len(f) = n
  OBVIOUS

\* Two sequences with the same length and the same elements are equal.
LEMMA SequencesEqual ==
  ASSUME NEW s \in Seq(Nat), NEW u \in Seq(Nat), Len(s) = Len(u),
         \A i \in 1..Len(s) : s[i] = u[i]
  PROVE  s = u
  OBVIOUS

\* What is left of a sequence after its first n elements.
LEMMA SuffixIs ==
  ASSUME NEW s \in Seq(Nat), NEW n \in 0..Len(s)
  PROVE  /\ SubSeq(s, n + 1, Len(s)) \in Seq(Nat)
         /\ Len(SubSeq(s, n + 1, Len(s))) = Len(s) - n
         /\ \A i \in 1..Len(s) - n : SubSeq(s, n + 1, Len(s))[i] = s[n + i]
  OBVIOUS

\* How to recognise a concatenation.
LEMMA IsConcatenation ==
  ASSUME NEW s \in Seq(Nat), NEW u \in Seq(Nat), NEW v \in Seq(Nat),
         Len(v) = Len(s) + Len(u),
         \A i \in 1..Len(s) : v[i] = s[i],
         \A i \in 1..Len(u) : v[Len(s) + i] = u[i]
  PROVE  v = s \o u
<1>1. s \o u \in Seq(Nat) /\ Len(s \o u) = Len(s) + Len(u)
  OBVIOUS
<1>2. \A i \in 1..Len(s) : (s \o u)[i] = s[i]
  OBVIOUS
<1>3. \A i \in 1..Len(u) : (s \o u)[Len(s) + i] = u[i]
  OBVIOUS
<1>4. ASSUME NEW i \in 1..Len(v) PROVE v[i] = (s \o u)[i]
  <2>1. CASE i \in 1..Len(s)
    BY <2>1, <1>2
  <2>2. CASE i - Len(s) \in 1..Len(u)
    <3>1. i = Len(s) + (i - Len(s))
      OBVIOUS
    <3> QED
      BY <2>2, <3>1, <1>3
  <2>3. i \in 1..Len(s) \/ i - Len(s) \in 1..Len(u)
    OBVIOUS
  <2> QED
    BY <2>1, <2>2, <2>3
<1> QED
  BY <1>1, <1>4, SequencesEqual

-----------------------------------------------------------------------------
(* The member functions. *)

\* The numbers of bytes in the three regions.
LEMMA Regions ==
  ASSUME NEW b, WellFormed(b)
  PROVE  /\ size(b) \in Nat /\ readableBytes(b) \in Nat
         /\ writableBytes(b) \in Nat /\ prependableBytes(b) \in Nat
         /\ Readable(b) \in Seq(Nat) /\ Len(Readable(b)) = readableBytes(b)
         /\ \A i \in 1..readableBytes(b) : Readable(b)[i] = b.cells[b.readerIndex + i]
<1> USE DEF WellFormed, size, readableBytes, writableBytes, prependableBytes
<1>1. /\ size(b) \in Nat /\ readableBytes(b) \in Nat
      /\ writableBytes(b) \in Nat /\ prependableBytes(b) \in Nat
  OBVIOUS
<1>2. \A i \in 1..readableBytes(b) : b.cells[b.readerIndex + i] \in Nat
  OBVIOUS
<1>3. Readable(b) \in [1..readableBytes(b) -> Nat]
  BY <1>2 DEF Readable
<1> QED
  BY <1>1, <1>3, FunctionIsSequence DEF Readable

\* Growing keeps every cell there was.
LEMMA ResizedIsLonger ==
  ASSUME NEW cells \in Seq(Nat), NEW n \in Nat, Len(cells) <= n
  PROVE  /\ Resized(cells, n) \in Seq(Nat) /\ Len(Resized(cells, n)) = n
         /\ \A i \in 1..Len(cells) : Resized(cells, n)[i] = cells[i]
<1>1. \A i \in 1..n : (IF i <= Len(cells) THEN cells[i] ELSE 0) \in Nat
  OBVIOUS
<1>2. Resized(cells, n) \in [1..n -> Nat]
  BY <1>1 DEF Resized
<1> QED
  BY <1>2, FunctionIsSequence DEF Resized

\* makeSpace, called when the room behind the write index is too small, keeps
\* the readable bytes and makes room for len more.
LEMMA MakeSpaceKeeps ==
  ASSUME NEW b, WellFormed(b), NEW len \in Nat, writableBytes(b) < len
  PROVE  LET c == makeSpace(b, len)
         IN  /\ WellFormed(c)
             /\ c.writerIndex + len <= size(c)
             /\ Readable(c) = Readable(b)
             /\ readableBytes(c) = readableBytes(b)
             /\ size(c) > size(b) => kCheapPrepend + readableBytes(b) + len > size(b)
<1> DEFINE c == makeSpace(b, len)
<1>1. PICK cells \in Seq(Nat), r \in Nat, w \in Nat :
        b = [cells |-> cells, readerIndex |-> r, writerIndex |-> w]
  BY DEF WellFormed
<1>2. PICK n \in Nat, L \in Nat :
        /\ L = Len(cells) /\ n = w - r /\ kCheapPrepend <= r /\ r <= w /\ w <= L
        /\ L - w < len
        /\ n = readableBytes(b) /\ size(b) = L
  BY <1>1 DEF WellFormed, writableBytes, readableBytes
<1>3. Readable(b) = [i \in 1..n |-> cells[r + i]]
  BY <1>1, <1>2 DEF Readable
<1>4. CASE L - w + r < len + kCheapPrepend
  <2>1. c = [cells |-> Resized(cells, w + len), readerIndex |-> r, writerIndex |-> w]
    BY <1>1, <1>2, <1>4 DEF makeSpace, writableBytes, prependableBytes
  <2>2. PICK d \in Seq(Nat) : /\ d = Resized(cells, w + len) /\ Len(d) = w + len
                            /\ \A i \in 1..L : d[i] = cells[i]
    BY <1>2, ResizedIsLonger
  <2>3. WellFormed(c) /\ readableBytes(c) = n /\ size(c) = w + len
    BY <1>2, <2>1, <2>2 DEF WellFormed, readableBytes
  <2>4. ASSUME NEW i \in 1..n PROVE d[r + i] = cells[r + i]
    <3>1. r + i \in 1..L
      BY <1>2
    <3> QED
      BY <2>2, <3>1
  <2>5. Readable(c) = [i \in 1..n |-> d[r + i]]
    BY <2>1, <2>2, <2>3 DEF Readable
  <2>6. Readable(c) = Readable(b)
    BY <1>3, <2>4, <2>5
  <2>7. kCheapPrepend + n + len > L /\ c.writerIndex = w
    BY <1>2, <1>4, <2>1
  <2> QED
    BY <1>2, <2>3, <2>6, <2>7
<1>5. CASE ~(L - w + r < len + kCheapPrepend)
  <2> DEFINE cell(i) == IF i \in kCheapPrepend + 1 .. kCheapPrepend + n
                        THEN cells[i - kCheapPrepend + r] ELSE cells[i]
  <2>1. c = [cells |-> [i \in 1..L |-> cell(i)],
             readerIndex |-> kCheapPrepend, writerIndex |-> kCheapPrepend + n]
    BY <1>1, <1>2, <1>5 DEF makeSpace, writableBytes, prependableBytes
  <2>2. ASSUME NEW i \in 1..L PROVE cell(i) \in Nat
    <3>1. i \in kCheapPrepend + 1 .. kCheapPrepend + n
            => i - kCheapPrepend + r \in 1..Len(cells)
      BY <1>2
    <3> QED
      BY <1>2, <3>1
  <2>3. PICK d \in Seq(Nat) : d = [i \in 1..L |-> cell(i)] /\ Len(d) = L
    <3>1. [i \in 1..L |-> cell(i)] \in [1..L -> Nat]
      BY <2>2
    <3> QED
      BY <3>1, FunctionIsSequence
  <2>4. WellFormed(c) /\ readableBytes(c) = n /\ size(c) = L
    BY <1>2, <2>1, <2>3 DEF WellFormed, readableBytes
  <2>5. ASSUME NEW i \in 1..n PROVE d[kCheapPrepend + i] = cells[r + i]
    <3>1. /\ kCheapPrepend + i \in 1..L
          /\ kCheapPrepend + i \in kCheapPrepend + 1 .. kCheapPrepend + n
          /\ kCheapPrepend + i - kCheapPrepend + r = r + i
      BY <1>2
    <3> QED
      BY <2>3, <3>1
  <2>6. Readable(c) = [i \in 1..n |-> d[kCheapPrepend + i]]
    BY <2>1, <2>3, <2>4 DEF Readable
  <2>7. Readable(c) = Readable(b)
    BY <1>3, <2>5, <2>6
  <2>8. c.writerIndex + len <= L
    BY <1>2, <1>5, <2>1
  <2> QED
    BY <1>2, <2>4, <2>7, <2>8
<1> QED
  BY <1>4, <1>5

\* ensureWritableBytes keeps the readable bytes and leaves room for len more.
LEMMA EnsureKeeps ==
  ASSUME NEW b, WellFormed(b), NEW len \in Nat
  PROVE  LET c == ensureWritableBytes(b, len)
         IN  /\ WellFormed(c)
             /\ c.writerIndex + len <= size(c)
             /\ Readable(c) = Readable(b)
             /\ readableBytes(c) = readableBytes(b)
             /\ size(c) > size(b) => kCheapPrepend + readableBytes(b) + len > size(b)
<1>1. CASE writableBytes(b) < len
  BY <1>1, MakeSpaceKeeps DEF ensureWritableBytes
<1>2. CASE ~(writableBytes(b) < len)
  <2>1. b.writerIndex + len <= size(b) /\ size(b) \in Nat
    BY <1>2, Regions DEF writableBytes, WellFormed, size
  <2> QED
    BY <1>2, <2>1 DEF ensureWritableBytes
<1> QED
  BY <1>1, <1>2

\* hasWritten moves the write index and nothing else.
LEMMA HasWrittenMoves ==
  ASSUME NEW d, NEW r, NEW w, NEW n
  PROVE  hasWritten([cells |-> d, readerIndex |-> r, writerIndex |-> w], n)
           = [cells |-> d, readerIndex |-> r, writerIndex |-> w + n]
  BY DEF hasWritten

\* Writing n bytes behind the write index, and moving it, puts them behind the
\* readable ones.
LEMMA FilledAppends ==
  ASSUME NEW b, WellFormed(b), NEW n \in Nat, b.writerIndex + n <= size(b),
         NEW first \in Nat
  PROVE  LET c == hasWritten(Filled(b, first, n), n)
         IN  /\ WellFormed(c)
             /\ Readable(c) = Readable(b) \o Run(first, n)
             /\ readableBytes(c) = readableBytes(b) + n
             /\ size(c) = size(b)
             /\ c.writerIndex = b.writerIndex + n
             /\ c.readerIndex = b.readerIndex
<1> DEFINE c == hasWritten(Filled(b, first, n), n)
<1>1. PICK cells \in Seq(Nat), r \in Nat, w \in Nat :
        b = [cells |-> cells, readerIndex |-> r, writerIndex |-> w]
  BY DEF WellFormed
<1>2. PICK m \in Nat, L \in Nat :
        /\ L = Len(cells) /\ m = w - r /\ kCheapPrepend <= r /\ r <= w /\ w + n <= L
        /\ m = readableBytes(b) /\ size(b) = L
  BY <1>1 DEF WellFormed, readableBytes
<1>3. Readable(b) = [i \in 1..m |-> cells[r + i]]
  BY <1>1, <1>2 DEF Readable
<1> DEFINE cell(i) == IF i \in w + 1 .. w + n THEN first + (i - w) ELSE cells[i]
<1>4. c = [cells |-> [i \in 1..L |-> cell(i)], readerIndex |-> r, writerIndex |-> w + n]
  <2>1. [i \in 1..size(b) |-> IF i \in b.writerIndex + 1 .. b.writerIndex + n
                              THEN first + (i - b.writerIndex) ELSE b.cells[i]]
        = [i \in 1..L |-> cell(i)]
    BY <1>1, <1>2
  <2>2. PICK d : d = [i \in 1..L |-> cell(i)]
    OBVIOUS
  <2>3. Filled(b, first, n) = [b EXCEPT !.cells = d]
    BY <2>1, <2>2 DEF Filled
  <2>4. Filled(b, first, n) = [cells |-> d, readerIndex |-> r, writerIndex |-> w]
    BY <1>1, <2>3
  <2>5. c = [cells |-> d, readerIndex |-> r, writerIndex |-> w + n]
    BY <2>4, HasWrittenMoves
  <2> QED
    BY <2>2, <2>5
<1>5. PICK d \in Seq(Nat) : d = [i \in 1..L |-> cell(i)] /\ Len(d) = L
  <2>1. ASSUME NEW i \in 1..L PROVE cell(i) \in Nat
    BY <1>2
  <2>2. [i \in 1..L |-> cell(i)] \in [1..L -> Nat]
    BY <2>1
  <2> QED
    BY <2>2, FunctionIsSequence
<1>6. /\ WellFormed(c) /\ readableBytes(c) = m + n /\ size(c) = L
      /\ c.writerIndex = w + n /\ c.readerIndex = r
  BY <1>2, <1>4, <1>5 DEF WellFormed, readableBytes
<1>7. Readable(c) = [i \in 1..m + n |-> d[r + i]]
  BY <1>4, <1>5, <1>6 DEF Readable
<1>8. Readable(c) = Readable(b) \o Run(first, n)
  <2>1. PICK old \in Seq(Nat) : old = Readable(b) /\ Len(old) = m
                             /\ \A i \in 1..m : old[i] = cells[r + i]
    BY <1>2, <1>3, Regions
  <2>2. PICK new \in Seq(Nat) : new = Run(first, n) /\ Len(new) = n
                             /\ \A i \in 1..n : new[i] = first + i
    BY RunIsSequence
  <2>3. PICK all \in Seq(Nat) : all = Readable(c) /\ Len(all) = m + n
    BY <1>6, Regions
  <2>4. ASSUME NEW i \in 1..m PROVE all[i] = old[i]
    <3>1. i \in 1..m + n /\ r + i \in 1..L /\ r + i \notin w + 1 .. w + n
      BY <1>2
    <3>2. all[i] = cell(r + i)
      BY <1>5, <1>7, <2>3, <3>1
    <3> QED
      BY <2>1, <3>1, <3>2
  <2>5. ASSUME NEW i \in 1..n PROVE all[m + i] = new[i]
    <3>1. m + i \in 1..m + n /\ r + (m + i) = w + i
      BY <1>2
    <3>2. w + i \in 1..L /\ w + i \in w + 1 .. w + n /\ w + i - w = i
      BY <1>2
    <3>3. all[m + i] = cell(w + i)
      BY <1>5, <1>7, <2>3, <3>1, <3>2
    <3> QED
      BY <2>2, <3>2, <3>3
  <2>6. all = old \o new
    <3>1. Len(all) = Len(old) + Len(new)
      BY <2>1, <2>2, <2>3
    <3>2. \A i \in 1..Len(old) : all[i] = old[i]
      BY <2>1, <2>4
    <3>3. \A i \in 1..Len(new) : all[Len(old) + i] = new[i]
      BY <2>1, <2>2, <2>5
    <3> QED
      BY <3>1, <3>2, <3>3, IsConcatenation
  <2> QED
    BY <2>1, <2>2, <2>3, <2>6
<1> QED
  BY <1>1, <1>2, <1>6, <1>8

\* append puts len bytes behind the readable ones, whether or not it has to
\* compact or to grow.
LEMMA AppendAppends ==
  ASSUME NEW b, WellFormed(b), NEW len \in Nat, NEW first \in Nat
  PROVE  LET c == append(b, first, len)
         IN  /\ WellFormed(c)
             /\ Readable(c) = Readable(b) \o Run(first, len)
             /\ readableBytes(c) = readableBytes(b) + len
             /\ size(c) > size(b) => kCheapPrepend + readableBytes(c) > size(b)
<1> DEFINE c == append(b, first, len)
<1>1. PICK e : /\ e = ensureWritableBytes(b, len) /\ WellFormed(e)
               /\ e.writerIndex + len <= size(e) /\ Readable(e) = Readable(b)
               /\ readableBytes(e) = readableBytes(b)
               /\ size(e) > size(b) => kCheapPrepend + readableBytes(b) + len > size(b)
  BY EnsureKeeps
<1>2. c = hasWritten(Filled(e, first, len), len)
  BY <1>1 DEF append
<1> HIDE DEF c
<1>3. /\ WellFormed(c)
      /\ Readable(c) = Readable(e) \o Run(first, len)
      /\ readableBytes(c) = readableBytes(e) + len /\ size(c) = size(e)
  <2>1. WellFormed(e) /\ e.writerIndex + len <= size(e)
    BY <1>1
  <2> QED
    BY <1>2, <2>1, FilledAppends
<1>4. size(c) > size(b) => kCheapPrepend + readableBytes(c) > size(b)
  <2>1. PICK m \in Nat, L \in Nat : m = readableBytes(b) /\ L = size(b)
    BY Regions
  <2> QED
    BY <1>1, <1>3, <2>1
<1> QED
  BY <1>1, <1>3, <1>4 DEF c

\* Two consecutive runs of stream positions make one.
LEMMA RunsJoin ==
  ASSUME NEW first \in Nat, NEW m \in Nat, NEW n \in Nat
  PROVE  Run(first, m) \o Run(first + m, n) = Run(first, m + n)
<1>1. PICK u \in Seq(Nat) : u = Run(first, m) /\ Len(u) = m
                           /\ \A i \in 1..m : u[i] = first + i
  BY RunIsSequence
<1>2. PICK v \in Seq(Nat) : v = Run(first + m, n) /\ Len(v) = n
                           /\ \A i \in 1..n : v[i] = first + m + i
  <2>1. first + m \in Nat
    OBVIOUS
  <2> QED
    BY <2>1, RunIsSequence
<1>3. PICK w \in Seq(Nat) : w = Run(first, m + n) /\ Len(w) = m + n
                           /\ \A i \in 1..m + n : w[i] = first + i
  <2>1. m + n \in Nat
    OBVIOUS
  <2> QED
    BY <2>1, RunIsSequence
<1>4. Len(w) = Len(u) + Len(v)
  BY <1>1, <1>2, <1>3
<1>5. \A i \in 1..Len(u) : w[i] = u[i]
  BY <1>1, <1>3
<1>6. \A i \in 1..Len(v) : w[Len(u) + i] = v[i]
  BY <1>1, <1>2, <1>3
<1>7. w = u \o v
  BY <1>1, <1>2, <1>3, <1>4, <1>5, <1>6, IsConcatenation
<1> QED
  BY <1>1, <1>2, <1>3, <1>7

\* readFd puts the n bytes readv returned behind the readable ones, also when
\* some of them landed in extrabuf.
LEMMA ReadFdAppends ==
  ASSUME NEW b, WellFormed(b), NEW n \in Nat, NEW first \in Nat
  PROVE  LET c == readFd(b, first, n)
         IN  /\ WellFormed(c)
             /\ Readable(c) = Readable(b) \o Run(first, n)
             /\ size(c) > size(b) => kCheapPrepend + readableBytes(c) > size(b)
<1> DEFINE c == readFd(b, first, n)
<1>1. PICK m \in Nat : /\ m = writableBytes(b) /\ b.writerIndex + m = size(b)
                       /\ size(b) \in Nat
  BY Regions DEF WellFormed, writableBytes
<1>2. CASE n <= m
  <2>1. c = hasWritten(Filled(b, first, n), n)
    BY <1>1, <1>2 DEF readFd
  <2>2. b.writerIndex + n <= size(b)
    BY <1>1, <1>2 DEF WellFormed
  <2>3. /\ WellFormed(c) /\ size(c) = size(b)
        /\ Readable(c) = Readable(b) \o Run(first, n)
    BY <2>1, <2>2, FilledAppends
  <2> QED
    BY <1>1, <2>3
<1>3. CASE ~(n <= m)
  <2>1. PICK f : f = Filled(b, first, m)
    OBVIOUS
  <2>2. PICK k \in Nat, next \in Nat : k = n - m /\ next = first + m /\ n = m + k
    BY <1>3
  <2>3. PICK e : /\ e = hasWritten(f, m) /\ WellFormed(e) /\ size(e) = size(b)
                 /\ Readable(e) = Readable(b) \o Run(first, m)
                 /\ e.writerIndex = b.writerIndex + m
    BY <1>1, <2>1, FilledAppends
  <2>4. e = [f EXCEPT !.writerIndex = size(b)]
    <3>1. PICK d, r, w : f = [cells |-> d, readerIndex |-> r, writerIndex |-> w]
      <4>1. PICK d, r, w : b = [cells |-> d, readerIndex |-> r, writerIndex |-> w]
        BY DEF WellFormed
      <4>2. PICK d2 : f = [b EXCEPT !.cells = d2]
        BY <2>1 DEF Filled
      <4> QED
        BY <4>1, <4>2
    <3>2. e = [cells |-> d, readerIndex |-> r, writerIndex |-> w + m]
      BY <2>3, <3>1, HasWrittenMoves
    <3>3. w + m = size(b)
      BY <1>1, <2>3, <3>2
    <3> QED
      BY <3>1, <3>2, <3>3
  <2>5. c = append(e, next, k)
    BY <1>1, <1>3, <2>1, <2>2, <2>4 DEF readFd
  <2> HIDE DEF c
  <2>6. /\ WellFormed(c)
        /\ Readable(c) = Readable(e) \o Run(next, k)
        /\ size(c) > size(e) => kCheapPrepend + readableBytes(c) > size(e)
    <3>1. WellFormed(e)
      BY <2>3
    <3> QED
      BY <2>5, <3>1, AppendAppends
  <2>7. Readable(c) = Readable(b) \o Run(first, n)
    <3>1. Readable(c) = (Readable(b) \o Run(first, m)) \o Run(next, k)
      BY <2>3, <2>6
    <3>2. PICK s \in Seq(Nat) : s = Readable(b)
      BY Regions
    <3>3. m \in Nat /\ k \in Nat /\ next \in Nat /\ next = first + m /\ n = m + k
      BY <1>1, <2>2
    <3>4. s \in Seq(Nat)
      BY <3>2
    <3>5. Run(first, m) \o Run(next, k) = Run(first, n)
      <4>1. m \in Nat /\ k \in Nat
        BY <3>3
      <4>2. Run(first, m) \o Run(first + m, k) = Run(first, m + k)
        BY <4>1, RunsJoin
      <4> QED
        BY <3>3, <4>2
    <3>6. Run(first, m) \in Seq(Nat) /\ Run(next, k) \in Seq(Nat)
      BY <3>3, RunIsSequence
    <3>7. (s \o Run(first, m)) \o Run(next, k) = s \o (Run(first, m) \o Run(next, k))
      BY <3>4, <3>6
    <3> QED
      BY <3>1, <3>2, <3>5, <3>7
  <2> QED
    BY <2>3, <2>6, <2>7 DEF c
<1> QED
  BY <1>2, <1>3

\* retrieve drops the first len readable bytes, or all of them.
LEMMA RetrieveDrops ==
  ASSUME NEW b, WellFormed(b), NEW len \in Nat
  PROVE  LET c == retrieve(b, len)
             n == IF len < readableBytes(b) THEN len ELSE readableBytes(b)
         IN  /\ WellFormed(c) /\ size(c) = size(b)
             /\ n \in 0..Len(Readable(b))
             /\ Readable(c) = SubSeq(Readable(b), n + 1, Len(Readable(b)))
<1> DEFINE c == retrieve(b, len)
<1>1. PICK cells \in Seq(Nat), r \in Nat, w \in Nat :
        b = [cells |-> cells, readerIndex |-> r, writerIndex |-> w]
  BY DEF WellFormed
<1>2. PICK m \in Nat, L \in Nat :
        /\ L = Len(cells) /\ m = w - r /\ kCheapPrepend <= r /\ r <= w /\ w <= L
        /\ m = readableBytes(b) /\ size(b) = L
  BY <1>1 DEF WellFormed, readableBytes
<1>3. PICK s \in Seq(Nat) : s = Readable(b) /\ Len(s) = m
                           /\ \A i \in 1..m : s[i] = cells[r + i]
  BY <1>1, <1>2, Regions
<1>9. m \in Nat /\ s \in Seq(Nat) /\ Len(s) = m
  BY <1>2, <1>3
<1>4. CASE len < m
  <2>1. c = [cells |-> cells, readerIndex |-> r + len, writerIndex |-> w]
    BY <1>1, <1>2, <1>4 DEF retrieve
  <2> HIDE DEF c
  <2>2. PICK k \in Nat : k = m - len
    BY <1>2, <1>4
  <2>3. WellFormed(c) /\ readableBytes(c) = k /\ size(c) = L
    BY <1>1, <1>2, <1>4, <2>1, <2>2 DEF WellFormed, readableBytes
  <2>4. PICK u \in Seq(Nat) : u = Readable(c) /\ Len(u) = k
                             /\ \A i \in 1..k : u[i] = c.cells[c.readerIndex + i]
    BY <2>3, Regions
  <2>5. PICK v \in Seq(Nat) : v = SubSeq(s, len + 1, Len(s)) /\ Len(v) = k
                             /\ \A i \in 1..k : v[i] = s[len + i]
    <3>1. len \in 0..Len(s) /\ k = Len(s) - len
      BY <1>9, <1>4, <2>2
    <3> QED
      BY <1>9, <3>1, SuffixIs
  <2>6. ASSUME NEW i \in 1..k PROVE u[i] = v[i]
    <3>1. len + i \in 1..m /\ r + (len + i) = r + len + i
      BY <1>1, <1>2, <1>4, <2>2
    <3> QED
      BY <1>3, <2>1, <2>4, <2>5, <3>1
  <2>7. u = v
    BY <2>4, <2>5, <2>6, SequencesEqual
  <2>8. /\ len \in 0..Len(Readable(b))
        /\ Readable(c) = SubSeq(Readable(b), len + 1, Len(Readable(b)))
    BY <1>2, <1>3, <1>4, <2>4, <2>5, <2>7
  <2> QED
    BY <1>2, <1>4, <2>3, <2>8 DEF c
<1>5. CASE ~(len < m)
  <2>1. c = [cells |-> cells, readerIndex |-> kCheapPrepend, writerIndex |-> kCheapPrepend]
    BY <1>1, <1>2, <1>5 DEF retrieve, retrieveAll
  <2> HIDE DEF c
  <2>2. WellFormed(c) /\ readableBytes(c) = 0 /\ size(c) = L
    BY <1>2, <2>1 DEF WellFormed, readableBytes
  <2>3. Readable(c) = <<>>
    BY <2>2, Regions
  <2>4. SubSeq(s, m + 1, m) = <<>>
    BY <1>3
  <2>5. m \in 0..Len(s) /\ Readable(c) = SubSeq(s, m + 1, Len(s))
    BY <1>9, <2>3, <2>4
  <2> QED
    BY <1>2, <1>3, <1>5, <2>2, <2>5 DEF c
<1> QED
  BY <1>4, <1>5

-----------------------------------------------------------------------------
(* The theorems. *)

\* What one operation does to the buffer, to the stream and to the result.
LEMMA StepEffect ==
  ASSUME TypeOK, Next
  PROVE  /\ TypeOK'
         /\ \/ Stream!Put \/ Stream!Drop \/ Stream!Take
            \/ UNCHANGED <<Readable(buf), received, result>>
         /\ size(buf') > size(buf) /\ received' # received
              => kCheapPrepend + readableBytes(buf') > size(buf)
<1>1. WellFormed(buf) /\ received \in Nat /\ result \in Seq(Nat)
  BY DEF TypeOK, WellFormed
<1>2. ASSUME WellFormed(buf'), received' \in Nat, result' \in Seq(Nat) PROVE TypeOK'
  BY <1>2 DEF TypeOK, WellFormed
<1>3. ASSUME NEW len \in Nat, Retrieve(len)
      PROVE  TypeOK' /\ Stream!Drop /\ received' = received
  <2>1. buf' = retrieve(buf, len) /\ received' = received /\ result' = result
    BY <1>3 DEF Retrieve
  <2>2. PICK n \in 0..Len(Readable(buf)) :
          /\ WellFormed(buf')
          /\ Readable(buf') = SubSeq(Readable(buf), n + 1, Len(Readable(buf)))
    BY <1>1, <2>1, RetrieveDrops
  <2> QED
    BY <1>1, <1>2, <2>1, <2>2 DEF Stream!Drop
<1>4. CASE RetrieveAll
  <2>1. PICK m \in Nat : m = readableBytes(buf)
    BY <1>1, Regions
  <2>2. retrieveAll(buf) = retrieve(buf, m)
    BY <2>1 DEF retrieve
  <2>3. Retrieve(m)
    BY <1>4, <2>2 DEF RetrieveAll, Retrieve
  <2> QED
    BY <1>3, <2>1, <2>3
<1>5. ASSUME NEW len \in Nat, RetrieveAsString(len)
      PROVE  TypeOK' /\ Stream!Take /\ received' = received
  <2>1. PICK s \in Seq(Nat), m \in Nat : s = Readable(buf) /\ m = readableBytes(buf)
                                      /\ m = Len(s)
    BY <1>1, Regions
  <2>2. PICK n \in 0..m : n = IF len <= m THEN len ELSE m
    BY <2>1
  <2>3. /\ buf' = retrieve(buf, n) /\ received' = received
        /\ result' = SubSeq(s, 1, n)
    BY <1>5, <2>1, <2>2 DEF RetrieveAsString
  <2>4. n \in Nat /\ (IF n < m THEN n ELSE m) = n
    BY <2>1, <2>2
  <2>5. /\ WellFormed(buf')
        /\ Readable(buf') = SubSeq(s, n + 1, Len(s))
    BY <1>1, <2>1, <2>3, <2>4, RetrieveDrops
  <2>6. SubSeq(s, 1, n) \in Seq(Nat)
    BY <2>1, <2>2
  <2>7. n \in 0..Len(s)
    BY <2>1, <2>2
  <2> QED
    BY <1>1, <1>2, <2>1, <2>3, <2>5, <2>6, <2>7 DEF Stream!Take
<1>6. ASSUME NEW n \in Nat, received' = received + n, UNCHANGED result,
             WellFormed(buf'), Readable(buf') = Readable(buf) \o Run(received, n)
      PROVE  TypeOK' /\ Stream!Put
  <2>1. received' \in Nat /\ received' >= received /\ received' - received = n
    BY <1>1, <1>6
  <2>2. Run(received, n) = [i \in 1..received' - received |-> received + i]
    BY <2>1 DEF Run
  <2> QED
    BY <1>1, <1>2, <1>6, <2>1, <2>2 DEF Stream!Put
<1>7. ASSUME NEW len \in Nat, Append_(len)
      PROVE  /\ TypeOK' /\ Stream!Put
             /\ size(buf') > size(buf)
                  => kCheapPrepend + readableBytes(buf') > size(buf)
  <2>1. /\ buf' = append(buf, received, len) /\ received' = received + len
        /\ UNCHANGED result
    BY <1>7 DEF Append_
  <2>2. /\ WellFormed(buf') /\ Readable(buf') = Readable(buf) \o Run(received, len)
        /\ size(buf') > size(buf) => kCheapPrepend + readableBytes(buf') > size(buf)
    BY <1>1, <2>1, AppendAppends
  <2> QED
    BY <1>6, <2>1, <2>2
<1>8. ASSUME NEW len \in Nat, ReadFd(len)
      PROVE  /\ TypeOK' /\ Stream!Put
             /\ size(buf') > size(buf)
                  => kCheapPrepend + readableBytes(buf') > size(buf)
  <2>1. /\ buf' = readFd(buf, received, len) /\ received' = received + len
        /\ UNCHANGED result
    BY <1>8 DEF ReadFd
  <2>2. /\ WellFormed(buf') /\ Readable(buf') = Readable(buf) \o Run(received, len)
        /\ size(buf') > size(buf) => kCheapPrepend + readableBytes(buf') > size(buf)
    BY <1>1, <2>1, ReadFdAppends
  <2> QED
    BY <1>6, <2>1, <2>2
<1>9. ASSUME NEW len \in Nat, EnsureWritableBytes(len)
      PROVE  TypeOK' /\ UNCHANGED <<Readable(buf), received, result>>
  <2>1. buf' = ensureWritableBytes(buf, len) /\ UNCHANGED <<received, result>>
    BY <1>9 DEF EnsureWritableBytes
  <2>2. WellFormed(buf') /\ Readable(buf') = Readable(buf)
    BY <1>1, <2>1, EnsureKeeps
  <2> QED
    BY <1>1, <1>2, <2>1, <2>2
<1>10. CASE RetrieveAll
  BY <1>4, <1>10
<1>11. CASE \E len \in 0..MaxReceived :
              \/ Retrieve(len) \/ RetrieveAsString(len) \/ Append_(len)
              \/ EnsureWritableBytes(len) \/ ReadFd(len)
  <2>1. PICK len \in 0..MaxReceived :
              \/ Retrieve(len) \/ RetrieveAsString(len) \/ Append_(len)
              \/ EnsureWritableBytes(len) \/ ReadFd(len)
    BY <1>11
  <2>2. len \in Nat
    BY <2>1
  <2> QED
    BY <1>3, <1>5, <1>7, <1>8, <1>9, <2>1, <2>2
<1> QED
  BY <1>10, <1>11 DEF Next

\* The initial buffer is empty and well formed.
LEMMA InitEffect ==
  ASSUME Init
  PROVE  TypeOK /\ Stream!Init
<1>1. kCheapPrepend + kInitialSize \in Nat
  OBVIOUS
<1>2. [i \in 1..kCheapPrepend + kInitialSize |-> 0]
        \in [1..kCheapPrepend + kInitialSize -> Nat]
  OBVIOUS
<1>3. PICK d \in Seq(Nat) : d = [i \in 1..kCheapPrepend + kInitialSize |-> 0]
                           /\ Len(d) = kCheapPrepend + kInitialSize
  BY <1>1, <1>2, FunctionIsSequence
<1>4. /\ buf = [cells |-> d, readerIndex |-> kCheapPrepend, writerIndex |-> kCheapPrepend]
      /\ received = 0 /\ result = <<>>
  BY <1>3 DEF Init
<1>5. WellFormed(buf)
  BY <1>3, <1>4 DEF WellFormed
<1>6. readableBytes(buf) = 0
  BY <1>4 DEF readableBytes
<1>7. Readable(buf) = <<>>
  BY <1>5, <1>6, Regions
<1> QED
  BY <1>4, <1>5, <1>7 DEF TypeOK, WellFormed, Stream!Init

\* The indices of the buffer stay in order whatever is called.
THEOREM IndicesInOrder == Spec => []TypeOK
<1>1. TypeOK /\ [Next]_vars => TypeOK'
  <2>1. ASSUME TypeOK, UNCHANGED vars PROVE TypeOK'
    BY <2>1 DEF TypeOK, vars
  <2> QED
    BY <2>1, StepEffect
<1> QED
  BY <1>1, InitEffect, PTL DEF Spec

\* The assert in hasWritten never fails.
THEOREM AssertHolds == Spec => []RoomEnsured
<1>1. TypeOK => RoomEnsured
  <2> SUFFICES ASSUME TypeOK, NEW len \in 0..MaxReceived
               PROVE  LET b == ensureWritableBytes(buf, len)
                      IN  b.writerIndex + len <= size(b)
    BY DEF RoomEnsured
  <2>1. WellFormed(buf) /\ len \in Nat
    BY DEF TypeOK, WellFormed
  <2> QED
    BY <2>1, EnsureKeeps
<1> QED
  BY <1>1, IndicesInOrder, PTL

\* makeSpace allocates only when compaction would not do.
THEOREM NoNeedlessGrowth == Spec => GrowsOnlyWhenFull
<1>1. TypeOK /\ [Next]_vars =>
        [size(buf') > size(buf) /\ received' # received
           => kCheapPrepend + readableBytes(buf') > size(buf)]_vars
  BY StepEffect
<1> QED
  BY <1>1, IndicesInOrder, PTL DEF Spec, GrowsOnlyWhenFull

\* The vector with its two indices implements a queue of bytes.
THEOREM BufferIsStream == Spec => ImplementsByteStream
<1>1. TypeOK /\ [Next]_vars => [Stream!Next]_Stream!streamVars
  <2>1. ASSUME TypeOK, Next PROVE Stream!Next \/ UNCHANGED Stream!streamVars
    BY <2>1, StepEffect DEF Stream!Next, Stream!streamVars
  <2>2. ASSUME UNCHANGED vars PROVE UNCHANGED Stream!streamVars
    BY <2>2 DEF vars, Stream!streamVars, Readable, readableBytes
  <2> QED
    BY <2>1, <2>2
<1>2. Init => Stream!Init
  BY InitEffect
<1> QED
  BY <1>1, <1>2, IndicesInOrder, PTL DEF Spec, ImplementsByteStream, Stream!Spec

==============================================================================
