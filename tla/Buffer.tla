------------------------------- MODULE Buffer -------------------------------
(****************************************************************************)
(* Buffer (src/src/net/Buffer.cc): a vector of bytes with a read and a      *)
(* write index and a prepend area that is kept free in front.               *)
(*                                                                          *)
(* A byte is the number of its position in the stream of all bytes that     *)
(* came in, 0 is a byte nobody wrote.  cells[i + 1] is buffer_[i].          *)
(****************************************************************************)
EXTENDS Naturals, Sequences

CONSTANTS kCheapPrepend, \* bytes kept free in front, 8 in the code
          kInitialSize,  \* 1024 in the code
          kExtraSize,    \* sizeof extrabuf, 65536 in the code
          MaxReceived    \* bound: bytes that come in during one behaviour

ASSUME SizesAssumption ==
  kCheapPrepend \in Nat /\ kInitialSize \in Nat /\ kExtraSize \in Nat
ASSUME MaxReceivedAssumption == MaxReceived \in Nat

VARIABLES buf,      \* [cells, readerIndex, writerIndex]
          received, \* bytes that came in so far
          result    \* the string the last retrieveAsString returned

vars == <<buf, received, result>>

-----------------------------------------------------------------------------
(* The member functions, on a value of the members. *)

size(b) == Len(b.cells)
readableBytes(b) == b.writerIndex - b.readerIndex
writableBytes(b) == size(b) - b.writerIndex
prependableBytes(b) == b.readerIndex

\* The readable region, what peek() points to.
Readable(b) == [i \in 1..readableBytes(b) |-> b.cells[b.readerIndex + i]]

retrieveAll(b) == [b EXCEPT !.readerIndex = kCheapPrepend,
                            !.writerIndex = kCheapPrepend]

\* Mutant: no test for the end of the readable region.
retrieveUnchecked(b, len) == [b EXCEPT !.readerIndex = @ + len]

retrieve(b, len) ==
  IF len < readableBytes(b) THEN [b EXCEPT !.readerIndex = @ + len]
                            ELSE retrieveAll(b)

\* vector::resize to n cells: new ones are zero.
Resized(cells, n) == [i \in 1..n |-> IF i <= Len(cells) THEN cells[i] ELSE 0]

\* Mutant: the prepend area is counted as free space.
makeSpaceIntoPrepend(b, len) ==
  IF writableBytes(b) + prependableBytes(b) < len
  THEN [b EXCEPT !.cells = Resized(@, b.writerIndex + len)]
  ELSE [cells |-> [i \in 1..size(b) |->
                     IF i \in kCheapPrepend + 1 .. kCheapPrepend + readableBytes(b)
                     THEN b.cells[i - kCheapPrepend + b.readerIndex]
                     ELSE b.cells[i]],
        readerIndex |-> kCheapPrepend,
        writerIndex |-> kCheapPrepend + readableBytes(b)]

\* Mutant: never compacts.
makeSpaceResizes(b, len) ==
  [b EXCEPT !.cells = Resized(@, b.writerIndex + len)]

\* Grow, or move the readable bytes down to the prepend area.
makeSpace(b, len) ==
  IF writableBytes(b) + prependableBytes(b) < len + kCheapPrepend
  THEN [b EXCEPT !.cells = Resized(@, b.writerIndex + len)]
  ELSE [cells |-> [i \in 1..size(b) |->
                     IF i \in kCheapPrepend + 1 .. kCheapPrepend + readableBytes(b)
                     THEN b.cells[i - kCheapPrepend + b.readerIndex]
                     ELSE b.cells[i]],
        readerIndex |-> kCheapPrepend,
        writerIndex |-> kCheapPrepend + readableBytes(b)]

ensureWritableBytes(b, len) ==
  IF writableBytes(b) < len THEN makeSpace(b, len) ELSE b

\* std::copy to beginWrite(), or what the kernel does with vec[0]: the bytes
\* numbered first + 1, first + 2, ... go to the n cells from writerIndex on.
Filled(b, first, n) ==
  [b EXCEPT !.cells = [i \in 1..size(b) |->
      IF i \in b.writerIndex + 1 .. b.writerIndex + n
      THEN first + (i - b.writerIndex) ELSE b.cells[i]]]

\* hasWritten; its assert is the invariant RoomEnsured.
hasWritten(b, len) == [b EXCEPT !.writerIndex = @ + len]

append(b, first, len) ==
  hasWritten(Filled(ensureWritableBytes(b, len), first, len), len)

\* The most one readv may return: both areas, or the vector alone when it
\* already offers as much as extrabuf.
ReadLimit(b) == writableBytes(b) + (IF writableBytes(b) < kExtraSize
                                    THEN kExtraSize ELSE 0)

\* Mutant: the bytes in extrabuf are appended behind the old write index.
readFdForgetsWriter(b, first, n) ==
  LET writable == writableBytes(b) IN
  IF n <= writable
  THEN hasWritten(Filled(b, first, n), n)
  ELSE append(Filled(b, first, writable), first + writable, n - writable)

\* readFd when readv returned n >= 0; on an error the buffer stays as it is.
readFd(b, first, n) ==
  LET writable == writableBytes(b)
  IN  IF n <= writable
      THEN hasWritten(Filled(b, first, n), n)
      ELSE append([Filled(b, first, writable) EXCEPT !.writerIndex = size(b)],
                  first + writable, n - writable)

-----------------------------------------------------------------------------
(* The operations. *)

Init ==
  /\ buf = [cells |-> [i \in 1..kCheapPrepend + kInitialSize |-> 0],
            readerIndex |-> kCheapPrepend, writerIndex |-> kCheapPrepend]
  /\ received = 0
  /\ result = <<>>

Retrieve(len) ==
  /\ buf' = retrieve(buf, len)
  /\ UNCHANGED <<received, result>>

RetrieveAll ==
  /\ buf' = retrieveAll(buf)
  /\ UNCHANGED <<received, result>>

\* retrieveAllAsString() is retrieveAsString(readableBytes()).
RetrieveAsString(len) ==
  LET n == IF len <= readableBytes(buf) THEN len ELSE readableBytes(buf)
  IN  /\ result' = SubSeq(Readable(buf), 1, n)
      /\ buf' = retrieve(buf, n)
      /\ UNCHANGED received

Append_(len) ==
  /\ received + len <= MaxReceived
  /\ buf' = append(buf, received, len)
  /\ received' = received + len
  /\ UNCHANGED result

EnsureWritableBytes(len) ==
  /\ buf' = ensureWritableBytes(buf, len)
  /\ UNCHANGED <<received, result>>

ReadFd(n) ==
  /\ n <= ReadLimit(buf) /\ received + n <= MaxReceived
  /\ buf' = readFd(buf, received, n)
  /\ received' = received + n
  /\ UNCHANGED result

Next ==
  \/ RetrieveAll
  \/ \E len \in 0..MaxReceived :
       \/ Retrieve(len) \/ RetrieveAsString(len) \/ Append_(len)
       \/ EnsureWritableBytes(len) \/ ReadFd(len)

Spec == Init /\ [][Next]_vars

-----------------------------------------------------------------------------
(* Properties. *)

\* The members have their types and the three regions are in order: the
\* prepend area is never smaller than kCheapPrepend and no index passes the end.
TypeOK ==
  /\ buf \in [cells : Seq(Nat), readerIndex : Nat, writerIndex : Nat]
  /\ kCheapPrepend <= buf.readerIndex
  /\ buf.readerIndex <= buf.writerIndex
  /\ buf.writerIndex <= size(buf)
  /\ received \in Nat
  /\ result \in Seq(Nat)

\* The assert of hasWritten: in whatever state append or readFd is called, and
\* for whatever length, ensureWritableBytes leaves enough room for it.
RoomEnsured ==
  \A len \in 0..MaxReceived :
    LET b == ensureWritableBytes(buf, len)
    IN  b.writerIndex + len <= size(b)

\* The vector grows only when the unread bytes and the new ones do not fit
\* behind the prepend area: compaction is always preferred to allocation.
GrowsOnlyWhenFull ==
  [][size(buf') > size(buf) /\ received' # received
       => kCheapPrepend + readableBytes(buf') > size(buf)]_vars

Stream == INSTANCE ByteStream WITH contents <- Readable(buf)

\* Bytes leave the buffer in the order they came in, through any mix of
\* appends, socket reads, compactions and reallocations.
ImplementsByteStream == Stream!Spec
==============================================================================
