----------------------------- MODULE ByteStream -----------------------------
(****************************************************************************)
(* What Buffer promises: a queue of bytes.  Bytes are named by the order in *)
(* which they came in, so a byte that is lost, repeated, invented or out of *)
(* place is visible.                                                        *)
(****************************************************************************)
EXTENDS Naturals, Sequences

VARIABLES contents, \* the unread bytes, oldest first
          received, \* how many bytes came in so far
          result    \* what the last operation that returns bytes returned

streamVars == <<contents, received, result>>

Init == contents = <<>> /\ received = 0 /\ result = <<>>

\* Any number of further bytes of the stream come in.
Put ==
  /\ received' \in Nat /\ received' >= received
  /\ contents' = contents \o [i \in 1..received' - received |-> received + i]
  /\ UNCHANGED result

Drop == \E n \in 0..Len(contents) :
  /\ contents' = SubSeq(contents, n + 1, Len(contents))
  /\ UNCHANGED <<received, result>>

Take == \E n \in 0..Len(contents) :
  /\ contents' = SubSeq(contents, n + 1, Len(contents))
  /\ result' = SubSeq(contents, 1, n)
  /\ UNCHANGED received

Next == Put \/ Drop \/ Take

Spec == Init /\ [][Next]_streamVars
==============================================================================
