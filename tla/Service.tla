------------------------------- MODULE Service -------------------------------
(****************************************************************************)
(* What a TcpServer promises to its clients: they are admitted in the order *)
(* in which they came, as many at a time as there are descriptors, and none *)
(* is dismissed before it is finished unless the server is stopped.  How    *)
(* connections are spread over loops and how the loops remove them is not   *)
(* to be seen.                                                              *)
(****************************************************************************)
EXTENDS Naturals, Sequences, FiniteSets

CONSTANTS Clients, Capacity

VARIABLES waiting,  \* clients that were not admitted yet, in order
          served,   \* clients that are admitted
          finished, \* clients that have closed their end
          stopped   \* the server is being destroyed

serviceVars == <<waiting, served, finished, stopped>>

Init == waiting = <<>> /\ served = {} /\ finished = {} /\ stopped = FALSE

Arrive == \E c \in Clients \ (served \cup finished) :
  /\ waiting' = Append(waiting, c)
  /\ UNCHANGED <<served, finished, stopped>>

Admit ==
  /\ ~stopped /\ waiting # <<>> /\ Cardinality(served) < Capacity
  /\ served' = served \cup {Head(waiting)} /\ waiting' = Tail(waiting)
  /\ UNCHANGED <<finished, stopped>>

Finish == \E c \in Clients :
  finished' = finished \cup {c} /\ UNCHANGED <<waiting, served, stopped>>

Dismiss == \E c \in served :
  /\ c \in finished \/ stopped
  /\ served' = served \ {c}
  /\ UNCHANGED <<waiting, finished, stopped>>

Stop == stopped' = TRUE /\ UNCHANGED <<waiting, served, finished>>

TurnAway ==
  /\ stopped /\ waiting' = <<>>
  /\ UNCHANGED <<served, finished, stopped>>

Next == Arrive \/ Admit \/ Finish \/ Dismiss \/ Stop \/ TurnAway

Spec == Init /\ [][Next]_serviceVars
==============================================================================
