-------------------------------- MODULE Duplex --------------------------------
(***************************************************************************)
(* What the pair of plugins promises to the two programs it stands between:*)
(* a stream in each direction.  Chunks arrive in the order they were       *)
(* sent, none twice, none invented, none after the receiver saw the end.   *)
(* The receiver may see the end early, before everything that was sent,    *)
(* only when something disturbed the direction.                            *)
(***************************************************************************)
EXTENDS Integers, Sequences

CONSTANTS
  Directions,  \* the directions of the tunnel
  MaxChunks    \* bound: how many chunks, or bytes, a program sends

VARIABLES
  sent,       \* how many chunks the sender handed over; they are 1, 2, ...
  finished,   \* the sender has shut its side down
  recvd,      \* the chunks that the receiver was given
  over,       \* the receiver saw the end of the stream
  disturbed   \* an end was cut by more than the sender's shutdown

dvars == <<sent, finished, recvd, over, disturbed>>

Init ==
  /\ sent = [d \in Directions |-> 0]
  /\ finished = [d \in Directions |-> FALSE]
  /\ recvd = [d \in Directions |-> <<>>]
  /\ over = [d \in Directions |-> FALSE]
  /\ disturbed = [d \in Directions |-> FALSE]

Send(d) ==
  /\ ~finished[d]
  /\ \E n \in sent[d]..MaxChunks : sent' = [sent EXCEPT ![d] = n]
  /\ UNCHANGED <<finished, recvd, over>>

Finish(d) ==
  /\ ~finished[d]
  /\ finished' = [finished EXCEPT ![d] = TRUE]
  /\ UNCHANGED <<sent, recvd, over>>

Deliver(d) ==
  /\ ~over[d]
  /\ \E n \in Len(recvd[d])..sent[d] : recvd' = [recvd EXCEPT ![d] = [i \in 1..n |-> i]]
  /\ UNCHANGED <<sent, finished, over>>

End(d) ==
  /\ ~over[d]
  /\ disturbed[d] \/ (finished[d] /\ Len(recvd[d]) = sent[d])
  /\ over' = [over EXCEPT ![d] = TRUE]
  /\ UNCHANGED <<sent, finished, recvd>>

\* A direction once disturbed stays so.
Disturb == \A d \in Directions : disturbed[d] => disturbed'[d]

Next ==
  /\ Disturb
  /\ \/ \E d \in Directions : Send(d) \/ Finish(d) \/ Deliver(d) \/ End(d)
     \/ UNCHANGED <<sent, finished, recvd, over>>

Spec == Init /\ [][Next]_dvars
=============================================================================
