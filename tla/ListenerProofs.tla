---------------------------- MODULE ListenerProofs ----------------------------
(***************************************************************************)
(* For any number of connections and links, any capacity of the queue and  *)
(* every family of modes: the safety of Listener.                          *)
(*                                                                         *)
(* None of the three properties is inductive.  That a connection is closed *)
(* once needs that the queue names each connection once and only those that*)
(* wait in it (Waiting), and that an accept loop offers what nobody was    *)
(* offered before (Fresh); that no loop spins, that main cancels first.    *)
(***************************************************************************)
EXTENDS Listener, TLAPS

\* The queue holds each connection once, and only those that wait in it.
Waiting ==
  /\ \A i \in 1..Len(queue) : conn[queue[i]] = "queued"
  /\ \A i, j \in 1..Len(queue) : queue[i] = queue[j] => i = j

\* main cancels the context before it closes the listener.
Cancelled == listener = "closed" => done

\* What the accept loop offers in the direct modes was offered to nobody before.
Fresh == \A c \in Conns : mode = "direct" /\ link[Carrier[c]] \in {"none", "backlog"} => conn[c] = "none"

IInv == TypeOK /\ ClosedOnce /\ RequestOutlivesConn /\ Waiting /\ Cancelled /\ Fresh

-----------------------------------------------------------------------------
(* The queue *)

\* A connection that is not queued is appended, and joins the queue.
LEMMA AppendWaits ==
  ASSUME TypeOK, Waiting, NEW c \in Conns, conn[c] # "queued", HasRoom,
         queue' = Append(queue, c), conn' = [conn EXCEPT ![c] = "queued"]
  PROVE  queue' \in Seq(Conns) /\ Len(queue') <= QueueCap /\ Waiting'
<1>1. queue \in Seq(Conns) /\ Len(queue) \in Nat
  BY DEF TypeOK
<1>2. queue' \in Seq(Conns) /\ Len(queue') = Len(queue) + 1
  BY <1>1
<1>3. \A i \in 1..Len(queue) : queue'[i] = queue[i] /\ queue[i] \in Conns /\ queue[i] # c
  BY <1>1 DEF Waiting
<1>4. queue'[Len(queue) + 1] = c
  BY <1>1
<1>5. \A i \in 1..Len(queue') : i \in 1..Len(queue) \/ i = Len(queue) + 1
  BY <1>1, <1>2
<1>6. \A i \in 1..Len(queue') : conn'[queue'[i]] = "queued"
  BY <1>1, <1>3, <1>4, <1>5 DEF TypeOK, Waiting
<1>7. \A i, j \in 1..Len(queue') : queue'[i] = queue'[j] => i = j
  BY <1>3, <1>4, <1>5 DEF Waiting
<1> QED
  BY <1>1, <1>2, <1>6, <1>7, QueueCapAssumption DEF Waiting, HasRoom

\* The head leaves it, and nothing of it is left behind.
LEMMA TailWaits ==
  ASSUME TypeOK, Waiting, queue # <<>>,
         queue' = Tail(queue), conn' = [conn EXCEPT ![Head(queue)] = "handled"]
  PROVE  /\ queue' \in Seq(Conns) /\ Len(queue') <= QueueCap /\ Waiting'
         /\ Head(queue) \in Conns /\ conn[Head(queue)] = "queued"
<1>1. queue \in Seq(Conns) /\ Len(queue) \in Nat /\ Len(queue) > 0 /\ Len(queue) <= QueueCap
  BY DEF TypeOK
<1>2. Head(queue) = queue[1] /\ Head(queue) \in Conns /\ 1 \in 1..Len(queue)
  BY <1>1
<1>3. queue' \in Seq(Conns) /\ Len(queue') = Len(queue) - 1
  BY <1>1
<1>4. \A i \in 1..Len(queue') : queue'[i] = queue[i + 1] /\ i + 1 \in 1..Len(queue) /\ queue[i + 1] \in Conns
  BY <1>1, <1>3
<1>5. \A i \in 1..Len(queue') : queue'[i] # Head(queue)
  <2> SUFFICES ASSUME NEW i \in 1..Len(queue'), queue'[i] = Head(queue) PROVE FALSE
    OBVIOUS
  <2>1. i + 1 \in 1..Len(queue) /\ queue[i + 1] = queue[1] /\ i + 1 # 1
    BY <1>2, <1>4
  <2> QED
    BY <1>2, <2>1 DEF Waiting
<1>6. \A i \in 1..Len(queue') : conn'[queue'[i]] = "queued"
  BY <1>4, <1>5 DEF TypeOK, Waiting
<1>7. \A i, j \in 1..Len(queue') : queue'[i] = queue'[j] => i = j
  BY <1>4 DEF Waiting
<1> QED
  BY <1>1, <1>2, <1>3, <1>6, <1>7, QueueCapAssumption DEF Waiting

\* No other step of a connection touches the queue.
LEMMA OthersWait ==
  ASSUME TypeOK, Waiting, NEW c \in Conns, conn[c] # "queued", UNCHANGED queue,
         NEW s, conn' = [conn EXCEPT ![c] = s]
  PROVE  Waiting'
<1>1. queue \in Seq(Conns)
  BY DEF TypeOK
<1>2. \A i \in 1..Len(queue) : queue[i] \in Conns
  BY <1>1
<1> QED
  BY <1>2 DEF TypeOK, Waiting

-----------------------------------------------------------------------------
(* The invariant *)

LEMMA InitIInv == Init => IInv
<1> SUFFICES ASSUME Init PROVE IInv
  OBVIOUS
<1>1. queue = <<>> /\ queue \in Seq(Conns) /\ Len(queue) = 0
  BY DEF Init
<1>2. Len(queue) <= QueueCap
  BY <1>1, QueueCapAssumption
<1>3. closes \in [Conns -> Nat] /\ ClosedOnce
  BY DEF Init, ClosedOnce
<1>4. TypeOK
  BY <1>1, <1>2, <1>3 DEF Init, TypeOK
<1>5. RequestOutlivesConn /\ Cancelled /\ Fresh
  BY CarrierAssumption DEF Init, RequestOutlivesConn, Cancelled, Fresh
<1>6. Waiting
  BY <1>1 DEF Waiting
<1> QED
  BY <1>3, <1>4, <1>5, <1>6 DEF IInv

LEMMA NextIInv == IInv /\ [Next]_vars => IInv'
<1> SUFFICES ASSUME IInv, [Next]_vars PROVE IInv'
  OBVIOUS
<1>0. queue \in Seq(Conns) /\ Len(queue) <= QueueCap /\ TypeOK /\ Waiting
  BY DEF IInv, TypeOK
<1> USE DEF Streamed, Requests, netVars, loopVars, connVars
<1>1. ASSUME NEW c \in Conns, AcceptDirect(c) PROVE IInv'
  <2>1. /\ queue' \in Seq(Conns) /\ Len(queue') <= QueueCap /\ Waiting'
        /\ conn[c] # "queued"
    <3>1. conn[c] # "queued" /\ UNCHANGED queue /\ conn' = [conn EXCEPT ![c] = "offered"]
      BY <1>1 DEF AcceptDirect, IInv, Fresh
    <3> QED
      BY <1>0, <3>1, OthersWait
  <2>2. TypeOK'
    BY <1>1, <2>1 DEF AcceptDirect, IInv, TypeOK
  <2>3. ClosedOnce' /\ RequestOutlivesConn'
    BY <1>1, <2>1 DEF AcceptDirect, IInv, TypeOK, ClosedOnce, RequestOutlivesConn, Fresh
  <2>4. Cancelled' /\ Fresh'
    BY <1>1, <2>1, CarrierAssumption DEF AcceptDirect, IInv, TypeOK, Cancelled, Fresh
  <2> QED
    BY <2>1, <2>2, <2>3, <2>4 DEF IInv
<1>2. ASSUME NEW l \in Links, AcceptLink(l) PROVE IInv'
  <2>1. queue' \in Seq(Conns) /\ Len(queue') <= QueueCap /\ Waiting'
    BY <1>0, <1>2 DEF AcceptLink, Waiting
  <2>2. TypeOK'
    BY <1>2, <2>1 DEF AcceptLink, IInv, TypeOK
  <2>3. ClosedOnce' /\ RequestOutlivesConn'
    BY <1>2, <2>1 DEF AcceptLink, IInv, TypeOK, ClosedOnce, RequestOutlivesConn, Fresh
  <2>4. Cancelled' /\ Fresh'
    BY <1>2, <2>1, CarrierAssumption DEF AcceptLink, IInv, TypeOK, Cancelled, Fresh
  <2> QED
    BY <2>1, <2>2, <2>3, <2>4 DEF IInv
<1>3. ASSUME NEW l \in Links, RejectLink(l) PROVE IInv'
  <2>1. queue' \in Seq(Conns) /\ Len(queue') <= QueueCap /\ Waiting'
    BY <1>0, <1>3 DEF RejectLink, Waiting
  <2>2. TypeOK'
    BY <1>3, <2>1 DEF RejectLink, IInv, TypeOK
  <2>3. ClosedOnce' /\ RequestOutlivesConn'
    BY <1>3, <2>1 DEF RejectLink, IInv, TypeOK, ClosedOnce, RequestOutlivesConn, Fresh
  <2>4. Cancelled' /\ Fresh'
    BY <1>3, <2>1, CarrierAssumption DEF RejectLink, IInv, TypeOK, Cancelled, Fresh
  <2> QED
    BY <2>1, <2>2, <2>3, <2>4 DEF IInv
<1>4. ASSUME NEW l \in Links, OrphanLink(l) PROVE IInv'
  <2>1. queue' \in Seq(Conns) /\ Len(queue') <= QueueCap /\ Waiting'
    BY <1>0, <1>4 DEF OrphanLink, Waiting
  <2>2. TypeOK'
    BY <1>4, <2>1 DEF OrphanLink, IInv, TypeOK
  <2>3. ClosedOnce' /\ RequestOutlivesConn'
    BY <1>4, <2>1 DEF OrphanLink, IInv, TypeOK, ClosedOnce, RequestOutlivesConn, Fresh
  <2>4. Cancelled' /\ Fresh'
    BY <1>4, <2>1, CarrierAssumption DEF OrphanLink, IInv, TypeOK, Cancelled, Fresh
  <2> QED
    BY <2>1, <2>2, <2>3, <2>4 DEF IInv
<1>5. ASSUME AcceptErr PROVE IInv'
  <2>1. queue' \in Seq(Conns) /\ Len(queue') <= QueueCap /\ Waiting'
    BY <1>0, <1>5 DEF AcceptErr, Waiting
  <2>2. TypeOK'
    BY <1>5, <2>1 DEF AcceptErr, IInv, TypeOK
  <2>3. ClosedOnce' /\ RequestOutlivesConn'
    BY <1>5, <2>1 DEF AcceptErr, IInv, TypeOK, ClosedOnce, RequestOutlivesConn, Fresh
  <2>4. Cancelled' /\ Fresh'
    BY <1>5, <2>1, CarrierAssumption DEF AcceptErr, IInv, TypeOK, Cancelled, Fresh
  <2> QED
    BY <2>1, <2>2, <2>3, <2>4 DEF IInv
<1>6. ASSUME AcceptClosed PROVE IInv'
  <2>1. queue' \in Seq(Conns) /\ Len(queue') <= QueueCap /\ Waiting'
    BY <1>0, <1>6 DEF AcceptClosed, Waiting
  <2>2. TypeOK'
    BY <1>6, <2>1 DEF AcceptClosed, IInv, TypeOK
  <2>3. ClosedOnce' /\ RequestOutlivesConn'
    BY <1>6, <2>1 DEF AcceptClosed, IInv, TypeOK, ClosedOnce, RequestOutlivesConn, Fresh
  <2>4. Cancelled' /\ Fresh'
    BY <1>6, <2>1, CarrierAssumption DEF AcceptClosed, IInv, TypeOK, Cancelled, Fresh
  <2> QED
    BY <2>1, <2>2, <2>3, <2>4 DEF IInv
<1>7. ASSUME CheckContext PROVE IInv'
  <2>1. queue' \in Seq(Conns) /\ Len(queue') <= QueueCap /\ Waiting'
    BY <1>0, <1>7 DEF CheckContext, Waiting
  <2>2. TypeOK'
    BY <1>7, <2>1 DEF CheckContext, IInv, TypeOK
  <2>3. ClosedOnce' /\ RequestOutlivesConn'
    BY <1>7, <2>1 DEF CheckContext, IInv, TypeOK, ClosedOnce, RequestOutlivesConn, Fresh
  <2>4. Cancelled' /\ Fresh'
    BY <1>7, <2>1, CarrierAssumption DEF CheckContext, IInv, TypeOK, Cancelled, Fresh
  <2> QED
    BY <2>1, <2>2, <2>3, <2>4 DEF IInv
<1>8. ASSUME Take PROVE IInv'
  <2>1. /\ queue' \in Seq(Conns) /\ Len(queue') <= QueueCap /\ Waiting'
        /\ Head(queue) \in Conns /\ conn[Head(queue)] = "queued"
    BY <1>0, <1>8, TailWaits DEF Take
  <2>2. TypeOK'
    BY <1>8, <2>1 DEF Take, IInv, TypeOK
  <2>3. ClosedOnce' /\ RequestOutlivesConn'
    BY <1>8, <2>1 DEF Take, IInv, TypeOK, ClosedOnce, RequestOutlivesConn, Fresh
  <2>4. Cancelled' /\ Fresh'
    BY <1>8, <2>1, CarrierAssumption DEF Take, IInv, TypeOK, Cancelled, Fresh
  <2> QED
    BY <2>1, <2>2, <2>3, <2>4 DEF IInv
<1>9. ASSUME Cancel PROVE IInv'
  <2>1. queue' \in Seq(Conns) /\ Len(queue') <= QueueCap /\ Waiting'
    BY <1>0, <1>9 DEF Cancel, Waiting
  <2>2. TypeOK'
    BY <1>9, <2>1 DEF Cancel, IInv, TypeOK
  <2>3. ClosedOnce' /\ RequestOutlivesConn'
    BY <1>9, <2>1 DEF Cancel, IInv, TypeOK, ClosedOnce, RequestOutlivesConn, Fresh
  <2>4. Cancelled' /\ Fresh'
    BY <1>9, <2>1, CarrierAssumption DEF Cancel, IInv, TypeOK, Cancelled, Fresh
  <2> QED
    BY <2>1, <2>2, <2>3, <2>4 DEF IInv
<1>10. ASSUME CloseListener PROVE IInv'
  <2>1. queue' \in Seq(Conns) /\ Len(queue') <= QueueCap /\ Waiting'
    BY <1>0, <1>10 DEF CloseListener, Waiting
  <2>2. TypeOK'
    BY <1>10, <2>1 DEF CloseListener, IInv, TypeOK
  <2>3. ClosedOnce' /\ RequestOutlivesConn'
    BY <1>10, <2>1 DEF CloseListener, IInv, TypeOK, ClosedOnce, RequestOutlivesConn, Fresh
  <2>4. Cancelled' /\ Fresh'
    BY <1>10, <2>1, CarrierAssumption DEF CloseListener, IInv, TypeOK, Cancelled, Fresh
  <2> QED
    BY <2>1, <2>2, <2>3, <2>4 DEF IInv
<1>11. ASSUME NEW l \in Links, Connect(l) PROVE IInv'
  <2>1. queue' \in Seq(Conns) /\ Len(queue') <= QueueCap /\ Waiting'
    BY <1>0, <1>11 DEF Connect, Waiting
  <2>2. TypeOK'
    BY <1>11, <2>1 DEF Connect, IInv, TypeOK
  <2>3. ClosedOnce' /\ RequestOutlivesConn'
    BY <1>11, <2>1 DEF Connect, IInv, TypeOK, ClosedOnce, RequestOutlivesConn, Fresh
  <2>4. Cancelled' /\ Fresh'
    BY <1>11, <2>1, CarrierAssumption DEF Connect, IInv, TypeOK, Cancelled, Fresh
  <2> QED
    BY <2>1, <2>2, <2>3, <2>4 DEF IInv
<1>12. ASSUME NEW l \in Links, LinkDown(l) PROVE IInv'
  <2>1. queue' \in Seq(Conns) /\ Len(queue') <= QueueCap /\ Waiting'
    BY <1>0, <1>12 DEF LinkDown, Waiting
  <2>2. TypeOK'
    BY <1>12, <2>1 DEF LinkDown, IInv, TypeOK
  <2>3. ClosedOnce' /\ RequestOutlivesConn'
    BY <1>12, <2>1 DEF LinkDown, IInv, TypeOK, ClosedOnce, RequestOutlivesConn, Fresh
  <2>4. Cancelled' /\ Fresh'
    BY <1>12, <2>1, CarrierAssumption DEF LinkDown, IInv, TypeOK, Cancelled, Fresh
  <2> QED
    BY <2>1, <2>2, <2>3, <2>4 DEF IInv
<1>13. ASSUME NEW c \in Conns, AcceptStream(c) PROVE IInv'
  <2>1. /\ queue' \in Seq(Conns) /\ Len(queue') <= QueueCap /\ Waiting'
        /\ conn[c] # "queued"
    <3>1. conn[c] # "queued" /\ UNCHANGED queue /\ conn' = [conn EXCEPT ![c] = "offered"]
      BY <1>13 DEF AcceptStream
    <3> QED
      BY <1>0, <3>1, OthersWait
  <2>2. TypeOK'
    BY <1>13, <2>1 DEF AcceptStream, IInv, TypeOK
  <2>3. ClosedOnce' /\ RequestOutlivesConn'
    BY <1>13, <2>1 DEF AcceptStream, IInv, TypeOK, ClosedOnce, RequestOutlivesConn, Fresh
  <2>4. Cancelled' /\ Fresh'
    BY <1>13, <2>1, CarrierAssumption DEF AcceptStream, IInv, TypeOK, Cancelled, Fresh
  <2> QED
    BY <2>1, <2>2, <2>3, <2>4 DEF IInv
<1>14. ASSUME NEW l \in Links, SessionEnds(l) PROVE IInv'
  <2>1. queue' \in Seq(Conns) /\ Len(queue') <= QueueCap /\ Waiting'
    BY <1>0, <1>14 DEF SessionEnds, Waiting
  <2>2. TypeOK'
    BY <1>14, <2>1 DEF SessionEnds, IInv, TypeOK
  <2>3. ClosedOnce' /\ RequestOutlivesConn'
    BY <1>14, <2>1 DEF SessionEnds, IInv, TypeOK, ClosedOnce, RequestOutlivesConn, Fresh
  <2>4. Cancelled' /\ Fresh'
    BY <1>14, <2>1, CarrierAssumption DEF SessionEnds, IInv, TypeOK, Cancelled, Fresh
  <2> QED
    BY <2>1, <2>2, <2>3, <2>4 DEF IInv
<1>15. ASSUME NEW c \in Conns, Open(c) PROVE IInv'
  <2>1. /\ queue' \in Seq(Conns) /\ Len(queue') <= QueueCap /\ Waiting'
        /\ conn[c] # "queued"
    <3>1. conn[c] # "queued" /\ UNCHANGED queue /\ conn' = [conn EXCEPT ![c] = "arrived"]
      BY <1>15 DEF Open
    <3> QED
      BY <1>0, <3>1, OthersWait
  <2>2. TypeOK'
    BY <1>15, <2>1 DEF Open, IInv, TypeOK
  <2>3. ClosedOnce' /\ RequestOutlivesConn'
    BY <1>15, <2>1 DEF Open, IInv, TypeOK, ClosedOnce, RequestOutlivesConn, Fresh
  <2>4. Cancelled' /\ Fresh'
    BY <1>15, <2>1, CarrierAssumption DEF Open, IInv, TypeOK, Cancelled, Fresh
  <2> QED
    BY <2>1, <2>2, <2>3, <2>4 DEF IInv
<1>16. ASSUME NEW c \in Conns, HandleRequest(c) PROVE IInv'
  <2>1. /\ queue' \in Seq(Conns) /\ Len(queue') <= QueueCap /\ Waiting'
        /\ conn[c] # "queued"
    <3>1. conn[c] # "queued" /\ UNCHANGED queue /\ conn' = [conn EXCEPT ![c] = "offered"]
      BY <1>16 DEF HandleRequest
    <3> QED
      BY <1>0, <3>1, OthersWait
  <2>2. TypeOK'
    BY <1>16, <2>1 DEF HandleRequest, IInv, TypeOK
  <2>3. ClosedOnce' /\ RequestOutlivesConn'
    BY <1>16, <2>1 DEF HandleRequest, IInv, TypeOK, ClosedOnce, RequestOutlivesConn, Fresh
  <2>4. Cancelled' /\ Fresh'
    BY <1>16, <2>1, CarrierAssumption DEF HandleRequest, IInv, TypeOK, Cancelled, Fresh
  <2> QED
    BY <2>1, <2>2, <2>3, <2>4 DEF IInv
<1>17. ASSUME NEW c \in Conns, RejectRequest(c) PROVE IInv'
  <2>1. /\ queue' \in Seq(Conns) /\ Len(queue') <= QueueCap /\ Waiting'
        /\ conn[c] # "queued"
    <3>1. conn[c] # "queued" /\ UNCHANGED queue /\ conn' = [conn EXCEPT ![c] = "rejected"]
      BY <1>17 DEF RejectRequest
    <3> QED
      BY <1>0, <3>1, OthersWait
  <2>2. TypeOK'
    BY <1>17, <2>1 DEF RejectRequest, IInv, TypeOK
  <2>3. ClosedOnce' /\ RequestOutlivesConn'
    BY <1>17, <2>1 DEF RejectRequest, IInv, TypeOK, ClosedOnce, RequestOutlivesConn, Fresh
  <2>4. Cancelled' /\ Fresh'
    BY <1>17, <2>1, CarrierAssumption DEF RejectRequest, IInv, TypeOK, Cancelled, Fresh
  <2> QED
    BY <2>1, <2>2, <2>3, <2>4 DEF IInv
<1>18. ASSUME NEW c \in Conns, Enqueue(c) PROVE IInv'
  <2>1. queue' \in Seq(Conns) /\ Len(queue') <= QueueCap /\ Waiting'
    BY <1>0, <1>18, AppendWaits DEF Enqueue
  <2>2. TypeOK'
    BY <1>18, <2>1 DEF Enqueue, Continue, IInv, TypeOK
  <2>3. ClosedOnce' /\ RequestOutlivesConn'
    BY <1>18, <2>1 DEF Enqueue, Continue, IInv, TypeOK, ClosedOnce, RequestOutlivesConn, Fresh
  <2>4. Cancelled' /\ Fresh'
    BY <1>18, <2>1, CarrierAssumption DEF Enqueue, Continue, IInv, TypeOK, Cancelled, Fresh
  <2> QED
    BY <2>1, <2>2, <2>3, <2>4 DEF IInv
<1>19. ASSUME NEW c \in Conns, Refuse(c) PROVE IInv'
  <2>1. /\ queue' \in Seq(Conns) /\ Len(queue') <= QueueCap /\ Waiting'
        /\ conn[c] # "queued"
    <3>1. conn[c] # "queued" /\ UNCHANGED queue /\ conn' = [conn EXCEPT ![c] = "closed"]
      BY <1>19 DEF Refuse
    <3> QED
      BY <1>0, <3>1, OthersWait
  <2>0. closes' \in [Conns -> Nat] /\ ClosedOnce'
    <3>1. closes' = [closes EXCEPT ![c] = @ + 1] /\ conn' = [conn EXCEPT ![c] = "closed"] /\ conn[c] # "closed"
      BY <1>19 DEF Refuse
    <3> QED
      BY <3>1 DEF IInv, TypeOK, ClosedOnce
  <2>2. TypeOK'
    BY <1>19, <2>1, <2>0 DEF Refuse, Continue, IInv, TypeOK
  <2>3. ClosedOnce' /\ RequestOutlivesConn'
    BY <1>19, <2>1, <2>0 DEF Refuse, Continue, IInv, TypeOK, ClosedOnce, RequestOutlivesConn, Fresh
  <2>4. Cancelled' /\ Fresh'
    BY <1>19, <2>1, CarrierAssumption DEF Refuse, Continue, IInv, TypeOK, Cancelled, Fresh
  <2> QED
    BY <2>1, <2>2, <2>3, <2>4 DEF IInv
<1>20. ASSUME NEW c \in Conns, RequestReturns(c) PROVE IInv'
  <2>1. queue' \in Seq(Conns) /\ Len(queue') <= QueueCap /\ Waiting'
    BY <1>0, <1>20 DEF RequestReturns, Waiting
  <2>0. conn[c] = "closed"
    BY <1>20 DEF RequestReturns, IInv, ClosedOnce
  <2>2. TypeOK'
    BY <1>20, <2>1, <2>0 DEF RequestReturns, IInv, TypeOK
  <2>3. ClosedOnce' /\ RequestOutlivesConn'
    BY <1>20, <2>1, <2>0 DEF RequestReturns, IInv, TypeOK, ClosedOnce, RequestOutlivesConn, Fresh
  <2>4. Cancelled' /\ Fresh'
    BY <1>20, <2>1, CarrierAssumption DEF RequestReturns, IInv, TypeOK, Cancelled, Fresh
  <2> QED
    BY <2>1, <2>2, <2>3, <2>4 DEF IInv
<1>21. ASSUME NEW c \in Conns, RelayEnds(c) PROVE IInv'
  <2>1. /\ queue' \in Seq(Conns) /\ Len(queue') <= QueueCap /\ Waiting'
        /\ conn[c] # "queued"
    <3>1. conn[c] # "queued" /\ UNCHANGED queue /\ conn' = [conn EXCEPT ![c] = "closed"]
      BY <1>21 DEF RelayEnds
    <3> QED
      BY <1>0, <3>1, OthersWait
  <2>0. closes' \in [Conns -> Nat] /\ ClosedOnce'
    <3>1. closes' = [closes EXCEPT ![c] = @ + 1] /\ conn' = [conn EXCEPT ![c] = "closed"] /\ conn[c] # "closed"
      BY <1>21 DEF RelayEnds
    <3> QED
      BY <3>1 DEF IInv, TypeOK, ClosedOnce
  <2>2. TypeOK'
    BY <1>21, <2>1, <2>0 DEF RelayEnds, IInv, TypeOK
  <2>3. ClosedOnce' /\ RequestOutlivesConn'
    BY <1>21, <2>1, <2>0 DEF RelayEnds, IInv, TypeOK, ClosedOnce, RequestOutlivesConn, Fresh
  <2>4. Cancelled' /\ Fresh'
    BY <1>21, <2>1, CarrierAssumption DEF RelayEnds, IInv, TypeOK, Cancelled, Fresh
  <2> QED
    BY <2>1, <2>2, <2>3, <2>4 DEF IInv
<1>22. CASE UNCHANGED vars
  BY <1>22 DEF vars, IInv, TypeOK, ClosedOnce, RequestOutlivesConn, Waiting, Cancelled, Fresh
<1> QED
  BY <1>1, <1>2, <1>3, <1>4, <1>5, <1>6, <1>7, <1>8, <1>9, <1>10, <1>11, <1>12, <1>13, <1>14, <1>15, <1>16, <1>17, <1>18, <1>19, <1>20, <1>21, <1>22
     DEF Next, Accept, SessionStep, RequestStep, Offer

-----------------------------------------------------------------------------
(* The theorems *)

\* The state stays well typed, and the queue never grows past its capacity.
THEOREM TypeCorrect == Spec => []TypeOK
<1>1. IInv => TypeOK
  BY DEF IInv
<1> QED
  BY <1>1, InitIInv, NextIInv, PTL DEF Spec

\* Whoever gives a connection up last closes it, and nobody else does.
THEOREM ClosedOnceHolds == Spec => []ClosedOnce
<1>1. IInv => ClosedOnce
  BY DEF IInv
<1> QED
  BY <1>1, InitIInv, NextIInv, PTL DEF Spec

\* The goroutine of an h2 or grpc request waits behind its connection.
THEOREM RequestOutlivesConnHolds == Spec => []RequestOutlivesConn
<1>1. IInv => RequestOutlivesConn
  BY DEF IInv
<1> QED
  BY <1>1, InitIInv, NextIInv, PTL DEF Spec

\* No accept loop comes back to a listener that is closed for good.
THEOREM NoSpinOnClosedHolds == Spec => []NoSpinOnClosed
<1>1. IInv => NoSpinOnClosed
  BY DEF IInv, Cancelled, NoSpinOnClosed
<1> QED
  BY <1>1, InitIInv, NextIInv, PTL DEF Spec
=============================================================================
