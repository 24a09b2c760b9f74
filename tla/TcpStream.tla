----------------------------- MODULE TcpStream ------------------------------
(* A record stream from one peer to another: the writer at one end, the    *)
(* reader at the other and the connections between them.                   *)
EXTENDS TcpWriter, TcpReader, SequencesExt

vars == <<wireVars, ownTx, ownRx>>

Init == WireInit /\ TxInit /\ RxInit

(* Work that is queued runs and goes on, the network delivers, callbacks   *)
(* return, and a closed or claimed socket is released and replaced.        *)
Progress ==
  \/ Write /\ UNCHANGED ownRx
  \/ (tx_socket \in closed /\ TxClaim) /\ UNCHANGED ownRx
  \/ (TxRelease \/ TxEstablish) /\ UNCHANGED ownRx
  \/ Read /\ UNCHANGED ownTx
  \/ (RxClaim \/ RxRelease \/ RxEstablish \/ RxRearm) /\ UNCHANGED ownTx
  \/ \E c \in Carriers : Arrive(c) /\ UNCHANGED ownTx
  \/ \E c \in Carriers : CheckSpace(c) /\ UNCHANGED ownRx

(* Packets to send, resets, promotions and claims of healthy sockets may   *)
(* come at any time, or never.                                             *)
Environment ==
  \/ \E r \in Records : EnqueueFrame(r) /\ UNCHANGED ownRx
  \/ (tx_socket \notin closed /\ TxClaim) /\ UNCHANGED ownRx
  \/ RxPromote /\ UNCHANGED ownTx
  \/ \E c \in Carriers : Break(c) /\ UNCHANGED <<ownTx, ownRx>>

Next == Progress \/ Environment

Spec == Init /\ [][Next]_vars

(* Nothing is assumed about the order in which the two ends, the network   *)
(* and the callbacks take their turns, only that something happens while   *)
(* something can.                                                          *)
FairSpec == Spec /\ WF_vars(Progress)

-----------------------------------------------------------------------------
(* Everything on its way over carrier c, from the reader's buffer back to  *)
(* the writer's queue.                                                     *)
Rest(q) == Units(q[1], q[2])

Flat(queue) == FlattenSeq([i \in 1 .. Len(queue) |-> Rest(queue[i])])

Pipe(c) ==
  (IF rx_socket = c THEN partial ELSE <<>>) \o rcvq[c] \o wire[c]
    \o (IF w_socket = c /\ skb # Nothing THEN Rest(skb) ELSE <<>>)
    \o (IF tx_socket = c THEN Flat(send_queue) ELSE <<>>)

(* On a connection that stands, the unfinished part of a record is always  *)
(* followed by the rest of that record: no short write, EAGAIN, purge or   *)
(* resynchronisation lets another record in between.                       *)
StreamContiguous ==
  \A c \in Carriers \ closed :
    LET p == Pipe(c) IN
    \A i \in 1 .. Len(p) - 1 :
      p[i + 1] = IF p[i][2] < RecLen[p[i][1]] THEN <<p[i][1], p[i][2] + 1>>
                                              ELSE <<p[i + 1][1], 1>>

(* Record r is whole and on its way.                                       *)
InTransit(r) ==
  /\ accepted[r] # 0
  /\ LET p == Pipe(accepted[r]) IN
     \E i \in 0 .. Len(p) - RecLen[r] :
       SubSeq(p, i + 1, i + RecLen[r]) = Units(r, 1)

Channel ==
  INSTANCE RecordChannel WITH
    channel <- SelectSeq([r \in Records |-> r], InTransit),
    carrier <- accepted,
    failed <- closed \cup promoted

(* The stream implements the channel: whatever fails, records are          *)
(* delivered whole, in order and at most once, a record is lost only with  *)
(* its connection or when it is the one being assembled.                   *)
ImplementsChannel == Channel!Spec

(* A record that has begun to leave is finished: once its first units are  *)
(* with the socket, short writes, full buffers, late callbacks and an      *)
(* exhausted budget only delay it; it is delivered, or lost with its       *)
(* connection or for lack of memory, or it waits behind a record that was  *)
(* left in the buffer for lack of memory.                                  *)
Begun(r) ==
  accepted[r] # 0 /\ \A i \in 1 .. Len(send_queue) : send_queue[i] # <<r, 1>>

LeftInBuffer == expected # 0 /\ expected <= Len(partial)

BegunIsFinished ==
  \A r \in Records :
    (InTransit(r) /\ Begun(r)) ~> (~InTransit(r) \/ LeftInBuffer)

(* No wakeup is lost: a record taken in is delivered or lost with its      *)
(* connection; it does not stay in a queue, a socket or a buffer.          *)
NothingStays == \A r \in Records : InTransit(r) ~> ~InTransit(r)

=============================================================================
