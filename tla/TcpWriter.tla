----------------------------- MODULE TcpWriter ------------------------------
(* The sending half of a configured peer's stream: the bounded queue of    *)
(* framed records, the serial write worker, the write-space callback and   *)
(* the exchange of the socket below them.                                  *)
EXTENDS TcpWire

CONSTANT QueueLimit   \* records the send queue takes

ASSUME QueueHoldsOne == QueueLimit \in Nat \ {0}

VARIABLES
  accepted,          \* the carrier a record was queued for, 0 if none
  tx_socket,         \* peer_socket, established; 0 when there is none
  tx_claimed,        \* a removal flag is set
  send_queue,        \* <<r, k>>: units k.. of record r are still to be sent
  write_scheduled,   \* tcp_write_worker_scheduled
  write_queued,      \* tcp_write_work is queued
  writer,            \* where the worker is
  w_socket,          \* the socket it captured
  skb,               \* the record it took off the queue
  nospace            \* carriers with SOCK_NOSPACE set

ownTx == <<accepted, tx_socket, tx_claimed, send_queue, write_scheduled,
           write_queued, writer, w_socket, skb, nospace>>

Nothing == <<0, 0>>

TxInit ==
  /\ accepted = [r \in Records |-> 0]
  /\ tx_socket = 0 /\ tx_claimed = FALSE /\ send_queue = <<>>
  /\ write_scheduled = FALSE /\ write_queued = FALSE
  /\ writer = "idle" /\ w_socket = 0 /\ skb = Nothing /\ nospace = {}

(* The gate every user of the stream passes under tcp_lock.                *)
TxOpen == tx_socket # 0 /\ ~tx_claimed

(* wg_tcp_schedule_write_locked() *)
ScheduleWrite(open) ==
  IF open /\ ~write_scheduled
    THEN write_scheduled' = TRUE /\ write_queued' = TRUE
    ELSE UNCHANGED <<write_scheduled, write_queued>>

-----------------------------------------------------------------------------
(* The transmit path.                                                      *)

QueueFull == Len(send_queue) >= QueueLimit

(* wg_tcp_enqueue_frame(): the frame joins the tail and the writer is      *)
(* scheduled.  A frame that finds the gate closed or the queue full is     *)
(* freed, and nothing changes; frames are numbered as they are accepted.   *)
EnqueueFrame(r) ==
  /\ accepted[r] = 0 /\ \A q \in 1 .. r - 1 : accepted[q] # 0
  /\ TxOpen /\ ~QueueFull
  /\ accepted' = [accepted EXCEPT ![r] = tx_socket]
  /\ send_queue' = Append(send_queue, <<r, 1>>)
  /\ ScheduleWrite(TRUE)
  /\ UNCHANGED <<tx_socket, tx_claimed, writer, w_socket, skb, nospace,
                 wireVars>>

-----------------------------------------------------------------------------
(* wg_tcp_write_worker() *)

WriteRun ==
  /\ write_queued /\ writer = "idle"
  /\ write_queued' = FALSE
  /\ IF TxOpen THEN w_socket' = tx_socket /\ writer' = "send"
               ELSE w_socket' = 0 /\ writer' = "out"
  /\ UNCHANGED <<accepted, tx_socket, tx_claimed, send_queue,
                 write_scheduled, skb, nospace, wireVars>>

WriteNothing ==
  /\ writer = "send" /\ send_queue = <<>>
  /\ writer' = "out"
  /\ UNCHANGED <<accepted, tx_socket, tx_claimed, send_queue,
                 write_scheduled, write_queued, w_socket, skb, nospace,
                 wireVars>>

(* wg_tcp_send_frame(): kernel_sendmsg() takes what fits of the n units.   *)
SendFrame(n) == Smaller(n, SndBuf - Used(w_socket))

(* wg_tcp_arm_write_space() *)
ArmWriteSpace == nospace' = nospace \cup {w_socket}

(* The head of the queue is sent.  When the socket takes less than all of  *)
(* it, the stack sets SOCK_NOSPACE itself.                                 *)
WriteSend ==
  LET head == Head(send_queue)
      rest == Units(head[1], head[2])
      n == SendFrame(Len(rest))
  IN /\ writer = "send" /\ send_queue # <<>> /\ w_socket \notin closed
     /\ send_queue' = Tail(send_queue)
     /\ wire' = [wire EXCEPT ![w_socket] = @ \o SubSeq(rest, 1, n)]
     /\ IF n = Len(rest)
          THEN UNCHANGED <<writer, skb, nospace>>
          ELSE /\ writer' = "requeue" /\ skb' = <<head[1], head[2] + n>>
               /\ ArmWriteSpace
     /\ UNCHANGED <<accepted, tx_socket, tx_claimed, write_scheduled,
                    write_queued, w_socket, rcvq, closed, acked, last,
                    faults>>

(* A terminal error frees the frame.  wg_tcp_fail_exact_socket() claims    *)
(* the removal of an outbound socket and leaves an inbound one alone.      *)
WriteError ==
  /\ writer = "send" /\ send_queue # <<>> /\ w_socket \in closed
  /\ send_queue' = Tail(send_queue) /\ writer' = "out"
  /\ tx_claimed' \in {tx_claimed, tx_claimed \/ tx_socket = w_socket}
  /\ UNCHANGED <<accepted, tx_socket, write_scheduled, write_queued,
                 w_socket, skb, nospace, wireVars>>

(* The suffix goes back to the head and SOCK_NOSPACE is armed.             *)
WriteRequeueTail ==
  /\ writer = "requeue"
  /\ send_queue' = Append(send_queue, skb)
  /\ skb' = Nothing /\ writer' = "out"
  /\ ArmWriteSpace
  /\ UNCHANGED <<accepted, tx_socket, tx_claimed, write_scheduled,
                 write_queued, w_socket, wireVars>>

WriteRequeue ==
  /\ writer = "requeue"
  /\ send_queue' = <<skb>> \o send_queue
  /\ skb' = Nothing /\ writer' = "out"
  /\ ArmWriteSpace
  /\ UNCHANGED <<accepted, tx_socket, tx_claimed, write_scheduled,
                 write_queued, w_socket, wireVars>>

(* The claim is given up, or taken again if there is more to send and room.*)
WriteAgain ==
  TxOpen /\ w_socket = tx_socket /\ send_queue # <<>> /\ Writeable(w_socket)

WriteOut ==
  /\ writer = "out"
  /\ writer' = "idle" /\ w_socket' = 0
  /\ write_scheduled' = WriteAgain /\ write_queued' = WriteAgain
  /\ UNCHANGED <<accepted, tx_socket, tx_claimed, send_queue, skb, nospace,
                 wireVars>>

(* The stack has freed acknowledged data and finds SOCK_NOSPACE set:       *)
(* wg_tcp_write_space() schedules the writer, and the saved callback       *)
(* clears the bit if the socket is writeable.                              *)
CheckSpace(c) ==
  /\ c \in acked /\ acked' = acked \ {c}
  /\ IF c \in nospace /\ c = tx_socket
       THEN /\ ScheduleWrite(TxOpen)
            /\ nospace' = IF Writeable(c) THEN nospace \ {c} ELSE nospace
       ELSE UNCHANGED <<write_scheduled, write_queued, nospace>>
  /\ UNCHANGED <<accepted, tx_socket, tx_claimed, send_queue, writer,
                 w_socket, skb, wire, rcvq, closed, last, faults>>

-----------------------------------------------------------------------------
(* The exchange of the socket, as far as the stream sees it (TcpCarrier    *)
(* models it in full): a removal flag closes the gate, the workers are     *)
(* cancelled, the socket is released and what was queued for it is purged. *)

(* The state callback of a close, or a request to dial elsewhere.          *)
TxClaim ==
  /\ TxOpen /\ tx_claimed' = TRUE
  /\ IF tx_socket \in closed THEN UNCHANGED faults ELSE Fault
  /\ UNCHANGED <<accepted, tx_socket, send_queue, write_scheduled,
                 write_queued, writer, w_socket, skb, nospace, wire, rcvq,
                 closed, acked, last>>

TxRelease ==
  /\ tx_claimed /\ writer = "idle"
  /\ write_queued' = FALSE /\ write_scheduled' = FALSE
  /\ tx_socket' = 0 /\ tx_claimed' = FALSE /\ send_queue' = <<>>
  /\ nospace' = nospace \ {tx_socket}
  /\ closed' = closed \cup {tx_socket}
  /\ UNCHANGED <<accepted, writer, w_socket, skb, wire, rcvq, acked, last,
                 faults>>

TxEstablish ==
  /\ tx_socket = 0 /\ last < MaxCarrier
  /\ last' = last + 1 /\ tx_socket' = last + 1
  /\ UNCHANGED <<accepted, tx_claimed, send_queue, write_scheduled,
                 write_queued, writer, w_socket, skb, nospace, wire, rcvq,
                 closed, acked, faults>>

Write ==
  \/ WriteRun \/ WriteNothing \/ WriteSend
  \/ WriteError \/ WriteRequeue \/ WriteOut

=============================================================================
