----------------------------- MODULE TcpReader ------------------------------
(* The receiving half: the data-ready callback, the read worker with its   *)
(* record parser, and the exchange of the socket below them.  The header   *)
(* check is taken as exact: a run of units is a valid header only if it is *)
(* the header of a record.                                                 *)
EXTENDS TcpWire

CONSTANTS
  ReadSize,   \* units the tail of the receive buffer takes at a time
  Budget      \* iterations of one run of the read worker

ASSUME ReaderMoves == {ReadSize, Budget} \subseteq Nat \ {0}

VARIABLES
  rx_socket,        \* peer_socket, established; 0 when there is none
  rx_last,          \* the newest carrier this end has owned
  promoted,         \* carriers that went from a provisional peer to its own
  rx_claimed,       \* a removal flag is set
  rearm,            \* the new owner has still to look at the receive queue
  read_scheduled,   \* tcp_read_worker_scheduled
  read_queued,      \* tcp_read_work is queued
  reader,           \* where the worker is
  r_socket,         \* the socket it captured
  processed,        \* its iterations so far
  partial,          \* the bytes in partial_skb
  expected,         \* expected_len
  delivered         \* records handed to wg_receive() and the connection whose
                    \* addresses they carry; 0 for a damaged record

ownRx == <<rx_socket, rx_last, promoted, rx_claimed, rearm, read_scheduled,
           read_queued, reader, r_socket, processed, partial, expected,
           delivered>>

RxInit ==
  /\ rx_socket = 0 /\ rx_last = 0 /\ promoted = {}
  /\ rx_claimed = FALSE /\ rearm = FALSE
  /\ read_scheduled = FALSE /\ read_queued = FALSE
  /\ reader = "idle" /\ r_socket = 0 /\ processed = 0
  /\ partial = <<>> /\ expected = 0 /\ delivered = <<>>

RxOpen == rx_socket # 0 /\ ~rx_claimed

ScheduleRead(wanted) ==
  IF wanted /\ ~read_scheduled
    THEN read_scheduled' = TRUE /\ read_queued' = TRUE
    ELSE UNCHANGED <<read_scheduled, read_queued>>

(* A unit arrives.  The stack queues it, acknowledges it and, if the       *)
(* callbacks are installed, calls wg_tcp_data_ready().                     *)
Arrive(c) ==
  /\ wire[c] # <<>>
  /\ wire' = [wire EXCEPT ![c] = Tail(@)]
  /\ rcvq' = [rcvq EXCEPT ![c] = Append(@, Head(wire[c]))]
  /\ acked' = acked \cup {c}
  /\ ScheduleRead(c = rx_socket /\ RxOpen)
  /\ UNCHANGED <<rx_socket, rx_last, promoted, rx_claimed, rearm, reader,
                 r_socket, processed, partial, expected, delivered, closed,
                 last, faults>>

-----------------------------------------------------------------------------
(* wg_tcp_read_worker() *)

ReadRun ==
  /\ read_queued /\ reader = "idle"
  /\ read_queued' = FALSE /\ processed' = 0
  /\ IF RxOpen THEN r_socket' = rx_socket /\ reader' = "read"
               ELSE r_socket' = 0 /\ reader' = "out"
  /\ UNCHANGED <<rx_socket, rx_last, promoted, rx_claimed, rearm,
                 read_scheduled, partial, expected, delivered, wireVars>>

RecordReady ==
  IF expected # 0 THEN Len(partial) >= expected ELSE Len(partial) >= Hdr

(* What one iteration takes from the socket: nothing when a record, or     *)
(* what may be one, is buffered already; otherwise what the tail of the    *)
(* buffer has room for.                                                    *)
Taken ==
  IF RecordReady THEN 0 ELSE Smaller(Len(rcvq[r_socket]), ReadSize)

Buffer == partial \o SubSeq(rcvq[r_socket], 1, Taken)

Iterate ==
  /\ reader = "read" /\ (RecordReady \/ Taken > 0)
  /\ rcvq' = [rcvq EXCEPT ![r_socket] = SubSeq(@, Taken + 1, Len(@))]
  /\ UNCHANGED <<rx_socket, rx_last, promoted, rx_claimed, rearm,
                 read_scheduled, read_queued, r_socket, wire, closed, acked,
                 last>>

Stop == reader' = "out" /\ UNCHANGED processed

CountIteration ==
  /\ processed' = processed + 1
  /\ reader' = IF processed + 1 >= Budget THEN "out" ELSE "read"

(* wg_peer_discard_partial_read() *)
Discard == partial' = <<>> /\ expected' = 0

(* EAGAIN keeps the partial record; end of file or an error discards it.   *)
ReadDry ==
  /\ reader = "read" /\ ~RecordReady /\ rcvq[r_socket] = <<>>
  /\ Stop
  /\ IF r_socket \in closed /\ wire[r_socket] = <<>>
       THEN Discard ELSE UNCHANGED <<partial, expected>>
  /\ UNCHANGED <<rx_socket, rx_last, promoted, rx_claimed, rearm,
                 read_scheduled, read_queued, r_socket, delivered,
                 wireVars>>

(* No memory for the buffer or for more room in it: what is buffered of    *)
(* the record is discarded.                                                *)
ReadNoMemory ==
  /\ reader = "read" /\ ~RecordReady /\ Fault
  /\ Stop /\ Discard
  /\ UNCHANGED <<rx_socket, rx_last, promoted, rx_claimed, rearm,
                 read_scheduled, read_queued, r_socket, delivered, wire,
                 rcvq, closed, acked, last>>

(* wg_check_potential_header_validity() of the bytes from position i on.   *)
HeaderAt(i) ==
  /\ i + Hdr - 1 <= Len(Buffer)
  /\ \A k \in 1 .. Hdr : Buffer[i + k - 1] = <<Buffer[i][1], k>>

HeaderFound == \E i \in 1 .. Len(Buffer) : HeaderAt(i)

(* No valid header: fewer bytes than one are kept as they are, of more     *)
(* wg_sync_header() keeps the last Hdr - 1, which may begin one.           *)
ParseNothing ==
  /\ Iterate /\ ~HeaderFound
  /\ Stop
  /\ IF Len(Buffer) < Hdr
       THEN partial' = Buffer /\ UNCHANGED expected
       ELSE /\ partial' = SubSeq(Buffer, Len(Buffer) - Hdr + 2, Len(Buffer))
            /\ expected' = 0
  /\ UNCHANGED <<delivered, faults>>

(* The first valid header in the buffer, the bytes from there on, and the  *)
(* length it announces.                                                    *)
SyncAt ==
  CHOOSE i \in 1 .. Len(Buffer) :
    HeaderAt(i) /\ \A j \in 1 .. i - 1 : ~HeaderAt(j)
Synced == SubSeq(Buffer, SyncAt, Len(Buffer))
Total == RecLen[Buffer[SyncAt][1]]

(* The record is not complete: go round again, if there is memory for it.  *)
ParsePart ==
  /\ Iterate /\ HeaderFound /\ Len(Synced) < Total
  /\ \/ /\ partial' = Synced /\ expected' = Total
        /\ CountIteration /\ UNCHANGED faults
     \/ Fault /\ Discard /\ Stop
  /\ UNCHANGED delivered

(* The record the bytes of one frame make up, 0 if they are not one.       *)
Content(bytes) == IF bytes = Units(bytes[1][1], 1) THEN bytes[1][1] ELSE 0

(* wg_tcp_build_fake_headers(): the addresses are those of the socket the  *)
(* reader captured.                                                        *)
FakeHeaders == r_socket

(* The record is handed to wg_receive() and the rest of the buffer becomes *)
(* the next partial record.                                                *)
ParseRecord ==
  /\ Iterate /\ HeaderFound /\ Len(Synced) >= Total
  /\ delivered' =
       Append(delivered, <<Content(SubSeq(Synced, 1, Total)), FakeHeaders>>)
  /\ partial' = SubSeq(Synced, Total + 1, Len(Synced)) /\ expected' = 0
  /\ CountIteration /\ UNCHANGED faults

(* No memory for the leftover: the header has been removed already, the    *)
(* rest stays, and expected_len is the length of the payload.              *)
ParseNoMemory ==
  /\ Iterate /\ HeaderFound /\ Len(Synced) > Total
  /\ Fault /\ Stop
  /\ partial' = SubSeq(Synced, Hdr + 1, Len(Synced)) /\ expected' = Total - Hdr
  /\ UNCHANGED delivered

(* The claim is given up, or taken again if bytes wait in the socket, or   *)
(* in the buffer because the budget ran out.                               *)
ReadAgainSocketOnly ==
  RxOpen /\ r_socket = rx_socket /\ rcvq[r_socket] # <<>>

ReadAgain ==
  /\ RxOpen /\ r_socket = rx_socket
  /\ \/ rcvq[r_socket] # <<>>
     \/ processed >= Budget /\ expected = 0 /\ Len(partial) >= Hdr

ReadOut ==
  /\ reader = "out"
  /\ reader' = "idle" /\ r_socket' = 0 /\ processed' = 0
  /\ read_scheduled' = ReadAgain /\ read_queued' = ReadAgain
  /\ UNCHANGED <<rx_socket, rx_last, promoted, rx_claimed, rearm, partial,
                 expected, delivered, wireVars>>

-----------------------------------------------------------------------------
(* The exchange of the socket, as far as the reader sees it.               *)

(* The state callback of a close, or the promotion of a newer connection.  *)
RxClaim ==
  /\ RxOpen /\ (rx_socket \in closed \/ rx_socket < last)
  /\ rx_claimed' = TRUE
  /\ UNCHANGED <<rx_socket, rx_last, promoted, rearm, read_scheduled,
                 read_queued, reader, r_socket, processed, partial,
                 expected, delivered, wireVars>>

RxReleaseKeepsPartial ==
  /\ rx_claimed /\ reader = "idle"
  /\ read_queued' = FALSE /\ read_scheduled' = FALSE
  /\ rx_socket' = 0 /\ rx_claimed' = FALSE
  /\ closed' = closed \cup {rx_socket}
  /\ rearm' = FALSE
  /\ wire' = [wire EXCEPT ![rx_socket] = <<>>]
  /\ rcvq' = [rcvq EXCEPT ![rx_socket] = <<>>]
  /\ UNCHANGED <<rx_last, promoted, reader, r_socket, processed, partial,
                 expected, delivered, acked, last, faults>>

RxRelease ==
  /\ rx_claimed /\ reader = "idle"
  /\ read_queued' = FALSE /\ read_scheduled' = FALSE
  /\ rx_socket' = 0 /\ rx_claimed' = FALSE
  /\ partial' = <<>> /\ expected' = 0
  /\ closed' = closed \cup {rx_socket}
  /\ rearm' = FALSE
  /\ wire' = [wire EXCEPT ![rx_socket] = <<>>]
  /\ rcvq' = [rcvq EXCEPT ![rx_socket] = <<>>]
  /\ UNCHANGED <<rx_last, promoted, reader, r_socket, processed, delivered,
                 acked, last, faults>>

(* The next connection is published and its callbacks are installed; the   *)
(* listener accepts connections in the order in which they were made.      *)
RxEstablish ==
  /\ rx_socket = 0 /\ rx_last < last
  /\ rx_socket' = rx_last + 1 /\ rx_last' = rx_last + 1 /\ rearm' = TRUE
  /\ UNCHANGED <<promoted, rx_claimed, read_scheduled, read_queued, reader,
                 r_socket, processed, partial, expected, delivered,
                 wireVars>>

(* wg_tcp_rearm_surviving_stream_locked(): what arrived before the         *)
(* callbacks were installed is read now.                                   *)
RxRearm ==
  /\ rearm /\ rearm' = FALSE
  /\ ScheduleRead(RxOpen /\ rcvq[rx_socket] # <<>>)
  /\ UNCHANGED <<rx_socket, rx_last, promoted, rx_claimed, reader, r_socket,
                 processed, partial, expected, delivered, wireVars>>

(* wg_tcp_promote_authenticated_carrier(): the socket of a provisional     *)
(* peer moves to the configured peer once the provisional workers and      *)
(* callbacks are gone.  The provisional parser is freed with its peer.     *)
RxPromote ==
  /\ RxOpen /\ rx_socket \notin promoted /\ reader = "idle" /\ Fault
  /\ promoted' = promoted \cup {rx_socket} /\ rearm' = TRUE
  /\ read_queued' = FALSE /\ read_scheduled' = FALSE
  /\ partial' = <<>> /\ expected' = 0
  /\ UNCHANGED <<rx_socket, rx_last, rx_claimed, reader, r_socket,
                 processed, delivered, wire, rcvq, closed, acked, last>>

Read ==
  \/ ReadRun \/ ReadDry \/ ReadNoMemory
  \/ ParseNothing \/ ParsePart \/ ParseRecord \/ ParseNoMemory \/ ReadOut

=============================================================================
