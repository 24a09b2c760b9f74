------------------------------ MODULE TcpWire -------------------------------
(* What the two ends of a TCP stream share: records, cut into units that   *)
(* stand for runs of bytes, and the connections (carriers) that carry them *)
(* from one end to the other.  TCP itself is external: units arrive in     *)
(* order, once, until the connection breaks.                               *)
EXTENDS Naturals, Sequences

CONSTANTS
  RecLen,       \* RecLen[r]: units of the r-th record, header included
  Hdr,          \* units of a record header
  MaxCarrier,   \* connections an instance explores
  SndBuf,       \* units a socket takes before it reports EAGAIN
  LowWater,     \* free units from which sk_stream_is_writeable() holds
  MaxFaults     \* outside events an instance explores: resets, claims of
                \* healthy sockets, failed allocations and promotions

Records == 1 .. Len(RecLen)
Carriers == 1 .. MaxCarrier

ASSUME RecordsAreLong ==
  Hdr \in Nat \ {0} /\ \A r \in Records : RecLen[r] \in Nat /\ Hdr < RecLen[r]
ASSUME BufferIsUsable ==
  SndBuf \in Nat /\ LowWater \in Nat /\ 0 < LowWater /\ LowWater <= SndBuf
ASSUME FaultsAreBounded == MaxFaults \in Nat

VARIABLES
  wire,     \* units sent and not yet arrived, per carrier
  rcvq,     \* sk_receive_queue at the other end, per carrier
  closed,   \* carriers that are reset or shut down
  acked,    \* carriers whose sender has an acknowledgement to process
  last,     \* the newest carrier
  faults    \* outside events so far

wireVars == <<wire, rcvq, closed, acked, last, faults>>

Smaller(a, b) == IF a < b THEN a ELSE b

(* Units k to the end of record r; Units(r, 1) is the whole record.        *)
Units(r, k) == [i \in 1 .. RecLen[r] - k + 1 |-> <<r, k + i - 1>>]

Used(c) == Len(wire[c])

(* sk_stream_is_writeable() *)
Writeable(c) == SndBuf - Used(c) >= LowWater

WireInit ==
  /\ wire = [c \in Carriers |-> <<>>] /\ rcvq = [c \in Carriers |-> <<>>]
  /\ closed = {} /\ acked = {} /\ last = 0 /\ faults = 0

Fault == faults < MaxFaults /\ faults' = faults + 1

(* The connection is reset: what is on its way is gone.                    *)
Break(c) ==
  /\ c <= last /\ c \notin closed /\ Fault
  /\ closed' = closed \cup {c}
  /\ wire' = [wire EXCEPT ![c] = <<>>]
  /\ UNCHANGED <<rcvq, acked, last>>

=============================================================================
