--------------------------- MODULE RecordChannel ----------------------------
(* What the record stream promises to the WireGuard layer above it, which  *)
(* is used to datagrams: records come out whole, at most once, with the    *)
(* addresses of the connection they came by and, on one connection, in the *)
(* order they were taken in.  Records taken in for a connection that fails *)
(* may be lost, and so may, at any time, the one that is next to be        *)
(* delivered; no other record disappears.                                  *)
EXTENDS Naturals, Sequences

CONSTANTS Records, Carriers

VARIABLES
  channel,     \* records taken in and neither delivered nor lost
  carrier,     \* the connection a record was taken in for, 0 if none
  failed,      \* connections that have failed
  delivered    \* <<record, connection>>: what was delivered, and whose
               \* addresses it was given

chanVars == <<channel, carrier, failed, delivered>>

Waiting == {channel[i] : i \in 1 .. Len(channel)}

Init ==
  /\ channel = <<>> /\ carrier = [r \in Records |-> 0]
  /\ failed = {} /\ delivered = <<>>

(* Records are numbered in the order in which they are offered.            *)
Take(r, c) ==
  /\ \A q \in Records : carrier[q] # 0 => q < r
  /\ channel' = Append(channel, r)
  /\ carrier' = [carrier EXCEPT ![r] = c]
  /\ UNCHANGED <<failed, delivered>>

(* Record r is the oldest of its connection.                               *)
First(r) ==
  /\ r \in Waiting
  /\ \A q \in Waiting : carrier[q] = carrier[r] => r <= q

Without(S) == SelectSeq(channel, LAMBDA r : r \notin S)

Deliver(r) ==
  /\ First(r)
  /\ delivered' = Append(delivered, <<r, carrier[r]>>)
  /\ channel' = Without({r})
  /\ UNCHANGED <<carrier, failed>>

Fail(c) ==
  /\ failed' = failed \cup {c}
  /\ UNCHANGED <<channel, carrier, delivered>>

Lose(S) ==
  /\ failed \subseteq failed' /\ failed' \subseteq Carriers
  /\ S # {} /\ \A r \in S : First(r) \/ carrier[r] \in failed'
  /\ channel' = Without(S)
  /\ UNCHANGED <<carrier, delivered>>

Next ==
  \/ \E r \in Records, c \in Carriers : Take(r, c)
  \/ \E r \in Records : Deliver(r)
  \/ \E S \in SUBSET Waiting : Lose(S)
  \/ \E c \in Carriers : Fail(c)

Spec == Init /\ [][Next]_chanVars

=============================================================================
