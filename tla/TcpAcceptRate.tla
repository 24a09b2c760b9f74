--------------------------- MODULE TcpAcceptRate ---------------------------
(***************************************************************************)
(* The table that limits how often a source may open a TCP connection,     *)
(* wg_tcp_accept_rate_allow() of kernel/wg_tcp.c: a fixed number of slots, *)
(* the least recently seen of which is given to a new source.              *)
(***************************************************************************)
EXTENDS Naturals, Sequences, FiniteSets

CONSTANTS RateSources,  \* addresses, with their scope
          SourceSlots,        \* WG_TCP_ACCEPT_SOURCE_SLOTS
          Burst,        \* WG_TCP_ACCEPT_BURST
          Window,       \* WG_TCP_ACCEPT_WINDOW
          NoSource,     \* an empty slot
          MaxAccepts,   \* bound: connections
          MaxJiffies    \* bound: time

ASSUME AcceptRateAssumption ==
    /\ SourceSlots \in Nat \ {0} /\ Burst \in Nat \ {0} /\ Window \in Nat \ {0}
    /\ NoSource \notin RateSources

VARIABLES jiffies,
          slot,     \* wg->tcp_accept_sources
          accepts   \* [history] the connections, and which were let in

arvars == <<jiffies, slot, accepts>>

ArInit ==
    /\ jiffies = 0
    /\ slot = [i \in 1..SourceSlots |-> [source |-> NoSource]]
    /\ accepts = <<>>

(* wg_tcp_accept_source_set() *)
SourceSet(source) == [source |-> source, window_started |-> jiffies,
                      last_seen |-> jiffies, accepts |-> 1]

First(is) == CHOOSE i \in is : \A j \in is : i <= j

(* The most recently seen slot. *)
NewSlotLatest ==
    LET empty == {i \in 1..SourceSlots : slot[i].source = NoSource}
        latest == {i \in 1..SourceSlots : \A j \in 1..SourceSlots :
                      slot[j].last_seen <= slot[i].last_seen}
    IN  IF empty # {} THEN First(empty) ELSE First(latest)

(* The slot of a source that has none. *)
NewSlot ==
    LET empty == {i \in 1..SourceSlots : slot[i].source = NoSource}
        oldest == {i \in 1..SourceSlots : \A j \in 1..SourceSlots :
                      slot[i].last_seen <= slot[j].last_seen}
    IN  IF empty # {} THEN First(empty) ELSE First(oldest)

(* What becomes of the slot of a source, and whether it is let in. *)
Seen(s) ==
    IF jiffies >= s.window_started + Window
    THEN [slot |-> SourceSet(s.source), ok |-> TRUE]
    ELSE IF s.accepts >= Burst
    THEN [slot |-> [s EXCEPT !.last_seen = jiffies], ok |-> FALSE]
    ELSE [slot |-> [s EXCEPT !.last_seen = jiffies, !.accepts = @ + 1],
          ok |-> TRUE]

(* wg_tcp_accept_source_matches() *)
SourceMatches(source) == {i \in 1..SourceSlots : slot[i].source = source}

AcceptRateAllow(source) ==
    LET mine == SourceMatches(source)
        i == IF mine = {} THEN NewSlot ELSE First(mine)
        r == IF mine = {} THEN [slot |-> SourceSet(source), ok |-> TRUE]
             ELSE Seen(slot[i])
    IN  /\ Len(accepts) < MaxAccepts
        /\ slot' = [slot EXCEPT ![i] = r.slot]
        /\ accepts' = Append(accepts, [source |-> source, time |-> jiffies,
                                       ok |-> r.ok])
        /\ UNCHANGED jiffies

Jiffy == /\ jiffies < MaxJiffies
         /\ jiffies' = jiffies + 1
         /\ UNCHANGED <<slot, accepts>>

ArNext == Jiffy \/ \E source \in RateSources : AcceptRateAllow(source)

ArSpec == ArInit /\ [][ArNext]_arvars

-----------------------------------------------------------------------------
(* The times the source of the i-th connection was let in, from the i-th   *)
(* to the j-th, and the other sources since then, or in the same jiffy.    *)
LetIn(i, j) == {k \in i..j : /\ accepts[k].ok
                             /\ accepts[k].source = accepts[i].source}
Others(i, j) ==
    {accepts[k].source : k \in {l \in 1..j : accepts[l].time >= accepts[i].time}}
    \ {accepts[i].source}

(* In less than a window of time a source is let in at most two bursts     *)
(* long, one at the end of a window and one in the next, unless so many    *)
(* other sources came by that its slot was lost, which takes as many as    *)
(* there are slots: a few sources in turn cannot wash each other's count   *)
(* out of the table, which is "deliberately lossy under a many-source      *)
(* flood" (wg_tcp_accept_rate_allow()) and under no other.  And a source   *)
(* is refused only if it was let in a burst of times within the window     *)
(* before.                                                                 *)
AcceptBound ==
    \A j \in DOMAIN accepts :
        /\ \A i \in 1..j :
             accepts[j].time - accepts[i].time < Window
             /\ Cardinality(Others(i, j)) < SourceSlots =>
                 Cardinality(LetIn(i, j)) <= 2 * Burst
        /\ ~accepts[j].ok =>
             \E i \in 1..j - 1 :
                 /\ accepts[i].source = accepts[j].source
                 /\ accepts[j].time - accepts[i].time < Window
                 /\ Cardinality(LetIn(i, j)) >= Burst
=============================================================================
