---------------------------- MODULE PacketQueue ----------------------------
(***************************************************************************)
(* The way of a packet through one peer's queue: wg_queue_enqueue_per_     *)
(* device_and_peer() puts it on the peer's queue and on the device's ring, *)
(* workers on several CPUs encrypt or decrypt what is on the ring in any   *)
(* order, and one consumer, wg_packet_tx_worker() or wg_packet_rx_poll(),  *)
(* takes packets off the peer's queue in order (kernel/send.c, receive.c,  *)
(* queueing.c, queueing.h).  Removal of the peer (kernel/peer.c) flushes   *)
(* the queues.                                                             *)
(*                                                                         *)
(* The peer's queue is a linked list with many producers and one consumer  *)
(* that uses no lock; a step is one access to memory the two sides share.  *)
(* A behaviour is about one of the two directions, fixed in Init.          *)
(***************************************************************************)
EXTENDS Naturals, FiniteSets, Sequences, SequencesExt

CONSTANTS Packets,           \* the packets; a freed one is used again
          Producers,         \* contexts that enqueue, each in an RCU section
          Workers,           \* CPUs with a crypt worker
          None,              \* NULL
          MaxQueuedPackets,  \* MAX_QUEUED_PACKETS, the limit of a peer's queue
          Budget,            \* what one rx poll may handle
          MaxEnqueued        \* bound: packets enqueued in a behaviour

ASSUME PacketQueueAssumption ==
    /\ None \notin Packets
    /\ MaxQueuedPackets \in Nat
    /\ Budget \in Nat \ {0}
    /\ MaxEnqueued \in Nat

VARIABLES dir,       \* "tx" or "rx"
          queue,     \* struct prev_queue: head, tail, peeked, count
          next,      \* NEXT() of every packet and of the stub
          state,     \* PACKET_CB(skb)->state; "crypted" stands also for
                     \* PACKET_STATE_DEAD, which the consumer only frees
          prod,      \* where each producer is
          ring,      \* the peer's packets on the device's ring
          worker,    \* the crypt workers: queued, and where they run
          cons,      \* the consumer: scheduled, and where it runs
          removal,   \* where peer_remove_after_dead() is
          enqueued,  \* packets enqueued so far
          fifo       \* [history] the packets queued, oldest first

vars == <<dir, queue, next, state, prod, ring, worker, cons, removal,
          enqueued, fifo>>

Stub == "stub"
Nodes == Packets \cup {Stub}
Works == Workers \cup {"consumer"}
NoWait == [k \in Works |-> 0]

(* wg_prev_queue_init() *)
Init ==
    /\ dir \in {"tx", "rx"}
    /\ queue = [head |-> Stub, tail |-> Stub, peeked |-> None, count |-> 0]
    /\ next = [q \in Nodes |-> None]
    /\ state = [q \in Packets |-> "free"]
    /\ prod = [p \in Producers |-> [at |-> "idle"]]
    /\ ring = <<>>
    /\ worker = [w \in Workers |-> [queued |-> FALSE, at |-> "idle"]]
    /\ cons = [scheduled |-> FALSE, at |-> "idle", done |-> 0]
    /\ removal = [at |-> "alive", wait |-> NoWait, cut |-> FALSE]
    /\ enqueued = 0
    /\ fifo = <<>>

(* queue_work_on(transmit_packet_work) or napi_schedule(). *)
Schedule(c) == [c EXCEPT !.scheduled = TRUE]

-----------------------------------------------------------------------------
(* Producers: wg_packet_create_data() and wg_packet_consume_data(). *)

(* atomic_add_unless(&queue->count, 1, MAX_QUEUED_PACKETS) fails. *)
Full == queue.count >= MaxQueuedPackets

(* wg_prev_queue_enqueue() up to the count; nothing for a dead peer.       *)
(* Packets differ in their names only, so any free one stands for all.     *)
Enqueue(p) ==
    /\ prod[p].at = "idle"
    /\ removal.at = "alive"
    /\ enqueued < MaxEnqueued
    /\ \E q \in Packets : state[q] = "free"
    /\ enqueued' = enqueued + 1
    /\ IF Full
       THEN UNCHANGED <<queue, state, prod>>
       ELSE LET q == CHOOSE k \in Packets : state[k] = "free"
            IN  /\ state' = [state EXCEPT ![q] = "uncrypted"]
                /\ queue' = [queue EXCEPT !.count = @ + 1]
                /\ prod' = [prod EXCEPT ![p] = [at |-> "xchg", skb |-> q]]
    /\ UNCHANGED <<dir, next, ring, worker, cons, removal, fifo>>

(* __wg_prev_queue_enqueue(): the exchange of the head ... *)
Xchg(p) ==
    LET q == prod[p].skb
    IN  /\ prod[p].at = "xchg"
        /\ next' = [next EXCEPT ![q] = None]
        /\ queue' = [queue EXCEPT !.head = q]
        /\ prod' = [prod EXCEPT ![p] = [at |-> "link", skb |-> q,
                                        prev |-> queue.head]]
        /\ fifo' = Append(fifo, q)
        /\ UNCHANGED <<dir, state, ring, worker, cons, removal, enqueued>>

(* ... and the link to the new one. *)
Link(p) ==
    /\ prod[p].at = "link"
    /\ next' = [next EXCEPT ![prod[p].prev] = prod[p].skb]
    /\ prod' = [prod EXCEPT ![p] = [at |-> "ring", skb |-> prod[p].skb]]
    /\ UNCHANGED <<dir, queue, state, ring, worker, cons, removal, enqueued,
                   fifo>>

(* When the ring is full the packet is dead, and nobody is told. *)
ProduceUntold(p) ==
    /\ prod[p].at = "ring"
    /\ prod' = [prod EXCEPT ![p] = [at |-> "idle"]]
    /\ \/ /\ state' = [state EXCEPT ![prod[p].skb] = "crypted"]
          /\ UNCHANGED <<ring, worker>>
       \/ /\ ring' = Append(ring, prod[p].skb)
          /\ \E w \in Workers :
               worker' = [worker EXCEPT ![w].queued = TRUE]
          /\ UNCHANGED state
    /\ UNCHANGED <<dir, queue, next, cons, removal, enqueued, fifo>>

(* The packet goes to a worker on some CPU (last_cpu is written without a  *)
(* lock).  Packets of other peers may have filled the device's ring: then  *)
(* it is dead, and the consumer is told.                                   *)
Produce(p) ==
    /\ prod[p].at = "ring"
    /\ prod' = [prod EXCEPT ![p] = [at |-> "idle"]]
    /\ \/ /\ state' = [state EXCEPT ![prod[p].skb] = "crypted"]
          /\ cons' = Schedule(cons)
          /\ UNCHANGED <<ring, worker>>
       \/ /\ ring' = Append(ring, prod[p].skb)
          /\ \E w \in Workers :
               worker' = [worker EXCEPT ![w].queued = TRUE]
          /\ UNCHANGED <<state, cons>>
    /\ UNCHANGED <<dir, queue, next, removal, enqueued, fifo>>

-----------------------------------------------------------------------------
(* wg_packet_encrypt_worker() and wg_packet_decrypt_worker(). *)

WorkerRun(w) ==
    /\ worker[w].queued /\ worker[w].at = "idle"
    /\ worker' = [worker EXCEPT ![w] = [queued |-> FALSE, at |-> "loop"]]
    /\ UNCHANGED <<dir, queue, next, state, prod, ring, cons, removal,
                   enqueued, fifo>>

(* A run of the work has ended, and flush_workqueue() may wait for it. *)
Ended(work) ==
    [removal EXCEPT !.wait[work] = IF @ = 0 THEN 0 ELSE @ - 1]

WorkerTake(w) ==
    /\ worker[w].at = "loop"
    /\ IF ring = <<>>
       THEN /\ worker' = [worker EXCEPT ![w].at = "idle"]
            /\ removal' = Ended(w)
            /\ UNCHANGED ring
       ELSE /\ worker' = [worker EXCEPT ![w] =
                 [queued |-> @.queued, at |-> "crypt", skb |-> Head(ring)]]
            /\ ring' = Tail(ring)
            /\ UNCHANGED removal
    /\ UNCHANGED <<dir, queue, next, state, prod, cons, enqueued, fifo>>

(* encrypt_packet() or decrypt_packet(), and the state that hands the      *)
(* packet to the consumer, which may free it from here on ...              *)
WorkerCrypt(w) ==
    /\ worker[w].at = "crypt"
    /\ state' = [state EXCEPT ![worker[w].skb] = "crypted"]
    /\ worker' = [worker EXCEPT ![w] = [queued |-> @.queued, at |-> "tell"]]
    /\ UNCHANGED <<dir, queue, next, prod, ring, cons, removal, enqueued,
                   fifo>>

(* ... and the consumer is told. *)
WorkerTell(w) ==
    /\ worker[w].at = "tell"
    /\ cons' = Schedule(cons)
    /\ worker' = [worker EXCEPT ![w] = [queued |-> @.queued, at |-> "loop"]]
    /\ UNCHANGED <<dir, queue, next, state, prod, ring, removal, enqueued,
                   fifo>>

-----------------------------------------------------------------------------
(* The consumer. *)

ConsumerAt(c, at) == [c EXCEPT !.at = at]

(* A packet leaves the list and is peeked at. *)
Dequeued(q, t) == [queue EXCEPT !.tail = t, !.count = @ - 1, !.peeked = q]

ConsumerRun ==
    /\ cons.scheduled /\ cons.at = "idle"
    /\ removal.at # "removed"
    /\ cons' = [scheduled |-> FALSE, at |-> "peek", done |-> 0]
    /\ UNCHANGED <<dir, queue, next, state, prod, ring, worker, removal,
                   enqueued, fifo>>

(* wg_prev_queue_peek(), and wg_prev_queue_dequeue() to its first load and *)
(* past the stub.                                                          *)
Peek ==
    /\ cons.at = "peek"
    /\ LET t == queue.tail IN
       IF queue.peeked # None
       THEN cons' = ConsumerAt(cons, "check") /\ UNCHANGED queue
       ELSE IF t = Stub /\ next[t] = None
       THEN cons' = ConsumerAt(cons, "check") /\ UNCHANGED queue
       ELSE IF t = Stub
       THEN /\ queue' = [queue EXCEPT !.tail = next[t]]
            /\ cons' = ConsumerAt(cons, "second")
       ELSE IF next[t] # None
       THEN queue' = Dequeued(t, next[t]) /\ cons' = ConsumerAt(cons, "check")
       ELSE cons' = ConsumerAt(cons, "last") /\ UNCHANGED queue
    /\ UNCHANGED <<dir, next, state, prod, ring, worker, removal, enqueued,
                   fifo>>

(* The second load, once the stub is passed. *)
DequeueSecond ==
    /\ cons.at = "second"
    /\ LET t == queue.tail IN
       IF next[t] # None
       THEN queue' = Dequeued(t, next[t]) /\ cons' = ConsumerAt(cons, "check")
       ELSE cons' = ConsumerAt(cons, "last") /\ UNCHANGED queue
    /\ UNCHANGED <<dir, next, state, prod, ring, worker, removal, enqueued,
                   fifo>>

(* The test for a producer in between is missing. *)
DequeueLastUntested ==
    /\ cons.at = "last"
    /\ next' = [next EXCEPT ![Stub] = None]
    /\ cons' = ConsumerAt(cons, "stub")
    /\ UNCHANGED <<dir, queue, state, prod, ring, worker, removal, enqueued,
                   fifo>>

(* One packet is left.  If it is the newest, the stub goes behind it;      *)
(* otherwise a producer is about to link the next one.                     *)
DequeueLast ==
    /\ cons.at = "last"
    /\ IF queue.tail # queue.head
       THEN cons' = ConsumerAt(cons, "check") /\ UNCHANGED next
       ELSE /\ next' = [next EXCEPT ![Stub] = None]
            /\ cons' = ConsumerAt(cons, "stub")
    /\ UNCHANGED <<dir, queue, state, prod, ring, worker, removal, enqueued,
                   fifo>>

StubXchg ==
    /\ cons.at = "stub"
    /\ queue' = [queue EXCEPT !.head = Stub]
    /\ cons' = [scheduled |-> cons.scheduled, at |-> "stublink",
                done |-> cons.done, prev |-> queue.head]
    /\ UNCHANGED <<dir, next, state, prod, ring, worker, removal, enqueued,
                   fifo>>

StubLink ==
    /\ cons.at = "stublink"
    /\ next' = [next EXCEPT ![cons.prev] = Stub]
    /\ cons' = [scheduled |-> cons.scheduled, at |-> "again",
                done |-> cons.done]
    /\ UNCHANGED <<dir, queue, state, prod, ring, worker, removal, enqueued,
                   fifo>>

DequeueAgain ==
    /\ cons.at = "again"
    /\ cons' = ConsumerAt(cons, "check")
    /\ LET t == queue.tail IN
       IF next[t] # None THEN queue' = Dequeued(t, next[t])
                         ELSE UNCHANGED queue
    /\ UNCHANGED <<dir, next, state, prod, ring, worker, removal, enqueued,
                   fifo>>

(* The packet is dropped from the queue and sent, delivered or freed. *)
(* Nobody looks at a freed one, so its link is forgotten.             *)
Consume ==
    LET q == queue.peeked
    IN  /\ queue' = [queue EXCEPT !.peeked = None]
        /\ next' = [next EXCEPT ![q] = None]
        /\ state' = [state EXCEPT ![q] = "free"]
        /\ fifo' = SelectSeq(fifo, LAMBDA x : x # q)

(* The worker is not waited for. *)
ReadyEarly == queue.peeked # None

(* The oldest packet is there, and its worker is done with it. *)
Ready == queue.peeked # None /\ state[queue.peeked] # "uncrypted"

(* The loop of wg_packet_tx_worker() and wg_packet_rx_poll().  A poll that *)
(* used up its budget is polled again, unless napi_disable() waits for it. *)
Check ==
    /\ cons.at = "check"
    /\ \/ /\ ~Ready
          /\ cons' = ConsumerAt(cons, "idle")
          /\ removal' = Ended("consumer")
          /\ UNCHANGED <<queue, next, state, fifo>>
       \/ /\ Ready
          /\ Consume
          /\ IF dir = "tx"
             THEN cons' = ConsumerAt(cons, "peek") /\ UNCHANGED removal
             ELSE IF cons.done + 1 < Budget
             THEN /\ cons' = [cons EXCEPT !.at = "peek", !.done = @ + 1]
                  /\ UNCHANGED removal
             ELSE IF removal.at = "disable"
             THEN /\ cons' = [scheduled |-> FALSE, at |-> "idle", done |-> 0]
                  /\ removal' = [removal EXCEPT !.cut = TRUE]
             ELSE /\ cons' = [scheduled |-> TRUE, at |-> "idle", done |-> 0]
                  /\ UNCHANGED removal
    /\ UNCHANGED <<dir, prod, ring, worker, enqueued>>

-----------------------------------------------------------------------------
(* wg_peer_remove(): is_dead, synchronize_net(), two flushes of            *)
(* packet_crypt_wq, napi_disable().                                        *)

RemovalAt(at, wait) == removal' = [removal EXCEPT !.at = at, !.wait = wait]

(* What a flush that starts now waits for: the end of every run that is    *)
(* going on or queued.  napi is no work of the queue.                      *)
Outstanding ==
    LET runs(queued, at) == (IF queued THEN 1 ELSE 0)
                            + (IF at # "idle" THEN 1 ELSE 0)
    IN  [k \in Works |->
            IF k \in Workers THEN runs(worker[k].queued, worker[k].at)
            ELSE IF dir = "tx" THEN runs(cons.scheduled, cons.at)
            ELSE 0]

MakeDead ==
    /\ removal.at = "alive"
    /\ RemovalAt("dead", NoWait)

(* synchronize_net() waits for the producers; the first flush follows. *)
SynchronizeNet ==
    /\ removal.at = "dead"
    /\ \A p \in Producers : prod[p].at = "idle"
    /\ RemovalAt("flush1", Outstanding)

(* One flush, for the workers and the consumer together. *)
FlushOnce ==
    /\ removal.at = "flush1" /\ removal.wait = NoWait
    /\ RemovalAt("disable", NoWait)

(* The end of the first flush, and that of the second. *)
Flush ==
    \/ /\ removal.at = "flush1" /\ removal.wait = NoWait
       /\ RemovalAt("flush2", Outstanding)
    \/ /\ removal.at = "flush2" /\ removal.wait = NoWait
       /\ RemovalAt("disable", NoWait)

NapiDisable ==
    /\ removal.at = "disable"
    /\ dir = "rx" => cons.at = "idle" /\ ~cons.scheduled
    /\ RemovalAt("removed", NoWait)

Removal ==
    /\ MakeDead \/ SynchronizeNet \/ Flush \/ NapiDisable
    /\ UNCHANGED <<dir, queue, next, state, prod, ring, worker, cons,
                   enqueued, fifo>>

-----------------------------------------------------------------------------
Dequeue == \/ Peek \/ DequeueSecond \/ DequeueLast
           \/ StubXchg \/ StubLink \/ DequeueAgain

Progress == \/ \E p \in Producers : Xchg(p) \/ Link(p) \/ Produce(p)
            \/ \E w \in Workers :
                 \/ WorkerRun(w) \/ WorkerTake(w)
                 \/ WorkerCrypt(w) \/ WorkerTell(w)
            \/ ConsumerRun \/ Dequeue \/ Check

Next == \/ \E p \in Producers : Enqueue(p)
        \/ Progress
        \/ Removal

(* A context that is in the middle of an operation goes on, and work that  *)
(* is queued is run.                                                       *)
Spec == Init /\ [][Next]_vars /\ WF_vars(Progress)

-----------------------------------------------------------------------------
(* The lock-free list is a queue, whatever producers are between their     *)
(* exchange and their link: what wg_prev_queue_dequeue() takes is always   *)
(* the oldest packet, and the count is that of the packets on the list and *)
(* of the producers about to put theirs there, so that no path leaks a     *)
(* count and shrinks the limit.                                            *)
ListIsQueue ==
    /\ queue.peeked # None => fifo # <<>> /\ queue.peeked = Head(fifo)
    /\ queue.count = Len(fifo) - (IF queue.peeked = None THEN 0 ELSE 1)
                     + Cardinality({p \in Producers : prod[p].at = "xchg"})
    /\ queue.count <= MaxQueuedPackets

(* No packet is freed under a worker: the consumer waits for the state     *)
(* that the worker sets last, so a packet on the ring or at a worker is    *)
(* still queued.                                                           *)
HeldIsQueued ==
    /\ Range(ring) \subseteq Range(fifo)
    /\ \A w \in Workers :
         worker[w].at = "crypt" => worker[w].skb \in Range(fifo)

(* "We can simply flush twice, and be sure that we no longer have          *)
(* references inside these queues": when the peer is removed, its queue is *)
(* empty and no worker has a packet of it.  A poll that napi_disable() cut *)
(* off at its budget is the exception.                                     *)
FlushedTwiceIsEmpty ==
    removal.at = "removed" /\ ~removal.cut => fifo = <<>>

(* Every packet leaves the queue: once no more are enqueued, the queue     *)
(* empties.  A wake-up comes for each packet after its state is set, even  *)
(* if the consumer stopped at an older one that was not linked yet.  The   *)
(* exception is again a poll that was cut off.                             *)
EveryPacketLeaves == []<>(fifo = <<>> \/ removal.cut)
=============================================================================
