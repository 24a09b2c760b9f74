------------------------------ MODULE Session ------------------------------
(***************************************************************************)
(* Two devices that are each other's only peer, over the TCP transport:    *)
(* the handshake messages and their workers (kernel/send.c, receive.c),    *)
(* the staged packets, the timers and the events of the device             *)
(* (kernel/device.c).                                                      *)
(*                                                                         *)
(* A handshake message is handled by one of several workers.  What a       *)
(* worker does under one hold of handshake->lock is one step; what it read *)
(* under an earlier hold it keeps in its job.  begin_session() is two      *)
(* steps, before and after the keypair enters the index table, with the    *)
(* lock held in between, because keypairs are cleared without that lock.   *)
(*                                                                         *)
(* Carriers come and go and a message can be on any of them, so the        *)
(* network is a set: messages are lost and reordered, never duplicated.    *)
(***************************************************************************)
EXTENDS Noise, Timers

CONSTANTS Workers,              \* handshake_receive_wq's workers
          MaxEphemeral,         \* bound: ephemeral keys in a behaviour
          MaxTimerHandshakes,   \* MAX_TIMER_HANDSHAKES
          RekeyAfterMessages,   \* REKEY_AFTER_MESSAGES
          RejectAfterMessages,  \* REJECT_AFTER_MESSAGES
          MaxEvents             \* bound: events of the environment

ASSUME SessionAssumption ==
    /\ None \notin Indices
    /\ MaxEphemeral \in Nat
    /\ MaxTimerHandshakes \in Nat
    /\ RekeyAfterMessages \in Nat
    /\ RejectAfterMessages \in Nat \ {0}
    /\ MaxEvents \in Nat

VARIABLES dev,        \* the two devices
          job,        \* what each worker of each device is doing
          net,        \* messages between a sender and a receive queue
          ephemeral,  \* ephemeral keys used so far
          events,     \* events of the environment so far
          derived,    \* [history] the session keys each device derived
          used        \* [history] the nonces each device sent under a key

vars == <<dev, job, net, ephemeral, events, derived, used>>

(* The static public key of device 1 is the lower one. *)
Devices == {1, 2}
Other(n) == 3 - n

Merge(r, s) == [f \in DOMAIN r \cup DOMAIN s |->
                   IF f \in DOMAIN r THEN r[f] ELSE s[f]]

(* last_sent_handshake is what the last message within REKEY_TIMEOUT was.  *)
(* clear_peer_work is idle, queued, or between its two calls.  out holds   *)
(* what a handler sends, until its step ends.  late is history: the keys   *)
(* whose session began while the interface was down.                       *)
SessionInit == [up |-> TRUE, last_sent_handshake |-> "none",
                transmit_handshake_work |-> FALSE, clear_peer_work |-> "idle",
                staged_packet_queue |-> {}, out |-> {}, late |-> {}]

Idle == [at |-> "idle"]

Init == /\ dev = [n \in Devices |->
                     Merge(SessionInit, Merge(NoiseInit, TimersInit))]
        /\ job = [n \in Devices |-> [w \in Workers |-> Idle]]
        /\ net = {}
        /\ ephemeral = 0
        /\ events = 0
        /\ derived = [n \in Devices |-> {}]
        /\ used = [n \in Devices |-> {}]

(* What comes from outside: packets, losses, the passing of time.          *)
Event == events < MaxEvents /\ events' = events + 1

(* handshake->lock is held between two steps only by begin_session(). *)
Unlocked(n) == \A w \in Workers : job[n][w].at # "added"

(* The end of a step: device n becomes d, and what d sends is on the way   *)
(* if the interface is up; gone leaves the network.                        *)
Become(n, d, gone) ==
    /\ dev' = [dev EXCEPT ![n] = [d EXCEPT !.out = {}]]
    /\ net' = (net \ gone) \cup (IF d.up THEN d.out ELSE {})
    /\ used' = [used EXCEPT ![n] = @ \cup
                   {<<m.key, m.counter>> :
                       m \in {o \in d.out : o.type = "data"}}]

Work(n, w, j) == job' = [job EXCEPT ![n][w] = j]

-----------------------------------------------------------------------------
(* Sending (send.c). *)

QueueInitiation(d, is_retry) ==
    [d EXCEPT !.timer_handshake_attempts = IF is_retry THEN @ ELSE 0,
              !.transmit_handshake_work = @ \/ d.last_sent_handshake = "none"]

(* keep_key_fresh() of send.c *)
KeepKeyFreshSending(d) ==
    LET k == d.current_keypair
    IN  IF /\ k.sending
           /\ \/ k.sending_counter > RekeyAfterMessages
              \/ k.i_am_the_initiator /\ k.age # "fresh"
        THEN QueueInitiation(d, FALSE) ELSE d

(* wg_packet_create_data_done() for the packets ps. *)
CreateDataDone(n, d, ps) ==
    LET k == d.current_keypair
        sent == TimersAnyAuthenticatedPacketSent(
                    TimersAnyAuthenticatedPacketTraversal(
                        [d EXCEPT !.out = @ \cup
                            {[type |-> "data", to |-> Other(n),
                              key_idx |-> k.remote_index, key |-> k.key,
                              counter |-> k.sending_counter - 1,
                              keepalive |-> ps = {"keepalive"}]}]))
    IN  KeepKeyFreshSending(
            IF ps # {"keepalive"} THEN TimersDataSent(sent) ELSE sent)

(* The counter is read and not incremented. *)
SendStagedPacketsUncounted(n, d) ==
    LET k == d.current_keypair
    IN  IF d.staged_packet_queue = {} THEN d
        ELSE IF ~k.sending THEN QueueInitiation(d, FALSE)
        ELSE [CreateDataDone(n,
                [d EXCEPT !.current_keypair.sending_counter = @ + 1,
                          !.staged_packet_queue = {}], d.staged_packet_queue)
                EXCEPT !.current_keypair.sending_counter = k.sending_counter]

(* wg_packet_send_staged_packets(): the packets of one call are one        *)
(* message.                                                                *)
SendStagedPackets(n, d) ==
    LET k == d.current_keypair
        counted == [d EXCEPT !.current_keypair.sending_counter = @ + 1]
        stop == k.sending_counter >= RejectAfterMessages
    IN  IF d.staged_packet_queue = {} THEN d
        ELSE IF ~k.sending THEN QueueInitiation(d, FALSE)
        ELSE IF k.age = "reject"
        THEN QueueInitiation([d EXCEPT !.current_keypair.sending = FALSE],
                             FALSE)
        ELSE IF stop
        THEN QueueInitiation([counted EXCEPT !.current_keypair.sending = FALSE],
                             FALSE)
        ELSE CreateDataDone(n, [counted EXCEPT !.staged_packet_queue = {}],
                            d.staged_packet_queue)

SendKeepalive(n, d) ==
    SendStagedPackets(n,
        [d EXCEPT !.staged_packet_queue =
                       IF @ = {} THEN {"keepalive"} ELSE @])

(* wg_xmit() stages a packet and sends what is staged. *)
Xmit(n) ==
    /\ Event
    /\ dev[n].up
    /\ Become(n, SendStagedPackets(n,
                    [dev[n] EXCEPT !.staged_packet_queue = @ \cup {"data"}]),
              {})
    /\ UNCHANGED <<job, ephemeral, derived>>

(* wg_packet_handshake_send_worker() *)
HandshakeSendWorker(n) ==
    /\ dev[n].transmit_handshake_work
    /\ LET d == [dev[n] EXCEPT !.transmit_handshake_work = FALSE]
       IN  IF d.last_sent_handshake # "none"
           THEN Become(n, d, {}) /\ UNCHANGED ephemeral
           ELSE /\ Unlocked(n)
                /\ ephemeral < MaxEphemeral
                /\ ephemeral' = ephemeral + 1
                /\ \E i \in Unused(d) :
                     LET m == [type |-> "initiation", to |-> Other(n),
                               ephemeral |-> ephemeral', sender_index |-> i,
                               timestamp |-> ephemeral']
                         c == [CreateInitiation(d, ephemeral', i) EXCEPT
                                  !.last_sent_handshake = "initiation",
                                  !.out = {m}]
                     IN  Become(n,
                            TimersHandshakeInitiated(
                              TimersAnyAuthenticatedPacketSent(
                                TimersAnyAuthenticatedPacketTraversal(c))),
                            {})
    /\ UNCHANGED <<job, events, derived>>

-----------------------------------------------------------------------------
(* Receiving handshake messages (wg_receive_handshake_packet()). *)

(* The end of the handler once a peer was found. *)
HandshakeReceived(d) ==
    TimersAnyAuthenticatedPacketTraversal(
        TimersAnyAuthenticatedPacketReceived(d))

ReceiveInitiation(n, w) ==
    \E m \in net :
        /\ job[n][w] = Idle
        /\ m.type = "initiation" /\ m.to = n /\ dev[n].up
        /\ Unlocked(n)
        /\ Become(n, dev[n], {m})
        /\ Work(n, w, IF InitiationIsNew(dev[n], m)
                      THEN [at |-> "checked", msg |-> m] ELSE Idle)
        /\ UNCHANGED <<ephemeral, events, derived>>

(* The tie-break of the TCP transport: the lower key goes on initiating. *)
RefusesInitiation(n) == dev[n].state = "CREATED_INITIATION" /\ n < Other(n)

CommitInitiation(n, w) ==
    /\ job[n][w].at = "checked"
    /\ Unlocked(n)
    /\ IF RefusesInitiation(n)
       THEN Work(n, w, Idle) /\ UNCHANGED <<dev, net, used>>
       ELSE /\ Become(n, ConsumeInitiation(dev[n], job[n][w].msg), {})
            /\ Work(n, w, [at |-> "consumed"])
    /\ UNCHANGED <<ephemeral, events, derived>>

(* wg_packet_send_handshake_response() up to begin_session(). *)
SendHandshakeResponse(n, w) ==
    LET d == [dev[n] EXCEPT !.last_sent_handshake = "response"]
    IN  /\ job[n][w].at = "consumed"
        /\ Unlocked(n)
        /\ IF d.state # "CONSUMED_INITIATION"
           THEN /\ Become(n, HandshakeReceived(d), {})
                /\ Work(n, w, Idle)
                /\ UNCHANGED ephemeral
           ELSE /\ ephemeral < MaxEphemeral
                /\ ephemeral' = ephemeral + 1
                /\ \E i \in Unused(d) :
                     LET c == CreateResponse(d, ephemeral', i)
                     IN  /\ Become(n, c, {})
                         /\ Work(n, w, [at |-> "created",
                              msg |-> [type |-> "response", to |-> Other(n),
                                       receiver_index |-> d.remote_index,
                                       sender_index |-> i,
                                       chaining_key |-> c.chaining_key]])
        /\ UNCHANGED <<events, derived>>

(* wg_noise_handshake_consume_response(): the copy under the read lock. *)
ReceiveResponse(n, w) ==
    \E m \in net :
        /\ job[n][w] = Idle
        /\ m.type = "response" /\ m.to = n /\ dev[n].up
        /\ Unlocked(n)
        /\ Become(n, dev[n], {m})
        /\ Work(n, w, IF /\ dev[n].table[m.receiver_index].type = "handshake"
                         /\ dev[n].state = "CREATED_INITIATION"
                         /\ ResponseOpens(dev[n].chaining_key, m)
                      THEN [at |-> "opened", msg |-> m] ELSE Idle)
        /\ UNCHANGED <<ephemeral, events, derived>>

(* ... and the write, if the state is still the same. *)
CommitResponse(n, w) ==
    /\ job[n][w].at = "opened"
    /\ Unlocked(n)
    /\ IF dev[n].state # "CREATED_INITIATION"
       THEN Work(n, w, Idle) /\ UNCHANGED <<dev, net, used>>
       ELSE /\ Become(n, ConsumeResponse(dev[n], job[n][w].msg), {})
            /\ Work(n, w, [at |-> "confirmed"])
    /\ UNCHANGED <<ephemeral, events, derived>>

(* wg_noise_handshake_begin_session() up to and including                  *)
(* add_new_keypair().  keypair_create() may find no memory.                *)
BeginSession(n, w) ==
    LET d == dev[n]
        new == NewKeypair(d)
    IN  /\ job[n][w].at \in {"created", "confirmed"}
        /\ Unlocked(n)
        /\ \/ /\ d.state \in {"CREATED_RESPONSE", "CONSUMED_RESPONSE"}
              /\ Become(n, AddNewKeypair(HandshakeZero(d), new), {})
              /\ derived' = [derived EXCEPT ![n] = @ \cup {new.key}]
              /\ UNCHANGED events
              /\ Work(n, w, [at |-> "added", key |-> new.key,
                             reply |-> IF job[n][w].at = "created"
                                       THEN {job[n][w].msg} ELSE {}])
           \/ /\ IF d.state \in {"CREATED_RESPONSE", "CONSUMED_RESPONSE"}
                 THEN Event ELSE UNCHANGED events
              /\ Become(n, HandshakeReceived(d), {})
              /\ Work(n, w, Idle)
              /\ UNCHANGED derived
        /\ UNCHANGED ephemeral

(* ... the rest of begin_session(), and of its caller. *)
FinishSession(n, w) ==
    LET j == job[n][w]
        d == TimersSessionDerived(HashtableReplace(
                 [dev[n] EXCEPT !.late =
                     @ \cup (IF dev[n].up THEN {} ELSE {j.key})],
                 j.key))
    IN  /\ j.at = "added"
        /\ Become(n, HandshakeReceived(
                IF j.reply # {}
                THEN TimersAnyAuthenticatedPacketSent(
                       TimersAnyAuthenticatedPacketTraversal(
                         [d EXCEPT !.last_sent_handshake = "response",
                                   !.out = j.reply]))
                ELSE SendKeepalive(n, TimersHandshakeComplete(d))), {})
        /\ Work(n, w, Idle)
        /\ UNCHANGED <<ephemeral, events, derived>>

-----------------------------------------------------------------------------
(* Receiving data. *)

(* wg_packet_consume_data(): the keypair is looked up and held. *)
LookupData(n) ==
    \E m \in net :
        /\ m.type = "data" /\ m.to = n /\ dev[n].up
        /\ net' = (net \ {m}) \cup
             (IF dev[n].table[m.key_idx] = KeypairEntry(m.key)
              THEN {[type |-> "held", to |-> n, key |-> m.key,
                     counter |-> m.counter, keepalive |-> m.keepalive]}
              ELSE {})
        /\ UNCHANGED <<dev, job, ephemeral, events, derived, used>>

(* keep_key_fresh() of receive.c. *)
KeepKeyFreshReceiving(d) ==
    IF /\ ~d.sent_lastminute_handshake
       /\ d.current_keypair.sending
       /\ d.current_keypair.i_am_the_initiator
       /\ d.current_keypair.age # "fresh"
    THEN QueueInitiation([d EXCEPT !.sent_lastminute_handshake = TRUE], FALSE)
    ELSE d

(* wg_packet_consume_data_done().  The checks of the inner packet that     *)
(* follow hand it on or drop it; the session does not change any more.     *)
ConsumeDataDone(n, d, m) ==
    LET fresh == IF KeyIsNew(d, m.key)
                 THEN SendStagedPackets(n,
                        TimersHandshakeComplete(ReceivedWithKeypair(d)))
                 ELSE d
        seen == HandshakeReceived(KeepKeyFreshReceiving(fresh))
    IN  IF m.keepalive THEN seen ELSE TimersDataReceived(seen)

(* decrypt_packet() succeeds: a keypair that left its slots while the      *)
(* packet was held is still good for it.  If the key is past               *)
(* REJECT_AFTER_TIME, or there is no memory, the packet is lost (Lose).    *)
ConsumeData(n) ==
    \E m \in net :
        /\ m.type = "held" /\ m.to = n
        /\ Become(n, ConsumeDataDone(n, dev[n], m), {m})
        /\ UNCHANGED <<job, ephemeral, events, derived>>

-----------------------------------------------------------------------------
(* The timers. *)

(* The retransmission timer runs at least as long as the rate limit of the *)
(* initiation it was set for.                                              *)
ExpiredRetransmitHandshake(n) ==
    LET d == [dev[n] EXCEPT !.timer_retransmit_handshake = FALSE]
    IN  /\ Event
        /\ dev[n].timer_retransmit_handshake
        /\ d.last_sent_handshake # "initiation"
        /\ Become(n,
             IF d.timer_handshake_attempts > MaxTimerHandshakes
             THEN [d EXCEPT !.timer_send_keepalive = FALSE,
                            !.staged_packet_queue = {},
                            !.timer_zero_key_material = Armed(d, @)]
             ELSE QueueInitiation([d EXCEPT !.timer_handshake_attempts = @ + 1],
                                  TRUE), {})
        /\ UNCHANGED <<job, ephemeral, derived>>

ExpiredSendKeepalive(n) ==
    LET d == [dev[n] EXCEPT !.timer_send_keepalive = FALSE]
    IN  /\ Event
        /\ dev[n].timer_send_keepalive
        /\ LET s == SendKeepalive(n, d)
           IN  Become(n, IF ~s.timer_need_another_keepalive THEN s
                           ELSE [s EXCEPT !.timer_need_another_keepalive = FALSE,
                                          !.timer_send_keepalive = Armed(s, @)],
                        {})
        /\ UNCHANGED <<job, ephemeral, derived>>

ExpiredNewHandshake(n) ==
    /\ Event
    /\ dev[n].timer_new_handshake
    /\ Become(n, QueueInitiation([dev[n] EXCEPT !.timer_new_handshake = FALSE],
                                 FALSE), {})
    /\ UNCHANGED <<job, ephemeral, derived>>

ExpiredZeroKeyMaterial(n) ==
    /\ Event
    /\ dev[n].timer_zero_key_material
    /\ Become(n, [dev[n] EXCEPT !.timer_zero_key_material = FALSE,
                    !.clear_peer_work = IF @ = "idle" THEN "queued" ELSE @], {})
    /\ UNCHANGED <<job, ephemeral, derived>>

ExpiredSendPersistentKeepalive(n) ==
    /\ Event
    /\ dev[n].timer_persistent_keepalive
    /\ Become(n, SendKeepalive(n,
             [dev[n] EXCEPT !.timer_persistent_keepalive = FALSE]), {})
    /\ UNCHANGED <<job, ephemeral, derived>>

(* wg_queued_expired_zero_key_material(): two calls, two locks. *)
QueuedExpiredZeroKeyMaterial(n) ==
    /\ \/ /\ dev[n].clear_peer_work = "queued"
          /\ Unlocked(n)
          /\ Become(n, [HandshakeClear(dev[n]) EXCEPT
                           !.clear_peer_work = "cleared"], {})
       \/ /\ dev[n].clear_peer_work = "cleared"
          /\ Become(n, [KeypairsClear(dev[n]) EXCEPT
                           !.clear_peer_work = "idle"], {})
    /\ UNCHANGED <<job, ephemeral, events, derived>>

(* REKEY_TIMEOUT passes. *)
RekeyTimeoutPasses(n) ==
    /\ Event
    /\ dev[n].last_sent_handshake # "none"
    /\ Become(n, [dev[n] EXCEPT !.last_sent_handshake = "none"], {})
    /\ UNCHANGED <<job, ephemeral, derived>>

(* The key in use passes REKEY_AFTER_TIME, or REJECT_AFTER_TIME. *)
KeyAges(n) ==
    /\ Event
    /\ dev[n].current_keypair.sending
    /\ \E a \in {"rekey", "reject"} :
         /\ dev[n].current_keypair.age \notin {a, "reject"}
         /\ Become(n, [dev[n] EXCEPT !.current_keypair.age = a], {})
    /\ UNCHANGED <<job, ephemeral, derived>>

-----------------------------------------------------------------------------
(* The device (device.c). *)

(* wg_stop(), of the peer's session: the timers are stopped and            *)
(* clear_peer_work is flushed before the keys go.                          *)
Stop(n) ==
    /\ Event
    /\ dev[n].up
    /\ Unlocked(n)
    /\ dev[n].clear_peer_work = "idle"
    /\ Become(n, KeypairsClear(HandshakeClear(TimersStop(
                   [dev[n] EXCEPT !.up = FALSE, !.staged_packet_queue = {},
                                  !.last_sent_handshake = "none"]))), {})
    /\ UNCHANGED <<job, ephemeral, derived>>

(* wg_open() *)
Open(n) ==
    LET d == [dev[n] EXCEPT !.up = TRUE]
    IN  /\ ~dev[n].up
        /\ Become(n, IF PersistentKeepalive THEN SendKeepalive(n, d)
                       ELSE SendStagedPackets(n, d), {})
        /\ UNCHANGED <<job, ephemeral, events, derived>>

(* wg_pm_notification(): the machine suspends. *)
Suspend(n) ==
    /\ Event
    /\ Unlocked(n)
    /\ Become(n, KeypairsClear(HandshakeClear(
                   [dev[n] EXCEPT !.timer_zero_key_material = FALSE])), {})
    /\ UNCHANGED <<job, ephemeral, derived>>

(* wg_vm_notification(): the virtual machine was cloned. *)
VmForked(n) ==
    /\ Event
    /\ Unlocked(n)
    /\ Become(n, [ExpireCurrentPeerKeypairs(dev[n]) EXCEPT
                     !.last_sent_handshake = "none"], {})
    /\ UNCHANGED <<job, ephemeral, derived>>

Lose == \E m \in net : /\ Event
                       /\ net' = net \ {m}
                       /\ UNCHANGED <<dev, job, ephemeral, derived, used>>

-----------------------------------------------------------------------------
HandshakeStep(n, w) ==
    \/ ReceiveInitiation(n, w)
    \/ CommitInitiation(n, w)
    \/ SendHandshakeResponse(n, w)
    \/ ReceiveResponse(n, w)
    \/ CommitResponse(n, w)
    \/ BeginSession(n, w)
    \/ FinishSession(n, w)

TimerStep(n) ==
    \/ ExpiredRetransmitHandshake(n)
    \/ ExpiredSendKeepalive(n)
    \/ ExpiredNewHandshake(n)
    \/ ExpiredZeroKeyMaterial(n)
    \/ ExpiredSendPersistentKeepalive(n)
    \/ QueuedExpiredZeroKeyMaterial(n)
    \/ RekeyTimeoutPasses(n)
    \/ KeyAges(n)

Next == \/ \E n \in Devices : \/ Xmit(n)
                              \/ HandshakeSendWorker(n)
                              \/ \E w \in Workers : HandshakeStep(n, w)
                              \/ LookupData(n)
                              \/ ConsumeData(n)
                              \/ TimerStep(n)
                              \/ Stop(n)
                              \/ Open(n)
                              \/ Suspend(n)
                              \/ VmForked(n)
        \/ Lose

Spec == Init /\ [][Next]_vars
-----------------------------------------------------------------------------
(* A responder sends under a key only once the initiator has it:           *)
(* add_new_keypair() parks the responder's keypair in next_keypair and     *)
(* wg_noise_received_with_keypair() moves it when a message under it has   *)
(* arrived.  So a responder's current key was derived by the other device, *)
(* whatever messages are lost or overtake each other.                      *)
ConfirmedKeyShared ==
    \A n \in Devices :
        LET k == dev[n].current_keypair
        IN  k # NoKeypair /\ ~k.i_am_the_initiator =>
              k.key \in derived[Other(n)]

(* wg_packet_send_staged_packets() never uses a nonce twice under one key: *)
(* the counter of every keypair that may send is above all nonces sent     *)
(* under its key, also those sent through another keypair with that key.   *)
NonceUsedOnce ==
    \A n \in Devices : \A k \in Keypairs(dev[n]), u \in used[n] :
        k.key = u[1] => u[2] < k.sending_counter

(* The index table and the slots agree.  Once begin_session() is over,     *)
(* every keypair in a slot is found under its own index, and a handshake   *)
(* that waits for an answer is found under its own.                        *)
IndexFindsKeypair ==
    \A n \in Devices :
        /\ Unlocked(n) => \A k \in Keypairs(dev[n]) :
              k.index \in Indices /\ dev[n].table[k.index] = KeypairEntry(k.key)
        /\ dev[n].state \in {"CREATED_INITIATION", "CREATED_RESPONSE",
                             "CONSUMED_RESPONSE"} =>
              dev[n].index \in Indices /\
              dev[n].table[dev[n].index] = HandshakeEntry

(* Two workers may both find an initiation new and then write in either    *)
(* order; latest_timestamp goes forward all the same, so an initiation     *)
(* that was once consumed is never taken for a new one.                    *)
TimestampForward ==
    [][\A n \in Devices :
          dev'[n].latest_timestamp >= dev[n].latest_timestamp]_vars

(* Keys do not outlive their time: while the interface is up, a device     *)
(* with a keypair has the timer that erases it, or the erasing work, or a  *)
(* worker that will set the timer.  A worker that wg_stop() did not wait   *)
(* for can begin a session while the interface is down, where              *)
(* mod_peer_timer() sets nothing: those keys are the exception.            *)
KeysWillBeErased ==
    \A n \in Devices :
        dev[n].up /\ (\E k \in Keypairs(dev[n]) : k.key \notin dev[n].late) =>
            \/ dev[n].timer_zero_key_material
            \/ dev[n].clear_peer_work # "idle"
            \/ ~Unlocked(n)
=============================================================================
