-------------------------- MODULE HandshakeIntake --------------------------
(***************************************************************************)
(* How a device takes in handshake messages over UDP: the ring of messages *)
(* and its workers in kernel/receive.c, and the cookies of kernel/cookie.c *)
(* that a sender must show when the ring is crowded.                       *)
(*                                                                         *)
(* A sender is a peer at an address.  A MAC over a message is the key it   *)
(* was made with: mac1 numbers the message, mac2 names the secret of the   *)
(* cookie, the address being that of the sender.                           *)
(***************************************************************************)
EXTENDS Integers, Sequences, FiniteSets

CONSTANTS Senders,
          HsWorkers,      \* CPUs running wg_packet_handshake_receive_worker()
          MaxQueued,      \* MAX_QUEUED_INCOMING_HANDSHAKES
          CrowdedAbove,   \* half of it: the ring's lock is only tried
          LoadedFrom,     \* an eighth of it: the device is under load
          LoadTime,       \* one second
          MaxAge,         \* COOKIE_SECRET_MAX_AGE
          Latency,        \* COOKIE_SECRET_LATENCY
          NoCookie,
          MaxSent,        \* bound: messages of a sender
          MaxBoottime     \* bound: time

ASSUME HandshakeIntakeAssumption ==
    /\ MaxQueued \in Nat \ {0} /\ CrowdedAbove \in Nat /\ LoadedFrom \in Nat
    /\ MaxAge \in Nat /\ Latency \in Nat /\ Latency < MaxAge

VARIABLES boottime,
          hsring,     \* handshake_queue.ring
          hslen,      \* handshake_queue_len
          loaded,     \* last_under_load
          secret,     \* the secret of the cookie checker, and its birthdate
          hsworker,   \* where each worker is
          latest,     \* peer->latest_cookie of each sender
          wire        \* messages and replies under way; a lost one stays there

hivars == <<boottime, hsring, hslen, loaded, secret, hsworker, latest, wire>>

Waiting == [at |-> "idle"]

(* wg_cookie_checker_init(), wg_cookie_init() *)
HiInit ==
    /\ boottime = 1
    /\ hsring = <<>> /\ hslen = 0 /\ loaded = 0
    /\ secret = [id |-> 1, birthdate |-> 1]
    /\ hsworker = [w \in HsWorkers |-> Waiting]
    /\ latest = [s \in Senders |->
          [cookie |-> NoCookie, birthdate |-> 0, sent |-> 0, awaits |-> FALSE]]
    /\ wire = {}

(* wg_birthdate_has_expired() *)
Expired(birthdate, age) == birthdate + age <= boottime

-----------------------------------------------------------------------------
(* The sender. *)

(* wg_cookie_add_mac_to_packet(): a cookie is shown until some time before *)
(* its secret can be too old.                                              *)
Mac2(s) ==
    IF /\ latest[s].cookie # NoCookie
       /\ ~Expired(latest[s].birthdate, MaxAge - Latency)
    THEN latest[s].cookie ELSE NoCookie

SendHandshake(s) ==
    /\ latest[s].sent < MaxSent
    /\ latest' = [latest EXCEPT ![s].sent = @ + 1, ![s].awaits = TRUE]
    /\ wire' = wire \cup {[type |-> "handshake", of |-> s,
                           mac1 |-> latest[s].sent + 1, mac2 |-> Mac2(s)]}
    /\ UNCHANGED <<boottime, hsring, hslen, loaded, secret, hsworker>>

(* wg_cookie_message_consume(): the reply is decrypted with the mac1 of    *)
(* the last message sent, and used once.                                   *)
MessageConsume(m) ==
    /\ m \in wire /\ m.type = "cookie"
    /\ wire' = wire \ {m}
    /\ latest' = IF latest[m.of].awaits /\ latest[m.of].sent = m.mac1
                 THEN [latest EXCEPT ![m.of].cookie = m.cookie,
                                     ![m.of].birthdate = boottime,
                                     ![m.of].awaits = FALSE]
                 ELSE latest
    /\ UNCHANGED <<boottime, hsring, hslen, loaded, secret, hsworker>>

-----------------------------------------------------------------------------
(* wg_packet_receive(): in a crowded ring a message is dropped if another  *)
(* CPU has the lock, and in a full one anyway.                             *)
PacketReceive(m) ==
    /\ m \in wire /\ m.type = "handshake"
    /\ wire' = wire \ {m}
    /\ \/ /\ Len(hsring) < MaxQueued
          /\ hsring' = Append(hsring, m)
          /\ hslen' = hslen + 1
       \/ /\ Len(hsring) >= MaxQueued \/ hslen > CrowdedAbove
          /\ UNCHANGED <<hsring, hslen>>
    /\ UNCHANGED <<boottime, loaded, secret, hsworker, latest>>

WorkerAt(w, s) == hsworker' = [hsworker EXCEPT ![w] = s]

(* wg_packet_handshake_receive_worker() takes a message. *)
WorkerConsume(w) ==
    /\ hsworker[w] = Waiting /\ hsring # <<>>
    /\ WorkerAt(w, [at |-> "load", m |-> Head(hsring)])
    /\ hsring' = Tail(hsring)
    /\ UNCHANGED <<boottime, hslen, loaded, secret, latest, wire>>

(* wg_receive_handshake_packet(): the load, which lasts for a while.  All  *)
(* workers share last_under_load without a lock.                           *)
WorkerLoad(w) ==
    LET now == hslen >= LoadedFrom
        before == loaded # 0 /\ ~Expired(loaded, LoadTime)
    IN  /\ hsworker[w].at = "load"
        /\ loaded' = IF now THEN boottime ELSE IF before THEN loaded ELSE 0
        /\ WorkerAt(w, [at |-> IF now \/ before THEN "expiry" ELSE "accept",
                        m |-> hsworker[w].m, load |-> now \/ before,
                        for |-> "check", checked |-> boottime])
        /\ UNCHANGED <<boottime, hsring, hslen, secret, latest, wire>>

(* The secret is used however old it is. *)
CookieExpiryNever(w) ==
    /\ hsworker[w].at = "expiry"
    /\ WorkerAt(w, [hsworker[w] EXCEPT !.checked = boottime, !.at = "secret"])
    /\ UNCHANGED <<boottime, hsring, hslen, loaded, secret, latest, wire>>

(* make_cookie(): the age is looked at without the lock, ... *)
CookieExpiry(w) ==
    /\ hsworker[w].at = "expiry"
    /\ WorkerAt(w, [hsworker[w] EXCEPT !.checked = boottime,
              !.at = IF Expired(secret.birthdate, MaxAge) THEN "rotate"
                     ELSE "secret"])
    /\ UNCHANGED <<boottime, hsring, hslen, loaded, secret, latest, wire>>

(* ... so that two workers may renew the secret one after the other, ... *)
CookieRotate(w) ==
    /\ hsworker[w].at = "rotate"
    /\ secret' = [id |-> secret.id + 1, birthdate |-> boottime]
    /\ WorkerAt(w, [hsworker[w] EXCEPT !.at = "secret"])
    /\ UNCHANGED <<boottime, hsring, hslen, loaded, latest, wire>>

(* ... and then it is read, to look at the mac2 of a message.  The answer  *)
(* of the rate limiter is any here.                                        *)
MacStates(m) ==
    IF m.mac2 # NoCookie /\ m.mac2.secret = secret.id
    THEN {"with_cookie", "ratelimited"} ELSE {"no_cookie"}

(* wg_cookie_validation_action(), under load *)
ValidationAction(mac_state) ==
    CASE mac_state = "with_cookie" -> "accept"
      [] mac_state = "no_cookie"   -> "challenge"
      [] OTHER                     -> "drop"

(* wg_cookie_validate_packet(): a message that is challenged gets a reply, *)
(* for which make_cookie() runs again.                                     *)
ValidatePacket(w) ==
    LET s == hsworker[w]
    IN  /\ s.at = "secret" /\ s.for = "check"
        /\ \E mac_state \in MacStates(s.m) :
             LET action == ValidationAction(mac_state)
             IN  WorkerAt(w, [s EXCEPT
                    !.at = IF action = "challenge" THEN "expiry" ELSE action,
                    !.for = IF action = "challenge" THEN "reply" ELSE @])
        /\ UNCHANGED <<boottime, hsring, hslen, loaded, secret, latest, wire>>

(* wg_cookie_message_create() *)
MessageCreate(m) ==
    [type |-> "cookie", of |-> m.of, mac1 |-> m.mac1,
     cookie |-> [secret |-> secret.id, made |-> boottime]]

(* wg_packet_send_handshake_cookie() *)
SendHandshakeCookie(w) ==
    LET s == hsworker[w]
    IN  /\ s.at = "secret" /\ s.for = "reply"
        /\ wire' = wire \cup {MessageCreate(s.m)}
        /\ WorkerAt(w, [s EXCEPT !.at = "drop"])
        /\ UNCHANGED <<boottime, hsring, hslen, loaded, secret, latest>>

(* The message is processed, or not, and freed. *)
WorkerDone(w) ==
    /\ hsworker[w].at \in {"accept", "drop"}
    /\ WorkerAt(w, Waiting)
    /\ hslen' = hslen - 1
    /\ UNCHANGED <<boottime, hsring, loaded, secret, latest, wire>>

(* wg_stop(): the worker's messages are not waited for, and the length is  *)
(* off by them from then on.                                               *)
PurgeRing ==
    /\ hsring # <<>>
    /\ hsring' = <<>>
    /\ hslen' = 0
    /\ UNCHANGED <<boottime, loaded, secret, hsworker, latest, wire>>

HiTick ==
    /\ boottime < MaxBoottime
    /\ boottime' = boottime + 1
    /\ UNCHANGED <<hsring, hslen, loaded, secret, hsworker, latest, wire>>

HiNext ==
    \/ \E s \in Senders : SendHandshake(s)
    \/ \E m \in wire : MessageConsume(m) \/ PacketReceive(m)
    \/ \E w \in HsWorkers : \/ WorkerConsume(w) \/ WorkerLoad(w)
                            \/ CookieExpiry(w) \/ CookieRotate(w)
                            \/ ValidatePacket(w) \/ SendHandshakeCookie(w)
                            \/ WorkerDone(w)
    \/ PurgeRing \/ HiTick

HiSpec == HiInit /\ [][HiNext]_hivars

-----------------------------------------------------------------------------
(* Under load a message is processed only if its sender shows a cookie,    *)
(* and the cookie was made less than COOKIE_SECRET_MAX_AGE before the      *)
(* worker looked at the age of the secret, however the workers interleave  *)
(* in make_cookie() and however late replies and messages arrive.          *)
CookieFresh ==
    \A w \in HsWorkers :
        hsworker[w].at = "accept" /\ hsworker[w].load =>
            /\ hsworker[w].m.mac2 # NoCookie
            /\ hsworker[w].checked - hsworker[w].m.mac2.made < MaxAge
=============================================================================
