------------------------------- MODULE Config -------------------------------
(***************************************************************************)
(* The configuration of a device through netlink, kernel/netlink.c:        *)
(* wg_set_device() applies a request under device_update_lock, piece by    *)
(* piece and not as a transaction, and wg_get_device_dump() lists the      *)
(* configuration in messages between which the lock is free, with a cursor *)
(* into the list of peers and into a peer's list of allowed IPs.           *)
(*                                                                         *)
(* The table of allowed IPs is here what AllowedIPs shows the trie to be:  *)
(* every prefix has at most one peer.                                      *)
(***************************************************************************)
EXTENDS Naturals, Sequences, FiniteSets, SequencesExt

CONSTANTS Objects,     \* memory for struct wg_peer
          Null,        \* NULL, or an attribute that is not there
          Requests,    \* WG_CMD_SET_DEVICE messages
          MaxPeers,    \* MAX_PEERS_PER_DEVICE
          MaxMemory,   \* bound: allocations before one fails
          MaxRooms,    \* bound: entries that fit one message of a dump
          MaxRequests  \* bound: requests in a behaviour

VARIABLES dev,   \* struct wg_device and its peers
          dump,  \* struct dump_ctx, the netlink callback, and what was sent
          requests

cfvars == <<dev, dump, requests>>

NoDump == [at |-> "none"]

(* wg_newlink() *)
CfInit ==
    /\ dev = [up |-> FALSE, transport |-> "udp", port |-> 0, own |-> Null,
              gen |-> 1, seq |-> 1, peers |-> <<>>,
              key |-> [o \in Objects |-> Null],
              ips |-> [o \in Objects |-> <<>>],
              made |-> [o \in Objects |-> Null],
              hooked |-> [o \in Objects |-> "nowhere"], memory |-> 0]
    /\ dump = NoDump
    /\ requests = 0

-----------------------------------------------------------------------------
(* Allowed IPs. *)

Minus(s, x) == SelectSeq(s, LAMBDA y : y # x)

(* wg_allowedips_insert_v4(), wg_allowedips_insert_v6(): the entry moves    *)
(* to the end of the peer's list, from whatever list it was on.            *)
InsertIp(d, o, x) ==
    [d EXCEPT !.seq = @ + 1,
              !.ips = [q \in Objects |->
                          IF q = o THEN Append(Minus(d.ips[q], x), x)
                          ELSE Minus(d.ips[q], x)]]

(* wg_allowedips_remove_v4(), wg_allowedips_remove_v6() *)
RemoveIp(d, o, x) == [d EXCEPT !.seq = @ + 1, !.ips[o] = Minus(@, x)]

(* The sequence number stays. *)
RemoveIpsUnseen(d, o) == [d EXCEPT !.ips[o] = <<>>]

(* wg_allowedips_remove_by_peer() *)
RemoveIps(d, o) ==
    IF d.ips[o] = <<>> THEN d
    ELSE [d EXCEPT !.seq = @ + 1, !.ips[o] = <<>>]

-----------------------------------------------------------------------------
(* Peers. *)

(* The result of a step: the device, and whether it failed. *)
Done(d) == [d |-> d, ok |-> TRUE]
Failed(d) == [d |-> d, ok |-> FALSE]

(* One allocation, which may fail. *)
Alloc(d, after) ==
    IF d.memory = 0 THEN Failed(d) ELSE Done([after EXCEPT !.memory = @ - 1])

(* wg_pubkey_hashtable_lookup() *)
Lookup(d, k) == {o \in Range(d.peers) : d.key[o] = k}

(* The peers that are gone and that no dump refers to are memory. *)
Spare(d) == {o \in Objects \ Range(d.peers) :
                dump.at = "none" \/ dump.next_peer # o}

(* wg_peer_create() *)
PeerCreate(d, k) ==
    IF Len(d.peers) >= MaxPeers THEN Failed(d)
    ELSE LET o == CHOOSE q \in Spare(d) : TRUE
         IN  Alloc(d, [d EXCEPT !.peers = Append(@, o), !.key[o] = k,
                                !.ips[o] = <<>>, !.made[o] = d.transport,
                                !.hooked[o] = "device"])

(* wg_peer_remove() *)
PeerRemove(d, o) ==
    [RemoveIps(d, o) EXCEPT !.peers = Minus(@, o), !.hooked[o] = "nowhere"]

(* wg_peer_remove_all(): the peers stay linked on a list of the dead. *)
PeerRemoveAll(d) ==
    [d EXCEPT !.seq = @ + 1, !.peers = <<>>,
              !.ips = [o \in Objects |-> <<>>],
              !.hooked = [o \in Objects |->
                             IF o \in Range(d.peers) THEN "dead" ELSE @[o]]]

-----------------------------------------------------------------------------
(* wg_set_device() *)

(* set_allowedip() *)
SetAllowedip(d, o, a) ==
    IF a.remove THEN Done(RemoveIp(d, o, a.ip))
    ELSE IF \E q \in Objects : a.ip \in Range(d.ips[q])
    THEN Done(InsertIp(d, o, a.ip))
    ELSE Alloc([d EXCEPT !.seq = @ + 1], InsertIp(d, o, a.ip))

(* The rest of a list of pieces is not applied after one that failed. *)
Apply(Op(_, _), d, pieces) ==
    FoldLeft(LAMBDA r, piece : IF r.ok THEN Op(r.d, piece) ELSE r,
             Done(d), pieces)

SetAllowedips(d, o, r) ==
    LET kept == IF r.replace THEN RemoveIps(d, o) ELSE d
    IN  Apply(LAMBDA e, a : SetAllowedip(e, o, a), kept, r.ips)

(* set_peer(): a peer with the key of the device is silently ignored. *)
SetPeer(d, r) ==
    LET old == Lookup(d, r.key)
    IN  IF old = {} /\ (r.remove \/ r.update \/ r.key = d.own) THEN Done(d)
        ELSE IF old = {}
        THEN LET new == PeerCreate(d, r.key)
             IN  IF ~new.ok THEN new
                 ELSE SetAllowedips(new.d, Last(new.d.peers),
                                    [r EXCEPT !.replace = FALSE])
        ELSE LET o == CHOOSE q \in old : TRUE
             IN  IF r.remove THEN Done(PeerRemove(d, o))
                 ELSE SetAllowedips(d, o, r)

(* Peers are no obstacle. *)
TransportBusyDown(d, r) ==
    r.transport # Null /\ r.transport # d.transport /\ d.up

(* A change of the transport is refused while there is anything to carry. *)
TransportBusy(d, r) ==
    /\ r.transport # Null /\ r.transport # d.transport
    /\ d.up \/ (d.peers # <<>> /\ ~r.replace)

(* set_port(): the listeners of TCP are not replaced, the sockets of UDP    *)
(* may fail to be.                                                         *)
SetPort(d, r) ==
    IF r.port = Null \/ r.port = d.port THEN Done(d)
    ELSE IF d.up /\ d.transport = "tcp" THEN Failed(d)
    ELSE IF d.up THEN Alloc(d, [d EXCEPT !.port = r.port])
    ELSE Done([d EXCEPT !.port = r.port])

(* A new private key: the peer that has its public key goes first. *)
SetPrivateKey(d, r) ==
    IF r.private = Null \/ r.private = d.own THEN d
    ELSE LET self == Lookup(d, r.private)
             rid == IF self = {} THEN d
                    ELSE PeerRemove(d, CHOOSE o \in self : TRUE)
         IN  [rid EXCEPT !.own = r.private]

SetDeviceResult(r, memory) ==
    LET d == [dev EXCEPT !.gen = @ + 1, !.memory = memory,
                 !.transport = IF r.transport = Null THEN @ ELSE r.transport]
        port == SetPort(d, r)
        kept == IF r.replace THEN PeerRemoveAll(port.d) ELSE port.d
    IN  IF TransportBusy(dev, r) THEN dev
        ELSE IF ~port.ok THEN port.d
        ELSE Apply(SetPeer, SetPrivateKey(kept, r), r.peers).d

(* The generation is left to requests that change the list of peers. *)
SetDeviceUncounted(r) ==
    \E memory \in 0..MaxMemory :
      LET d == SetDeviceResult(r, memory)
      IN  dev' = [d EXCEPT !.memory = 0,
                     !.gen = IF d.peers = dev.peers THEN dev.gen ELSE @]

SetDevice(r) ==
    \E memory \in 0..MaxMemory :
        dev' = [SetDeviceResult(r, memory) EXCEPT !.memory = 0]

Request ==
    /\ requests < MaxRequests
    /\ requests' = requests + 1
    /\ \E r \in Requests : SetDevice(r)
    /\ UNCHANGED dump

(* wg_open() and wg_stop(), as far as the configuration is concerned. *)
OpenStop ==
    /\ dev' = [dev EXCEPT !.up = ~@]
    /\ UNCHANGED <<dump, requests>>

-----------------------------------------------------------------------------
(* wg_get_device_dump() *)

(* wg_get_device_start() *)
DumpStart ==
    /\ dump.at = "none"
    /\ dump' = [at |-> "run", next_peer |-> Null, next_ip |-> Null, seq |-> 0,
                prev |-> 0, intr |-> FALSE, sent |-> <<>>]
    /\ UNCHANGED <<dev, requests>>

(* The list of the device from the entry after the cursor. *)
After(s, x) == IF x = Null THEN s
               ELSE SubSeq(s, 1 + CHOOSE i \in DOMAIN s : s[i] = x, Len(s))
From(s, x) == SubSeq(s, CHOOSE i \in DOMAIN s : s[i] = x, Len(s))

(* get_peer() with room for so many entries: the peer, or on a later       *)
(* message its key only, and its allowed IPs up to the end of the message. *)
(* In a tight message the last entry leaves no room to begin a list.       *)
GetPeer(w, o) ==
    LET first == IF dev.ips[o] = <<>> THEN Null ELSE Head(dev.ips[o])
        ip == IF w.next_ip = Null THEN first ELSE w.next_ip
        head == IF w.next_ip = Null THEN <<<<dev.key[o], Null>>>> ELSE <<>>
        entries(s) == [i \in DOMAIN s |-> <<dev.key[o], s[i]>>]
        list == IF ip \in Range(dev.ips[o]) THEN From(dev.ips[o], ip)
                ELSE <<>>
        complete(s) == [w EXCEPT !.room = @ - 1 - Len(s), !.next_peer = o,
                                 !.next_ip = Null, !.seq = 0,
                                 !.sent = @ \o head \o entries(s)]
    IN  IF w.full THEN w
        ELSE IF w.room = 0 THEN [w EXCEPT !.full = TRUE]
        ELSE IF ip = Null \/ (w.seq # 0 /\ w.seq # dev.seq)
        THEN complete(<<>>)
        ELSE IF w.room = 1 /\ w.tight
        THEN [w EXCEPT !.full = TRUE, !.seq = dev.seq]
        ELSE IF Len(list) < w.room THEN complete(list)
        ELSE [w EXCEPT !.full = TRUE, !.seq = dev.seq,
                       !.next_ip = list[w.room],
                       !.sent = @ \o head
                                \o entries(SubSeq(list, 1, w.room - 1))]

(* The peers that are left, none if the cursor was removed from the list. *)
ToDump ==
    IF dump.next_peer = Null THEN dev.peers
    ELSE IF dev.peers = <<>> \/ dev.hooked[dump.next_peer] = "nowhere"
    THEN <<>>
    ELSE After(dev.peers, dump.next_peer)

(* The cursor is on a list, but on that of the dead. *)
Astray == /\ dev.peers # <<>>
          /\ dump.next_peer # Null
          /\ dev.hooked[dump.next_peer] = "dead"

(* One message, and NLM_F_DUMP_INTR if the generation is not that of the   *)
(* message before (genl_dump_check_consistent()).                          *)
DumpMessage(room, tight) ==
    LET w == FoldLeft(GetPeer,
                 [room |-> room, tight |-> tight, full |-> FALSE, next_peer |-> dump.next_peer,
                  next_ip |-> dump.next_ip, seq |-> dump.seq,
                  sent |-> dump.sent], ToDump)
    IN  /\ dump.at = "run" /\ ~Astray
        /\ dump' = [at |-> IF w.full THEN "run" ELSE "done",
                    next_peer |-> IF w.full THEN w.next_peer ELSE Null,
                    next_ip |-> w.next_ip, seq |-> w.seq, prev |-> dev.gen,
                    intr |-> \/ dump.intr
                             \/ dump.prev # 0 /\ dump.prev # dev.gen,
                    sent |-> w.sent]
        /\ UNCHANGED <<dev, requests>>

(* wg_get_device_done(), at the end or when the reader goes away. *)
DumpDone ==
    /\ dump.at \in {"run", "done"}
    /\ dump' = NoDump
    /\ UNCHANGED <<dev, requests>>

CfNext == \/ Request
          \/ OpenStop
          \/ DumpStart
          \/ \E room \in 2..MaxRooms, tight \in BOOLEAN :
                DumpMessage(room, tight)
          \/ DumpDone

CfSpec == CfInit /\ [][CfNext]_cfvars

-----------------------------------------------------------------------------
(* What a dump of this moment should say. *)
Listing ==
    FlattenSeq([i \in DOMAIN dev.peers |->
        LET o == dev.peers[i]
        IN  <<<<dev.key[o], Null>>>>
            \o [j \in DOMAIN dev.ips[o] |-> <<dev.key[o], dev.ips[o][j]>>]])

(* A dump that was not marked as interrupted lists the configuration: all  *)
(* peers and all their allowed IPs, each once, however the messages were   *)
(* cut and whatever requests came in between.  (While the generation is    *)
(* still that of its last message.)                                        *)
DumpConsistent ==
    dump.at = "done" /\ ~dump.intr /\ dump.prev = dev.gen =>
        dump.sent = Listing

(* The cursor of a dump into a list of allowed IPs is used only while it   *)
(* is on the list of the peer that comes next: the sequence number of the  *)
(* table tells when it is not, because the node may be gone.               *)
CursorLive ==
    dump.at = "run" /\ dump.next_ip # Null /\ dump.seq = dev.seq
    /\ ~Astray /\ ToDump # <<>> =>
        dump.next_ip \in Range(dev.ips[Head(ToDump)])

(* "If the last cursor was removed via list_del_init in peer_remove, then  *)
(* we just treat this the same as there being no more peers left": a       *)
(* cursor that is no longer a peer of the device makes the test of         *)
(* wg_get_device_dump(), an empty list or a cursor on no list, true.       *)
RemovedCursorEnds ==
    dump.at = "run" /\ dump.next_peer # Null
    /\ dump.next_peer \notin Range(dev.peers) =>
        dev.peers = <<>> \/ dev.hooked[dump.next_peer] = "nowhere"

(* No request, however far it got before it failed, leaves a device that   *)
(* is its own peer, two peers of one key, an allowed IP with two peers or  *)
(* with one that is gone, or a peer made for the other transport.          *)
ConfigCoherent ==
    /\ \A o \in Range(dev.peers) :
         dev.key[o] # dev.own /\ dev.made[o] = dev.transport
    /\ \A i, j \in DOMAIN dev.peers :
         dev.key[dev.peers[i]] = dev.key[dev.peers[j]] => i = j
    /\ \A o \in Objects : dev.ips[o] # <<>> => o \in Range(dev.peers)
    /\ \A o, q \in Objects :
         o # q => Range(dev.ips[o]) \cap Range(dev.ips[q]) = {}
=============================================================================
