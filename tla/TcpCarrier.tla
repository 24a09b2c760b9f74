----------------------------- MODULE TcpCarrier -----------------------------
(***************************************************************************)
(* The life of the TCP carrier of one configured peer (kernel/wg_tcp.c,    *)
(* kernel/peer.c, kernel/device.c): the outbound dial, the socket          *)
(* callbacks, the retry and removal workers, the promotion of an accepted  *)
(* connection, and interface stop, interface start and peer removal, all   *)
(* interleaved.                                                            *)
(*                                                                         *)
(* One step is one critical section of tcp_lock, or one wait (a mutex, a   *)
(* cancel_*_sync(), a callback-lock barrier).  tcp_socket_lock is `mutex`; *)
(* it is held across steps.  The local variable `socket` of whichever      *)
(* function holds the mutex is `cur`.  Timer delays are left out: a queued *)
(* delayed work may run at any time.                                       *)
(***************************************************************************)
EXTENDS Naturals, FiniteSets

CONSTANTS
  Sockets,   \* the struct socket objects; a released one may be reused
  None,      \* NULL
  MaxConn,   \* bound on accepted connections (tcp_connection_sequence)
  Inputs     \* the kinds of outside events an instance explores

ASSUME NoneIsNoSocket == None \notin Sockets
ASSUME NoneIsNoTag == None \notin {"in", "out", "temp", "seen"}
ASSUME MaxConnIsNat == MaxConn \in Nat

(* "config": netlink sets the endpoint;  "route": a route or FwMark change;*)
(* "roam": an authenticated packet changes the dial target;  "send": a     *)
(* packet is sent without a stream;  "traffic": there is work for the      *)
(* stream workers;  "fail": allocations and dials fail;  "stop": interface *)
(* down and up;  "remove": peer removal and creation.                      *)
ASSUME InputsAreKnown ==
  Inputs \subseteq {"config", "route", "roam", "send", "traffic", "fail",
                     "stop", "remove"}

Ids == 1 .. MaxConn
Works == {"retry", "outrem", "inrem", "promo"}
Threads == Works \cup {"ctl"}
Callers == {"retry", "outrem", "ctl"}   \* the callers of wg_tcp_connect()
NoThread == "none"

VARIABLES
  up,                    \* device->tcp_cleanup_scheduled and netif_running()
  removing,              \* the stop in progress belongs to wg_peer_remove()
  is_dead, tcp_stopping, peer_endpoint_set,
  peer_socket, inbound_socket, outbound_socket,
  tcp_established, tcp_pending, tcp_connecting,
  inbound_connected, outbound_connected,
  in_remove, in_remove_socket,    \* tcp_inbound_remove_scheduled / _socket
  out_remove, out_remove_socket,  \* tcp_outbound_remove_scheduled / _socket
  reconnect_requested,
  retry_scheduled,
  retry_needed,          \* local of wg_tcp_outbound_remove_worker()
  sk,                    \* sk_state of a socket, "free" once released
  cb,                    \* whose wrapper is in sk_user_data, None if nobody's
  notify,                \* the stack owes the socket a state-change callback
  cbwork,                \* where a running state callback is, None if none is
  work,                  \* work items queued and not yet started
  pc, mutex, cur,
  io,                    \* socket captured by a running stream worker
  last_id,               \* device->tcp_connection_sequence
  entry, entry_sock,     \* the provisional connection list, by connection id
  authed,                \* listed entries marked authenticated
  temp_dead,             \* listed entries whose provisional peer is_dead
  napi,                  \* ids of authenticated packets being applied
  roam_id, promo_id, promo_scheduled,
  claim_id,              \* local connection_id of the promotion worker
  inbound_id             \* history: the id the inbound carrier was promoted from

devVars   == <<up, removing, is_dead, tcp_stopping, peer_endpoint_set>>
sockVars  == <<peer_socket, inbound_socket, outbound_socket>>
connVars  == <<tcp_established, tcp_pending, tcp_connecting,
               inbound_connected, outbound_connected>>
claimVars == <<in_remove, in_remove_socket, out_remove, out_remove_socket,
               reconnect_requested>>
retryVars == <<retry_scheduled, retry_needed>>
skVars    == <<sk, cb, notify, cbwork>>
thrVars   == <<work, pc, mutex, cur>>
listVars  == <<last_id, entry, entry_sock, authed, temp_dead, napi>>
roamVars  == <<roam_id, promo_id, promo_scheduled, claim_id, inbound_id>>
vars == <<devVars, sockVars, connVars, claimVars, retryVars, skVars, thrVars,
          io, listVars, roamVars>>

-----------------------------------------------------------------------------
(* Gates: the conditions that the critical sections test before acting.    *)

Alive == up /\ ~is_dead /\ ~tcp_stopping

StreamOpen == /\ Alive /\ ~out_remove /\ ~in_remove
              /\ peer_socket # None /\ tcp_established

Opt == Sockets \cup {None}
SkStates == {"free", "new", "syn", "estab", "closed"}

(* Where a thread can be: in wg_tcp_connect() and its unwind, in a removal *)
(* worker, in promotion, in wg_tcp_peer_stop(), or between two calls.      *)
Labels ==
  {"idle", "lock", "create", "setup", "dial", "final", "resched",
   "uw_claim", "uw_drain", "uw_release", "uw_final", "uw_queue",
   "cancel", "take", "drain", "release", "fin", "fin_stale", "reclaim",
   "next", "claim", "destroy", "detach", "displace", "transfer", "undo",
   "stop_gate", "retry", "outrem", "inrem", "promo", "stop_lock",
   "stop_drain", "stop_release", "stop_done", "list", "dead", "gone",
   "down", "open", "up"}

DeviceTypeOK ==
  /\ up \in BOOLEAN /\ removing \in BOOLEAN /\ is_dead \in BOOLEAN
  /\ tcp_stopping \in BOOLEAN /\ peer_endpoint_set \in BOOLEAN

ConnTypeOK ==
  /\ tcp_established \in BOOLEAN /\ tcp_pending \in BOOLEAN
  /\ tcp_connecting \in BOOLEAN
  /\ inbound_connected \in BOOLEAN /\ outbound_connected \in BOOLEAN

ClaimTypeOK ==
  /\ in_remove \in BOOLEAN /\ out_remove \in BOOLEAN
  /\ reconnect_requested \in BOOLEAN /\ promo_scheduled \in BOOLEAN
  /\ retry_scheduled \in BOOLEAN /\ retry_needed \in BOOLEAN

PointerTypeOK ==
  /\ peer_socket \in Opt /\ inbound_socket \in Opt /\ outbound_socket \in Opt
  /\ in_remove_socket \in Opt /\ out_remove_socket \in Opt
  /\ cur \in Opt /\ io \in Opt
  /\ entry_sock \in [Ids -> Opt]

StackTypeOK ==
  /\ sk \in [Sockets -> SkStates]
  /\ cb \in [Sockets -> {None, "in", "out", "temp"}]
  /\ notify \in [Sockets -> BOOLEAN]
  /\ cbwork \in [Sockets -> {None, "seen", "in", "out"}]

ThreadTypeOK ==
  /\ work \in [Works -> BOOLEAN]
  /\ pc \in [Threads -> Labels]
  /\ mutex \in Threads \cup {NoThread}

ListTypeOK ==
  /\ last_id \in 0 .. MaxConn
  /\ entry \in [Ids -> {"none", "init", "live", "claimed"}]
  /\ authed \in SUBSET Ids /\ temp_dead \in SUBSET Ids /\ napi \in SUBSET Ids
  /\ roam_id \in 0 .. MaxConn /\ promo_id \in 0 .. MaxConn
  /\ claim_id \in 0 .. MaxConn /\ inbound_id \in 0 .. MaxConn

(* Every variable has its type.                                            *)
TypeOK == /\ DeviceTypeOK /\ ConnTypeOK /\ ClaimTypeOK
          /\ PointerTypeOK /\ StackTypeOK /\ ThreadTypeOK /\ ListTypeOK

(* wg_peer_create(): the TCP fields of a new peer.  Its endpoint is        *)
(* configured separately.                                                  *)
NewPeer ==
  /\ is_dead = FALSE /\ tcp_stopping = FALSE
  /\ peer_socket = None /\ inbound_socket = None /\ outbound_socket = None
  /\ tcp_established = FALSE /\ tcp_pending = FALSE /\ tcp_connecting = FALSE
  /\ inbound_connected = FALSE /\ outbound_connected = FALSE
  /\ in_remove = FALSE /\ in_remove_socket = None
  /\ out_remove = FALSE /\ out_remove_socket = None
  /\ reconnect_requested = FALSE
  /\ retry_scheduled = FALSE
  /\ work = [w \in Works |-> FALSE]
  /\ roam_id = 0 /\ promo_id = 0 /\ promo_scheduled = FALSE

Init ==
  /\ up = FALSE /\ removing = FALSE
  /\ NewPeer /\ peer_endpoint_set \in BOOLEAN
  /\ retry_needed = FALSE
  /\ sk = [s \in Sockets |-> "free"]
  /\ cb = [s \in Sockets |-> None]
  /\ notify = [s \in Sockets |-> FALSE]
  /\ cbwork = [s \in Sockets |-> None]
  /\ pc = [t \in Threads |-> IF t = "ctl" THEN "down" ELSE "idle"]
  /\ mutex = NoThread /\ cur = None /\ io = None
  /\ last_id = 0
  /\ entry = [i \in Ids |-> "none"]
  /\ entry_sock = [i \in Ids |-> None]
  /\ authed = {} /\ temp_dead = {} /\ napi = {}
  /\ claim_id = 0 /\ inbound_id = 0

-----------------------------------------------------------------------------
(* Parts of critical sections, shared by several functions.                *)

At(t, l) == pc[t] = l
Goto(t, l) == pc' = [pc EXCEPT ![t] = l]
Queue(w) == work' = [work EXCEPT ![w] = TRUE]
Lock(t) == mutex = NoThread /\ mutex' = t
Unlock(t) == mutex = t /\ mutex' = NoThread

(* Mutant: a running instance of the work item is not waited for.          *)
CancelledNoWait(w) == TRUE

(* cancel_work_sync() of w can return: no instance of it runs.             *)
Cancelled(w) == At(w, "idle")

(* Mutant: the stream workers are cancelled, a running one not waited for. *)
StreamDrainedNoWait == TRUE

(* cancel_work_sync() of both stream workers can return.                   *)
StreamDrained == io = None

(* Mutant: no connection is ever out of date.                              *)
OutdatedNever(i) == FALSE

(* Connection i is older than the peer's roaming generation.               *)
Outdated(i) == i < roam_id

(* Record the outbound socket as claimed for removal and queue the worker, *)
(* unless a removal is already claimed or `may' forbids it.                *)
ClaimOutbound(may) ==
  IF may /\ ~out_remove
  THEN /\ out_remove' = TRUE /\ out_remove_socket' = outbound_socket
       /\ Queue("outrem")
  ELSE UNCHANGED <<out_remove, out_remove_socket, work>>

(* wg_tcp_peer_request_reconnect_after()                                   *)
RequestReconnect ==
  IF Alive /\ peer_endpoint_set
  THEN /\ reconnect_requested' = TRUE
       /\ ClaimOutbound(~tcp_connecting)
       /\ UNCHANGED <<in_remove, in_remove_socket>>
  ELSE UNCHANGED <<claimVars, work>>

(* Mutant: the socket is released with its callbacks installed.            *)
FreeSocketKeepsWrapper(s) ==
  /\ sk' = [sk EXCEPT ![s] = "free"]
  /\ notify' = [notify EXCEPT ![s] = FALSE]
  /\ UNCHANGED <<cb, cbwork>>

(* wg_reset_exact_tcp_socket_callbacks() and sock_release() of s: the      *)
(* wrapper is detached, then the stack forgets the socket.                 *)
FreeSocket(s) ==
  /\ sk' = [sk EXCEPT ![s] = "free"]
  /\ cb' = [cb EXCEPT ![s] = None]
  /\ notify' = [notify EXCEPT ![s] = FALSE]
  /\ UNCHANGED cbwork

(* Mutant: the outbound alias of the socket is left behind.                *)
ForgetSocketKeepsAlias(s) ==
  LET active == peer_socket = s IN
  /\ peer_socket' = IF active THEN None ELSE peer_socket
  /\ inbound_socket' = IF inbound_socket = s THEN None ELSE inbound_socket
  /\ UNCHANGED outbound_socket
  /\ inbound_connected' = (inbound_connected /\ inbound_socket # s)
  /\ outbound_connected' = (outbound_connected /\ outbound_socket # s)
  /\ tcp_established' = (/\ tcp_established /\ ~active
                         /\ inbound_connected' \/ outbound_connected')
  /\ tcp_pending' = (tcp_pending /\ ~active)
  /\ retry_scheduled' = (retry_scheduled /\ ~active)
  /\ inbound_id' = IF inbound_socket = s THEN 0 ELSE inbound_id

(* wg_release_peer_socket_locked() for a socket of this peer.              *)
ForgetSocket(s) ==
  LET active == peer_socket = s IN
  /\ peer_socket' = IF active THEN None ELSE peer_socket
  /\ inbound_socket' = IF inbound_socket = s THEN None ELSE inbound_socket
  /\ outbound_socket' = IF outbound_socket = s THEN None ELSE outbound_socket
  /\ inbound_connected' = (inbound_connected /\ inbound_socket # s)
  /\ outbound_connected' = (outbound_connected /\ outbound_socket # s)
  /\ tcp_established' = (/\ tcp_established /\ ~active
                         /\ inbound_connected' \/ outbound_connected')
  /\ tcp_pending' = (tcp_pending /\ ~active)
  /\ retry_scheduled' = (retry_scheduled /\ ~active)
  /\ inbound_id' = IF inbound_socket = s THEN 0 ELSE inbound_id

ReleaseSocket(s) == ForgetSocket(s) /\ FreeSocket(s)

(* The callback-lock barrier: no state callback of s is inside its lock.   *)
CallbacksQuiet(s) == cbwork[s] = None

-----------------------------------------------------------------------------
(* wg_tcp_connect(), called by the retry worker, by the outbound removal   *)
(* worker and by endpoint configuration.  Every failure goes through       *)
(* wg_tcp_connect_unwind().                                                *)

(* Mutant: a failed attempt is not rescheduled.                            *)
AfterConnectNoRetry(t, failed) ==
  IF t = "ctl" THEN "up" ELSE "idle"

(* What the caller does when wg_tcp_connect() returns.                     *)
AfterConnect(t, failed) ==
  IF t = "ctl" THEN "up" ELSE IF failed THEN "resched" ELSE "idle"

(* The first section: refuse, or take the connect-attempt claim.           *)
ConnectClaim(t) ==
  LET quiet == \/ ~Alive \/ tcp_established \/ tcp_pending
               \/ inbound_connected \/ outbound_connected \/ out_remove
      busy == peer_socket # None \/ outbound_socket # None
      claim == peer_endpoint_set /\ ~quiet /\ ~busy
      failed == ~peer_endpoint_set \/ (~quiet /\ busy)
  IN
  /\ At(t, "lock") /\ mutex = NoThread
  /\ IF claim
     THEN /\ tcp_connecting' = TRUE /\ tcp_pending' = TRUE
          /\ mutex' = t /\ Goto(t, "create")
     ELSE /\ UNCHANGED <<tcp_connecting, tcp_pending, mutex>>
          /\ Goto(t, AfterConnect(t, failed))
  /\ UNCHANGED <<devVars, sockVars, tcp_established, inbound_connected,
                 outbound_connected, claimVars, retryVars, skVars, work, cur,
                 io, listVars, roamVars>>

(* sock_create_kern() and the section that publishes the new socket.       *)
ConnectPublish(t) ==
  /\ At(t, "create")
  /\ Alive /\ tcp_connecting /\ tcp_pending
  /\ peer_socket = None /\ outbound_socket = None
  /\ \E s \in Sockets :
       /\ sk[s] = "free"
       /\ sk' = [sk EXCEPT ![s] = "new"]
       /\ peer_socket' = s /\ outbound_socket' = s /\ cur' = s
  /\ Goto(t, "setup")
  /\ UNCHANGED <<devVars, inbound_socket, connVars, claimVars, retryVars,
                 cb, notify, cbwork, work, mutex, io, listVars, roamVars>>

(* No namespace, no memory for the socket, or the recheck fails: the       *)
(* unpublished socket, if there is one, is released again.                 *)
ConnectCreateFails(t) ==
  /\ At(t, "create")
  /\ \/ "fail" \in Inputs
     \/ ~ (/\ Alive /\ tcp_connecting /\ tcp_pending
           /\ peer_socket = None /\ outbound_socket = None)
  /\ cur' = None
  /\ Goto(t, "uw_claim")
  /\ UNCHANGED <<devVars, sockVars, connVars, claimVars, retryVars, skVars,
                 work, mutex, io, listVars, roamVars>>

(* wg_setup_tcp_socket_callbacks(); the allocation may fail at any time.   *)
ConnectSetup(t) ==
  /\ At(t, "setup")
  /\ \/ /\ Alive /\ ~out_remove /\ outbound_socket = cur
        /\ cb' = [cb EXCEPT ![cur] = "out"]
        /\ Goto(t, "dial")
     \/ /\ "fail" \in Inputs \/ ~ (Alive /\ ~out_remove /\ outbound_socket = cur)
        /\ Goto(t, "uw_claim")
        /\ UNCHANGED cb
  /\ UNCHANGED <<devVars, sockVars, connVars, claimVars, retryVars, sk,
                 notify, cbwork, work, mutex, cur, io, listVars, roamVars>>

(* kernel_connect(), nonblocking: the handshake starts, or it fails.       *)
ConnectDial(t) ==
  /\ At(t, "dial")
  /\ \/ /\ sk' = [sk EXCEPT ![cur] = "syn"]
        /\ Goto(t, "final")
     \/ /\ "fail" \in Inputs
        /\ Goto(t, "uw_claim")
        /\ UNCHANGED sk
  /\ UNCHANGED <<devVars, sockVars, connVars, claimVars, retryVars, cb,
                 notify, cbwork, work, mutex, cur, io, listVars, roamVars>>

(* The last section: the attempt stands, and is handed to the state        *)
(* callback, the retry timer or an already requested reconnect.            *)
ConnectFinal(t) ==
  LET estab == sk[cur] = "estab"
      pend == tcp_pending /\ ~estab
      remove == reconnect_requested /\ ~tcp_stopping /\ ~out_remove
  IN
  /\ At(t, "final")
  /\ Alive /\ peer_socket = cur /\ outbound_socket = cur
  /\ sk[cur] \in {"syn", "estab"}
  /\ tcp_connecting' = FALSE
  /\ tcp_pending' = pend
  /\ tcp_established' = (tcp_established \/ estab)
  /\ outbound_connected' = (outbound_connected \/ estab)
  /\ out_remove' = (out_remove \/ remove)
  /\ out_remove_socket' = IF remove THEN cur ELSE out_remove_socket
  /\ retry_scheduled' = (retry_scheduled \/ (~remove /\ pend))
  /\ work' = [work EXCEPT !["outrem"] = @ \/ remove,
                          !["retry"] = @ \/ (~remove /\ pend /\ ~retry_scheduled)]
  /\ Unlock(t) /\ cur' = None
  /\ Goto(t, AfterConnect(t, FALSE))
  /\ UNCHANGED <<devVars, sockVars, inbound_connected, in_remove,
                 in_remove_socket, reconnect_requested, retry_needed, skVars,
                 io, listVars, roamVars>>

ConnectFinalFails(t) ==
  /\ At(t, "final")
  /\ ~ (/\ Alive /\ peer_socket = cur /\ outbound_socket = cur
        /\ sk[cur] \in {"syn", "estab"})
  /\ Goto(t, "uw_claim")
  /\ UNCHANGED <<devVars, sockVars, connVars, claimVars, retryVars, skVars,
                 work, mutex, cur, io, listVars, roamVars>>

-----------------------------------------------------------------------------
(* wg_tcp_connect_unwind()                                                 *)

UnwindClaim(t) ==
  LET owns == cur # None /\ (peer_socket = cur \/ outbound_socket = cur) IN
  /\ At(t, "uw_claim")
  /\ out_remove' = (out_remove \/ owns)
  /\ out_remove_socket' = IF owns THEN cur ELSE out_remove_socket
  /\ Goto(t, IF owns THEN "uw_drain" ELSE "uw_final")
  /\ UNCHANGED <<devVars, sockVars, connVars, in_remove, in_remove_socket,
                 reconnect_requested, retryVars, skVars, work, mutex, cur, io,
                 listVars, roamVars>>

(* cancel_work_sync() of both stream workers.                              *)
UnwindDrain(t) ==
  /\ At(t, "uw_drain") /\ StreamDrained
  /\ Goto(t, "uw_release")
  /\ UNCHANGED <<devVars, sockVars, connVars, claimVars, retryVars, skVars,
                 work, mutex, cur, io, listVars, roamVars>>

UnwindRelease(t) ==
  /\ At(t, "uw_release") /\ CallbacksQuiet(cur)
  /\ ReleaseSocket(cur)
  /\ Goto(t, "uw_final")
  /\ UNCHANGED <<devVars, tcp_connecting, claimVars, retry_needed, work, mutex,
                 cur, io, listVars, roam_id, promo_id, promo_scheduled,
                 claim_id>>

UnwindFinal(t) ==
  LET again == reconnect_requested /\ ~tcp_stopping /\ up IN
  /\ At(t, "uw_final")
  /\ tcp_connecting' = FALSE /\ tcp_pending' = FALSE
  /\ tcp_established' = FALSE /\ outbound_connected' = FALSE
  /\ out_remove_socket' = None
  /\ out_remove' = (again \/ (tcp_stopping /\ out_remove))
  /\ cur' = None
  /\ IF again THEN Goto(t, "uw_queue") /\ UNCHANGED mutex
              ELSE Goto(t, AfterConnect(t, TRUE)) /\ Unlock(t)
  /\ UNCHANGED <<devVars, sockVars, inbound_connected, in_remove,
                 in_remove_socket, reconnect_requested, retryVars, skVars,
                 work, io, listVars, roamVars>>

(* The stop barrier is tested again before the reconnect is queued.        *)
UnwindQueue(t) ==
  /\ At(t, "uw_queue")
  /\ IF ~tcp_stopping /\ reconnect_requested /\ out_remove
     THEN Queue("outrem") ELSE UNCHANGED work
  /\ Unlock(t) /\ Goto(t, AfterConnect(t, TRUE))
  /\ UNCHANGED <<devVars, sockVars, connVars, claimVars, retryVars, skVars,
                 cur, io, listVars, roamVars>>

-----------------------------------------------------------------------------
(* wg_tcp_retry_worker(); `resched' is also the tail of the outbound       *)
(* removal worker.                                                         *)

RetryRun ==
  LET overdue == Alive /\ ~tcp_established /\ tcp_pending IN
  /\ work["retry"] /\ At("retry", "idle")
  /\ retry_scheduled' = FALSE
  /\ reconnect_requested' = (reconnect_requested \/ overdue)
  /\ IF overdue /\ ~out_remove
     THEN /\ out_remove' = TRUE /\ out_remove_socket' = outbound_socket
          /\ work' = [work EXCEPT !["retry"] = FALSE, !["outrem"] = TRUE]
     ELSE /\ work' = [work EXCEPT !["retry"] = FALSE]
          /\ UNCHANGED <<out_remove, out_remove_socket>>
  /\ Goto("retry", IF Alive /\ ~out_remove' THEN "lock" ELSE "idle")
  /\ UNCHANGED <<devVars, sockVars, connVars, in_remove, in_remove_socket,
                 retry_needed, skVars, mutex, cur, io, listVars, roamVars>>

Reschedule(t) ==
  /\ At(t, "resched")
  /\ IF ~tcp_stopping /\ ~retry_scheduled
     THEN retry_scheduled' = TRUE /\ Queue("retry")
     ELSE UNCHANGED <<retry_scheduled, work>>
  /\ Goto(t, "idle")
  /\ UNCHANGED <<devVars, sockVars, connVars, claimVars, retry_needed, skVars,
                 mutex, cur, io, listVars, roamVars>>

(* wg_socket_send_skb_to_peer() that found no open stream: the packet is   *)
(* dropped and one retry is queued.  The stream was tested in a section of *)
(* its own, so it may be open by now.                                      *)
SendUnconnected ==
  /\ "send" \in Inputs
  /\ Alive /\ peer_endpoint_set /\ ~retry_scheduled /\ ~out_remove
  /\ retry_scheduled' = TRUE /\ Queue("retry")
  /\ UNCHANGED <<devVars, sockVars, connVars, claimVars, retry_needed, skVars,
                 pc, mutex, cur, io, listVars, roamVars>>

-----------------------------------------------------------------------------
(* wg_tcp_outbound_remove_worker() and wg_tcp_inbound_remove_worker()      *)

OutRemoveRun ==
  /\ work["outrem"] /\ At("outrem", "idle")
  /\ work' = [work EXCEPT !["outrem"] = FALSE]
  /\ retry_needed' = (retry_scheduled \/ work["retry"])
  /\ Goto("outrem", "cancel")
  /\ UNCHANGED <<devVars, sockVars, connVars, claimVars, retry_scheduled,
                 skVars, mutex, cur, io, listVars, roamVars>>

OutRemoveCancelRetry ==
  /\ At("outrem", "cancel") /\ Cancelled("retry")
  /\ work' = [work EXCEPT !["retry"] = FALSE]
  /\ Goto("outrem", "take")
  /\ UNCHANGED <<devVars, sockVars, connVars, claimVars, retryVars, skVars,
                 mutex, cur, io, listVars, roamVars>>

(* A claim is clean when it names the socket that is still there.          *)
OutRemoveTake ==
  LET clean == outbound_socket = out_remove_socket IN
  /\ At("outrem", "take") /\ Lock("outrem")
  /\ cur' = out_remove_socket
  /\ retry_scheduled' = FALSE
  /\ Goto("outrem", IF ~clean THEN "fin_stale"
                    ELSE IF out_remove_socket = None THEN "fin" ELSE "drain")
  /\ UNCHANGED <<devVars, sockVars, connVars, claimVars, retry_needed, skVars,
                 work, io, listVars, roamVars>>

(* The callback barrier, and cancel_work_sync() if the socket is active.   *)
RemoveDrain(t) ==
  /\ At(t, "drain") /\ CallbacksQuiet(cur)
  /\ peer_socket = cur => StreamDrained
  /\ Goto(t, "release")
  /\ UNCHANGED <<devVars, sockVars, connVars, claimVars, retryVars, skVars,
                 work, mutex, cur, io, listVars, roamVars>>

RemoveRelease(t) ==
  /\ At(t, "release") /\ CallbacksQuiet(cur)
  /\ ReleaseSocket(cur)
  /\ Goto(t, "fin")
  /\ UNCHANGED <<devVars, tcp_connecting, claimVars, retry_needed, work, mutex,
                 cur, io, listVars, roam_id, promo_id, promo_scheduled,
                 claim_id>>

OutRemoveFinish ==
  LET stale == At("outrem", "fin_stale") IN
  /\ stale \/ At("outrem", "fin")
  /\ reconnect_requested' = FALSE
  /\ out_remove' = FALSE /\ out_remove_socket' = None
  /\ Unlock("outrem") /\ cur' = None
  /\ Goto("outrem", IF ~Alive THEN "idle"
                    ELSE IF stale THEN "reclaim"
                    ELSE IF reconnect_requested THEN "lock"
                    ELSE IF retry_needed THEN "resched" ELSE "idle")
  /\ retry_needed' = FALSE
  /\ UNCHANGED <<devVars, sockVars, connVars, in_remove, in_remove_socket,
                 retry_scheduled, skVars, work, io, listVars, roamVars>>

(* The claim was for an older socket: claim the current one instead.       *)
OutRemoveReclaim ==
  /\ At("outrem", "reclaim")
  /\ RequestReconnect
  /\ Goto("outrem", "idle")
  /\ UNCHANGED <<devVars, sockVars, connVars, retryVars, skVars, mutex, cur,
                 io, listVars, roamVars>>

InRemoveRun ==
  /\ work["inrem"] /\ At("inrem", "idle")
  /\ work' = [work EXCEPT !["inrem"] = FALSE]
  /\ Goto("inrem", "take")
  /\ UNCHANGED <<devVars, sockVars, connVars, claimVars, retryVars, skVars,
                 mutex, cur, io, listVars, roamVars>>

InRemoveTake ==
  LET clean == inbound_socket = in_remove_socket IN
  /\ At("inrem", "take") /\ Lock("inrem")
  /\ cur' = in_remove_socket
  /\ Goto("inrem", IF clean /\ in_remove_socket # None THEN "drain" ELSE "fin")
  /\ UNCHANGED <<devVars, sockVars, connVars, claimVars, retryVars, skVars,
                 work, io, listVars, roamVars>>

InRemoveFinish ==
  /\ At("inrem", "fin")
  /\ in_remove' = FALSE /\ in_remove_socket' = None
  /\ Unlock("inrem") /\ cur' = None
  /\ Goto("inrem", "idle")
  /\ UNCHANGED <<devVars, sockVars, connVars, out_remove, out_remove_socket,
                 reconnect_requested, retryVars, skVars, work, io, listVars,
                 roamVars>>

-----------------------------------------------------------------------------
(* The stream workers, seen from the carrier: wg_tcp_read_worker() and     *)
(* wg_tcp_write_worker() capture the socket when they start, use it with   *)
(* no lock held, and may report it as failed.                              *)

IoStart ==
  /\ "traffic" \in Inputs /\ io = None /\ StreamOpen
  /\ io' = peer_socket
  /\ UNCHANGED <<devVars, sockVars, connVars, claimVars, retryVars, skVars,
                 thrVars, listVars, roamVars>>

IoEnd ==
  /\ io # None /\ io' = None
  /\ UNCHANGED <<devVars, sockVars, connVars, claimVars, retryVars, skVars,
                 thrVars, listVars, roamVars>>

(* wg_tcp_fail_exact_socket() for a configured peer.                       *)
IoFail ==
  LET exact == /\ peer_socket = io /\ outbound_socket = io /\ Alive
               /\ out_remove => out_remove_socket = io
  IN
  /\ io # None /\ sk[io] \in {"closed", "free"}
  /\ IF exact
     THEN /\ outbound_connected' = FALSE /\ tcp_pending' = FALSE
          /\ tcp_established' = FALSE /\ reconnect_requested' = TRUE
          /\ ClaimOutbound(~tcp_connecting)
     ELSE UNCHANGED <<outbound_connected, tcp_pending, tcp_established,
                      reconnect_requested, out_remove, out_remove_socket,
                      work>>
  /\ io' = None
  /\ UNCHANGED <<devVars, sockVars, tcp_connecting, inbound_connected,
                 in_remove, in_remove_socket, retryVars, skVars, pc, mutex,
                 cur, listVars, roamVars>>

-----------------------------------------------------------------------------
(* The TCP stack, and wg_tcp_state_change().  The stack runs the callback  *)
(* of a transition before the next transition of the same socket.          *)

Idle(s) == ~notify[s] /\ cbwork[s] = None

TcpEstablish(s) ==
  /\ sk[s] = "syn" /\ Idle(s)
  /\ sk' = [sk EXCEPT ![s] = "estab"]
  /\ notify' = [notify EXCEPT ![s] = TRUE]
  /\ UNCHANGED <<devVars, sockVars, connVars, claimVars, retryVars, cb, cbwork,
                 thrVars, io, listVars, roamVars>>

TcpClose(s) ==
  /\ sk[s] \in {"syn", "estab"} /\ Idle(s)
  /\ sk' = [sk EXCEPT ![s] = "closed"]
  /\ notify' = [notify EXCEPT ![s] = TRUE]
  /\ UNCHANGED <<devVars, sockVars, connVars, claimVars, retryVars, cb, cbwork,
                 thrVars, io, listVars, roamVars>>

(* The early exits of the callback: no wrapper, or the direction is        *)
(* already being removed, or the state needs nothing done.                 *)
StateChangeIgnored(s) ==
  /\ notify[s]
  /\ \/ cb[s] = None
     \/ cb[s] = "out" /\ (is_dead \/ out_remove)
     \/ cb[s] = "in" /\ (is_dead \/ in_remove)
     \/ cb[s] \in {"in", "temp"} /\ sk[s] = "estab"
  /\ notify' = [notify EXCEPT ![s] = FALSE]
  /\ UNCHANGED <<devVars, sockVars, connVars, claimVars, retryVars, sk, cb,
                 cbwork, thrVars, io, listVars, roamVars>>

(* The early checks pass.  They read the flags without tcp_lock: what they *)
(* saw may be out of date when the lock is taken.                          *)
StateEnter(s) ==
  /\ notify[s] /\ ~is_dead
  /\ \/ cb[s] = "out" /\ ~out_remove
     \/ cb[s] = "in" /\ ~in_remove /\ sk[s] = "closed"
  /\ notify' = [notify EXCEPT ![s] = FALSE]
  /\ cbwork' = [cbwork EXCEPT ![s] = "seen"]
  /\ UNCHANGED <<devVars, sockVars, connVars, claimVars, retryVars, sk, cb,
                 thrVars, io, listVars, roamVars>>

(* TCP_ESTABLISHED of the outbound socket: publish it and stop the retry   *)
(* timer.                                                                  *)
StateEstablished(s) ==
  LET current == peer_socket = s IN
  /\ cbwork[s] = "seen" /\ cb[s] = "out" /\ sk[s] = "estab"
  /\ outbound_socket = s
  /\ tcp_pending' = (tcp_pending /\ ~current)
  /\ tcp_established' = (tcp_established \/ current)
  /\ outbound_connected' = (outbound_connected \/ current)
  /\ retry_scheduled' = FALSE
  /\ work' = [work EXCEPT !["retry"] = @ /\ ~retry_scheduled]
  /\ cbwork' = [cbwork EXCEPT ![s] = None]
  /\ UNCHANGED <<devVars, sockVars, tcp_connecting, inbound_connected,
                 claimVars, retry_needed, sk, cb, notify, pc, mutex, cur, io,
                 listVars, roamVars>>

(* A close state of the outbound socket, first section.  While a connect   *)
(* attempt is running the attempt itself finds the closed socket.          *)
StateOutboundClosed(s) ==
  LET late == ~tcp_connecting
      claim == late /\ ~out_remove
  IN
  /\ cbwork[s] = "seen" /\ cb[s] = "out" /\ sk[s] = "closed"
  /\ outbound_socket = s
  /\ outbound_connected' = FALSE /\ tcp_pending' = FALSE
  /\ tcp_established' = (tcp_established /\ (inbound_connected \/ ~late))
  /\ reconnect_requested' = (reconnect_requested \/ late)
  /\ out_remove' = (out_remove \/ claim)
  /\ out_remove_socket' = IF claim THEN s ELSE out_remove_socket
  /\ cbwork' = [cbwork EXCEPT ![s] = IF claim THEN "out" ELSE None]
  /\ UNCHANGED <<devVars, sockVars, tcp_connecting, inbound_connected,
                 in_remove, in_remove_socket, retryVars, sk, cb, notify,
                 thrVars, io, listVars, roamVars>>

(* A close state of the inbound socket, first section.                     *)
StateInboundClosed(s) ==
  /\ cbwork[s] = "seen" /\ cb[s] = "in" /\ inbound_socket = s
  /\ inbound_connected' = FALSE
  /\ tcp_established' = (tcp_established /\ outbound_connected)
  /\ in_remove' = TRUE
  /\ in_remove_socket' = IF in_remove THEN in_remove_socket ELSE s
  /\ cbwork' = [cbwork EXCEPT ![s] = IF in_remove THEN None ELSE "in"]
  /\ UNCHANGED <<devVars, sockVars, tcp_pending, tcp_connecting,
                 outbound_connected, out_remove, out_remove_socket,
                 reconnect_requested, retryVars, sk, cb, notify, thrVars, io,
                 listVars, roamVars>>

(* Mutant: outbound claims are forgotten between the two sections.         *)
ClaimStandsInbound(s) ==
  cbwork[s] = "in" /\ in_remove /\ in_remove_socket = s /\ inbound_socket = s

(* The claim that the first section made for s still stands.               *)
ClaimStands(s) ==
  \/ /\ cbwork[s] = "in" /\ in_remove
     /\ in_remove_socket = s /\ inbound_socket = s
  \/ /\ cbwork[s] = "out" /\ out_remove
     /\ out_remove_socket = s /\ outbound_socket = s

(* The second section: queue the claimed removal.                          *)
StateQueueRemove(s) ==
  /\ cbwork[s] \in {"in", "out"}
  /\ IF Alive /\ ClaimStands(s)
     THEN Queue(IF cbwork[s] = "in" THEN "inrem" ELSE "outrem")
     ELSE UNCHANGED work
  /\ cbwork' = [cbwork EXCEPT ![s] = None]
  /\ UNCHANGED <<devVars, sockVars, connVars, claimVars, retryVars, sk, cb,
                 notify, pc, mutex, cur, io, listVars, roamVars>>

(* A close state of an accepted connection marks its provisional peer dead.*)
StateTempClosed(i) ==
  LET s == entry_sock[i] IN
  /\ s # None /\ notify[s] /\ cb[s] = "temp" /\ sk[s] = "closed"
  /\ notify' = [notify EXCEPT ![s] = FALSE]
  /\ temp_dead' = IF entry[i] = "claimed" THEN temp_dead
                                          ELSE temp_dead \cup {i}
  /\ UNCHANGED <<devVars, sockVars, connVars, claimVars, retryVars, sk, cb,
                 cbwork, thrVars, io, last_id, entry, entry_sock, authed, napi,
                 roamVars>>

-----------------------------------------------------------------------------
(* The provisional list: accepted connections and the packets read from    *)
(* them.  TcpAdmission models the list in detail.                          *)

(* The listener accepts a connection and publishes its entry.              *)
Accept ==
  /\ up /\ last_id < MaxConn
  /\ \E s \in Sockets :
       /\ sk[s] = "free"
       /\ sk' = [sk EXCEPT ![s] = "estab"]
       /\ cb' = [cb EXCEPT ![s] = "temp"]
       /\ entry_sock' = [entry_sock EXCEPT ![last_id + 1] = s]
  /\ entry' = [entry EXCEPT ![last_id + 1] = "init"]
  /\ last_id' = last_id + 1
  /\ UNCHANGED <<devVars, sockVars, connVars, claimVars, retryVars, notify,
                 cbwork, thrVars, io, authed, temp_dead, napi, roamVars>>

(* wg_finish_tcp_connection_init(): the entry may be claimed from now on.  *)
FinishInit(i) ==
  /\ entry[i] = "init"
  /\ entry' = [entry EXCEPT ![i] = "live"]
  /\ temp_dead' = IF sk[entry_sock[i]] = "estab" THEN temp_dead
                                                 ELSE temp_dead \cup {i}
  /\ UNCHANGED <<devVars, sockVars, connVars, claimVars, retryVars, skVars,
                 thrVars, io, last_id, entry_sock, authed, napi, roamVars>>

(* wg_tcp_cleanup_worker(): a dead entry, or one that stayed               *)
(* unauthenticated for too long, is claimed and destroyed.                 *)
Cleanup(i) ==
  /\ up /\ entry[i] = "live" /\ (i \in temp_dead \/ i \notin authed)
  /\ CallbacksQuiet(entry_sock[i])
  /\ FreeSocket(entry_sock[i])
  /\ entry' = [entry EXCEPT ![i] = "none"]
  /\ entry_sock' = [entry_sock EXCEPT ![i] = None]
  /\ authed' = authed \ {i} /\ temp_dead' = temp_dead \ {i}
  /\ UNCHANGED <<devVars, sockVars, connVars, claimVars, retryVars, thrVars,
                 io, last_id, napi, roamVars>>

(* wg_socket_set_peer_endpoint_authenticated() for a packet that carries   *)
(* connection id i: the entry is marked and promotion is queued.  The      *)
(* packet may be applied long after the connection is gone.                *)
AuthPromote(i) ==
  LET newer == ~is_dead /\ ~tcp_stopping /\ i > promo_id IN
  /\ i <= last_id /\ ~At("ctl", "gone") /\ i \notin napi
  /\ authed' = IF entry[i] \in {"init", "live"} THEN authed \cup {i} ELSE authed
  /\ napi' = napi \cup {i}
  /\ promo_id' = IF newer THEN i ELSE promo_id
  /\ promo_scheduled' = (promo_scheduled \/ newer)
  /\ work' = [work EXCEPT !["promo"] = @ \/ (newer /\ ~promo_scheduled)]
  /\ UNCHANGED <<devVars, sockVars, connVars, claimVars, retryVars, skVars, pc,
                 mutex, cur, io, last_id, entry, entry_sock, temp_dead,
                 roam_id, claim_id, inbound_id>>

(* Its second half: the packet's connection becomes the roaming generation *)
(* unless a newer one is, and a changed dial target asks for a reconnect.  *)
AuthRoam(i) ==
  LET roams == peer_endpoint_set /\ ~Outdated(i) IN
  /\ i \in napi
  /\ napi' = napi \ {i}
  /\ roam_id' = IF roams THEN i ELSE roam_id
  /\ \/ UNCHANGED <<claimVars, work>>
     \/ "roam" \in Inputs /\ roams /\ RequestReconnect
  /\ UNCHANGED <<devVars, sockVars, connVars, retryVars, skVars, pc, mutex,
                 cur, io, last_id, entry, entry_sock, authed, temp_dead,
                 promo_id, promo_scheduled, claim_id, inbound_id>>

-----------------------------------------------------------------------------
(* wg_tcp_promotion_worker() and wg_tcp_promote_authenticated_carrier()    *)

PromoRun ==
  /\ work["promo"] /\ At("promo", "idle")
  /\ work' = [work EXCEPT !["promo"] = FALSE]
  /\ Goto("promo", "next")
  /\ UNCHANGED <<devVars, sockVars, connVars, claimVars, retryVars, skVars,
                 mutex, cur, io, listVars, roamVars>>

PromoNext ==
  /\ At("promo", "next")
  /\ claim_id' = promo_id /\ promo_id' = 0
  /\ promo_scheduled' = (promo_scheduled /\ promo_id # 0)
  /\ Goto("promo", IF promo_id = 0 THEN "idle" ELSE "claim")
  /\ UNCHANGED <<devVars, sockVars, connVars, claimVars, retryVars, skVars,
                 work, mutex, cur, io, listVars, roam_id, inbound_id>>

(* Take the entry off the list, unless it is gone, initializing or stale.  *)
PromoClaim ==
  LET listed == entry[claim_id] \in {"init", "live"}
      ok == ~Outdated(claim_id) /\ entry[claim_id] = "live"
  IN
  /\ At("promo", "claim")
  /\ entry' = IF ok THEN [entry EXCEPT ![claim_id] = "claimed"] ELSE entry
  /\ authed' = IF ok THEN authed \ {claim_id}
               ELSE IF listed THEN authed \cup {claim_id} ELSE authed
  /\ temp_dead' = IF ok THEN temp_dead \ {claim_id} ELSE temp_dead
  /\ Goto("promo", IF ok THEN "lock" ELSE "next")
  /\ UNCHANGED <<devVars, sockVars, connVars, claimVars, retryVars, skVars,
                 work, mutex, cur, io, last_id, entry_sock, napi, roamVars>>

(* Both socket mutexes, and the generation recheck under the first.        *)
PromoLock ==
  /\ At("promo", "lock") /\ mutex = NoThread
  /\ IF Outdated(claim_id)
     THEN Goto("promo", "destroy") /\ UNCHANGED <<roam_id, mutex, cur>>
     ELSE /\ roam_id' = claim_id /\ mutex' = "promo"
          /\ cur' = entry_sock[claim_id]
          /\ Goto("promo", "detach")
  /\ UNCHANGED <<devVars, sockVars, connVars, claimVars, retryVars, skVars,
                 work, io, listVars, promo_id, promo_scheduled, claim_id,
                 inbound_id>>

(* wg_destroy_tcp_connection_entry() of a claimed entry that turned stale. *)
PromoDestroy ==
  /\ At("promo", "destroy") /\ CallbacksQuiet(entry_sock[claim_id])
  /\ FreeSocket(entry_sock[claim_id])
  /\ entry' = [entry EXCEPT ![claim_id] = "none"]
  /\ entry_sock' = [entry_sock EXCEPT ![claim_id] = None]
  /\ Goto("promo", "next")
  /\ UNCHANGED <<devVars, sockVars, connVars, claimVars, retryVars, work,
                 mutex, cur, io, last_id, authed, temp_dead, napi, roamVars>>

(* The provisional peer is quiesced and loses its callbacks and socket.    *)
PromoDetach ==
  /\ At("promo", "detach") /\ CallbacksQuiet(cur)
  /\ cb' = [cb EXCEPT ![cur] = None]
  /\ Goto("promo", "displace")
  /\ UNCHANGED <<devVars, sockVars, connVars, claimVars, retryVars, sk, notify,
                 cbwork, work, mutex, cur, io, listVars, roamVars>>

(* Claim whatever sockets the configured peer has.                         *)
PromoDisplace ==
  /\ At("promo", "displace")
  /\ in_remove' = (inbound_socket # None) /\ in_remove_socket' = inbound_socket
  /\ out_remove' = (outbound_socket # None)
  /\ out_remove_socket' = outbound_socket
  /\ Goto("promo", IF inbound_socket = None /\ outbound_socket = None
                   THEN "transfer" ELSE "drain")
  /\ UNCHANGED <<devVars, sockVars, connVars, reconnect_requested, retryVars,
                 skVars, work, mutex, cur, io, listVars, roamVars>>

PromoDrain ==
  /\ At("promo", "drain") /\ StreamDrained
  /\ Goto("promo", "release")
  /\ UNCHANGED <<devVars, sockVars, connVars, claimVars, retryVars, skVars,
                 work, mutex, cur, io, listVars, roamVars>>

(* The displaced inbound socket first, then the outbound one.              *)
Displaced == IF inbound_socket # None THEN inbound_socket ELSE outbound_socket

PromoRelease ==
  /\ At("promo", "release") /\ CallbacksQuiet(Displaced)
  /\ ReleaseSocket(Displaced)
  /\ Goto("promo", IF inbound_socket # None /\ outbound_socket # None
                   THEN "release" ELSE "transfer")
  /\ UNCHANGED <<devVars, tcp_connecting, claimVars, retry_needed, work, mutex,
                 cur, io, listVars, roam_id, promo_id, promo_scheduled,
                 claim_id>>

(* Mutant: entry->tcp_socket is not cleared.                               *)
PromoTransferKeepsEntry ==
  /\ At("promo", "transfer")
  /\ peer_socket' = cur /\ inbound_socket' = cur
  /\ tcp_established' = TRUE /\ tcp_pending' = FALSE /\ tcp_connecting' = FALSE
  /\ inbound_connected' = TRUE /\ outbound_connected' = FALSE
  /\ in_remove' = FALSE /\ in_remove_socket' = None
  /\ out_remove' = FALSE /\ out_remove_socket' = None
  /\ reconnect_requested' = FALSE
  /\ entry' = [entry EXCEPT ![claim_id] = "none"]
  /\ inbound_id' = claim_id
  /\ Goto("promo", "setup")
  /\ UNCHANGED <<devVars, outbound_socket, retryVars, skVars, work, mutex, cur,
                 io, last_id, entry_sock, authed, temp_dead, napi, roam_id, promo_id,
                 promo_scheduled, claim_id>>

(* The configured peer becomes the owner of the accepted socket.           *)
PromoTransfer ==
  /\ At("promo", "transfer")
  /\ peer_socket' = cur /\ inbound_socket' = cur
  /\ tcp_established' = TRUE /\ tcp_pending' = FALSE /\ tcp_connecting' = FALSE
  /\ inbound_connected' = TRUE /\ outbound_connected' = FALSE
  /\ in_remove' = FALSE /\ in_remove_socket' = None
  /\ out_remove' = FALSE /\ out_remove_socket' = None
  /\ reconnect_requested' = FALSE
  /\ entry' = [entry EXCEPT ![claim_id] = "none"]
  /\ entry_sock' = [entry_sock EXCEPT ![claim_id] = None]
  /\ inbound_id' = claim_id
  /\ Goto("promo", "setup")
  /\ UNCHANGED <<devVars, outbound_socket, retryVars, skVars, work, mutex, cur,
                 io, last_id, authed, temp_dead, napi, roam_id, promo_id,
                 promo_scheduled, claim_id>>

PromoSetup ==
  /\ At("promo", "setup") /\ Alive /\ ~in_remove /\ inbound_socket = cur
  /\ cb' = [cb EXCEPT ![cur] = "in"]
  /\ Unlock("promo") /\ cur' = None
  /\ Goto("promo", "next")
  /\ UNCHANGED <<devVars, sockVars, connVars, claimVars, retryVars, sk, notify,
                 cbwork, work, io, listVars, roamVars>>

(* No memory for the wrapper, or the gate closed after the transfer: the   *)
(* socket is released again, without draining the stream workers.          *)
PromoSetupFails ==
  /\ At("promo", "setup")
  /\ "fail" \in Inputs \/ ~ (Alive /\ ~in_remove /\ inbound_socket = cur)
  /\ Goto("promo", "undo")
  /\ UNCHANGED <<devVars, sockVars, connVars, claimVars, retryVars, skVars,
                 work, mutex, cur, io, listVars, roamVars>>

PromoUndo ==
  /\ At("promo", "undo")
  /\ ReleaseSocket(cur)
  /\ Unlock("promo") /\ cur' = None
  /\ Goto("promo", "next")
  /\ UNCHANGED <<devVars, tcp_connecting, claimVars, retry_needed, work, io,
                 listVars, roam_id, promo_id, promo_scheduled, claim_id>>

-----------------------------------------------------------------------------
(* The control thread, serialised by rtnl and device_update_lock:          *)
(* configuration, wg_stop(), wg_open(), wg_peer_remove(), wg_peer_create().*)

(* wg_socket_set_peer_endpoint_configured(): a changed dial target asks    *)
(* for a reconnect, anything else dials if nothing is established.         *)
ConfigureEndpoint ==
  /\ "config" \in Inputs /\ pc["ctl"] \in {"up", "down"}
  /\ peer_endpoint_set' = TRUE
  /\ \/ /\ peer_endpoint_set /\ RequestReconnect
        /\ UNCHANGED pc
     \/ /\ Goto("ctl", IF up /\ ~tcp_established THEN "lock" ELSE pc["ctl"])
        /\ UNCHANGED <<claimVars, work>>
  /\ UNCHANGED <<up, removing, is_dead, tcp_stopping, sockVars, connVars,
                 retryVars, skVars, mutex, cur, io, listVars, roamVars>>

(* The route-change worker and a live FwMark change.                       *)
RouteChange ==
  /\ "route" \in Inputs /\ At("ctl", "up")
  /\ RequestReconnect
  /\ UNCHANGED <<devVars, sockVars, connVars, retryVars, skVars, pc, mutex,
                 cur, io, listVars, roamVars>>

StopDevice ==
  /\ "stop" \in Inputs /\ At("ctl", "up")
  /\ up' = FALSE /\ Goto("ctl", "stop_gate")
  /\ UNCHANGED <<removing, is_dead, tcp_stopping, peer_endpoint_set, sockVars,
                 connVars, claimVars, retryVars, skVars, work, mutex, cur, io,
                 listVars, roamVars>>

RemovePeer ==
  /\ "remove" \in Inputs /\ pc["ctl"] \in {"up", "down"}
  /\ removing' = TRUE /\ Goto("ctl", "stop_gate")
  /\ UNCHANGED <<up, is_dead, tcp_stopping, peer_endpoint_set, sockVars,
                 connVars, claimVars, retryVars, skVars, work, mutex, cur, io,
                 listVars, roamVars>>

(* wg_tcp_peer_stop(): close the gate and claim both directions, drain     *)
(* every peer-owned work item, take the mutex and claim again, drain the   *)
(* stream workers, release what is left, open the claims.                  *)
ClaimBoth ==
  /\ out_remove' = TRUE /\ out_remove_socket' = outbound_socket
  /\ in_remove' = TRUE /\ in_remove_socket' = inbound_socket

StopGate ==
  /\ At("ctl", "stop_gate")
  /\ tcp_stopping' = TRUE /\ reconnect_requested' = FALSE
  /\ ClaimBoth
  /\ Goto("ctl", "retry")
  /\ UNCHANGED <<up, removing, is_dead, peer_endpoint_set, sockVars, connVars,
                 retryVars, skVars, work, mutex, cur, io, listVars, roamVars>>

(* cancel_delayed_work_sync() of one work item after another; the label of *)
(* the control thread is the item it waits for.                            *)
CancelNext == [w \in Works |-> CASE w = "retry" -> "outrem"
                                 [] w = "outrem" -> "inrem"
                                 [] w = "inrem" -> "promo"
                                 [] w = "promo" -> "stop_lock"]

StopCancel(w) ==
  /\ At("ctl", w) /\ Cancelled(w)
  /\ work' = [work EXCEPT ![w] = FALSE]
  /\ Goto("ctl", CancelNext[w])
  /\ UNCHANGED <<devVars, sockVars, connVars, claimVars, retryVars, skVars,
                 mutex, cur, io, listVars, roamVars>>

StopLock ==
  /\ At("ctl", "stop_lock") /\ Lock("ctl")
  /\ ClaimBoth
  /\ Goto("ctl", "stop_drain")
  /\ UNCHANGED <<devVars, sockVars, connVars, reconnect_requested, retryVars,
                 skVars, work, cur, io, listVars, roamVars>>

StopDrain ==
  /\ At("ctl", "stop_drain") /\ StreamDrained
  /\ \A s \in {inbound_socket, outbound_socket} \ {None} : CallbacksQuiet(s)
  /\ retry_scheduled' = FALSE
  /\ Goto("ctl", "stop_release")
  /\ UNCHANGED <<devVars, sockVars, connVars, claimVars, retry_needed, skVars,
                 work, mutex, cur, io, listVars, roamVars>>

StopRelease ==
  LET s == IF outbound_socket # None THEN outbound_socket ELSE inbound_socket
  IN
  /\ At("ctl", "stop_release")
  /\ IF s = None
     THEN /\ Unlock("ctl") /\ Goto("ctl", "stop_done")
          /\ UNCHANGED <<sockVars, connVars, retry_scheduled, skVars,
                         inbound_id>>
     ELSE /\ CallbacksQuiet(s) /\ ReleaseSocket(s)
          /\ UNCHANGED <<pc, mutex, tcp_connecting>>
  /\ UNCHANGED <<devVars, claimVars, retry_needed, work, cur, io, listVars,
                 roam_id, promo_id, promo_scheduled, claim_id>>

StopDone ==
  /\ At("ctl", "stop_done")
  /\ tcp_established' = FALSE /\ tcp_pending' = FALSE /\ tcp_connecting' = FALSE
  /\ inbound_connected' = FALSE /\ outbound_connected' = FALSE
  /\ out_remove' = FALSE /\ out_remove_socket' = None
  /\ in_remove' = FALSE /\ in_remove_socket' = None
  /\ reconnect_requested' = FALSE
  /\ Goto("ctl", IF removing THEN "dead" ELSE "list")
  /\ UNCHANGED <<devVars, sockVars, retryVars, skVars, work, mutex, cur, io,
                 listVars, roamVars>>

(* peer_make_dead()                                                        *)
PeerMakeDead ==
  /\ At("ctl", "dead")
  /\ is_dead' = TRUE /\ tcp_stopping' = TRUE /\ removing' = FALSE
  /\ out_remove' = FALSE /\ out_remove_socket' = None
  /\ in_remove' = FALSE /\ in_remove_socket' = None
  /\ reconnect_requested' = FALSE /\ retry_scheduled' = FALSE
  /\ work' = [work EXCEPT !["outrem"] = FALSE, !["inrem"] = FALSE,
                          !["retry"] = FALSE]
  /\ Goto("ctl", "gone")
  /\ UNCHANGED <<up, peer_endpoint_set, sockVars, connVars, retry_needed,
                 skVars, mutex, cur, io, listVars, roamVars>>

CreatePeer ==
  /\ At("ctl", "gone")
  /\ is_dead' = FALSE /\ tcp_stopping' = FALSE /\ peer_endpoint_set' = FALSE
  /\ peer_socket' = None /\ inbound_socket' = None /\ outbound_socket' = None
  /\ tcp_established' = FALSE /\ tcp_pending' = FALSE /\ tcp_connecting' = FALSE
  /\ inbound_connected' = FALSE /\ outbound_connected' = FALSE
  /\ in_remove' = FALSE /\ in_remove_socket' = None
  /\ out_remove' = FALSE /\ out_remove_socket' = None
  /\ reconnect_requested' = FALSE
  /\ retry_scheduled' = FALSE
  /\ work' = [w \in Works |-> FALSE]
  /\ roam_id' = 0 /\ promo_id' = 0 /\ promo_scheduled' = FALSE
  /\ napi' = {} /\ inbound_id' = 0
  /\ Goto("ctl", IF up THEN "up" ELSE "down")
  /\ UNCHANGED <<up, removing, retry_needed, skVars, mutex, cur, io, last_id,
                 entry, entry_sock, authed, temp_dead, claim_id>>

(* wg_destruct_tcp_connection_list(), at the end of wg_stop() and when     *)
(* wg_open() fails.                                                        *)
ListDrain ==
  LET listed == {i \in Ids : entry[i] \in {"init", "live"}}
      freed == {entry_sock[i] : i \in listed}
  IN
  /\ At("ctl", "list")
  /\ \A s \in freed : CallbacksQuiet(s)
  /\ entry' = [i \in Ids |-> IF i \in listed THEN "none" ELSE entry[i]]
  /\ entry_sock' = [i \in Ids |-> IF i \in listed THEN None ELSE entry_sock[i]]
  /\ sk' = [s \in Sockets |-> IF s \in freed THEN "free" ELSE sk[s]]
  /\ cb' = [s \in Sockets |-> IF s \in freed THEN None ELSE cb[s]]
  /\ notify' = [s \in Sockets |-> notify[s] /\ s \notin freed]
  /\ authed' = {} /\ temp_dead' = {}
  /\ Goto("ctl", "down")
  /\ UNCHANGED <<devVars, sockVars, connVars, claimVars, retryVars, cbwork,
                 work, mutex, cur, io, last_id, napi, roamVars>>

(* wg_open(): the device flag first, the listeners, then the peer.         *)
OpenDevice ==
  /\ At("ctl", "down")
  /\ up' = TRUE /\ Goto("ctl", "open")
  /\ UNCHANGED <<removing, is_dead, tcp_stopping, peer_endpoint_set, sockVars,
                 connVars, claimVars, retryVars, skVars, work, mutex, cur, io,
                 listVars, roamVars>>

OpenPeer ==
  LET retry == peer_endpoint_set /\ ~retry_scheduled /\ ~out_remove IN
  /\ At("ctl", "open")
  /\ tcp_stopping' = FALSE
  /\ retry_scheduled' = (retry_scheduled \/ retry)
  /\ work' = [work EXCEPT !["retry"] = @ \/ retry]
  /\ Goto("ctl", "up")
  /\ UNCHANGED <<up, removing, is_dead, peer_endpoint_set, sockVars, connVars,
                 claimVars, retry_needed, skVars, mutex, cur, io, listVars,
                 roamVars>>

OpenFails ==
  /\ "fail" \in Inputs /\ At("ctl", "open")
  /\ up' = FALSE /\ Goto("ctl", "list")
  /\ UNCHANGED <<removing, is_dead, tcp_stopping, peer_endpoint_set, sockVars,
                 connVars, claimVars, retryVars, skVars, work, mutex, cur, io,
                 listVars, roamVars>>

-----------------------------------------------------------------------------
Connect(t) ==
  \/ ConnectClaim(t) \/ ConnectPublish(t) \/ ConnectCreateFails(t)
  \/ ConnectSetup(t) \/ ConnectDial(t)
  \/ ConnectFinal(t) \/ ConnectFinalFails(t)
  \/ UnwindClaim(t) \/ UnwindDrain(t) \/ UnwindRelease(t)
  \/ UnwindFinal(t) \/ UnwindQueue(t)

Retry == RetryRun \/ Reschedule("retry")

OutRemove ==
  \/ OutRemoveRun \/ OutRemoveCancelRetry \/ OutRemoveTake
  \/ RemoveDrain("outrem") \/ RemoveRelease("outrem")
  \/ OutRemoveFinish \/ OutRemoveReclaim \/ Reschedule("outrem")

InRemove ==
  \/ InRemoveRun \/ InRemoveTake
  \/ RemoveDrain("inrem") \/ RemoveRelease("inrem") \/ InRemoveFinish

Promo ==
  \/ PromoRun \/ PromoNext \/ PromoClaim \/ PromoLock \/ PromoDestroy
  \/ PromoDetach \/ PromoDisplace \/ PromoDrain \/ PromoRelease
  \/ PromoTransfer \/ PromoSetup \/ PromoSetupFails \/ PromoUndo

Stop ==
  \/ StopGate \/ (\E w \in Works : StopCancel(w)) \/ StopLock \/ StopDrain
  \/ StopRelease \/ StopDone \/ PeerMakeDead \/ ListDrain

Control ==
  \/ ConfigureEndpoint \/ RouteChange \/ StopDevice \/ RemovePeer
  \/ CreatePeer \/ OpenDevice \/ OpenPeer \/ OpenFails

StreamWorker == IoStart \/ IoEnd \/ IoFail

StateChange(s) ==
  \/ StateChangeIgnored(s) \/ StateEnter(s) \/ StateEstablished(s)
  \/ StateOutboundClosed(s) \/ StateInboundClosed(s) \/ StateQueueRemove(s)

Provisional(i) ==
  \/ StateTempClosed(i) \/ FinishInit(i) \/ Cleanup(i)
  \/ AuthPromote(i) \/ AuthRoam(i)

Next ==
  \/ \E t \in Callers : Connect(t)
  \/ Retry \/ OutRemove \/ InRemove \/ Promo \/ Stop \/ Control
  \/ StreamWorker \/ SendUnconnected \/ Accept
  \/ \E s \in Sockets : StateChange(s) \/ TcpEstablish(s) \/ TcpClose(s)
  \/ \E i \in Ids : Provisional(i)

Spec == Init /\ [][Next]_vars

(* Fairness of the scheduler.  A runnable thread goes on; a queued work    *)
(* item starts, a delayed one when its timer fires; a thread that waits    *)
(* for the mutex or in cancel_*_sync() gets its turn when the condition    *)
(* keeps coming back (the mutex queues its waiters, a cancelled item is    *)
(* not queued again), hence strong fairness; the stack runs the callback   *)
(* of a transition; a stream worker returns.  Nothing is assumed of the    *)
(* outside: no packet, connection, configuration or failure has to happen. *)
Fairness ==
  /\ SF_vars(Retry \/ Connect("retry"))
  /\ SF_vars(OutRemove \/ Connect("outrem"))
  /\ SF_vars(Stop \/ OpenPeer \/ Connect("ctl"))
  /\ SF_vars(InRemove)
  /\ SF_vars(Promo)
  /\ WF_vars(IoEnd \/ IoFail)
  /\ \A s \in Sockets : WF_vars(StateChange(s))
  /\ \A i \in Ids : WF_vars(StateTempClosed(i)) /\ WF_vars(FinishInit(i))

FairSpec == Spec /\ Fairness

-----------------------------------------------------------------------------
(* Properties.                                                             *)

(* The peer has at most one carrier: it never holds an inbound and an      *)
(* outbound socket at once, and peer_socket, which the stream workers use, *)
(* is always the one it holds.  wg_tcp_connect() refuses while a socket is *)
(* there and promotion releases what it displaces before it transfers.     *)
SingleCarrier ==
  /\ inbound_socket = None \/ outbound_socket = None
  /\ peer_socket = Displaced

Provisioned == {entry_sock[i] : i \in Ids} \ {None}

(* Every socket that was created or accepted and is not yet released has   *)
(* exactly one owner: the peer, or one entry of the provisional list.  A   *)
(* hand-over (promotion) neither leaks a socket nor leaves two owners that *)
(* would both release it.                                                  *)
OneOwner ==
  /\ {s \in Sockets : sk[s] # "free"}
       = Provisioned \cup ({inbound_socket, outbound_socket} \ {None})
  /\ {inbound_socket, outbound_socket} \cap Provisioned = {}
  /\ \A i, j \in Ids : entry_sock[i] = entry_sock[j] /\ entry_sock[i] # None
                         => i = j

(* A state callback that runs for a socket finds an owner that still holds *)
(* it: callbacks are detached, behind the callback-lock barrier, before    *)
(* the socket changes hands or is released.                                *)
CallbackOwner ==
  \A s \in Sockets :
    /\ cb[s] = "out" => s = outbound_socket
    /\ cb[s] = "in" => s = inbound_socket
    /\ cb[s] = "temp" => s \in Provisioned
    /\ cbwork[s] # None => s \in {inbound_socket, outbound_socket}

(* wg_tcp_peer_stop() has finished, wg_open() has not got to the peer yet. *)
Stopped == tcp_stopping /\ pc["ctl"] \in {"list", "dead", "down", "gone", "open"}

(* Once wg_tcp_peer_stop() has finished, and until wg_open() lets the peer *)
(* go again, no work item of the peer is queued or running, no stream      *)
(* worker holds a socket, and the peer holds none either.                  *)
StopQuiesces ==
  Stopped =>
    /\ \A w \in Works : ~work[w] /\ pc[w] = "idle"
    /\ io = None /\ mutex = NoThread
    /\ peer_socket = None /\ inbound_socket = None /\ outbound_socket = None

(* The active socket is only given up when no stream worker uses it: every *)
(* remover closes the gate and waits for the workers first.  The one       *)
(* release without that wait is the failed hand-over, PromoUndo.           *)
DrainBeforeRelease ==
  [][peer_socket # None /\ peer_socket' # peer_socket /\ ~At("promo", "undo")
       => io # peer_socket]_vars

(* An inbound carrier is only ever displaced by a later connection, and    *)
(* the roaming generation of a peer never goes back: a late packet of an   *)
(* older connection cannot undo what a newer one established.              *)
NewerCarrierKept ==
  [][/\ inbound_id # 0 /\ inbound_id' # 0 => inbound_id' >= inbound_id
     /\ ~At("ctl", "gone") => roam_id' >= roam_id]_vars

(* The argument behind SingleCarrier, DrainBeforeRelease and StopQuiesces. *)

(* The labels at which a thread is inside tcp_socket_lock.                 *)
Critical ==
  {"create", "setup", "dial", "final", "uw_claim", "uw_drain", "uw_release",
   "uw_final", "uw_queue", "drain", "release", "fin", "fin_stale", "detach",
   "displace", "transfer", "undo", "stop_drain", "stop_release"}

MutexInv == \A t \in Threads : pc[t] \in Critical => mutex = t

(* Promotion has released what it displaces when it transfers.             *)
TransferInv ==
  At("promo", "transfer") => inbound_socket = None /\ outbound_socket = None

(* A claimed socket comes with its claim.                                  *)
ClaimInv ==
  /\ out_remove_socket # None => out_remove
  /\ in_remove_socket # None => in_remove

(* While a remover waits for the stream workers, and until it has released *)
(* the socket, no new stream worker can start.                             *)
GateInv ==
  /\ \A t \in Callers : pc[t] \in {"uw_drain", "uw_release"} => out_remove
  /\ pc["outrem"] \in {"drain", "release"} => out_remove
  /\ pc["inrem"] \in {"drain", "release"} => in_remove
  /\ pc["promo"] \in {"drain", "release"} => in_remove \/ out_remove
  /\ pc["ctl"] \in {"stop_drain", "stop_release"} => tcp_stopping

DrainInv ==
  /\ \A t \in Callers : At(t, "uw_release") => io = None
  /\ \A t \in {"outrem", "inrem"} :
       At(t, "release") /\ peer_socket = cur => io = None
  /\ At("promo", "release") => io = None
  /\ At("ctl", "stop_release") => io = None

(* The labels of the control thread once it has cancelled work item w.     *)
StopTail == {"stop_lock", "stop_drain", "stop_release", "stop_done"}
Past(w) ==
  StopTail \cup (CASE w = "retry" -> {"outrem", "inrem", "promo"}
                   [] w = "outrem" -> {"inrem", "promo"}
                   [] w = "inrem" -> {"promo"}
                   [] w = "promo" -> {})

(* A cancelled work item stays cancelled, and after the stop nothing is    *)
(* left to publish a socket.                                               *)
StopInv ==
  /\ pc["ctl"] \in {"retry", "dead", "gone"} \cup Past("retry")
       => tcp_stopping
  /\ \A w \in Works :
       pc["ctl"] \in Past(w) \/ Stopped => ~work[w] /\ pc[w] = "idle"
  /\ At("ctl", "stop_done") \/ Stopped =>
       /\ io = None /\ mutex = NoThread
       /\ peer_socket = None /\ inbound_socket = None
       /\ outbound_socket = None

(* The inductive invariant: removers hold the mutex and keep the gate      *)
(* closed from the claim to the release, and a stopped peer stays empty.   *)
CarrierInv ==
  /\ SingleCarrier /\ MutexInv /\ TransferInv
  /\ ClaimInv /\ GateInv /\ DrainInv /\ StopInv

(* wg_tcp_peer_stop() never waits for ever, whatever it meets on the way:  *)
(* an interface that goes down, or a peer that is removed, gets there.     *)
StopCompletes ==
  At("ctl", "stop_gate") ~> pc["ctl"] \in {"down", "gone"}

(* A closed outbound socket is always retired: the callback, the connect   *)
(* attempt in progress, the retry timer or a stop takes it away.           *)
ClosedOutboundRetired ==
  \A s \in Sockets :
    (outbound_socket = s /\ sk[s] = "closed") ~> outbound_socket # s

(* "A close schedules cleanup and a later reconnect when no usable         *)
(* direction remains": after the outbound carrier of a running peer has    *)
(* closed, a new attempt starts, unless the peer is stopped or got an      *)
(* inbound carrier meanwhile.                                              *)
ReconnectFollowsClose ==
  (\E s \in Sockets : outbound_socket = s /\ sk[s] = "closed" /\ Alive)
    ~> (\/ \E t \in Callers : At(t, "create")
        \/ ~Alive \/ inbound_socket # None)

(* A connect attempt that fails while the peer runs is tried again: some   *)
(* caller enters wg_tcp_connect() later, unless the peer is stopped or got *)
(* an inbound carrier meanwhile.                                           *)
FailedDialRetried ==
  (\E t \in Callers : At(t, "uw_claim") /\ Alive)
    ~> (\/ \E t \in Callers : At(t, "lock")
        \/ ~Alive \/ inbound_socket # None)

=============================================================================
