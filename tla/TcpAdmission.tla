---------------------------- MODULE TcpAdmission ----------------------------
(***************************************************************************)
(* The provisional connections of a device (kernel/wg_tcp.c): the listener *)
(* threads that accept and publish them, the limits on how many there may  *)
(* be, authentication and promotion, the cleanup worker with its deadlines,*)
(* and interface start and stop.                                           *)
(*                                                                         *)
(* One step is one section of tcp_connection_list_lock, or one wait.  An   *)
(* entry of tcp_connection_list is its connection id.  The clock advances  *)
(* in ticks, and only when no thread can go on: what a thread does takes   *)
(* no time, timers take what they say.                                     *)
(***************************************************************************)
EXTENDS Integers, FiniteSets

CONSTANTS
  Sockets,       \* struct socket objects; a released one may be reused
  Addrs,         \* remote addresses with port, as seen on accepted sockets
  Families,      \* the listener threads, one per address family
  Family,        \* the family of an address
  Host,          \* the host of an address
  None,
  Inputs,        \* the outside events of this instance
  MaxConn,       \* bound on accepted connections
  MaxPending,    \* WG_TCP_MAX_PENDING_CONNECTIONS
  MaxTracked,    \* WG_TCP_MAX_TRACKED_CONNECTIONS
  PerSource,     \* WG_TCP_MAX_PENDING_PER_SOURCE
  IdleTimeout,   \* WG_TCP_AUTH_IDLE_TIMEOUT_MS, in ticks
  MaxLifetime,   \* WG_TCP_AUTH_MAX_LIFETIME_MS, in ticks
  Interval       \* WG_TCP_CLEANUP_INTERVAL_MS, in ticks

ASSUME LimitsArePositive ==
  /\ MaxConn \in Nat /\ MaxPending \in Nat \ {0} /\ MaxTracked \in Nat \ {0}
  /\ PerSource \in Nat \ {0} /\ IdleTimeout \in Nat \ {0}
  /\ MaxLifetime \in Nat \ {0} /\ Interval \in Nat \ {0}
ASSUME InputsAreKnown == Inputs \subseteq {"close", "touch", "auth", "stop", "fail"}
ASSUME AddrsAreTyped == Family \in [Addrs -> Families]
ASSUME NoneIsNothing ==
  None \notin Sockets \cup Addrs \cup Families \cup {"clean", "promo", "ctl"}

Ids == 1 .. MaxConn
Owners == Families \cup {"clean", "promo", "ctl"}
Off == Interval + 1          \* the cleanup timer is not armed
AgeCap == MaxLifetime + IdleTimeout + Interval   \* ages are counted so far

VARIABLES
  up,                        \* tcp_cleanup_scheduled
  sk, callback,              \* socket state; its close callback under way
  temp_dead,                 \* sockets whose provisional peer is_dead
  accepts,                   \* connections accepted so far (<= MaxConn)
  tcp_connection_sequence,
  listed,                    \* tcp_connection_list
  initializing, authenticated, admission_counted,
  src_addr, tcp_socket, owner,
  created, touched,          \* ticks since created_at and timestamp
  tcp_pending_connections, tcp_tracked_connections,
  listener,                  \* [pc, sock, addr, old] of each listener thread
  promotions,                \* connection ids waiting for the promotion worker
  timer, cleaner,            \* tcp_cleanup_work: its timer, its worker
  ctl                        \* interface start and stop

entryVars == <<tcp_connection_sequence, listed, initializing, authenticated,
               admission_counted, src_addr, tcp_socket, owner, created,
               touched, tcp_pending_connections, tcp_tracked_connections>>
sockVars == <<sk, callback, temp_dead>>
threadVars == <<listener, promotions, timer, cleaner, ctl>>
vars == <<up, accepts, sockVars, entryVars, threadVars>>

Opt(S) == S \cup {None}
ListenerSteps == {"off", "bound", "accept", "admit", "lookup", "replace", "destroy",
                  "create", "add", "arm", "finish"}

DeviceTypeOK ==
  /\ up \in BOOLEAN /\ accepts \in 0 .. MaxConn
  /\ promotions \in SUBSET Ids
  /\ timer \in 0 .. Off
  /\ cleaner \in {"idle", "claim", "destroy", "check", "arm"}
  /\ ctl \in {"down", "opening", "up", "peers", "join", "cancel", "drain",
              "destroy", "recancel"}

SocketTypeOK ==
  /\ sk \in [Sockets -> {"free", "open", "closed", "promoted"}]
  /\ callback \in [Sockets -> {"none", "notify", "queue"}]
  /\ temp_dead \in SUBSET Sockets

EntryTypeOK ==
  /\ tcp_connection_sequence \in 0 .. MaxConn
  /\ listed \in SUBSET Ids /\ initializing \in SUBSET Ids
  /\ authenticated \in SUBSET Ids /\ admission_counted \in SUBSET Ids
  /\ src_addr \in [Ids -> Opt(Addrs)] /\ tcp_socket \in [Ids -> Opt(Sockets)]
  /\ owner \in [Ids -> Opt(Owners)]
  /\ tcp_pending_connections \in Nat /\ tcp_tracked_connections \in Nat

AgeTypeOK == created \in [Ids -> 0 .. AgeCap] /\ touched \in [Ids -> 0 .. AgeCap]

ListenerTypeOK ==
  listener \in [Families -> [pc : ListenerSteps, sock : Opt(Sockets),
                             addr : Opt(Addrs), old : Opt(Sockets)]]

(* Every variable has its type.                                            *)
TypeOK ==
  /\ DeviceTypeOK /\ SocketTypeOK /\ EntryTypeOK /\ AgeTypeOK
  /\ ListenerTypeOK

Quiet(pc) == [pc |-> pc, sock |-> None, addr |-> None, old |-> None]

Init ==
  /\ up = FALSE
  /\ sk = [s \in Sockets |-> "free"]
  /\ callback = [s \in Sockets |-> "none"]
  /\ temp_dead = {}
  /\ accepts = 0 /\ tcp_connection_sequence = 0
  /\ listed = {} /\ initializing = {}
  /\ authenticated = {} /\ admission_counted = {}
  /\ src_addr = [i \in Ids |-> None] /\ tcp_socket = [i \in Ids |-> None]
  /\ owner = [i \in Ids |-> None]
  /\ created = [i \in Ids |-> 0] /\ touched = [i \in Ids |-> 0]
  /\ tcp_pending_connections = 0 /\ tcp_tracked_connections = 0
  /\ listener = [f \in Families |-> Quiet("off")]
  /\ promotions = {}
  /\ timer = Off /\ cleaner = "idle" /\ ctl = "down"

-----------------------------------------------------------------------------
(* The operations on the list.                                             *)

(* wg_sockaddrs_same_host(): the address, and for a link-local one the     *)
(* scope, but not the port.                                                *)
SameHost(a, b) == Host[a] = Host[b]

(* wg_tcp_pending_from_source_locked()                                     *)
PendingFrom(a) ==
  Cardinality({i \in listed \cap admission_counted : SameHost(src_addr[i], a)})

(* wg_tcp_source_at_capacity()                                             *)
AtCapacity(a) == PendingFrom(a) >= PerSource

(* Mutant: the counter is decremented for an entry that is not counted.    *)
ReleaseAdmissionAlways(i) ==
  /\ admission_counted' = admission_counted \ {i}
  /\ tcp_pending_connections' = IF tcp_pending_connections = 0 THEN 0
                                ELSE tcp_pending_connections - 1

(* wg_tcp_release_admission_locked()                                       *)
ReleaseAdmission(i) ==
  IF i \in admission_counted
  THEN /\ admission_counted' = admission_counted \ {i}
       /\ tcp_pending_connections' = IF tcp_pending_connections = 0 THEN 0
                                     ELSE tcp_pending_connections - 1
  ELSE UNCHANGED <<admission_counted, tcp_pending_connections>>

(* Take entry i off the list: o is the only one to destroy it from now on. *)
Claim(i, o) ==
  /\ ReleaseAdmission(i)
  /\ tcp_tracked_connections' = IF tcp_tracked_connections = 0 THEN 0
                                ELSE tcp_tracked_connections - 1
  /\ listed' = listed \ {i}
  /\ owner' = [owner EXCEPT ![i] = o]

(* wg_tcp_mark_connection_authenticated()                                  *)
MarkAuthenticated(i) ==
  IF i \in listed
  THEN /\ authenticated' = authenticated \cup {i}
       /\ ReleaseAdmission(i)
       /\ touched' = [touched EXCEPT ![i] = 0]
  ELSE UNCHANGED <<authenticated, admission_counted, tcp_pending_connections,
                   touched>>

(* No listener thread is inside tcp_socket_lock of the peer of socket s.   *)
Unlocked(s) ==
  \A f \in Families :
    ~ (listener[f].sock = s /\ listener[f].pc \in {"add", "arm", "finish"})

(* wg_destroy_temp_peer(): wait out its callback, then release the socket. *)
FreeSocket(s) ==
  /\ callback[s] # "queue"
  /\ sk' = [sk EXCEPT ![s] = "free"]
  /\ callback' = [callback EXCEPT ![s] = "none"]
  /\ temp_dead' = temp_dead \ {s}

(* wg_destroy_tcp_connection_entry() by the owner of the entry.            *)
Forget(i) ==
  /\ initializing' = initializing \ {i}
  /\ authenticated' = authenticated \ {i}
  /\ src_addr' = [src_addr EXCEPT ![i] = None]
  /\ tcp_socket' = [tcp_socket EXCEPT ![i] = None]
  /\ owner' = [owner EXCEPT ![i] = None]
  /\ created' = [created EXCEPT ![i] = 0]
  /\ touched' = [touched EXCEPT ![i] = 0]

Destroy(i) == Unlocked(tcp_socket[i]) /\ FreeSocket(tcp_socket[i]) /\ Forget(i)

unlisted == <<tcp_connection_sequence, listed, admission_counted,
              tcp_pending_connections, tcp_tracked_connections>>
unclaimed == <<tcp_connection_sequence, initializing, src_addr, tcp_socket,
               created>>

-----------------------------------------------------------------------------
(* wg_tcp_listener_worker(), one thread f per family.                      *)

At(f, pc) == listener[f].pc = pc
Goto(f, pc) == listener' = [listener EXCEPT ![f].pc = pc]
Rest(f) == listener' = [listener EXCEPT ![f] = Quiet("accept")]

(* Mutant: a connection that is turned away is not closed.                 *)
DropLeaks(f) == Rest(f) /\ UNCHANGED sockVars

(* Turn the accepted connection away.                                      *)
Drop(f) == FreeSocket(listener[f].sock) /\ Rest(f)

(* kernel_accept(): until the listening socket is shut down.  The stack    *)
(* has no second open connection from one address and port.                *)
ListenAccept(f) ==
  /\ At(f, "accept") /\ ctl \in {"opening", "up", "peers"}
  /\ accepts < MaxConn /\ accepts' = accepts + 1
  /\ \E s \in Sockets, a \in Addrs :
       /\ sk[s] = "free" /\ Family[a] = f
       /\ \A i \in Ids : src_addr[i] = a => sk[tcp_socket[i]] # "open"
       /\ sk' = [sk EXCEPT ![s] = "open"]
       /\ listener' = [listener EXCEPT ![f] = [pc |-> "admit", sock |-> s,
                                                addr |-> a, old |-> None]]
  /\ UNCHANGED <<up, callback, temp_dead, entryVars, promotions, timer,
                 cleaner, ctl>>

(* The rate table (TcpAcceptRate) and the limit per source.                *)
ListenAdmit(f) ==
  /\ At(f, "admit")
  /\ \/ /\ ~AtCapacity(listener[f].addr)
        /\ Goto(f, "lookup") /\ UNCHANGED sockVars
     \/ /\ AtCapacity(listener[f].addr) \/ "fail" \in Inputs
        /\ Drop(f)
  /\ UNCHANGED <<up, accepts, entryVars, promotions, timer, cleaner, ctl>>

(* Look for an earlier connection from the same address and port.  The     *)
(* listener remembers its socket, not the entry.                           *)
ListenLookup(f) ==
  LET old == {i \in listed : src_addr[i] = listener[f].addr} IN
  /\ At(f, "lookup")
  /\ IF old = {} THEN Goto(f, "create")
     ELSE \E i \in old :
            listener' = [listener EXCEPT ![f].pc = "replace",
                                         ![f].old = tcp_socket[i]]
  /\ UNCHANGED <<up, accepts, sockVars, entryVars, promotions, timer, cleaner, ctl>>

(* wg_remove_from_tcp_connection_list() of the remembered socket.          *)
ListenReplace(f) ==
  LET old == {i \in listed : tcp_socket[i] = listener[f].old} IN
  /\ At(f, "replace")
  /\ \/ /\ old = {} /\ Goto(f, "create")
        /\ UNCHANGED entryVars
     \/ /\ \E i \in old : Claim(i, f)
        /\ Goto(f, "destroy")
        /\ UNCHANGED <<unclaimed, authenticated, touched>>
  /\ UNCHANGED <<up, accepts, sockVars, promotions, timer, cleaner, ctl>>

ListenDestroy(f) ==
  /\ At(f, "destroy")
  /\ \E i \in Ids : owner[i] = f /\ Destroy(i)
  /\ Goto(f, "create")
  /\ UNCHANGED <<up, accepts, unlisted, promotions, timer, cleaner, ctl>>

(* wg_temp_peer_create(): whether there was memory for a provisional peer. *)
(* A new one holds no socket, carries no data and is not dead: it needs no *)
(* state beyond that of its socket.                                        *)
TempPeerCreate == IF "fail" \in Inputs THEN BOOLEAN ELSE {TRUE}

(* A provisional peer and its callbacks: no memory, or the device flag is  *)
(* off, and the connection is dropped.                                     *)
ListenCreate(f) ==
  /\ At(f, "create")
  /\ \E made \in TempPeerCreate :
       IF made /\ up THEN Goto(f, "add") /\ UNCHANGED sockVars ELSE Drop(f)
  /\ UNCHANGED <<up, accepts, entryVars, promotions, timer, cleaner, ctl>>

(* Mutant: the limits are not tested again under the list lock.            *)
MayAddUnchecked(a) == up

(* The limits, under the list lock.                                        *)
MayAdd(a) ==
  /\ up
  /\ tcp_tracked_connections < MaxTracked
  /\ tcp_pending_connections < MaxPending
  /\ PendingFrom(a) < PerSource

(* wg_add_tcp_socket_to_list(): publish the entry, or drop the connection. *)
ListenAdd(f) ==
  LET i == tcp_connection_sequence + 1
      l == listener[f]
  IN
  /\ At(f, "add") /\ i \in Ids
  /\ tcp_connection_sequence' = i
  /\ IF MayAdd(l.addr)
     THEN /\ listed' = listed \cup {i}
          /\ initializing' = initializing \cup {i}
          /\ admission_counted' = admission_counted \cup {i}
          /\ src_addr' = [src_addr EXCEPT ![i] = l.addr]
          /\ tcp_socket' = [tcp_socket EXCEPT ![i] = l.sock]
          /\ tcp_pending_connections' = tcp_pending_connections + 1
          /\ tcp_tracked_connections' = tcp_tracked_connections + 1
          /\ Goto(f, "arm") /\ UNCHANGED sockVars
     ELSE /\ Drop(f)
          /\ UNCHANGED <<listed, initializing, admission_counted, src_addr,
                         tcp_socket, tcp_pending_connections,
                         tcp_tracked_connections>>
  /\ UNCHANGED <<up, accepts, authenticated, owner, created, touched, promotions, timer,
                 cleaner, ctl>>

(* mod_delayed_work(): the sweep runs at once.                             *)
ListenArm(f) ==
  /\ At(f, "arm")
  /\ timer' = 0 /\ Goto(f, "finish")
  /\ UNCHANGED <<up, accepts, sockVars, entryVars, promotions, cleaner, ctl>>

(* Mutant: a connection that closed during the hand-over goes unnoticed.   *)
ListenFinishUnchecked(f) ==
  LET s == listener[f].sock
      mine == {i \in listed : tcp_socket[i] = s}
  IN
  /\ At(f, "finish")
  /\ initializing' = initializing \ mine
  /\ Rest(f)
  /\ UNCHANGED <<up, accepts, sk, callback, temp_dead, timer, tcp_connection_sequence, listed, authenticated,
                 admission_counted, src_addr, tcp_socket, owner, created,
                 touched, tcp_pending_connections, tcp_tracked_connections,
                 promotions, cleaner, ctl>>

(* wg_finish_tcp_connection_init(): from now on the entry may be claimed.  *)
ListenFinish(f) ==
  LET s == listener[f].sock
      mine == {i \in listed : tcp_socket[i] = s}
      broken == mine # {} /\ (sk[s] # "open" \/ s \in temp_dead)
  IN
  /\ At(f, "finish")
  /\ initializing' = initializing \ mine
  /\ temp_dead' = IF broken THEN temp_dead \cup {s} ELSE temp_dead
  /\ timer' = IF broken /\ up THEN 0 ELSE timer
  /\ Rest(f)
  /\ UNCHANGED <<up, accepts, sk, callback, tcp_connection_sequence, listed,
                 authenticated, admission_counted, src_addr, tcp_socket, owner,
                 created, touched, tcp_pending_connections,
                 tcp_tracked_connections, promotions, cleaner, ctl>>

-----------------------------------------------------------------------------
(* The TCP stack and the callbacks of a provisional connection.            *)

(* The socket has the callbacks of a provisional peer.                     *)
Installed(s) ==
  \/ \E i \in Ids : tcp_socket[i] = s
  \/ \E f \in Families : listener[f].sock = s /\ At(f, "add")

TcpClose(s) ==
  /\ "close" \in Inputs /\ sk[s] = "open"
  /\ sk' = [sk EXCEPT ![s] = "closed"]
  /\ callback' = [callback EXCEPT ![s] = IF Installed(s) THEN "notify" ELSE "none"]
  /\ UNCHANGED <<up, accepts, temp_dead, entryVars, threadVars>>

(* wg_tcp_state_change() for a provisional peer: mark it dead.  The device *)
(* flag is tested now, the cleanup is queued later.                        *)
CloseCallback(s) ==
  /\ callback[s] = "notify"
  /\ temp_dead' = temp_dead \cup {s}
  /\ callback' = [callback EXCEPT ![s] = IF s \notin temp_dead /\ up
                                         THEN "queue" ELSE "none"]
  /\ UNCHANGED <<up, accepts, sk, entryVars, threadVars>>

CloseQueue(s) ==
  /\ callback[s] = "queue"
  /\ callback' = [callback EXCEPT ![s] = "none"]
  /\ timer' = 0
  /\ UNCHANGED <<up, accepts, sk, temp_dead, entryVars, listener, promotions, cleaner,
                 ctl>>

(* wg_tcp_data_ready() of a live provisional peer.                         *)
Touch(i) ==
  /\ "touch" \in Inputs /\ i \in listed /\ sk[tcp_socket[i]] = "open"
  /\ tcp_socket[i] \notin temp_dead /\ touched[i] # 0
  /\ touched' = [touched EXCEPT ![i] = 0]
  /\ UNCHANGED <<up, accepts, sockVars, tcp_connection_sequence, listed, initializing,
                 authenticated, admission_counted, src_addr, tcp_socket, owner,
                 created, tcp_pending_connections, tcp_tracked_connections,
                 threadVars>>

-----------------------------------------------------------------------------
(* Authentication, in NAPI context, and the promotion worker.              *)

(* A packet that carries connection id i is authenticated, perhaps after   *)
(* the connection has gone.                                                *)
Authenticate(i) ==
  /\ "auth" \in Inputs /\ i <= tcp_connection_sequence /\ i \notin promotions
  /\ i \notin authenticated \/ i \notin listed
  /\ MarkAuthenticated(i)
  /\ promotions' = IF ctl = "up" THEN promotions \cup {i} ELSE promotions
  /\ UNCHANGED <<up, accepts, sockVars, unclaimed, listed, owner,
                 tcp_tracked_connections, listener, timer, cleaner, ctl>>

(* Mutant: promotion takes an entry that the listener still works on.      *)
PromotableEarly(i) == i \in listed

(* The entry can be handed over.                                           *)
Promotable(i) == i \in listed /\ i \notin initializing

(* The list section of wg_tcp_promote_authenticated_carrier().  An id      *)
(* older than the peer's roaming generation is marked, not claimed.        *)
PromoteClaim(i) ==
  /\ i \in promotions
  /\ promotions' = promotions \ {i}
  /\ \/ /\ Promotable(i)
        /\ authenticated' = authenticated \cup {i}
        /\ touched' = [touched EXCEPT ![i] = 0]
        /\ Claim(i, "promo")
     \/ /\ MarkAuthenticated(i)
        /\ UNCHANGED <<listed, owner, tcp_tracked_connections>>
  /\ UNCHANGED <<up, accepts, sockVars, unclaimed, listener, timer, cleaner, ctl>>

(* The socket moves to the configured peer, behind the callback lock; or   *)
(* the generation recheck fails and the claimant destroys the entry.       *)
PromoteFinish(i) ==
  LET s == tcp_socket[i] IN
  /\ owner[i] = "promo"
  /\ \/ Destroy(i)
     \/ /\ Unlocked(s) /\ callback[s] # "queue"
        /\ sk' = [sk EXCEPT ![s] = "promoted"]
        /\ callback' = [callback EXCEPT ![s] = "none"]
        /\ temp_dead' = temp_dead \ {s}
        /\ Forget(i)
  /\ UNCHANGED <<up, accepts, unlisted, threadVars>>

(* The configured peer releases its carrier (TcpCarrier).                  *)
PeerRelease(s) ==
  /\ sk[s] = "promoted"
  /\ sk' = [sk EXCEPT ![s] = "free"]
  /\ UNCHANGED <<up, accepts, callback, temp_dead, entryVars, threadVars>>

-----------------------------------------------------------------------------
(* wg_tcp_cleanup_worker()                                                 *)

(* Mutant: activity also refreshes the absolute deadline.                  *)
ExpiredIdleOnly(i) ==
  \/ tcp_socket[i] \in temp_dead
  \/ i \notin authenticated /\ touched[i] >= IdleTimeout

(* Mutant: the deadlines apply to authenticated connections as well.       *)
ExpiredAuthenticated(i) ==
  tcp_socket[i] \in temp_dead \/ touched[i] >= IdleTimeout

(* Entry i has closed, or was not authenticated in time.                   *)
Expired(i) ==
  \/ tcp_socket[i] \in temp_dead
  \/ /\ i \notin authenticated
     /\ touched[i] >= IdleTimeout \/ created[i] >= MaxLifetime

CleanRun ==
  /\ timer = 0 /\ cleaner = "idle"
  /\ timer' = Off /\ cleaner' = "claim"
  /\ UNCHANGED <<up, accepts, sockVars, entryVars, listener, promotions, ctl>>

(* wg_claim_tcp_connection() with cleanup_only.                            *)
CleanClaim ==
  LET expired == {i \in listed \ initializing : Expired(i)} IN
  /\ cleaner = "claim"
  /\ \/ /\ expired = {} /\ cleaner' = "check"
        /\ UNCHANGED entryVars
     \/ /\ \E i \in expired : Claim(i, "clean")
        /\ cleaner' = "destroy"
        /\ UNCHANGED <<unclaimed, authenticated, touched>>
  /\ UNCHANGED <<up, accepts, sockVars, listener, promotions, timer, ctl>>

CleanDestroy ==
  /\ cleaner = "destroy"
  /\ \E i \in Ids : owner[i] = "clean" /\ Destroy(i)
  /\ cleaner' = "claim"
  /\ UNCHANGED <<up, accepts, unlisted, listener, promotions, timer, ctl>>

(* Mutant: the sweep is not continued.                                     *)
SweepAgainNever == FALSE

(* There is something left to sweep.                                       *)
SweepAgain == listed # {} /\ up

CleanCheck ==
  /\ cleaner = "check"
  /\ cleaner' = IF SweepAgain THEN "arm" ELSE "idle"
  /\ UNCHANGED <<up, accepts, sockVars, entryVars, listener, promotions, timer, ctl>>

(* mod_delayed_work(): a sweep that was asked for meanwhile waits as well. *)
CleanArm ==
  /\ cleaner = "arm"
  /\ timer' = Interval /\ cleaner' = "idle"
  /\ UNCHANGED <<up, accepts, sockVars, entryVars, listener, promotions, ctl>>

-----------------------------------------------------------------------------
(* wg_open() and wg_stop(), as far as they concern the list.               *)

Open ==
  /\ ctl = "down"
  /\ up' = TRUE /\ ctl' = "opening"
  /\ UNCHANGED <<accepts, sockVars, entryVars, listener, promotions, timer,
                 cleaner>>

(* wg_setup_tcp_listen4() and wg_setup_tcp_listen6(): the socket of family *)
(* f listens.                                                              *)
SetupListen(f) ==
  /\ At(f, "off") /\ listener' = [listener EXCEPT ![f] = Quiet("bound")]

(* wg_tcp_listener4_thread() and wg_tcp_listener6_thread(): accept on the  *)
(* socket of the thread's family.                                          *)
ListenerThread(f) ==
  /\ At(f, "bound") /\ Rest(f)

(* wg_tcp_listener_socket_init(): every socket listens before the first    *)
(* thread starts; a thread that has started accepts at once.               *)
ListenerSocketInit(f) ==
  /\ ctl = "opening"
  /\ \/ SetupListen(f)
     \/ (\A g \in Families : ~At(g, "off")) /\ ListenerThread(f)
  /\ UNCHANGED <<up, accepts, sockVars, entryVars, promotions, timer, cleaner, ctl>>

(* No listener thread of family f has been started.                        *)
NotStarted(f) == listener[f].pc \in {"off", "bound"}

Opened ==
  /\ ctl = "opening" /\ ctl' = "up"
  /\ \A f \in Families : ~NotStarted(f)
  /\ UNCHANGED <<up, accepts, sockVars, entryVars, listener, promotions, timer, cleaner>>

(* A socket or a thread could not be had: the other listener, which may    *)
(* have accepted connections, is closed again.                             *)
OpenFails ==
  /\ "fail" \in Inputs /\ ctl = "opening"
  /\ \E f \in Families : NotStarted(f)
  /\ up' = FALSE /\ ctl' = "join"
  /\ UNCHANGED <<accepts, sockVars, entryVars, listener, promotions, timer,
                 cleaner>>

StopBegin ==
  /\ "stop" \in Inputs /\ ctl = "up"
  /\ up' = FALSE /\ ctl' = "peers"
  /\ UNCHANGED <<accepts, sockVars, entryVars, listener, promotions, timer,
                 cleaner>>

(* wg_tcp_peer_stop() cancels the promotion worker.                        *)
StopPeers ==
  /\ ctl = "peers" /\ \A i \in Ids : owner[i] # "promo"
  /\ promotions' = {} /\ ctl' = "join"
  /\ UNCHANGED <<up, accepts, sockVars, entryVars, listener, timer, cleaner>>

(* Mutant: nothing wakes a listener that waits in kernel_accept().         *)
StopJoinAsleep ==
  /\ ctl = "join" /\ \A f \in Families : NotStarted(f)
  /\ ctl' = "cancel"
  /\ UNCHANGED <<up, accepts, sockVars, entryVars, listener, promotions, timer,
                 cleaner>>

(* wg_tcp_listener_socket_release(): wait for the listener threads.        *)
StopJoin ==
  /\ ctl = "join" /\ \A f \in Families : NotStarted(f) \/ At(f, "accept")
  /\ listener' = [f \in Families |-> Quiet("off")]
  /\ ctl' = "cancel"
  /\ UNCHANGED <<up, accepts, sockVars, entryVars, promotions, timer, cleaner>>

(* Mutant: the sweep that a late callback queued is left queued.           *)
StopCancelOnce ==
  /\ ctl \in {"cancel", "recancel"} /\ cleaner = "idle"
  /\ timer' = IF ctl = "cancel" THEN Off ELSE timer
  /\ ctl' = IF ctl = "cancel" THEN "drain" ELSE "down"
  /\ UNCHANGED <<up, accepts, sockVars, entryVars, listener, promotions, cleaner>>

(* cancel_delayed_work_sync() of the cleanup worker, before and after the  *)
(* list is drained.                                                        *)
StopCancel ==
  /\ ctl \in {"cancel", "recancel"} /\ cleaner = "idle"
  /\ timer' = Off
  /\ ctl' = IF ctl = "cancel" THEN "drain" ELSE "down"
  /\ UNCHANGED <<up, accepts, sockVars, entryVars, listener, promotions, cleaner>>

(* wg_destruct_tcp_connection_list()                                       *)
StopDrain ==
  /\ ctl = "drain"
  /\ \/ /\ listed = {} /\ ctl' = "recancel"
        /\ UNCHANGED entryVars
     \/ /\ \E i \in listed : Claim(i, "ctl")
        /\ ctl' = "destroy"
        /\ UNCHANGED <<unclaimed, authenticated, touched>>
  /\ UNCHANGED <<up, accepts, sockVars, listener, promotions, timer, cleaner>>

StopDestroy ==
  /\ ctl = "destroy"
  /\ \E i \in Ids : owner[i] = "ctl" /\ Destroy(i)
  /\ ctl' = "drain"
  /\ UNCHANGED <<up, accepts, unlisted, listener, promotions, timer, cleaner>>

-----------------------------------------------------------------------------
(* Nothing can run: time may pass.  How long ago an authenticated entry    *)
(* was created is never looked at, and not kept.                           *)
AtRest ==
  /\ \A f \in Families : listener[f].pc \in {"off", "accept"}
  /\ cleaner = "idle" /\ timer # 0
  /\ \A s \in Sockets : callback[s] = "none"
  /\ \A i \in Ids : owner[i] = None
  /\ ctl \in {"up", "down"} /\ promotions = {}

Waiting(i) == i \in listed /\ i \notin authenticated
Older(n) == IF n < AgeCap THEN n + 1 ELSE n

Tick ==
  /\ AtRest /\ listed # {}
  /\ timer' = IF timer = Off THEN Off ELSE timer - 1
  /\ created' = [i \in Ids |-> IF Waiting(i) THEN Older(created[i]) ELSE 0]
  /\ touched' = [i \in Ids |-> IF i \in listed THEN Older(touched[i]) ELSE 0]
  /\ UNCHANGED <<up, accepts, sockVars, tcp_connection_sequence, listed, initializing,
                 authenticated, admission_counted, src_addr, tcp_socket, owner,
                 tcp_pending_connections, tcp_tracked_connections, listener,
                 promotions, cleaner, ctl>>

Listen(f) ==
  \/ ListenAdmit(f) \/ ListenLookup(f) \/ ListenReplace(f)
  \/ ListenDestroy(f) \/ ListenCreate(f) \/ ListenAdd(f) \/ ListenArm(f)
  \/ ListenFinish(f)

Clean == CleanRun \/ CleanClaim \/ CleanDestroy \/ CleanCheck \/ CleanArm

Stop == StopPeers \/ StopJoin \/ StopCancel \/ StopDrain \/ StopDestroy

Callback(s) == CloseCallback(s) \/ CloseQueue(s)

Next ==
  \/ \E f \in Families : ListenerSocketInit(f) \/ ListenAccept(f) \/ Listen(f)
  \/ \E s \in Sockets : TcpClose(s) \/ Callback(s) \/ PeerRelease(s)
  \/ \E i \in Ids :
       Touch(i) \/ Authenticate(i) \/ PromoteClaim(i) \/ PromoteFinish(i)
  \/ Clean \/ Stop \/ Tick
  \/ Open \/ Opened \/ OpenFails \/ StopBegin

Spec == Init /\ [][Next]_vars

(* Every thread that can go on does, callbacks return, and time passes     *)
(* even while packets keep coming (strong fairness: a packet only ever     *)
(* interrupts the rest in which the clock is stepped); connections,        *)
(* packets and interface changes need not happen.                          *)
Fairness ==
  /\ \A f \in Families : WF_vars(Listen(f)) /\ WF_vars(ListenerSocketInit(f))
  /\ \A s \in Sockets : WF_vars(Callback(s))
  /\ \A i \in Ids : WF_vars(PromoteClaim(i)) /\ WF_vars(PromoteFinish(i))
  /\ WF_vars(Clean) /\ WF_vars(Stop \/ Opened \/ OpenFails) /\ SF_vars(Tick)

FairSpec == Spec /\ Fairness

-----------------------------------------------------------------------------
(* The inductive invariant behind CountsExact and CapsHold.                *)

(* Entries have ids that were given out; an entry that has an owner is off *)
(* the list; the ones that count for admission are the unauthenticated.    *)
ListInv ==
  /\ listed \subseteq 1 .. tcp_connection_sequence
  /\ authenticated \subseteq 1 .. tcp_connection_sequence
  /\ \A i \in Ids : owner[i] # None => i \notin listed
  /\ \A i \in Ids : i > tcp_connection_sequence => owner[i] = None
  /\ admission_counted = listed \ authenticated

(* The counters are the numbers of entries, and these are within limits.   *)
CountInv ==
  /\ tcp_pending_connections = Cardinality(admission_counted)
  /\ tcp_pending_connections <= MaxPending
  /\ tcp_tracked_connections = Cardinality(listed)
  /\ tcp_tracked_connections <= MaxTracked

SourceInv == \A a \in Addrs : PendingFrom(a) <= PerSource

AdmissionInv == TypeOK /\ ListInv /\ CountInv /\ SourceInv

-----------------------------------------------------------------------------
(* Properties.                                                             *)

(* The two counters agree with the list: tcp_tracked_connections is its    *)
(* length, tcp_pending_connections the number of entries that were neither *)
(* authenticated nor claimed, whatever order authentication, promotion,    *)
(* cleanup and stop take an entry in.  The WARN_ON_ONCEs never fire.       *)
CountsExact ==
  /\ admission_counted \subseteq listed
  /\ tcp_pending_connections = Cardinality(admission_counted)
  /\ tcp_tracked_connections = Cardinality(listed)

(* "A device retains at most 128 unauthenticated provisional entries and   *)
(* at most eight from one source", although each listener tests the source *)
(* long before it publishes.                                               *)
CapsHold ==
  /\ Cardinality(listed) <= MaxTracked
  /\ Cardinality(listed \ authenticated) <= MaxPending
  /\ \A a \in Addrs : PendingFrom(a) <= PerSource

Holders(s) ==
  {<<"entry", i>> : i \in {j \in Ids : tcp_socket[j] = s}} \cup
  {<<"listener", f>> : f \in {g \in Families :
     listener[g].sock = s /\ listener[g].pc \notin {"arm", "finish"}}}

(* "Claiming removes the entry once; the claimant is the sole owner that   *)
(* quiesces and destroys it": an accepted socket is held by the listener   *)
(* that accepted it or by one entry, the entry is listed or has an owner,  *)
(* and none of them refers to a released or promoted socket.               *)
SoleOwner ==
  /\ \A s \in Sockets :
       Cardinality(Holders(s)) = IF sk[s] \in {"free", "promoted"} THEN 0 ELSE 1
  /\ \A i \in Ids : tcp_socket[i] # None => (i \in listed) = (owner[i] = None)

(* "a separate 30-second maximum lifetime prevents a trickle sender from   *)
(* retaining a slot forever": an unauthenticated entry is gone one sweep   *)
(* after its deadlines, whatever re-arms and delays the sweep.             *)
DeadlineHolds ==
  \A i \in listed \ authenticated :
    /\ created[i] < MaxLifetime + Interval
    /\ touched[i] < IdleTimeout + Interval

(* "retain authenticated carriers until socket close or device teardown":  *)
(* an authenticated entry leaves the list by promotion, because it closed, *)
(* or because the interface goes down.                                     *)
AuthenticatedRetained ==
  [][\A i \in listed \cap authenticated :
       i \notin listed' =>
         \/ owner'[i] = "promo" \/ ~up
         \/ sk[tcp_socket[i]] = "closed"]_vars

(* After wg_stop(), or a wg_open() that failed, the list is empty, the     *)
(* counters are zero, no sweep is queued or running, and no listener or    *)
(* claimant holds a socket.                                                *)
DownIsEmpty ==
  ctl = "down" =>
    /\ listed = {} /\ tcp_pending_connections = 0 /\ tcp_tracked_connections = 0
    /\ timer = Off /\ cleaner = "idle"
    /\ \A s \in Sockets : sk[s] \in {"free", "promoted"} /\ callback[s] = "none"

(* A provisional connection that closed is destroyed: its callback, the    *)
(* end of its hand-over or the next sweep sees to it.                      *)
ClosedIsSwept ==
  \A i \in Ids :
    (i \in listed /\ sk[tcp_socket[i]] = "closed") ~> i \notin listed

(* wg_stop() gets through the listeners, the sweep and the list.           *)
StopFinishes == (ctl = "peers") ~> (ctl = "down")

=============================================================================
