------------------------- MODULE TcpAdmissionOwners -------------------------
(***************************************************************************)
(* Ownership of accepted sockets in TcpAdmission, for any number of        *)
(* sockets, addresses, listeners and connections: the listener thread that *)
(* accepted a socket, or one entry, holds it, and whoever took the entry   *)
(* off tcp_connection_list is the only one to destroy it.  Every step      *)
(* moves the sockets in one of six ways; each of them keeps the invariant. *)
(***************************************************************************)
EXTENDS TcpAdmissionProofs

(* Socket s exists and has not been handed to a configured peer.           *)
Busy(s) == sk[s] \in {"open", "closed"}

(* Listener f has accepted a socket that it has not published yet.         *)
InHand(f) ==
  listener[f].pc \in {"admit", "lookup", "replace", "destroy", "create", "add"}

(* A listener that waits for a connection has no socket.                   *)
RestInv ==
  \A f \in Families :
    listener[f].pc \in {"off", "bound", "accept"} => listener[f].sock = None

(* A socket in the hands of a listener is in nobody else's.                *)
HandInv ==
  \A f \in Families : InHand(f) =>
    /\ Busy(listener[f].sock)
    /\ \A g \in Families :
         InHand(g) /\ listener[g].sock = listener[f].sock => g = f
    /\ \A i \in Ids : tcp_socket[i] # listener[f].sock

(* An entry has a socket of its own until it is destroyed, and is either   *)
(* listed or has an owner.                                                 *)
EntryInv ==
  \A i \in Ids :
    /\ tcp_socket[i] = None => i \notin listed /\ owner[i] = None
    /\ i > tcp_connection_sequence => tcp_socket[i] = None
    /\ tcp_socket[i] # None =>
         /\ Busy(tcp_socket[i])
         /\ (i \in listed) = (owner[i] = None)
         /\ \A j \in Ids : tcp_socket[j] = tcp_socket[i] => j = i

(* No socket is leaked.                                                    *)
HeldInv ==
  \A s \in Sockets : Busy(s) =>
    \/ \E i \in Ids : tcp_socket[i] = s
    \/ \E f \in Families : InHand(f) /\ listener[f].sock = s

OwnerInv == HandInv /\ EntryInv /\ HeldInv

-----------------------------------------------------------------------------
(* The ways in which a step moves sockets.                                 *)

(* Listener f keeps what it has in hand.                                   *)
Keeps(f) ==
  /\ InHand(f)' = InHand(f)
  /\ InHand(f) => listener'[f].sock = listener[f].sock

SameEntries == UNCHANGED <<tcp_socket, owner, listed>>

(* No socket changes hands.                                                *)
Calm ==
  /\ SameEntries /\ UNCHANGED tcp_connection_sequence
  /\ \A s \in Sockets : Busy(s)' = Busy(s)
  /\ \A f \in Families : Keeps(f)

(* Listener f accepts socket s.                                            *)
Accepted(f, s) ==
  /\ SameEntries /\ UNCHANGED tcp_connection_sequence
  /\ ~InHand(f) /\ ~Busy(s)
  /\ sk' = [sk EXCEPT ![s] = "open"]
  /\ InHand(f)' /\ listener'[f].sock = s
  /\ \A g \in Families \ {f} : Keeps(g)

(* Listener f turns its connection away.                                   *)
Dropped(f) ==
  /\ SameEntries
  /\ tcp_connection_sequence' \in {tcp_connection_sequence, tcp_connection_sequence + 1}
  /\ InHand(f) /\ listener[f].sock \in Sockets
  /\ sk' = [sk EXCEPT ![listener[f].sock] = "free"]
  /\ ~InHand(f)'
  /\ \A g \in Families \ {f} : Keeps(g)

(* Listener f publishes its connection as entry i.                         *)
Published(f, i) ==
  /\ i = tcp_connection_sequence + 1 /\ tcp_connection_sequence' = i
  /\ listed' = listed \cup {i} /\ UNCHANGED <<owner, sk>>
  /\ InHand(f) /\ listener[f].sock \in Sockets
  /\ tcp_socket' = [tcp_socket EXCEPT ![i] = listener[f].sock]
  /\ ~InHand(f)'
  /\ \A g \in Families \ {f} : Keeps(g)

(* o takes entry i off the list.                                           *)
Claimed(i, o) ==
  /\ i \in listed /\ listed' = listed \ {i}
  /\ owner' = [owner EXCEPT ![i] = o]
  /\ UNCHANGED <<tcp_socket, sk, tcp_connection_sequence>>
  /\ \A f \in Families : Keeps(f)

(* The owner of entry i destroys it or hands its socket over.              *)
Gone(i) ==
  /\ owner[i] # None /\ owner' = [owner EXCEPT ![i] = None]
  /\ tcp_socket' = [tcp_socket EXCEPT ![i] = None]
  /\ \E x \in {"free", "promoted"} : sk' = [sk EXCEPT ![tcp_socket[i]] = x]
  /\ UNCHANGED <<listed, tcp_connection_sequence>>
  /\ \A f \in Families : Keeps(f)

-----------------------------------------------------------------------------
(* Each of the six ways keeps the invariant.                               *)

(* Callbacks, timers and the interface leave the owners as they are.       *)
LEMMA CalmKeeps == TypeInv /\ OwnerInv /\ Calm => OwnerInv'
  <1> SUFFICES ASSUME TypeInv, OwnerInv, Calm PROVE OwnerInv'
    OBVIOUS
  <1> USE DEF OwnerInv, Calm, SameEntries, Keeps
  <1>0. \A f \in Families : InHand(f) => listener[f].sock \in Sockets
    BY DEF TypeInv, SocketInHand, InHand
  <1>1. \A i \in Ids : tcp_socket[i] \in Opt(Sockets)
    BY DEF TypeInv, TypeOK, EntryTypeOK
  <1>2. HandInv'
    BY <1>0 DEF HandInv
  <1>3. EntryInv'
    BY <1>1 DEF EntryInv, Opt
  <1>4. HeldInv'
    BY DEF HeldInv
  <1> QED BY <1>2, <1>3, <1>4

(* kernel_accept() returns a socket nobody has.                            *)
LEMMA AcceptedKeeps ==
  ASSUME TypeInv, OwnerInv, NEW f \in Families, NEW s \in Sockets, Accepted(f, s)
  PROVE  OwnerInv'
  <1> USE DEF OwnerInv, Accepted, SameEntries, Keeps
  <1>0. \A g \in Families : InHand(g) => listener[g].sock \in Sockets
    BY DEF TypeInv, SocketInHand, InHand
  <1>1. \A i \in Ids : tcp_socket[i] \in Opt(Sockets)
    BY DEF TypeInv, TypeOK, EntryTypeOK
  <1>2. Busy(s)' /\ \A t \in Sockets \ {s} : Busy(t)' = Busy(t)
    BY DEF Busy, TypeInv, TypeOK, SocketTypeOK
  <1>3. \A g \in Families : InHand(g) => listener[g].sock # s
    BY DEF HandInv
  <1>4. \A i \in Ids : tcp_socket[i] # s
    BY NoneIsNothing DEF EntryInv
  <1>5. HandInv'
    BY <1>0, <1>2, <1>3, <1>4 DEF HandInv
  <1>6. EntryInv'
    BY <1>1, <1>2, <1>4 DEF EntryInv, Opt
  <1>7. HeldInv'
    BY <1>2, <1>3 DEF HeldInv
  <1> QED BY <1>5, <1>6, <1>7

(* A connection that is turned away was the listener's alone.              *)
LEMMA DroppedKeeps ==
  ASSUME TypeInv, OwnerInv, NEW f \in Families, Dropped(f)
  PROVE  OwnerInv'
  <1> DEFINE s == listener[f].sock
  <1> USE DEF OwnerInv, Dropped, SameEntries, Keeps
  <1>0. \A g \in Families : InHand(g) => listener[g].sock \in Sockets
    BY DEF TypeInv, SocketInHand, InHand
  <1>1. \A i \in Ids : tcp_socket[i] \in Opt(Sockets) /\ tcp_socket[i] # s
    BY DEF TypeInv, TypeOK, EntryTypeOK, HandInv
  <1>2. \A t \in Sockets : IF t = s THEN ~Busy(t)' ELSE Busy(t)' = Busy(t)
    BY DEF Busy, TypeInv, TypeOK, SocketTypeOK
  <1>3. \A g \in Families \ {f} : InHand(g) => listener[g].sock # s
    BY DEF HandInv
  <1>4. HandInv'
    BY <1>0, <1>1, <1>2, <1>3 DEF HandInv
  <1>5. tcp_connection_sequence \in Nat /\ Ids \subseteq Nat
    BY LimitsArePositive DEF TypeInv, TypeOK, EntryTypeOK, Ids
  <1>6. EntryInv'
    <2>1. \A i \in Ids : i > tcp_connection_sequence' => tcp_socket[i] = None
      BY <1>5 DEF EntryInv
    <2> QED BY <1>1, <1>2, <2>1 DEF EntryInv, Opt
  <1>7. HeldInv'
    BY <1>2, <1>3 DEF HeldInv
  <1> QED BY <1>4, <1>6, <1>7

(* Publication moves the socket from the listener to a fresh entry.        *)
LEMMA PublishedKeeps ==
  ASSUME TypeInv, OwnerInv, NEW f \in Families, NEW i \in Ids, Published(f, i)
  PROVE  OwnerInv'
  <1> DEFINE s == listener[f].sock
  <1> USE DEF OwnerInv, Published, Keeps
  <1>0. \A g \in Families : InHand(g) => listener[g].sock \in Sockets
    BY DEF TypeInv, SocketInHand, InHand
  <1>1. \A j \in Ids : tcp_socket[j] # s
    BY DEF HandInv
  <1>2. tcp_connection_sequence \in Nat /\ Ids \subseteq Nat
    BY LimitsArePositive DEF TypeInv, TypeOK, EntryTypeOK, Ids
  <1>3. tcp_socket[i] = None /\ i \notin listed /\ owner[i] = None
    BY <1>2 DEF EntryInv
  <1>4. /\ tcp_socket'[i] = s
        /\ \A j \in Ids \ {i} : tcp_socket'[j] = tcp_socket[j]
    BY DEF TypeInv, TypeOK, EntryTypeOK
  <1>5. \A t : Busy(t)' = Busy(t)
    BY DEF Busy
  <1>6. \A g \in Families \ {f} : InHand(g) => listener[g].sock # s
    BY DEF HandInv
  <1>7. HandInv'
    BY <1>4, <1>5, <1>6 DEF HandInv
  <1>8. EntryInv'
    <2>1. \A j \in Ids : j > i => tcp_socket'[j] = None
      BY <1>2, <1>4 DEF EntryInv
    <2>2. s # None /\ Busy(s)
      BY NoneIsNothing DEF HandInv
    <2> QED BY <1>1, <1>3, <1>4, <1>5, <2>1, <2>2 DEF EntryInv
  <1>9. HeldInv'
    BY <1>3, <1>4, <1>5, NoneIsNothing DEF HeldInv
  <1> QED BY <1>7, <1>8, <1>9

(* A claim gives a listed entry, which has no owner, its owner.            *)
LEMMA ClaimedKeeps ==
  ASSUME TypeInv, OwnerInv, NEW i \in Ids, NEW o \in Owners, Claimed(i, o)
  PROVE  OwnerInv'
  <1> USE DEF OwnerInv, Claimed, Keeps
  <1>1. \A t : Busy(t)' = Busy(t)
    BY DEF Busy
  <1>2. /\ owner'[i] # None
        /\ \A j \in Ids \ {i} : owner'[j] = owner[j]
    BY NoneIsNothing DEF TypeInv, TypeOK, EntryTypeOK, Owners
  <1>3. HandInv'
    BY <1>1 DEF HandInv
  <1>4. EntryInv'
    BY <1>1, <1>2 DEF EntryInv
  <1>5. HeldInv'
    BY <1>1 DEF HeldInv
  <1> QED BY <1>3, <1>4, <1>5

(* The owner's last step takes a socket that nobody else has.              *)
LEMMA GoneKeeps ==
  ASSUME TypeInv, OwnerInv, NEW i \in Ids, Gone(i)
  PROVE  OwnerInv'
  <1> DEFINE s == tcp_socket[i]
  <1> USE DEF OwnerInv, Gone, Keeps
  <1>0. \A g \in Families : InHand(g) => listener[g].sock \in Sockets /\ listener[g].sock # s
    BY DEF TypeInv, SocketInHand, InHand, HandInv
  <1>1. \A j \in Ids : tcp_socket[j] \in Opt(Sockets)
    BY DEF TypeInv, TypeOK, EntryTypeOK
  <1>2. s \in Sockets /\ i \notin listed
    BY <1>1 DEF EntryInv, Opt
  <1>3. \A t \in Sockets : IF t = s THEN ~Busy(t)' ELSE Busy(t)' = Busy(t)
    BY <1>2 DEF Busy, TypeInv, TypeOK, SocketTypeOK
  <1>4. /\ tcp_socket'[i] = None /\ owner'[i] = None
        /\ \A j \in Ids \ {i} : /\ tcp_socket'[j] = tcp_socket[j] /\ owner'[j] = owner[j]
                               /\ tcp_socket[j] # s
    BY <1>2, NoneIsNothing DEF TypeInv, TypeOK, EntryTypeOK, EntryInv
  <1>5. HandInv'
    BY <1>0, <1>3, <1>4, NoneIsNothing DEF HandInv
  <1>6. EntryInv'
    BY <1>1, <1>2, <1>3, <1>4 DEF EntryInv, Opt
  <1>7. HeldInv'
    BY <1>0, <1>2, <1>3, <1>4 DEF HeldInv
  <1> QED BY <1>5, <1>6, <1>7

-----------------------------------------------------------------------------
(* Every step moves the sockets in one of the six ways.                    *)

Moves ==
  \/ Calm
  \/ \E f \in Families :
       \/ Dropped(f)
       \/ \E s \in Sockets : Accepted(f, s)
       \/ \E i \in Ids : Published(f, i)
  \/ \E i \in Ids : Gone(i) \/ \E o \in Owners : Claimed(i, o)

(* A listener that is left alone keeps what it has in hand.                *)
LEMMA SameListeners == UNCHANGED listener => \A f \in Families : Keeps(f)
  BY DEF Keeps, InHand

(* Going on between two points before publication keeps the socket.        *)
LEMMA GotoKeeps ==
  ASSUME TypeInv, NEW f \in Families, InHand(f),
         NEW pc \in {"lookup", "replace", "destroy", "create", "add"}, Goto(f, pc)
  PROVE  \A g \in Families : Keeps(g)
  BY DEF Keeps, InHand, Goto, TypeInv, TypeOK, ListenerTypeOK

(* The connection that listener f turns away was in its hands.             *)
LEMMA DropDrops ==
  ASSUME TypeInv, NEW f \in Families, InHand(f), Drop(f), SameEntries,
         tcp_connection_sequence' \in {tcp_connection_sequence, tcp_connection_sequence + 1}
  PROVE  Moves
  <1>1. listener[f].sock \in Sockets
    BY DEF TypeInv, SocketInHand, InHand
  <1>2. ~InHand(f)' /\ \A g \in Families \ {f} : Keeps(g)
    BY DEF Drop, Rest, Quiet, Keeps, InHand, TypeInv, TypeOK, ListenerTypeOK
  <1>3. Dropped(f)
    BY <1>1, <1>2 DEF Dropped, Drop, FreeSocket
  <1> QED BY <1>3 DEF Moves

(* Taking a listed entry is a claim, whoever takes it.                     *)
LEMMA ClaimClaims ==
  ASSUME NEW i \in Ids, i \in listed, NEW o \in Owners, Claim(i, o),
         UNCHANGED <<tcp_socket, sk, tcp_connection_sequence>>,
         \A f \in Families : Keeps(f)
  PROVE  Moves
  <1>1. Claimed(i, o)
    BY DEF Claimed, Claim
  <1> QED BY <1>1 DEF Moves

(* Destroying an entry is the last step of its owner.                      *)
LEMMA DestroyGoes ==
  ASSUME NEW i \in Ids, owner[i] # None, Destroy(i),
         UNCHANGED <<listed, tcp_connection_sequence>>,
         \A f \in Families : Keeps(f)
  PROVE  Moves
  <1>1. Gone(i)
    BY DEF Gone, Destroy, FreeSocket, Forget
  <1> QED BY <1>1 DEF Moves

(* The listener threads.                                                   *)
LEMMA ListenerMoves ==
  ASSUME TypeInv, NEW f \in Families,
         ListenerSocketInit(f) \/ ListenAccept(f) \/ Listen(f)
  PROVE  Moves
  <1> USE DEF SameEntries
  <1>1. CASE ListenerSocketInit(f)
    <2>1. \A g \in Families : Keeps(g)
      BY <1>1 DEF ListenerSocketInit, SetupListen, ListenerThread, At, Rest, Quiet,
         Keeps, InHand, TypeInv, TypeOK, ListenerTypeOK
    <2> QED BY <1>1, <2>1 DEF ListenerSocketInit, entryVars, sockVars, Calm, Busy, Moves
  <1>2. CASE ListenAccept(f)
    <2> SUFFICES ASSUME NEW s \in Sockets, NEW a \in Addrs,
                        sk[s] = "free", sk' = [sk EXCEPT ![s] = "open"],
                        listener' = [listener EXCEPT ![f] =
                          [pc |-> "admit", sock |-> s, addr |-> a, old |-> None]]
                 PROVE Moves
      BY <1>2, Zenon DEF ListenAccept
    <2>1. ~InHand(f)
      BY <1>2 DEF ListenAccept, At, InHand
    <2>2. InHand(f)' /\ listener'[f].sock = s
      BY DEF InHand, TypeInv, TypeOK, ListenerTypeOK
    <2>3. \A g \in Families \ {f} : listener'[g] = listener[g]
      BY DEF TypeInv, TypeOK, ListenerTypeOK
    <2>4. \A g \in Families \ {f} : Keeps(g)
      BY <2>3 DEF Keeps, InHand
    <2>5. Accepted(f, s)
      <3>1. SameEntries /\ UNCHANGED tcp_connection_sequence
        BY <1>2 DEF ListenAccept, entryVars
      <3>2. ~Busy(s)
        BY DEF Busy
      <3> QED BY <2>1, <2>2, <2>4, <3>1, <3>2 DEF Accepted
    <2> QED BY <2>5 DEF Moves
  <1>3. CASE ListenAdmit(f)
    <2>1. InHand(f) /\ SameEntries /\ UNCHANGED tcp_connection_sequence
      BY <1>3 DEF ListenAdmit, At, InHand, entryVars
    <2>2. CASE Goto(f, "lookup") /\ UNCHANGED sockVars
      BY <2>1, <2>2, GotoKeeps DEF sockVars, Calm, Busy, Moves
    <2>3. CASE Drop(f)
      BY <2>1, <2>3, DropDrops
    <2> QED BY <1>3, <2>2, <2>3 DEF ListenAdmit
  <1>4. CASE ListenLookup(f)
    <2>1. \A g \in Families : Keeps(g)
      BY <1>4 DEF ListenLookup, Goto, At, Keeps, InHand, TypeInv, TypeOK, ListenerTypeOK
    <2> QED BY <1>4, <2>1 DEF ListenLookup, entryVars, sockVars, Calm, Busy, Moves
  <1>5. CASE ListenReplace(f)
    <2>1. InHand(f) /\ UNCHANGED sk
      BY <1>5 DEF ListenReplace, At, InHand, sockVars
    <2>2. CASE Goto(f, "create") /\ UNCHANGED entryVars
      BY <2>1, <2>2, GotoKeeps DEF entryVars, Calm, Busy, Moves
    <2>3. ASSUME NEW i \in listed, Claim(i, f), Goto(f, "destroy"), UNCHANGED unclaimed
          PROVE Moves
      <3>1. i \in Ids /\ f \in Owners
        BY DEF TypeInv, TypeOK, EntryTypeOK, Owners
      <3> QED BY <2>1, <2>3, <3>1, GotoKeeps, ClaimClaims DEF unclaimed
    <2> QED BY <1>5, <2>2, <2>3 DEF ListenReplace
  <1>6. CASE ListenDestroy(f)
    <2>1. InHand(f) /\ Goto(f, "create") /\ UNCHANGED <<listed, tcp_connection_sequence>>
      BY <1>6 DEF ListenDestroy, At, InHand, unlisted
    <2>2. PICK i \in Ids : owner[i] # None /\ Destroy(i)
      BY <1>6, NoneIsNothing DEF ListenDestroy
    <2> QED BY <2>1, <2>2, GotoKeeps, DestroyGoes
  <1>7. CASE ListenCreate(f)
    <2>1. InHand(f) /\ SameEntries /\ UNCHANGED tcp_connection_sequence
      BY <1>7 DEF ListenCreate, At, InHand, entryVars
    <2>2. CASE Goto(f, "add") /\ UNCHANGED sockVars
      BY <2>1, <2>2, GotoKeeps DEF sockVars, Calm, Busy, Moves
    <2>3. CASE Drop(f)
      BY <2>1, <2>3, DropDrops
    <2> QED BY <1>7, <2>2, <2>3 DEF ListenCreate
  <1>8. CASE ListenAdd(f)
    <2> DEFINE i == tcp_connection_sequence + 1
    <2>1. InHand(f) /\ i \in Ids /\ tcp_connection_sequence' = i /\ UNCHANGED owner
      BY <1>8 DEF ListenAdd, At, InHand
    <2>2. CASE /\ listed' = listed \cup {i} /\ UNCHANGED sockVars /\ Goto(f, "arm")
               /\ tcp_socket' = [tcp_socket EXCEPT ![i] = listener[f].sock]
      <3>1. ~InHand(f)' /\ \A g \in Families \ {f} : Keeps(g)
        BY <2>2 DEF Goto, Keeps, InHand, TypeInv, TypeOK, ListenerTypeOK
      <3>2. listener[f].sock \in Sockets
        BY <2>1 DEF TypeInv, SocketInHand, InHand
      <3>3. Published(f, tcp_connection_sequence + 1)
        BY <2>1, <2>2, <3>1, <3>2 DEF Published, sockVars
      <3> QED BY <2>1, <3>3 DEF Moves
    <2>3. CASE Drop(f) /\ UNCHANGED <<listed, tcp_socket>>
      BY <2>1, <2>3, DropDrops
    <2> QED BY <1>8, <2>2, <2>3 DEF ListenAdd
  <1>9. CASE ListenArm(f) \/ ListenFinish(f)
    <2>1. \A g \in Families : Keeps(g)
      BY <1>9 DEF ListenArm, ListenFinish, Goto, Rest, Quiet, At, Keeps, InHand,
         TypeInv, TypeOK, ListenerTypeOK
    <2> QED BY <1>9, <2>1 DEF ListenArm, ListenFinish, entryVars, sockVars, Calm,
            Busy, Moves
  <1> QED BY <1>1, <1>2, <1>3, <1>4, <1>5, <1>6, <1>7, <1>8, <1>9 DEF Listen

(* The stack, the callbacks and the packets of a connection.               *)
LEMMA SocketMoves ==
  ASSUME TypeInv, NEW s \in Sockets, TcpClose(s) \/ Callback(s) \/ PeerRelease(s)
  PROVE  Moves
  <1>1. SameEntries /\ UNCHANGED <<tcp_connection_sequence, listener>>
    BY DEF TcpClose, Callback, CloseCallback, CloseQueue, PeerRelease, SameEntries,
       entryVars, threadVars
  <1>2. \A t \in Sockets : Busy(t)' = Busy(t)
    BY DEF TcpClose, Callback, CloseCallback, CloseQueue, PeerRelease, Busy,
       TypeInv, TypeOK, SocketTypeOK
  <1> QED BY <1>1, <1>2, SameListeners DEF Calm, Moves

(* Packets, authentication and the promotion worker.                       *)
LEMMA EntryMoves ==
  ASSUME TypeInv, NEW i \in Ids,
         Touch(i) \/ Authenticate(i) \/ PromoteClaim(i) \/ PromoteFinish(i)
  PROVE  Moves
  <1>1. UNCHANGED listener /\ \A f \in Families : Keeps(f)
    BY SameListeners DEF Touch, Authenticate, PromoteClaim, PromoteFinish, threadVars
  <1>2. CASE Touch(i) \/ Authenticate(i)
    BY <1>1, <1>2 DEF Touch, Authenticate, unclaimed, sockVars, SameEntries, Calm,
       Busy, Moves
  <1>3. CASE PromoteClaim(i)
    <2>1. UNCHANGED <<tcp_socket, sk, tcp_connection_sequence>>
      BY <1>3 DEF PromoteClaim, unclaimed, sockVars
    <2>2. CASE i \in listed /\ Claim(i, "promo")
      BY <1>1, <2>1, <2>2, ClaimClaims DEF Owners
    <2>3. CASE UNCHANGED <<listed, owner>>
      BY <1>1, <2>1, <2>3 DEF SameEntries, Calm, Busy, Moves
    <2> QED BY <1>3, <2>2, <2>3 DEF PromoteClaim, Promotable
  <1>4. CASE PromoteFinish(i)
    <2>1. owner[i] # None /\ UNCHANGED <<listed, tcp_connection_sequence>>
      BY <1>4, NoneIsNothing DEF PromoteFinish, unlisted
    <2>2. CASE Destroy(i)
      BY <1>1, <2>1, <2>2, DestroyGoes
    <2>3. CASE sk' = [sk EXCEPT ![tcp_socket[i]] = "promoted"] /\ Forget(i)
      <3>1. Gone(i)
        BY <1>1, <2>1, <2>3 DEF Gone, Forget
      <3> QED BY <3>1 DEF Moves
    <2> QED BY <1>4, <2>2, <2>3 DEF PromoteFinish
  <1> QED BY <1>2, <1>3, <1>4

(* The sweep, the clock and the interface.                                 *)
LEMMA WorkerMoves ==
  ASSUME TypeInv, Clean \/ Stop \/ Tick \/ Open \/ Opened \/ OpenFails \/ StopBegin
  PROVE  Moves
  <1>1. \A f \in Families : Keeps(f)
    <2>1. CASE StopJoin
      BY <2>1 DEF StopJoin, NotStarted, At, Quiet, Keeps, InHand
    <2>2. CASE UNCHANGED listener
      BY <2>2, SameListeners
    <2> QED BY <2>1, <2>2 DEF Clean, CleanRun, CleanClaim, CleanDestroy, CleanCheck,
            CleanArm, Stop, StopPeers, StopCancel, StopDrain, StopDestroy, Tick, Open,
            Opened, OpenFails, StopBegin
  <1>2. CASE CleanRun \/ CleanCheck \/ CleanArm \/ StopPeers \/ StopJoin \/
      StopCancel \/ Tick \/ Open \/ Opened \/ OpenFails \/ StopBegin
    <2>1. SameEntries /\ UNCHANGED <<sk, tcp_connection_sequence>>
      <3>1. CASE Tick
        BY <3>1 DEF Tick, sockVars, SameEntries
      <3>2. CASE UNCHANGED <<sockVars, entryVars>>
        BY <3>2 DEF entryVars, sockVars, SameEntries
      <3> QED BY <1>2, <3>1, <3>2 DEF CleanRun, CleanCheck, CleanArm, StopPeers,
              StopJoin, StopCancel, Open, Opened, OpenFails, StopBegin
    <2> QED BY <1>1, <2>1 DEF Calm, Busy, Moves
  <1>3. ASSUME NEW i \in listed, NEW o \in Owners, Claim(i, o),
               UNCHANGED <<unclaimed, sk>>
        PROVE Moves
    <2>1. i \in Ids
      BY DEF TypeInv, TypeOK, EntryTypeOK
    <2> QED BY <1>1, <1>3, <2>1, ClaimClaims DEF unclaimed
  <1>4. CASE UNCHANGED <<entryVars, sk>>
    BY <1>1, <1>4 DEF entryVars, SameEntries, Calm, Busy, Moves
  <1>5. CASE CleanClaim
    BY <1>3, <1>4, <1>5 DEF CleanClaim, sockVars, Owners
  <1>6. CASE StopDrain
    BY <1>3, <1>4, <1>6 DEF StopDrain, sockVars, Owners
  <1>7. CASE CleanDestroy
    BY <1>1, <1>7, DestroyGoes, NoneIsNothing DEF CleanDestroy, unlisted
  <1>8. CASE StopDestroy
    BY <1>1, <1>8, DestroyGoes, NoneIsNothing DEF StopDestroy, unlisted
  <1> QED BY <1>2, <1>5, <1>6, <1>7, <1>8 DEF Clean, Stop

(* Every step is of one of the six kinds.                                  *)
LEMMA StepMoves == TypeInv /\ [Next]_vars => Moves
  <1> SUFFICES ASSUME TypeInv, [Next]_vars PROVE Moves
    OBVIOUS
  <1>1. CASE UNCHANGED vars
    BY <1>1, SameListeners DEF vars, entryVars, sockVars, threadVars, SameEntries,
       Calm, Busy, Moves
  <1> QED BY <1>1, ListenerMoves, SocketMoves, EntryMoves, WorkerMoves DEF Next

-----------------------------------------------------------------------------
(* A listener that waits has no socket.                                    *)
LEMMA RestStep == TypeInv /\ RestInv /\ [Next]_vars => RestInv'
  <1> SUFFICES ASSUME TypeInv, RestInv, [Next]_vars PROVE RestInv'
    OBVIOUS
  <1> USE DEF RestInv
  <1>1. CASE UNCHANGED listener
    BY <1>1
  <1>2. ASSUME NEW f \in Families, ListenerSocketInit(f) \/ ListenAccept(f)
        PROVE RestInv'
    BY <1>2 DEF ListenerSocketInit, SetupListen, ListenerThread, ListenAccept, Rest,
       Quiet, TypeInv, TypeOK, ListenerTypeOK
  <1>3. ASSUME NEW f \in Families, Listen(f) PROVE RestInv'
    <2>1. CASE Rest(f)
      BY <2>1 DEF Rest, Quiet, TypeInv, TypeOK, ListenerTypeOK
    <2>2. ASSUME NEW pc \in {"lookup", "create", "destroy", "add", "arm", "finish"},
                 Goto(f, pc)
          PROVE RestInv'
      BY <2>2 DEF Goto, TypeInv, TypeOK, ListenerTypeOK
    <2>3. CASE ListenLookup(f)
      BY <2>3 DEF ListenLookup, Goto, TypeInv, TypeOK, ListenerTypeOK
    <2> QED BY <1>3, <2>1, <2>2, <2>3 DEF Listen, ListenAdmit, ListenReplace,
            ListenDestroy, ListenCreate, ListenAdd, ListenArm, ListenFinish, Drop
  <1>4. CASE StopJoin
    BY <1>4 DEF StopJoin, Quiet
  <1>5. ASSUME NEW s \in Sockets, TcpClose(s) \/ Callback(s) \/ PeerRelease(s)
        PROVE UNCHANGED listener
    BY <1>5 DEF TcpClose, Callback, CloseCallback, CloseQueue, PeerRelease, threadVars
  <1>6. ASSUME NEW i \in Ids, Touch(i) \/ Authenticate(i) \/ PromoteClaim(i) \/ PromoteFinish(i)
        PROVE UNCHANGED listener
    BY <1>6 DEF Touch, Authenticate, PromoteClaim, PromoteFinish, threadVars
  <1>7. CASE Clean \/ Stop \/ Tick \/ Open \/ Opened \/ OpenFails \/ StopBegin
    <2>1. StopJoin \/ UNCHANGED listener
      BY <1>7 DEF Clean, CleanRun, CleanClaim, CleanDestroy, CleanCheck, CleanArm,
         Stop, StopPeers, StopCancel, StopDrain, StopDestroy, Tick, Open, Opened,
         OpenFails, StopBegin
    <2> QED BY <1>1, <1>4, <2>1
  <1>8. CASE UNCHANGED vars
    BY <1>1, <1>8 DEF vars, threadVars
  <1> QED BY <1>1, <1>2, <1>3, <1>5, <1>6, <1>7, <1>8 DEF Next

(* Initially nobody has a socket.                                          *)
LEMMA OwnerInit == Init => RestInv /\ OwnerInv
  BY DEF Init, Quiet, RestInv, OwnerInv, HandInv, EntryInv, HeldInv, InHand, Busy

(* A socket in use has one holder, and any other none.                     *)
LEMMA OwnersAreSole == TypeInv /\ RestInv /\ OwnerInv => SoleOwner
  <1> SUFFICES ASSUME TypeInv, RestInv, OwnerInv PROVE SoleOwner
    OBVIOUS
  <1> USE DEF OwnerInv
  <1>1. ASSUME NEW f \in Families, NEW s \in Sockets, listener[f].sock = s,
               listener[f].pc \notin {"arm", "finish"}
        PROVE InHand(f)
    BY <1>1, NoneIsNothing
    DEF RestInv, InHand, TypeInv, TypeOK, ListenerTypeOK, ListenerSteps
  <1>2. ASSUME NEW s \in Sockets, sk[s] \in {"free", "promoted"}
        PROVE Cardinality(Holders(s)) = 0
    <2>1. \A i \in Ids : tcp_socket[i] # s
      BY <1>2, NoneIsNothing DEF EntryInv, Busy
    <2>2. \A f \in Families : ~ (listener[f].sock = s /\ listener[f].pc \notin {"arm", "finish"})
      BY <1>1, <1>2 DEF HandInv, Busy
    <2>3. Holders(s) = {}
      BY <2>1, <2>2 DEF Holders
    <2> QED BY <2>3, FS_EmptySet
  <1>3. ASSUME NEW s \in Sockets, sk[s] \notin {"free", "promoted"}
        PROVE Cardinality(Holders(s)) = 1
    <2>1. Busy(s)
      BY <1>3 DEF Busy, TypeInv, TypeOK, SocketTypeOK
    <2>2. ASSUME NEW i \in Ids, tcp_socket[i] = s PROVE Cardinality(Holders(s)) = 1
      <3>1. \A j \in Ids : tcp_socket[j] = s => j = i
        BY <2>2, NoneIsNothing DEF EntryInv
      <3>2. \A f \in Families : ~ (listener[f].sock = s /\ listener[f].pc \notin {"arm", "finish"})
        BY <1>1, <2>2 DEF HandInv
      <3>3. Holders(s) = {<<"entry", i>>}
        BY <2>2, <3>1, <3>2 DEF Holders
      <3>4. Cardinality({<<"entry", i>>}) = 1
        BY FS_Singleton, Zenon
      <3> QED BY <3>3, <3>4
    <2>3. ASSUME NEW f \in Families, InHand(f), listener[f].sock = s
          PROVE Cardinality(Holders(s)) = 1
      <3>1. \A i \in Ids : tcp_socket[i] # s
        BY <2>3 DEF HandInv
      <3>2. \A g \in Families :
              listener[g].sock = s /\ listener[g].pc \notin {"arm", "finish"} => g = f
        BY <1>1, <2>3 DEF HandInv
      <3>3. listener[f].pc \notin {"arm", "finish"}
        BY <2>3 DEF InHand
      <3>4. Holders(s) = {<<"listener", f>>}
        BY <2>3, <3>1, <3>2, <3>3 DEF Holders
      <3>5. Cardinality({<<"listener", f>>}) = 1
        BY FS_Singleton, Zenon
      <3> QED BY <3>4, <3>5
    <2> QED BY <2>1, <2>2, <2>3 DEF HeldInv
  <1>4. \A i \in Ids : tcp_socket[i] # None => (i \in listed) = (owner[i] = None)
    BY DEF EntryInv
  <1> QED BY <1>2, <1>3, <1>4 DEF SoleOwner

(* An accepted socket is held by the listener that accepted it or by one   *)
(* entry, the entry is listed or has one owner, and nobody refers to a     *)
(* socket that was released or promoted, although the listener looks       *)
(* entries up by the address of a socket that may have been used again.    *)
THEOREM SocketsHaveOneOwner == Spec => []SoleOwner
  <1>1. Init => TypeInv /\ RestInv /\ OwnerInv
    BY TypeInit, OwnerInit
  <1>2. TypeInv /\ RestInv /\ OwnerInv /\ [Next]_vars => (TypeInv /\ RestInv /\ OwnerInv)'
    <2> SUFFICES ASSUME TypeInv, RestInv, OwnerInv, [Next]_vars
                 PROVE TypeInv' /\ RestInv' /\ OwnerInv'
      OBVIOUS
    <2>1. OwnerInv'
      BY StepMoves, CalmKeeps, AcceptedKeeps, DroppedKeeps, PublishedKeeps,
         ClaimedKeeps, GoneKeeps DEF Moves
    <2> QED BY <2>1, TypeStep, RestStep
  <1> QED BY <1>1, <1>2, OwnersAreSole, PTL DEF Spec

=============================================================================
