-------------------------- MODULE TcpCarrierOwners --------------------------
(***************************************************************************)
(* Ownership of sockets and of their callbacks in TcpCarrier, for any      *)
(* number of sockets and connections: a socket that is in use belongs to   *)
(* the peer or to one provisional entry, and its callbacks belong to the   *)
(* same owner.  What a thread knows about the socket it works on (`cur')   *)
(* is kept by tcp_socket_lock: nobody else moves a socket meanwhile.       *)
(***************************************************************************)
EXTENDS TcpCarrierProofs

(* An id that was not given out has no entry, and an entry has a socket.   *)
EntryInv ==
  \A i \in Ids : /\ (entry[i] = "none") <=> (entry_sock[i] = None)
                 /\ i > last_id => entry[i] = "none"

(* OneOwner, socket by socket.                                             *)
OwnedInv ==
  /\ \A s \in Sockets : sk[s] # "free" =>
       s = inbound_socket \/ s = outbound_socket \/ \E i \in Ids : entry_sock[i] = s
  /\ inbound_socket # None => sk[inbound_socket] # "free"
  /\ outbound_socket # None => sk[outbound_socket] # "free"
  /\ \A i \in Ids : entry_sock[i] # None =>
       /\ sk[entry_sock[i]] # "free"
       /\ entry_sock[i] # inbound_socket /\ entry_sock[i] # outbound_socket
       /\ \A j \in Ids : entry_sock[j] = entry_sock[i] => j = i

(* CallbackOwner, socket by socket.                                        *)
WrapperInv ==
  \A s \in Sockets :
    /\ cb[s] = "out" => s = outbound_socket
    /\ cb[s] = "in" => s = inbound_socket
    /\ cb[s] = "temp" => \E i \in Ids : entry_sock[i] = s
    /\ cbwork[s] # None => s = inbound_socket \/ s = outbound_socket

(* A dial, and a removal worker, work on the socket that the peer holds.   *)
Dialling == {"setup", "dial", "final", "uw_drain", "uw_release"}
Removing == {"drain", "release"}

HandsInv ==
  /\ \A t \in Callers :
       /\ pc[t] \in Dialling => cur # None /\ outbound_socket = cur
       /\ pc[t] = "uw_claim" => cur = None \/ outbound_socket = cur
  /\ pc["outrem"] \in Removing => cur # None /\ outbound_socket = cur
  /\ pc["inrem"] \in Removing => cur # None /\ inbound_socket = cur

(* Promotion works on the socket of the entry it claimed, which has lost   *)
(* its callbacks, and then on the peer's own.                              *)
Handing == {"detach", "displace", "drain", "release", "transfer"}
Detached == {"displace", "drain", "release", "transfer", "setup", "undo"}

HandoverInv ==
  /\ pc["promo"] \in {"lock", "destroy"} \cup Handing =>
       claim_id \in Ids /\ entry[claim_id] = "claimed"
  /\ pc["promo"] \in Handing => cur = entry_sock[claim_id]
  /\ pc["promo"] \in Detached => cb[cur] = None /\ cbwork[cur] = None
  /\ pc["promo"] \in {"setup", "undo"} => cur # None /\ inbound_socket = cur
  /\ pc["promo"] \in Removing => Displaced # None

OwnersInv == EntryInv /\ OwnedInv /\ WrapperInv /\ HandsInv /\ HandoverInv

-----------------------------------------------------------------------------
(* The kinds of change that steps make to sockets and their callbacks.     *)

Holdings == <<inbound_socket, outbound_socket, entry_sock>>

(* No socket changes hands; a callback may enter or leave its sections.    *)
Kept ==
  /\ UNCHANGED Holdings /\ UNCHANGED cb /\ UNCHANGED last_id
  /\ \A s \in Sockets : (sk'[s] = "free") <=> (sk[s] = "free")
  /\ \A s \in Sockets : cbwork'[s] # None =>
       cbwork[s] # None \/ cb[s] \in {"in", "out"}
  /\ \A i \in Ids : (entry'[i] = "none") <=> (entry[i] = "none")

(* The callbacks of s are replaced: by those of the peer's own side, or by *)
(* none.                                                                   *)
Wrapped(s) ==
  /\ s \in Sockets
  /\ \/ cb' = [cb EXCEPT ![s] = "out"] /\ s = outbound_socket
     \/ cb' = [cb EXCEPT ![s] = "in"] /\ s = inbound_socket
     \/ cb' = [cb EXCEPT ![s] = None]
  /\ UNCHANGED Holdings /\ UNCHANGED <<sk, cbwork, last_id, entry>>

(* wg_tcp_connect() publishes a socket.                                    *)
Opened(s) ==
  /\ s \in Sockets /\ sk[s] = "free" /\ outbound_socket = None
  /\ sk' = [sk EXCEPT ![s] = "new"] /\ outbound_socket' = s
  /\ UNCHANGED <<inbound_socket, entry_sock, cb, cbwork, last_id, entry>>

(* The peer gives up the socket s.                                         *)
Released(s) ==
  /\ s \in Sockets /\ s \in {inbound_socket, outbound_socket}
  /\ cbwork[s] = None
  /\ sk' = [sk EXCEPT ![s] = "free"] /\ cb' = [cb EXCEPT ![s] = None]
  /\ inbound_socket' = IF inbound_socket = s THEN None ELSE inbound_socket
  /\ outbound_socket' = IF outbound_socket = s THEN None ELSE outbound_socket
  /\ UNCHANGED <<entry_sock, cbwork, last_id, entry>>

(* The listener accepts a connection on s.                                 *)
Listed(s) ==
  /\ s \in Sockets /\ sk[s] = "free" /\ last_id + 1 \in Ids
  /\ sk' = [sk EXCEPT ![s] = "estab"] /\ cb' = [cb EXCEPT ![s] = "temp"]
  /\ entry_sock' = [entry_sock EXCEPT ![last_id + 1] = s]
  /\ entry' = [entry EXCEPT ![last_id + 1] = "init"]
  /\ last_id' = last_id + 1
  /\ UNCHANGED <<inbound_socket, outbound_socket, cbwork>>

(* The connections D are destroyed with their sockets.                     *)
Ended(D) ==
  /\ D \subseteq Ids /\ \A i \in D : entry[i] # "none"
  /\ entry' = [i \in Ids |-> IF i \in D THEN "none" ELSE entry[i]]
  /\ entry_sock' = [i \in Ids |-> IF i \in D THEN None ELSE entry_sock[i]]
  /\ \A s \in Sockets : IF \E i \in D : entry_sock[i] = s
                        THEN sk'[s] = "free" /\ cb'[s] = None
                        ELSE sk'[s] = sk[s] /\ cb'[s] = cb[s]
  /\ UNCHANGED <<inbound_socket, outbound_socket, cbwork, last_id>>

(* Promotion hands the socket of connection i to the peer.                 *)
Moved(i) ==
  /\ i \in Ids /\ entry[i] # "none" /\ cb[entry_sock[i]] = None
  /\ inbound_socket = None /\ inbound_socket' = entry_sock[i]
  /\ entry' = [entry EXCEPT ![i] = "none"]
  /\ entry_sock' = [entry_sock EXCEPT ![i] = None]
  /\ UNCHANGED <<outbound_socket, sk, cb, cbwork, last_id>>

Exchanges ==
  \/ Kept
  \/ \E s \in Sockets : Wrapped(s) \/ Opened(s) \/ Released(s) \/ Listed(s)
  \/ \E D \in SUBSET Ids : Ended(D)
  \/ \E i \in Ids : Moved(i)

Types == PointerTypeOK /\ StackTypeOK /\ ListTypeOK
HoldInv == EntryInv /\ OwnedInv /\ WrapperInv

-----------------------------------------------------------------------------
(* Each kind of change keeps one owner for every socket and callback.      *)

LEMMA KeptHolds ==
  ASSUME Types, HoldInv, Kept PROVE HoldInv'
  <1> USE DEF Types, PointerTypeOK, StackTypeOK, ListTypeOK, HoldInv, Kept,
        Holdings, Opt
  <1>1. EntryInv'
    BY DEF EntryInv
  <1>2. OwnedInv'
    BY NoneIsNoSocket DEF OwnedInv
  <1>3. WrapperInv'
    BY DEF WrapperInv
  <1>. QED BY <1>1, <1>2, <1>3

LEMMA WrappedHolds ==
  ASSUME Types, HoldInv, NEW s \in Sockets, Wrapped(s) PROVE HoldInv'
  <1> USE DEF Types, PointerTypeOK, StackTypeOK, ListTypeOK, HoldInv, Wrapped,
        Holdings, Opt
  <1>1. EntryInv'
    BY DEF EntryInv
  <1>2. OwnedInv'
    BY NoneIsNoSocket DEF OwnedInv
  <1>3. WrapperInv'
    BY NoneIsNoSocket, NoneIsNoTag DEF WrapperInv
  <1>. QED BY <1>1, <1>2, <1>3

(* A free socket has no callbacks and no callback running.                 *)
LEMMA FreeIsBare ==
  ASSUME Types, HoldInv, NEW s \in Sockets, sk[s] = "free"
  PROVE  cb[s] = None /\ cbwork[s] = None
  BY NoneIsNoSocket, NoneIsNoTag DEF Types, PointerTypeOK, StackTypeOK, HoldInv, OwnedInv,
     WrapperInv, Opt

LEMMA OpenedHolds ==
  ASSUME Types, HoldInv, NEW s \in Sockets, Opened(s) PROVE HoldInv'
  <1> USE DEF Types, PointerTypeOK, StackTypeOK, ListTypeOK, HoldInv, Opened,
        Opt
  <1>1. EntryInv'
    BY DEF EntryInv
  <1>2. OwnedInv'
    BY NoneIsNoSocket DEF OwnedInv
  <1>3. WrapperInv'
    BY NoneIsNoSocket, NoneIsNoTag DEF WrapperInv
  <1>. QED BY <1>1, <1>2, <1>3

LEMMA ReleasedHolds ==
  ASSUME Types, HoldInv, NEW s \in Sockets, Released(s) PROVE HoldInv'
  <1> USE DEF Types, PointerTypeOK, StackTypeOK, ListTypeOK, HoldInv,
        Released, Opt
  <1>1. EntryInv'
    BY DEF EntryInv
  <1>2. OwnedInv'
    BY NoneIsNoSocket DEF OwnedInv
  <1>3. WrapperInv'
    BY NoneIsNoSocket, NoneIsNoTag DEF WrapperInv, OwnedInv
  <1>. QED BY <1>1, <1>2, <1>3

LEMMA ListedHolds ==
  ASSUME Types, HoldInv, NEW s \in Sockets, Listed(s) PROVE HoldInv'
  <1> USE DEF Types, PointerTypeOK, StackTypeOK, ListTypeOK, HoldInv, Listed,
        Opt
  <1>1. EntryInv'
    BY MaxConnIsNat, NoneIsNoSocket DEF EntryInv, Ids
  <1>2. entry_sock[last_id + 1] = None
    BY MaxConnIsNat DEF EntryInv, Ids
  <1>3. OwnedInv'
    BY <1>2, NoneIsNoSocket DEF OwnedInv
  <1>4. WrapperInv'
    BY <1>2, FreeIsBare, NoneIsNoSocket, NoneIsNoTag DEF WrapperInv
  <1>. QED BY <1>1, <1>3, <1>4

LEMMA EndedHolds ==
  ASSUME Types, HoldInv, NEW D \in SUBSET Ids, Ended(D) PROVE HoldInv'
  <1> USE DEF Types, PointerTypeOK, StackTypeOK, ListTypeOK, HoldInv, Ended,
        Opt
  <1>1. EntryInv'
    BY DEF EntryInv
  <1>2. OwnedInv'
    BY NoneIsNoSocket DEF OwnedInv, EntryInv
  <1>3. WrapperInv'
    BY NoneIsNoSocket, NoneIsNoTag DEF WrapperInv, OwnedInv
  <1>. QED BY <1>1, <1>2, <1>3

LEMMA MovedHolds ==
  ASSUME Types, HoldInv, NEW i \in Ids, Moved(i) PROVE HoldInv'
  <1> USE DEF Types, PointerTypeOK, StackTypeOK, ListTypeOK, HoldInv, Moved,
        Opt
  <1>1. EntryInv'
    BY DEF EntryInv
  <1>2. OwnedInv'
    BY NoneIsNoSocket DEF OwnedInv, EntryInv
  <1>3. WrapperInv'
    BY NoneIsNoSocket, NoneIsNoTag DEF WrapperInv, OwnedInv, EntryInv
  <1>. QED BY <1>1, <1>2, <1>3

(* So does any step that is one of these changes.                          *)
LEMMA ExchangeHolds ==
  ASSUME Types, HoldInv, Exchanges PROVE HoldInv'
  BY KeptHolds, WrappedHolds, OpenedHolds, ReleasedHolds, ListedHolds,
     EndedHolds, MovedHolds, Zenon DEF Exchanges

-----------------------------------------------------------------------------
(* Every step is one of these changes.  The invariants say what a thread   *)
(* knows of the socket it is about to move.                                *)

Knows == TypeInv /\ CarrierInv /\ OwnersInv

(* wg_release_peer_socket_locked() of a socket that the peer holds.        *)
LEMMA ReleaseReleases ==
  ASSUME NEW s \in Sockets, s \in {inbound_socket, outbound_socket},
         cbwork[s] = None, ReleaseSocket(s), UNCHANGED listVars
  PROVE  Exchanges
  <1>1. Released(s)
    BY DEF ReleaseSocket, ForgetSocket, FreeSocket, Released, listVars
  <1>. QED BY <1>1, Zenon DEF Exchanges

(* wg_destroy_tcp_connection_entry() of one connection.                    *)
LEMMA DestroyEnds ==
  ASSUME Types, EntryInv, NEW i \in Ids, entry[i] # "none",
         FreeSocket(entry_sock[i]),
         entry' = [entry EXCEPT ![i] = "none"],
         entry_sock' = [entry_sock EXCEPT ![i] = None],
         UNCHANGED sockVars, UNCHANGED last_id
  PROVE  Exchanges
  <1>1. Ended({i})
    BY NoneIsNoSocket DEF Types, PointerTypeOK, StackTypeOK, ListTypeOK, Opt,
       EntryInv, FreeSocket, Ended, sockVars
  <1>2. {i} \in SUBSET Ids
    OBVIOUS
  <1>. QED BY <1>1, <1>2, Zenon DEF Exchanges

LEMMA ConnectExchanges ==
  ASSUME Knows, NEW t \in Callers, Connect(t) PROVE Exchanges
  <1> USE DEF Knows, TypeInv, TypeOK, OwnersInv
  <1>1. CASE ConnectPublish(t)
    <2>1. PICK s \in Sockets : /\ sk[s] = "free"
                               /\ sk' = [sk EXCEPT ![s] = "new"]
                               /\ peer_socket' = s /\ outbound_socket' = s
                               /\ cur' = s
      BY <1>1 DEF ConnectPublish
    <2>2. Opened(s)
      BY <1>1, <2>1 DEF ConnectPublish, Opened, listVars
    <2>. QED BY <2>2, Zenon DEF Exchanges
  <1>2. CASE ConnectSetup(t)
    <2>1. cur \in Sockets /\ outbound_socket = cur
      BY <1>2 DEF ConnectSetup, At, HandsInv, Dialling, PointerTypeOK, Opt
    <2>2. CASE UNCHANGED cb
      BY <1>2, <2>2 DEF ConnectSetup, Exchanges, Kept, Holdings, sockVars,
         listVars
    <2>3. CASE cb' = [cb EXCEPT ![cur] = "out"]
      <3>1. Wrapped(cur)
        BY <1>2, <2>1, <2>3 DEF ConnectSetup, Wrapped, Holdings, sockVars,
           listVars
      <3>. QED BY <2>1, <3>1, Zenon DEF Exchanges
    <2>. QED BY <1>2, <2>2, <2>3 DEF ConnectSetup
  <1>3. CASE ConnectDial(t)
    <2>1. sk[cur] # "free" /\ cur \in Sockets
      BY <1>3 DEF ConnectDial, At, HandsInv, Dialling, PointerTypeOK, Opt,
         OwnedInv
    <2>. QED BY <1>3, <2>1 DEF ConnectDial, Exchanges, Kept, Holdings,
         sockVars, listVars, StackTypeOK
  <1>4. CASE UnwindRelease(t)
    <2>1. cur \in Sockets /\ outbound_socket = cur
      BY <1>4 DEF UnwindRelease, At, HandsInv, Dialling, PointerTypeOK, Opt
    <2>. QED BY <1>4, <2>1, ReleaseReleases DEF UnwindRelease, CallbacksQuiet
  <1>5. CASE ConnectClaim(t) \/ ConnectCreateFails(t) \/ ConnectFinal(t)
          \/ ConnectFinalFails(t) \/ UnwindClaim(t) \/ UnwindDrain(t)
          \/ UnwindFinal(t) \/ UnwindQueue(t)
    <2>1. UNCHANGED <<sockVars, skVars, listVars>>
      BY <1>5 DEF ConnectClaim, ConnectCreateFails, ConnectFinal,
         ConnectFinalFails, UnwindClaim, UnwindDrain, UnwindFinal, UnwindQueue
    <2>. QED BY <2>1 DEF Exchanges, Kept, Holdings, sockVars, skVars, listVars
  <1>. QED BY <1>1, <1>2, <1>3, <1>4, <1>5 DEF Connect

LEMMA RemoveExchanges ==
  ASSUME Knows, Retry \/ OutRemove \/ InRemove PROVE Exchanges
  <1> USE DEF Knows, TypeInv, TypeOK, OwnersInv
  <1>1. CASE RemoveRelease("outrem")
    <2>1. cur \in Sockets /\ outbound_socket = cur
      BY <1>1 DEF RemoveRelease, At, HandsInv, Removing, PointerTypeOK, Opt
    <2>. QED BY <1>1, <2>1, ReleaseReleases DEF RemoveRelease, CallbacksQuiet
  <1>2. CASE RemoveRelease("inrem")
    <2>1. cur \in Sockets /\ inbound_socket = cur
      BY <1>2 DEF RemoveRelease, At, HandsInv, Removing, PointerTypeOK, Opt
    <2>. QED BY <1>2, <2>1, ReleaseReleases DEF RemoveRelease, CallbacksQuiet
  <1>3. CASE RetryRun \/ Reschedule("retry") \/ Reschedule("outrem")
          \/ OutRemoveRun \/ OutRemoveCancelRetry \/ OutRemoveTake
          \/ RemoveDrain("outrem") \/ OutRemoveFinish \/ OutRemoveReclaim
          \/ InRemoveRun \/ InRemoveTake \/ RemoveDrain("inrem")
          \/ InRemoveFinish
    <2>1. UNCHANGED <<sockVars, skVars, listVars>>
      BY <1>3 DEF RetryRun, Reschedule, OutRemoveRun, OutRemoveCancelRetry,
         OutRemoveTake, RemoveDrain, OutRemoveFinish, OutRemoveReclaim,
         InRemoveRun, InRemoveTake, InRemoveFinish
    <2>. QED BY <2>1 DEF Exchanges, Kept, Holdings, sockVars, skVars, listVars
  <1>. QED BY <1>1, <1>2, <1>3 DEF Retry, OutRemove, InRemove

LEMMA PromoExchanges ==
  ASSUME Knows, Promo PROVE Exchanges
  <1> USE DEF Knows, TypeInv, TypeOK, OwnersInv
  <1>1. CASE PromoClaim
    <2>1. claim_id \in Ids
      BY <1>1 DEF PromoClaim, At, ClaimIdInv
    <2>. QED BY <1>1, <2>1 DEF PromoClaim, Exchanges, Kept, Holdings,
         sockVars, skVars, ListTypeOK
  <1>2. CASE PromoDestroy
    <2>1. claim_id \in Ids /\ entry[claim_id] # "none"
      BY <1>2 DEF PromoDestroy, At, HandoverInv
    <2>. QED BY <1>2, <2>1, DestroyEnds DEF PromoDestroy, Types
  <1>3. CASE PromoDetach
    <2>1. cur \in Sockets
      BY <1>3 DEF PromoDetach, At, HandoverInv, Handing, EntryInv,
         PointerTypeOK, Opt
    <2>2. Wrapped(cur)
      BY <1>3, <2>1 DEF PromoDetach, Wrapped, Holdings, sockVars, listVars
    <2>. QED BY <2>1, <2>2, Zenon DEF Exchanges
  <1>4. CASE PromoRelease
    <2>1. Displaced \in Sockets /\ Displaced \in {inbound_socket, outbound_socket}
      BY <1>4 DEF PromoRelease, At, HandoverInv, Removing, Displaced,
         PointerTypeOK, Opt
    <2>. QED BY <1>4, <2>1, ReleaseReleases DEF PromoRelease, CallbacksQuiet
  <1>5. CASE PromoTransfer
    <2>1. claim_id \in Ids /\ entry[claim_id] # "none"
          /\ cur = entry_sock[claim_id] /\ cb[cur] = None
      BY <1>5 DEF PromoTransfer, At, HandoverInv, Handing, Detached
    <2>2. inbound_socket = None
      BY <1>5 DEF PromoTransfer, CarrierInv, TransferInv
    <2>3. Moved(claim_id)
      BY <1>5, <2>1, <2>2 DEF PromoTransfer, Moved, skVars
    <2>. QED BY <2>1, <2>3, Zenon DEF Exchanges
  <1>6. CASE PromoSetup
    <2>1. cur \in Sockets /\ inbound_socket = cur
      BY <1>6 DEF PromoSetup, At, HandoverInv, PointerTypeOK, Opt
    <2>2. Wrapped(cur)
      BY <1>6, <2>1 DEF PromoSetup, Wrapped, Holdings, sockVars, listVars
    <2>. QED BY <2>1, <2>2, Zenon DEF Exchanges
  <1>7. CASE PromoUndo
    <2>1. cur \in Sockets /\ inbound_socket = cur /\ cbwork[cur] = None
      BY <1>7 DEF PromoUndo, At, HandoverInv, Detached, PointerTypeOK, Opt
    <2>. QED BY <1>7, <2>1, ReleaseReleases DEF PromoUndo
  <1>8. CASE PromoRun \/ PromoNext \/ PromoLock \/ PromoDisplace \/ PromoDrain
          \/ PromoSetupFails
    <2>1. UNCHANGED <<sockVars, skVars, listVars>>
      BY <1>8 DEF PromoRun, PromoNext, PromoLock, PromoDisplace, PromoDrain,
         PromoSetupFails
    <2>. QED BY <2>1 DEF Exchanges, Kept, Holdings, sockVars, skVars, listVars
  <1>. QED BY <1>1, <1>2, <1>3, <1>4, <1>5, <1>6, <1>7, <1>8 DEF Promo

LEMMA ControlExchanges ==
  ASSUME Knows, Stop \/ Control PROVE Exchanges
  <1> USE DEF Knows, TypeInv, TypeOK, OwnersInv
  <1>1. CASE StopRelease
    <2> DEFINE s == IF outbound_socket # None THEN outbound_socket
                                              ELSE inbound_socket
    <2>1. CASE s = None
      BY <1>1, <2>1 DEF StopRelease, Exchanges, Kept, Holdings, sockVars,
         skVars, listVars
    <2>2. CASE s # None
      <3>1. s \in Sockets /\ s \in {inbound_socket, outbound_socket}
        BY <2>2 DEF PointerTypeOK, Opt
      <3>2. cbwork[s] = None /\ ReleaseSocket(s) /\ UNCHANGED listVars
        BY <1>1, <2>2 DEF StopRelease, CallbacksQuiet
      <3> HIDE DEF s
      <3>. QED BY <3>1, <3>2, ReleaseReleases
    <2>. QED BY <2>1, <2>2
  <1>2. CASE CreatePeer
    <2>1. inbound_socket = None /\ outbound_socket = None
      BY <1>2 DEF CreatePeer, At, CarrierInv, StopInv, Stopped
    <2>. QED BY <1>2, <2>1 DEF CreatePeer, Exchanges, Kept, Holdings, skVars
  <1>3. CASE ListDrain
    <2> DEFINE D == {i \in Ids : entry[i] \in {"init", "live"}}
    <2>1. Ended(D)
      BY <1>3 DEF ListDrain, Ended, sockVars
    <2>2. D \in SUBSET Ids
      OBVIOUS
    <2> HIDE DEF D
    <2>. QED BY <2>1, <2>2, Zenon DEF Exchanges
  <1>4. CASE StopGate \/ (\E w \in Works : StopCancel(w)) \/ StopLock
          \/ StopDrain \/ StopDone \/ PeerMakeDead \/ ConfigureEndpoint
          \/ RouteChange \/ StopDevice \/ RemovePeer \/ OpenDevice \/ OpenPeer
          \/ OpenFails
    <2>1. UNCHANGED <<sockVars, skVars, listVars>>
      BY <1>4 DEF StopGate, StopCancel, StopLock, StopDrain, StopDone,
         PeerMakeDead, ConfigureEndpoint, RouteChange, StopDevice, RemovePeer,
         OpenDevice, OpenPeer, OpenFails
    <2>. QED BY <2>1 DEF Exchanges, Kept, Holdings, sockVars, skVars, listVars
  <1>. QED BY <1>1, <1>2, <1>3, <1>4 DEF Stop, Control

LEMMA ListExchanges ==
  ASSUME Knows, Accept \/ \E i \in Ids : Provisional(i) PROVE Exchanges
  <1> USE DEF Knows, TypeInv, TypeOK, OwnersInv
  <1>1. CASE Accept
    <2>1. PICK s \in Sockets :
            /\ sk[s] = "free"
            /\ sk' = [sk EXCEPT ![s] = "estab"]
            /\ cb' = [cb EXCEPT ![s] = "temp"]
            /\ entry_sock' = [entry_sock EXCEPT ![last_id + 1] = s]
      BY <1>1 DEF Accept
    <2>2. last_id + 1 \in Ids
      BY <1>1, MaxConnIsNat DEF Accept, ListTypeOK, Ids
    <2>3. Listed(s)
      BY <1>1, <2>1, <2>2 DEF Accept, Listed, sockVars
    <2>. QED BY <2>3, Zenon DEF Exchanges
  <1>2. ASSUME NEW i \in Ids, Cleanup(i) PROVE Exchanges
    <2>1. entry[i] # "none"
      BY <1>2 DEF Cleanup
    <2>. QED BY <1>2, <2>1, DestroyEnds DEF Cleanup, Types
  <1>3. ASSUME NEW i \in Ids, FinishInit(i) PROVE Exchanges
    BY <1>3 DEF FinishInit, Exchanges, Kept, Holdings, sockVars, skVars,
       ListTypeOK
  <1>4. ASSUME NEW i \in Ids, StateTempClosed(i) \/ AuthPromote(i) \/ AuthRoam(i)
        PROVE  Exchanges
    BY <1>4 DEF StateTempClosed, AuthPromote, AuthRoam, Exchanges, Kept,
       Holdings, sockVars, skVars
  <1>. QED BY <1>1, <1>2, <1>3, <1>4 DEF Provisional

LEMMA StackExchanges ==
  ASSUME Knows,
         \/ StreamWorker \/ SendUnconnected
         \/ \E s \in Sockets : StateChange(s) \/ TcpEstablish(s) \/ TcpClose(s)
  PROVE  Kept
  <1> USE DEF Knows, TypeInv, TypeOK, StackTypeOK, Kept, Holdings, sockVars,
        listVars
  <1>1. CASE StreamWorker \/ SendUnconnected
    BY <1>1 DEF StreamWorker, IoStart, IoEnd, IoFail, SendUnconnected, skVars
  <1>2. ASSUME NEW s \in Sockets, TcpEstablish(s) \/ TcpClose(s) PROVE Kept
    BY <1>2 DEF TcpEstablish, TcpClose
  <1>3. ASSUME NEW s \in Sockets, StateChangeIgnored(s) \/ StateEnter(s)
        PROVE  Kept
    BY <1>3 DEF StateChangeIgnored, StateEnter
  <1>4. ASSUME NEW s \in Sockets,
               \/ StateEstablished(s) \/ StateOutboundClosed(s)
               \/ StateInboundClosed(s) \/ StateQueueRemove(s)
        PROVE  Kept
    BY <1>4, NoneIsNoTag DEF StateEstablished, StateOutboundClosed,
       StateInboundClosed, StateQueueRemove
  <1>. QED BY <1>1, <1>2, <1>3, <1>4 DEF StateChange

LEMMA StepExchanges ==
  ASSUME Knows, [Next]_vars PROVE Exchanges
  <1>1. CASE UNCHANGED vars
    BY <1>1 DEF vars, Exchanges, Kept, Holdings, sockVars, skVars, listVars
  <1>2. Kept => Exchanges
    BY DEF Exchanges
  <1>. QED BY <1>1, <1>2, ConnectExchanges, RemoveExchanges, PromoExchanges,
       ControlExchanges, ListExchanges, StackExchanges DEF Next

-----------------------------------------------------------------------------
(* What a dial and a removal worker know of their socket.                  *)

(* The threads that dial or remove, and where they hold a socket.          *)
Holders == Callers \cup {"inrem"}
HoldingAt == Dialling \cup Removing \cup {"uw_claim"}

(* A step of another thread leaves it alone.                               *)
LEMMA HandsStay ==
  ASSUME HandsInv, UNCHANGED <<sockVars, cur>>,
         \A t \in Holders : pc'[t] = pc[t] \/ pc'[t] \notin HoldingAt
  PROVE  HandsInv'
  BY DEF HandsInv, Holders, HoldingAt, Callers, sockVars, Dialling, Removing

(* The thread t that has the mutex, or takes it, is the only one that      *)
(* holds a socket.                                                         *)
LEMMA HandsAway ==
  ASSUME MutexInv, NEW u \in Threads, mutex \in {u, NoThread},
         \A t \in Holders \ {u} : pc'[t] = pc[t],
         u \in Holders => pc'[u] \notin HoldingAt
  PROVE  HandsInv'
  <1>1. \A t \in Holders : pc'[t] \notin HoldingAt
    BY DEF MutexInv, Holders, HoldingAt, Callers, Threads, Works, Critical,
       Dialling, Removing, NoThread
  <1>. QED BY <1>1 DEF HandsInv, Holders, HoldingAt, Callers

LEMMA HandsConnect ==
  ASSUME Knows, NEW t \in Callers, Connect(t) PROVE HandsInv'
  <1> USE DEF Knows, TypeInv, TypeOK, OwnersInv, CarrierInv
  <1> t \in Threads
    BY DEF Callers, Threads, Works
  <1>1. At(t, "lock") \/ mutex = t
    BY DEF Connect, ConnectClaim, ConnectPublish, ConnectCreateFails,
       ConnectSetup, ConnectDial, ConnectFinal, ConnectFinalFails,
       UnwindClaim, UnwindDrain, UnwindRelease, UnwindFinal, UnwindQueue, At,
       MutexInv, Critical
  <1>2. CASE ConnectClaim(t)
    <2>1. \A u \in Holders : pc'[u] = pc[u] \/ pc'[u] \notin HoldingAt
      BY <1>2 DEF ConnectClaim, AfterConnect, Goto, ThreadTypeOK, Holders,
         HoldingAt, Dialling, Removing, Callers, Threads, Works
    <2>. QED BY <1>2, <2>1, HandsStay DEF ConnectClaim
  <1>3. CASE UnwindRelease(t) \/ UnwindFinal(t) \/ UnwindQueue(t)
          \/ ConnectFinal(t)
    <2>1. mutex = t
      BY <1>1, <1>3 DEF ConnectFinal, UnwindRelease, UnwindFinal, UnwindQueue,
         At
    <2>2. /\ \A u \in Holders \ {t} : pc'[u] = pc[u]
          /\ pc'[t] \notin HoldingAt
      BY <1>3 DEF ConnectFinal, UnwindRelease, UnwindFinal, UnwindQueue,
         AfterConnect, Goto, ThreadTypeOK, Holders, HoldingAt, Dialling,
         Removing, Callers, Threads, Works
    <2>. QED BY <2>1, <2>2, HandsAway
  <1>4. CASE ConnectPublish(t) \/ ConnectCreateFails(t) \/ ConnectSetup(t)
          \/ ConnectDial(t) \/ ConnectFinalFails(t) \/ UnwindClaim(t)
          \/ UnwindDrain(t)
    <2>1. mutex = t
      BY <1>1, <1>4 DEF ConnectPublish, ConnectCreateFails, ConnectSetup,
         ConnectDial, ConnectFinalFails, UnwindClaim, UnwindDrain, At
    <2>2. \A u \in Holders \ {t} : pc[u] \notin HoldingAt
      BY <2>1 DEF MutexInv, Holders, HoldingAt, Callers, Threads, Works,
         Critical, Dialling, Removing
    <2>3. /\ \A u \in Holders \ {t} : pc'[u] = pc[u]
          /\ pc'[t] \in {"setup", "dial", "final", "uw_claim", "uw_drain",
                         "uw_release", "uw_final"}
      BY <1>4 DEF ConnectPublish, ConnectCreateFails, ConnectSetup,
         ConnectDial, ConnectFinalFails, UnwindClaim, UnwindDrain, Goto,
         ThreadTypeOK, Holders, Threads, Works, Callers
    <2>4. /\ pc'[t] \in Dialling => cur' # None /\ outbound_socket' = cur'
          /\ pc'[t] = "uw_claim" => cur' = None \/ outbound_socket' = cur'
      <3>1. CASE ConnectPublish(t)
        BY <3>1, NoneIsNoSocket DEF ConnectPublish, Goto, ThreadTypeOK
      <3>2. CASE ConnectCreateFails(t)
        BY <3>2 DEF ConnectCreateFails, Goto, ThreadTypeOK, Dialling
      <3>3. CASE ConnectSetup(t) \/ ConnectDial(t) \/ ConnectFinalFails(t)
              \/ UnwindDrain(t)
        BY <3>3 DEF ConnectSetup, ConnectDial, ConnectFinalFails, UnwindDrain,
           Goto, At, ThreadTypeOK, Dialling, HandsInv, sockVars
      <3>4. CASE UnwindClaim(t)
        BY <3>4 DEF UnwindClaim, Goto, At, ThreadTypeOK, Dialling, HandsInv,
           sockVars
      <3>. QED BY <1>4, <3>1, <3>2, <3>3, <3>4
    <2>. QED BY <2>2, <2>3, <2>4 DEF HandsInv, Holders, HoldingAt, Callers,
         Dialling, Removing
  <1>. QED BY <1>2, <1>3, <1>4 DEF Connect

LEMMA HandsRemove ==
  ASSUME Knows, Retry \/ OutRemove \/ InRemove PROVE HandsInv'
  <1> USE DEF Knows, TypeInv, TypeOK, OwnersInv, CarrierInv
  <1>1. CASE RetryRun \/ Reschedule("retry") \/ Reschedule("outrem")
          \/ OutRemoveRun \/ OutRemoveCancelRetry \/ OutRemoveReclaim
          \/ InRemoveRun
    <2>1. \A u \in Holders : pc'[u] = pc[u] \/ pc'[u] \notin HoldingAt
      BY <1>1 DEF RetryRun, Reschedule, OutRemoveRun, OutRemoveCancelRetry,
         OutRemoveReclaim, InRemoveRun, Goto, ThreadTypeOK, Holders,
         HoldingAt, Dialling, Removing, Callers, Threads, Works
    <2>. QED BY <1>1, <2>1, HandsStay DEF RetryRun, Reschedule, OutRemoveRun,
         OutRemoveCancelRetry, OutRemoveReclaim, InRemoveRun
  <1>2. ASSUME NEW t \in {"outrem", "inrem"},
               \/ t = "outrem" /\ (OutRemoveFinish \/ RemoveRelease("outrem"))
               \/ t = "inrem" /\ (InRemoveFinish \/ RemoveRelease("inrem"))
        PROVE  HandsInv'
    <2>1. mutex = t /\ t \in Threads
      BY <1>2 DEF OutRemoveFinish, InRemoveFinish, RemoveRelease, At,
         MutexInv, Critical, Threads, Works
    <2>2. /\ \A u \in Holders \ {t} : pc'[u] = pc[u]
          /\ pc'[t] \notin HoldingAt
      BY <1>2 DEF OutRemoveFinish, InRemoveFinish, RemoveRelease, Goto,
         ThreadTypeOK, Holders, HoldingAt, Dialling, Removing, Callers,
         Threads, Works
    <2>. QED BY <2>1, <2>2, HandsAway
  <1>3. ASSUME NEW t \in {"outrem", "inrem"},
               \/ t = "outrem" /\ (OutRemoveTake \/ RemoveDrain("outrem"))
               \/ t = "inrem" /\ (InRemoveTake \/ RemoveDrain("inrem"))
        PROVE  HandsInv'
    <2>1. \A u \in Holders \ {t} : pc[u] \notin HoldingAt
      BY <1>3 DEF OutRemoveTake, InRemoveTake, RemoveDrain, At, Lock,
         NoThread, MutexInv, Holders, HoldingAt, Callers, Threads, Works,
         Critical, Dialling, Removing
    <2>2. /\ \A u \in Holders \ {t} : pc'[u] = pc[u]
          /\ pc'[t] \in Removing \cup {"fin", "fin_stale"}
      BY <1>3 DEF OutRemoveTake, InRemoveTake, RemoveDrain, Goto, Removing,
         ThreadTypeOK, Holders, Threads, Works, Callers
    <2>3. pc'[t] \in Removing =>
            /\ cur' # None
            /\ cur' = IF t = "outrem" THEN outbound_socket' ELSE inbound_socket'
      BY <1>3 DEF OutRemoveTake, InRemoveTake, RemoveDrain, Goto, At,
         ThreadTypeOK, Threads, Works, Removing, HandsInv, sockVars
    <2>. QED BY <2>1, <2>2, <2>3 DEF HandsInv, Holders, HoldingAt, Callers,
         Dialling, Removing
  <1>. QED BY <1>1, <1>2, <1>3 DEF Retry, OutRemove, InRemove

LEMMA HandsPromo ==
  ASSUME Knows, Promo PROVE HandsInv'
  <1> USE DEF Knows, TypeInv, TypeOK, OwnersInv, CarrierInv
  <1>1. \A u \in Holders : pc'[u] = pc[u]
    BY DEF Promo, PromoRun, PromoNext, PromoClaim, PromoLock, PromoDestroy,
       PromoDetach, PromoDisplace, PromoDrain, PromoRelease, PromoTransfer,
       PromoSetup, PromoSetupFails, PromoUndo, Goto, ThreadTypeOK, Holders,
       Callers, Threads, Works
  <1>2. CASE PromoRun \/ PromoNext \/ PromoClaim \/ PromoDestroy
    BY <1>1, <1>2, HandsStay DEF PromoRun, PromoNext, PromoClaim, PromoDestroy
  <1>3. CASE PromoLock \/ PromoDetach \/ PromoDisplace \/ PromoDrain
          \/ PromoRelease \/ PromoTransfer \/ PromoSetup \/ PromoSetupFails
          \/ PromoUndo
    <2>1. mutex \in {"promo", NoThread} /\ "promo" \in Threads
      BY <1>3 DEF PromoLock, PromoDetach, PromoDisplace, PromoDrain,
         PromoRelease, PromoTransfer, PromoSetup, PromoSetupFails, PromoUndo,
         At, MutexInv, Critical, Threads, Works
    <2>2. "promo" \notin Holders
      BY DEF Holders, Callers
    <2>. QED BY <1>1, <2>1, <2>2, HandsAway
  <1>. QED BY <1>2, <1>3 DEF Promo

LEMMA HandsControl ==
  ASSUME Knows, Stop \/ Control PROVE HandsInv'
  <1> USE DEF Knows, TypeInv, TypeOK, OwnersInv, CarrierInv
  <1>1. CASE StopRelease \/ CreatePeer
    <2>1. mutex \in {"ctl", NoThread} /\ "ctl" \in Threads
      BY <1>1 DEF StopRelease, CreatePeer, At, MutexInv, Critical, Threads,
         StopInv, Stopped
    <2>2. /\ \A u \in Holders \ {"ctl"} : pc'[u] = pc[u]
          /\ pc'["ctl"] \notin HoldingAt
      BY <1>1 DEF StopRelease, CreatePeer, At, Goto, ThreadTypeOK, Holders,
         HoldingAt, Dialling, Removing, Callers, Threads, Works
    <2>. QED BY <2>1, <2>2, HandsAway
  <1>2. CASE StopGate \/ (\E w \in Works : StopCancel(w)) \/ StopLock
          \/ StopDrain \/ StopDone \/ PeerMakeDead \/ ListDrain
    <2>1. \A u \in Holders : pc'[u] = pc[u] \/ pc'[u] \notin HoldingAt
      BY <1>2 DEF StopGate, StopCancel, CancelNext, StopLock, StopDrain,
         StopDone, PeerMakeDead, ListDrain, Goto, ThreadTypeOK, Holders,
         HoldingAt, Dialling, Removing, Callers, Threads, Works
    <2>. QED BY <1>2, <2>1, HandsStay DEF StopGate, StopCancel, StopLock,
         StopDrain, StopDone, PeerMakeDead, ListDrain
  <1>3. CASE ConfigureEndpoint \/ RouteChange \/ StopDevice \/ RemovePeer
          \/ OpenDevice \/ OpenPeer \/ OpenFails
    <2>1. \A u \in Holders : pc'[u] = pc[u] \/ pc'[u] \notin HoldingAt
      BY <1>3 DEF ConfigureEndpoint, RouteChange, StopDevice, RemovePeer,
         OpenDevice, OpenPeer, OpenFails, Goto, ThreadTypeOK, Holders,
         HoldingAt, Dialling, Removing, Callers, Threads, Works
    <2>. QED BY <1>3, <2>1, HandsStay DEF ConfigureEndpoint, RouteChange,
         StopDevice, RemovePeer, OpenDevice, OpenPeer, OpenFails
  <1>. QED BY <1>1, <1>2, <1>3 DEF Stop, Control

(* The steps of the stack, the stream workers and the list.                *)
Outside ==
  \/ StreamWorker \/ SendUnconnected \/ Accept
  \/ \E s \in Sockets : StateChange(s) \/ TcpEstablish(s) \/ TcpClose(s)
  \/ \E i \in Ids : Provisional(i)

(* They move no thread and leave the peer's sockets alone.                 *)
LEMMA OutsideStays ==
  ASSUME Outside PROVE UNCHANGED <<sockVars, pc, mutex, cur, claim_id>>
  <1>1. CASE StreamWorker \/ SendUnconnected \/ Accept
    BY <1>1 DEF StreamWorker, IoStart, IoEnd, IoFail, SendUnconnected, Accept,
       thrVars, roamVars
  <1>2. ASSUME NEW s \in Sockets,
               StateChange(s) \/ TcpEstablish(s) \/ TcpClose(s)
        PROVE  UNCHANGED <<sockVars, pc, mutex, cur, claim_id>>
    BY <1>2 DEF StateChange, StateChangeIgnored, StateEnter, StateEstablished,
       StateOutboundClosed, StateInboundClosed, StateQueueRemove,
       TcpEstablish, TcpClose, thrVars, roamVars
  <1>3. ASSUME NEW i \in Ids, Provisional(i)
        PROVE  UNCHANGED <<sockVars, pc, mutex, cur, claim_id>>
    BY <1>3 DEF Provisional, StateTempClosed, FinishInit, Cleanup,
       AuthPromote, AuthRoam, thrVars, roamVars
  <1>. QED BY <1>1, <1>2, <1>3 DEF Outside

LEMMA HandsStep ==
  ASSUME Knows, [Next]_vars PROVE HandsInv'
  <1>1. CASE UNCHANGED vars \/ Outside
    BY <1>1, HandsStay, OutsideStays DEF vars, thrVars, Knows, OwnersInv
  <1>. QED BY <1>1, HandsConnect, HandsRemove, HandsPromo, HandsControl
       DEF Next, Outside

-----------------------------------------------------------------------------
(* What promotion knows of the connection it claimed and of its socket.    *)

(* From the detach to the end it works on a socket in use.                 *)
LEMMA HandoverSocket ==
  ASSUME Knows, pc["promo"] \in Handing \cup Detached
  PROVE  cur \in Sockets /\ sk[cur] # "free"
  BY DEF Knows, TypeInv, TypeOK, PointerTypeOK, Opt, OwnersInv, HandoverInv,
     EntryInv, OwnedInv, Handing, Detached, Removing

(* Nobody else touches a claimed connection, or puts callbacks on a socket *)
(* in use that has none.                                                   *)
LEMMA HandoverStays ==
  ASSUME Knows, pc'["promo"] = pc["promo"],
         UNCHANGED <<sockVars, cur, claim_id>>,
         \A i \in Ids : entry[i] = "claimed" =>
           entry'[i] = "claimed" /\ entry_sock'[i] = entry_sock[i],
         \A s \in Sockets : sk[s] # "free" /\ cb[s] = None => cb'[s] = None,
         \A s \in Sockets : cb[s] = None /\ cbwork[s] = None => cbwork'[s] = None
  PROVE  HandoverInv'
  <1>1. HandoverInv
    BY DEF Knows, OwnersInv
  <1>2. pc["promo"] \in Detached => cb'[cur] = None /\ cbwork'[cur] = None
    BY <1>1, HandoverSocket DEF HandoverInv
  <1>. QED BY <1>1, <1>2 DEF HandoverInv, sockVars, Displaced, Handing

(* Promotion holds no socket while it does not have the mutex.             *)
LEMMA HandoverAway ==
  ASSUME Knows, mutex # "promo", pc'["promo"] = pc["promo"],
         UNCHANGED <<claim_id, entry>>
  PROVE  HandoverInv'
  <1>1. pc["promo"] \notin Handing \cup Detached \cup Removing
    BY DEF Knows, CarrierInv, MutexInv, Critical, Threads, Works, Handing,
       Detached, Removing
  <1>. QED BY <1>1 DEF Knows, OwnersInv, HandoverInv, Handing, Detached,
       Removing

LEMMA HandoverConnect ==
  ASSUME Knows, NEW t \in Callers, Connect(t) PROVE HandoverInv'
  <1> USE DEF Knows, TypeInv, TypeOK, CarrierInv, Connect, ConnectClaim,
        ConnectPublish, ConnectCreateFails, ConnectSetup, ConnectDial,
        ConnectFinal, ConnectFinalFails, UnwindClaim, UnwindDrain,
        UnwindRelease, UnwindFinal, UnwindQueue
  <1>1. mutex # "promo"
    BY DEF At, MutexInv, Critical, Callers, Threads, Works, NoThread
  <1>2. pc'["promo"] = pc["promo"]
    BY DEF Goto, ThreadTypeOK, Callers, Threads, Works
  <1>3. UNCHANGED <<claim_id, entry>>
    BY DEF listVars, roamVars
  <1>. QED BY <1>1, <1>2, <1>3, HandoverAway

LEMMA HandoverRemove ==
  ASSUME Knows, Retry \/ OutRemove \/ InRemove PROVE HandoverInv'
  <1> USE DEF Knows, TypeInv, TypeOK, CarrierInv, Retry, OutRemove, InRemove,
        RetryRun, Reschedule, OutRemoveRun, OutRemoveCancelRetry,
        OutRemoveTake, RemoveDrain, RemoveRelease, OutRemoveFinish,
        OutRemoveReclaim, InRemoveRun, InRemoveTake, InRemoveFinish
  <1>1. pc'["promo"] = pc["promo"]
    BY DEF Goto, ThreadTypeOK, Threads, Works
  <1>2. UNCHANGED <<claim_id, entry, entry_sock>>
    BY DEF listVars, roamVars
  <1>3. mutex # "promo" \/ UNCHANGED <<sockVars, skVars, cur>>
    BY DEF At, Lock, MutexInv, Critical, Threads, Works, NoThread
  <1>. QED BY <1>1, <1>2, <1>3, HandoverAway, HandoverStays DEF skVars

LEMMA HandoverControl ==
  ASSUME Knows, Stop \/ Control PROVE HandoverInv'
  <1> USE DEF Knows, TypeInv, TypeOK, CarrierInv
  <1>1. CASE StopRelease \/ CreatePeer
    <2>1. mutex # "promo"
      BY <1>1 DEF StopRelease, CreatePeer, At, MutexInv, Critical, Threads,
         StopInv, Stopped, NoThread
    <2>2. pc'["promo"] = pc["promo"] /\ UNCHANGED <<claim_id, entry>>
      BY <1>1 DEF StopRelease, CreatePeer, Goto, ThreadTypeOK, Threads, Works,
         listVars
    <2>. QED BY <2>1, <2>2, HandoverAway
  <1>2. CASE ListDrain
    <2>1. pc'["promo"] = pc["promo"] /\ UNCHANGED <<sockVars, cur, claim_id, cbwork>>
      BY <1>2 DEF ListDrain, Goto, ThreadTypeOK, Threads, Works, roamVars
    <2>2. \A i \in Ids : entry[i] = "claimed" =>
            entry'[i] = "claimed" /\ entry_sock'[i] = entry_sock[i]
      BY <1>2 DEF ListDrain
    <2>3. \A s \in Sockets : cb[s] = None => cb'[s] = None
      BY <1>2 DEF ListDrain
    <2>. QED BY <2>1, <2>2, <2>3, HandoverStays
  <1>3. CASE StopGate \/ (\E w \in Works : StopCancel(w)) \/ StopLock
          \/ StopDrain \/ StopDone \/ PeerMakeDead \/ ConfigureEndpoint
          \/ RouteChange \/ StopDevice \/ RemovePeer \/ OpenDevice \/ OpenPeer
          \/ OpenFails
    <2>1. UNCHANGED <<sockVars, skVars, listVars, cur, roamVars>>
      BY <1>3 DEF StopGate, StopCancel, StopLock, StopDrain, StopDone,
         PeerMakeDead, ConfigureEndpoint, RouteChange, StopDevice, RemovePeer,
         OpenDevice, OpenPeer, OpenFails
    <2>2. pc'["promo"] = pc["promo"]
      BY <1>3 DEF StopGate, StopCancel, StopLock, StopDrain, StopDone,
         PeerMakeDead, ConfigureEndpoint, RouteChange, StopDevice, RemovePeer,
         OpenDevice, OpenPeer, OpenFails, Goto, ThreadTypeOK, Threads, Works
    <2>. QED BY <2>1, <2>2, HandoverStays DEF skVars, listVars, roamVars
  <1>. QED BY <1>1, <1>2, <1>3 DEF Stop, Control

LEMMA HandoverOutside ==
  ASSUME Knows, Outside PROVE HandoverInv'
  <1> USE DEF Knows, TypeInv, TypeOK
  <1>1. UNCHANGED <<sockVars, pc, cur, claim_id>>
    BY OutsideStays
  <1>2. CASE \/ StreamWorker \/ SendUnconnected
             \/ \E s \in Sockets : StateChange(s) \/ TcpEstablish(s) \/ TcpClose(s)
    <2>1. Kept
      BY <1>2, StackExchanges
    <2>2. UNCHANGED entry
      BY <1>2 DEF StreamWorker, IoStart, IoEnd, IoFail, SendUnconnected,
         StateChange, StateChangeIgnored, StateEnter, StateEstablished,
         StateOutboundClosed, StateInboundClosed, StateQueueRemove,
         TcpEstablish, TcpClose, listVars
    <2>. QED BY <1>1, <2>1, <2>2, NoneIsNoTag, HandoverStays DEF Kept, Holdings
  <1>3. CASE Accept
    <2>1. UNCHANGED cbwork
          /\ \A s \in Sockets : sk[s] # "free" => cb'[s] = cb[s]
      BY <1>3 DEF Accept, StackTypeOK
    <2>2. \A i \in Ids : entry[i] = "claimed" =>
            entry'[i] = "claimed" /\ entry_sock'[i] = entry_sock[i]
      BY <1>3, MaxConnIsNat DEF Accept, ListTypeOK, PointerTypeOK, OwnersInv,
         EntryInv, Ids
    <2>. QED BY <1>1, <2>1, <2>2, HandoverStays
  <1>4. ASSUME NEW i \in Ids, Provisional(i) PROVE HandoverInv'
    <2>1. UNCHANGED cbwork /\ \A s \in Sockets : cb[s] = None => cb'[s] = None
      BY <1>4 DEF Provisional, StateTempClosed, FinishInit, Cleanup,
         AuthPromote, AuthRoam, FreeSocket, skVars, StackTypeOK
    <2>2. \A j \in Ids : entry[j] = "claimed" =>
            entry'[j] = "claimed" /\ entry_sock'[j] = entry_sock[j]
      BY <1>4 DEF Provisional, StateTempClosed, FinishInit, Cleanup,
         AuthPromote, AuthRoam, ListTypeOK, PointerTypeOK
    <2>. QED BY <1>1, <2>1, <2>2, HandoverStays
  <1>. QED BY <1>2, <1>3, <1>4 DEF Outside

LEMMA HandoverPromo ==
  ASSUME Knows, Promo PROVE HandoverInv'
  <1> USE DEF Knows, TypeInv, TypeOK, OwnersInv, ThreadTypeOK, Threads, Works,
        At, Goto
  <1>1. CASE PromoRun \/ PromoNext \/ PromoDestroy \/ PromoSetup \/ PromoUndo
    <2>1. pc'["promo"] \in {"idle", "next", "claim"}
      BY <1>1 DEF PromoRun, PromoNext, PromoDestroy, PromoSetup, PromoUndo
    <2>. QED BY <2>1 DEF HandoverInv, Handing, Detached, Removing
  <1>2. CASE PromoClaim
    BY <1>2 DEF PromoClaim, ClaimIdInv, ListTypeOK, HandoverInv, Handing,
       Detached, Removing, roamVars
  <1>3. CASE PromoLock
    BY <1>3 DEF PromoLock, HandoverInv, Handing, Detached, Removing, listVars
  <1>4. CASE PromoDetach
    <2>1. cur \in Sockets
      BY <1>4, HandoverSocket DEF PromoDetach, Handing
    <2>. QED BY <1>4, <2>1 DEF PromoDetach, CallbacksQuiet, StackTypeOK,
         HandoverInv, Handing, Detached, Removing, listVars, roamVars
  <1>5. CASE PromoDisplace
    BY <1>5 DEF PromoDisplace, HandoverInv, Handing, Detached, Removing,
       Displaced, sockVars, skVars, listVars, roamVars
  <1>6. CASE PromoDrain
    BY <1>6 DEF PromoDrain, HandoverInv, Handing, Detached, Removing,
       Displaced, sockVars, skVars, listVars, roamVars
  <1>7. CASE PromoRelease
    <2>1. pc'["promo"] = "transfer"
      BY <1>7 DEF PromoRelease, CarrierInv, SingleCarrier
    <2>2. cb'[cur] = None /\ cbwork'[cur] = None
      BY <1>7, HandoverSocket DEF PromoRelease, ReleaseSocket, FreeSocket,
         StackTypeOK, HandoverInv, Detached
    <2>. QED BY <1>7, <2>1, <2>2 DEF PromoRelease, HandoverInv, Handing,
         Detached, Removing, listVars
  <1>8. CASE PromoTransfer
    <2>1. cur \in Sockets
      BY <1>8, HandoverSocket DEF PromoTransfer, Handing
    <2>. QED BY <1>8, <2>1, NoneIsNoSocket DEF PromoTransfer, HandoverInv,
         Handing, Detached, Removing, skVars
  <1>9. CASE PromoSetupFails
    BY <1>9 DEF PromoSetupFails, HandoverInv, Handing, Detached, Removing,
       sockVars, skVars, listVars, roamVars
  <1>. QED BY <1>1, <1>2, <1>3, <1>4, <1>5, <1>6, <1>7, <1>8, <1>9 DEF Promo

LEMMA HandoverStep ==
  ASSUME Knows, [Next]_vars PROVE HandoverInv'
  <1>1. CASE UNCHANGED vars
    BY <1>1, HandoverStays DEF vars, sockVars, skVars, thrVars, listVars,
       roamVars
  <1>. QED BY <1>1, HandoverConnect, HandoverRemove, HandoverPromo,
       HandoverControl, HandoverOutside DEF Next, Outside

-----------------------------------------------------------------------------
(* Initially no socket is in use.                                          *)
LEMMA OwnersInit == Init => OwnersInv
  <1> SUFFICES ASSUME Init PROVE OwnersInv
    OBVIOUS
  <1> USE DEF Init, NewPeer
  <1>1. EntryInv /\ OwnedInv
    BY DEF EntryInv, OwnedInv
  <1>2. WrapperInv
    BY NoneIsNoTag DEF WrapperInv
  <1>3. HandsInv /\ HandoverInv
    BY DEF HandsInv, HandoverInv, Threads, Works, Callers, Dialling, Removing,
       Handing, Detached
  <1>. QED BY <1>1, <1>2, <1>3 DEF OwnersInv

(* A step keeps what every thread knows about the sockets.                 *)
LEMMA OwnersStep == Knows /\ [Next]_vars => OwnersInv'
  <1> SUFFICES ASSUME Knows, [Next]_vars PROVE OwnersInv'
    OBVIOUS
  <1>1. Types /\ HoldInv
    BY DEF Knows, TypeInv, TypeOK, OwnersInv, Types, HoldInv
  <1>2. HoldInv'
    BY <1>1, StepExchanges, ExchangeHolds
  <1>. QED BY <1>2, HandsStep, HandoverStep DEF HoldInv, OwnersInv

LEMMA OwnersKnown == Spec => []OwnersInv
  <1>1. TypeInv /\ [Next]_vars => TypeInv'
    BY DeviceTypeStep, ConnTypeStep, ClaimTypeStep, StackTypeStep,
       PointerTypeStep, ThreadTypeStep, ListTypeStep, ClaimIdStep
       DEF TypeInv, TypeOK
  <1>2. TypeInv /\ CarrierInv /\ OwnersInv /\ [Next]_vars => OwnersInv'
    BY OwnersStep DEF Knows
  <1>. QED BY TypeInit, CarrierCorrect, OwnersInit, <1>1, <1>2, PTL DEF Spec

(* Every socket in use belongs to the peer or to exactly one provisional   *)
(* entry: neither wg_tcp_connect() and its unwind, nor the removal workers,*)
(* nor promotion, nor wg_tcp_peer_stop() leaks a socket or leaves two      *)
(* owners that would both release it.                                      *)
THEOREM CarrierSocketsOwned == Spec => []OneOwner
  <1>1. TypeOK /\ OwnersInv => OneOwner
    <2> SUFFICES ASSUME TypeOK, OwnersInv PROVE OneOwner
      OBVIOUS
    <2> USE NoneIsNoSocket DEF TypeOK, PointerTypeOK, StackTypeOK, Opt,
          OwnersInv, OwnedInv, Provisioned
    <2>1. {s \in Sockets : sk[s] # "free"}
            = Provisioned \cup ({inbound_socket, outbound_socket} \ {None})
      OBVIOUS
    <2>2. {inbound_socket, outbound_socket} \cap Provisioned = {}
      OBVIOUS
    <2>3. \A i, j \in Ids : entry_sock[i] = entry_sock[j] /\ entry_sock[i] # None
                              => i = j
      OBVIOUS
    <2>. QED BY <2>1, <2>2, <2>3 DEF OneOwner
  <1>. QED BY TypeCorrect, OwnersKnown, <1>1, PTL

(* wg_tcp_state_change() never runs for an owner that no longer holds the  *)
(* socket: callbacks are detached behind the callback-lock barrier before  *)
(* a socket changes hands or is released, PromoUndo included, which does   *)
(* not wait for them because none can be left.                             *)
THEOREM CallbacksFindOwner == Spec => []CallbackOwner
  <1>1. TypeOK /\ OwnersInv => CallbackOwner
    BY NoneIsNoSocket DEF TypeOK, PointerTypeOK, OwnersInv, WrapperInv,
       CallbackOwner, Provisioned
  <1>. QED BY TypeCorrect, OwnersKnown, <1>1, PTL

=============================================================================
