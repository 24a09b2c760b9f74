-------------------------- MODULE TcpCarrierProofs --------------------------
(***************************************************************************)
(* Safety of TcpCarrier, for any set of sockets, any bound on accepted     *)
(* connections and any choice of outside events: the peer has one carrier, *)
(* the active socket is drained before it is given up, and a stopped peer  *)
(* is quiescent.  All three follow from the inductive invariant CarrierInv,*)
(* whose parts have one lemma each.                                        *)
(***************************************************************************)
EXTENDS TcpCarrierTypes

(* A thread is inside tcp_socket_lock only as its holder.                  *)
LEMMA MutexStep ==
  ThreadTypeOK /\ MutexInv /\ [Next]_vars => MutexInv'
  <1> SUFFICES ASSUME ThreadTypeOK, MutexInv, [Next]_vars
               PROVE MutexInv'
    OBVIOUS
  <1> USE DEF ThreadTypeOK, Works, Threads, Callers, NoThread, At, Goto,
        MutexInv, Critical, thrVars
  <1>1. ASSUME NEW t \in Callers, Connect(t) PROVE MutexInv'
    <2>1. CASE ConnectClaim(t)
      BY <2>1 DEF ConnectClaim, AfterConnect
    <2>2. CASE ConnectPublish(t)
      BY <2>2 DEF ConnectPublish
    <2>3. CASE ConnectCreateFails(t)
      BY <2>3 DEF ConnectCreateFails
    <2>4. CASE ConnectSetup(t)
      BY <2>4 DEF ConnectSetup
    <2>5. CASE ConnectDial(t)
      BY <2>5 DEF ConnectDial
    <2>6. CASE ConnectFinal(t)
      BY <2>6 DEF ConnectFinal, AfterConnect, Unlock
    <2>7. CASE ConnectFinalFails(t)
      BY <2>7 DEF ConnectFinalFails
    <2>8. CASE UnwindClaim(t)
      BY <2>8 DEF UnwindClaim
    <2>9. CASE UnwindDrain(t)
      BY <2>9 DEF UnwindDrain, StreamDrained
    <2>10. CASE UnwindRelease(t)
      BY <2>10 DEF UnwindRelease
    <2>11. CASE UnwindFinal(t)
      BY <2>11 DEF UnwindFinal, AfterConnect, Unlock
    <2>12. CASE UnwindQueue(t)
      BY <2>12 DEF UnwindQueue, AfterConnect, Unlock, Queue
    <2>. QED BY <1>1, <2>1, <2>2, <2>3, <2>4, <2>5, <2>6, <2>7, <2>8, <2>9,
        <2>10, <2>11, <2>12 DEF
        Connect
  <1>2. CASE Retry
    BY <1>2 DEF Retry, RetryRun, Reschedule, Queue
  <1>3. CASE OutRemove
    <2>1. CASE OutRemoveRun
      BY <2>1 DEF OutRemoveRun
    <2>2. CASE OutRemoveCancelRetry
      BY <2>2 DEF OutRemoveCancelRetry, Cancelled
    <2>3. CASE OutRemoveTake
      BY <2>3 DEF OutRemoveTake, Lock
    <2>4. CASE RemoveDrain("outrem")
      BY <2>4 DEF RemoveDrain, StreamDrained
    <2>5. CASE RemoveRelease("outrem")
      BY <2>5 DEF RemoveRelease
    <2>6. CASE OutRemoveFinish
      BY <2>6 DEF OutRemoveFinish, Unlock
    <2>7. CASE OutRemoveReclaim
      BY <2>7 DEF OutRemoveReclaim, RequestReconnect, ClaimOutbound, Queue
    <2>8. CASE Reschedule("outrem")
      BY <2>8 DEF Reschedule, Queue
    <2>. QED BY <1>3, <2>1, <2>2, <2>3, <2>4, <2>5, <2>6, <2>7, <2>8 DEF
        OutRemove
  <1>4. CASE InRemove
    <2>1. CASE InRemoveRun
      BY <2>1 DEF InRemoveRun
    <2>2. CASE InRemoveTake
      BY <2>2 DEF InRemoveTake, Lock
    <2>3. CASE RemoveDrain("inrem")
      BY <2>3 DEF RemoveDrain, StreamDrained
    <2>4. CASE RemoveRelease("inrem")
      BY <2>4 DEF RemoveRelease
    <2>5. CASE InRemoveFinish
      BY <2>5 DEF InRemoveFinish, Unlock
    <2>. QED BY <1>4, <2>1, <2>2, <2>3, <2>4, <2>5 DEF InRemove
  <1>5. CASE Promo
    <2>1. CASE PromoRun
      BY <2>1 DEF PromoRun
    <2>2. CASE PromoNext
      BY <2>2 DEF PromoNext
    <2>3. CASE PromoClaim
      BY <2>3 DEF PromoClaim, Outdated
    <2>4. CASE PromoLock
      BY <2>4 DEF PromoLock, Outdated
    <2>5. CASE PromoDestroy
      BY <2>5 DEF PromoDestroy
    <2>6. CASE PromoDetach
      BY <2>6 DEF PromoDetach
    <2>7. CASE PromoDisplace
      BY <2>7 DEF PromoDisplace
    <2>8. CASE PromoDrain
      BY <2>8 DEF PromoDrain, StreamDrained
    <2>9. CASE PromoRelease
      BY <2>9 DEF PromoRelease, Displaced
    <2>10. CASE PromoTransfer
      BY <2>10 DEF PromoTransfer
    <2>11. CASE PromoSetup
      BY <2>11 DEF PromoSetup, Unlock
    <2>12. CASE PromoSetupFails
      BY <2>12 DEF PromoSetupFails
    <2>13. CASE PromoUndo
      BY <2>13 DEF PromoUndo, Unlock
    <2>. QED BY <1>5, <2>1, <2>2, <2>3, <2>4, <2>5, <2>6, <2>7, <2>8, <2>9,
        <2>10, <2>11, <2>12, <2>13 DEF
        Promo
  <1>6. CASE Stop
    <2>1. CASE StopGate
      BY <2>1 DEF StopGate, ClaimBoth
    <2>2. ASSUME NEW w \in Works, StopCancel(w) PROVE MutexInv'
      BY <2>2 DEF StopCancel, Cancelled, CancelNext
    <2>3. CASE StopLock
      BY <2>3 DEF StopLock, Lock, ClaimBoth
    <2>4. CASE StopDrain
      BY <2>4 DEF StopDrain, StreamDrained
    <2>5. CASE StopRelease
      BY <2>5 DEF StopRelease, Unlock
    <2>6. CASE StopDone
      BY <2>6 DEF StopDone
    <2>7. CASE PeerMakeDead
      BY <2>7 DEF PeerMakeDead
    <2>8. CASE ListDrain
      BY <2>8 DEF ListDrain
    <2>. QED BY <1>6, <2>1, <2>2, <2>3, <2>4, <2>5, <2>6, <2>7, <2>8 DEF Stop
  <1>7. CASE Control
    BY <1>7 DEF Control, ConfigureEndpoint, RequestReconnect, ClaimOutbound,
        Queue, RouteChange, StopDevice, RemovePeer, CreatePeer, OpenDevice,
        OpenPeer, OpenFails
  <1>8. CASE StreamWorker
    BY <1>8 DEF StreamWorker, IoStart, StreamOpen, Alive, IoEnd, IoFail,
        ClaimOutbound, Queue
  <1>9. CASE SendUnconnected
    BY <1>9 DEF SendUnconnected, StreamOpen, Queue
  <1>10. CASE Accept
    BY <1>10 DEF Accept
  <1>11. ASSUME NEW s \in Sockets, StateChange(s) PROVE MutexInv'
    BY <1>11 DEF StateChange, StateChangeIgnored, StateEnter,
        StateEstablished, StateOutboundClosed, StateInboundClosed,
        StateQueueRemove, ClaimStands, Queue
  <1>12. ASSUME NEW s \in Sockets, TcpEstablish(s) PROVE MutexInv'
    BY <1>12 DEF TcpEstablish, Idle
  <1>13. ASSUME NEW s \in Sockets, TcpClose(s) PROVE MutexInv'
    BY <1>13 DEF TcpClose, Idle
  <1>14. ASSUME NEW i \in Ids, Provisional(i) PROVE MutexInv'
    BY <1>14 DEF Provisional, StateTempClosed, FinishInit, Cleanup,
        AuthPromote, AuthRoam, Outdated, RequestReconnect, ClaimOutbound,
        Queue
  <1>15. CASE UNCHANGED vars
    BY <1>15 DEF vars, devVars, sockVars, connVars, claimVars, retryVars,
        skVars, thrVars, listVars, roamVars
  <1>. QED BY <1>1, <1>2, <1>3, <1>4, <1>5, <1>6, <1>7, <1>8, <1>9, <1>10,
        <1>11, <1>12, <1>13, <1>14, <1>15 DEF Next

(* A claim on a socket and its flag are set and cleared together.          *)
LEMMA ClaimStep ==
  ThreadTypeOK /\ ClaimInv /\ [Next]_vars => ClaimInv'
  <1> SUFFICES ASSUME ThreadTypeOK, ClaimInv, [Next]_vars
               PROVE ClaimInv'
    OBVIOUS
  <1> USE DEF ClaimInv, claimVars
  <1>1. ASSUME NEW t \in Callers, Connect(t) PROVE ClaimInv'
    BY <1>1 DEF Connect, ConnectClaim, AfterConnect, ConnectPublish,
        ConnectCreateFails, ConnectSetup, ConnectDial, ConnectFinal,
        ConnectFinalFails, UnwindClaim, UnwindDrain, UnwindRelease,
        UnwindFinal, UnwindQueue
  <1>2. CASE Retry
    BY <1>2 DEF Retry, RetryRun, Reschedule
  <1>3. CASE OutRemove
    BY <1>3 DEF OutRemove, OutRemoveRun, OutRemoveCancelRetry, OutRemoveTake,
        RemoveDrain, RemoveRelease, OutRemoveFinish, OutRemoveReclaim,
        RequestReconnect, ClaimOutbound, Reschedule
  <1>4. CASE InRemove
    BY <1>4 DEF InRemove, InRemoveRun, InRemoveTake, RemoveDrain,
        RemoveRelease, InRemoveFinish
  <1>5. CASE Promo
    BY <1>5 DEF Promo, PromoRun, PromoNext, PromoClaim, Outdated, PromoLock,
        PromoDestroy, PromoDetach, PromoDisplace, PromoDrain, PromoRelease,
        Displaced, PromoTransfer, PromoSetup, PromoSetupFails, PromoUndo
  <1>6. CASE Stop
    BY <1>6 DEF Stop, StopGate, ClaimBoth, StopCancel, StopLock, StopDrain,
        StopRelease, StopDone, PeerMakeDead, ListDrain
  <1>7. CASE Control
    BY <1>7 DEF Control, ConfigureEndpoint, RequestReconnect, ClaimOutbound,
        RouteChange, StopDevice, RemovePeer, CreatePeer, OpenDevice, OpenPeer,
        OpenFails
  <1>8. CASE StreamWorker
    BY <1>8 DEF StreamWorker, IoStart, Alive, IoEnd, IoFail, ClaimOutbound
  <1>9. CASE SendUnconnected
    BY <1>9 DEF SendUnconnected
  <1>10. CASE Accept
    BY <1>10 DEF Accept
  <1>11. ASSUME NEW s \in Sockets, StateChange(s) PROVE ClaimInv'
    BY <1>11 DEF StateChange, StateChangeIgnored, StateEnter,
        StateEstablished, StateOutboundClosed, StateInboundClosed,
        StateQueueRemove, ClaimStands
  <1>12. ASSUME NEW s \in Sockets, TcpEstablish(s) PROVE ClaimInv'
    BY <1>12 DEF TcpEstablish, Idle
  <1>13. ASSUME NEW s \in Sockets, TcpClose(s) PROVE ClaimInv'
    BY <1>13 DEF TcpClose, Idle
  <1>14. ASSUME NEW i \in Ids, Provisional(i) PROVE ClaimInv'
    BY <1>14 DEF Provisional, StateTempClosed, FinishInit, Cleanup,
        AuthPromote, AuthRoam, Outdated, RequestReconnect, ClaimOutbound
  <1>15. CASE UNCHANGED vars
    BY <1>15 DEF vars, devVars, sockVars, connVars, claimVars, retryVars,
        skVars, thrVars, listVars, roamVars
  <1>. QED BY <1>1, <1>2, <1>3, <1>4, <1>5, <1>6, <1>7, <1>8, <1>9, <1>10,
        <1>11, <1>12, <1>13, <1>14, <1>15 DEF Next

(* A dial publishes into an empty peer, a promotion transfers into one,    *)
(* and a release forgets every alias of the socket.                        *)
LEMMA SingleStep ==
  ThreadTypeOK /\ SingleCarrier /\ TransferInv /\ [Next]_vars => SingleCarrier'
  <1> SUFFICES ASSUME ThreadTypeOK, SingleCarrier, TransferInv, [Next]_vars
               PROVE SingleCarrier'
    OBVIOUS
  <1> USE DEF SingleCarrier, TransferInv, Displaced, sockVars, At
  <1>1. ASSUME NEW t \in Callers, Connect(t) PROVE SingleCarrier'
    BY <1>1, NoneIsNoSocket DEF Connect, ConnectClaim, AfterConnect,
        ConnectPublish, ConnectCreateFails, ConnectSetup, ConnectDial,
        ConnectFinal, Unlock, ConnectFinalFails, UnwindClaim, UnwindDrain,
        StreamDrained, UnwindRelease, ReleaseSocket, ForgetSocket,
        UnwindFinal, UnwindQueue
  <1>2. CASE Retry
    BY <1>2, NoneIsNoSocket DEF Retry, RetryRun, Reschedule
  <1>3. CASE OutRemove
    BY <1>3, NoneIsNoSocket DEF OutRemove, OutRemoveRun, OutRemoveCancelRetry,
        Cancelled, OutRemoveTake, Lock, RemoveDrain, StreamDrained,
        RemoveRelease, ReleaseSocket, ForgetSocket, OutRemoveFinish, Unlock,
        OutRemoveReclaim, RequestReconnect, ClaimOutbound, Reschedule
  <1>4. CASE InRemove
    BY <1>4, NoneIsNoSocket DEF InRemove, InRemoveRun, InRemoveTake, Lock,
        RemoveDrain, StreamDrained, RemoveRelease, ReleaseSocket,
        ForgetSocket, InRemoveFinish, Unlock
  <1>5. CASE Promo
    <2>1. CASE PromoRelease
      BY <2>1, NoneIsNoSocket DEF PromoRelease, Displaced, ReleaseSocket,
        ForgetSocket
    <2>2. CASE PromoTransfer
      BY <2>2, NoneIsNoSocket DEF PromoTransfer
    <2>3. CASE PromoUndo
      BY <2>3, NoneIsNoSocket DEF PromoUndo, ReleaseSocket, ForgetSocket,
        Unlock
    <2>4. CASE PromoRun \/ PromoNext \/ PromoClaim \/ PromoLock
            \/ PromoDestroy \/ PromoDetach \/ PromoDisplace \/ PromoDrain
            \/ PromoSetup \/ PromoSetupFails
      BY <2>4, NoneIsNoSocket DEF PromoRun, PromoNext, PromoClaim, Outdated,
        PromoLock, PromoDestroy, PromoDetach, PromoDisplace, PromoDrain,
        StreamDrained, PromoSetup, Unlock, PromoSetupFails
    <2>. QED BY <1>5, <2>1, <2>2, <2>3, <2>4 DEF Promo
  <1>6. CASE Stop
    BY <1>6, NoneIsNoSocket DEF Stop, StopGate, ClaimBoth, StopCancel,
        Cancelled, CancelNext, StopLock, Lock, StopDrain, StreamDrained,
        StopRelease, ReleaseSocket, ForgetSocket, Unlock, StopDone,
        PeerMakeDead, ListDrain
  <1>7. CASE Control
    BY <1>7, NoneIsNoSocket DEF Control, ConfigureEndpoint, RequestReconnect,
        ClaimOutbound, RouteChange, StopDevice, RemovePeer, CreatePeer,
        OpenDevice, OpenPeer, OpenFails
  <1>8. CASE StreamWorker
    BY <1>8, NoneIsNoSocket DEF StreamWorker, IoStart, StreamOpen, Alive,
        IoEnd, IoFail, ClaimOutbound
  <1>9. CASE SendUnconnected
    BY <1>9, NoneIsNoSocket DEF SendUnconnected, StreamOpen
  <1>10. CASE Accept
    BY <1>10, NoneIsNoSocket DEF Accept
  <1>11. ASSUME NEW s \in Sockets, StateChange(s) PROVE SingleCarrier'
    BY <1>11, NoneIsNoSocket DEF StateChange, StateChangeIgnored, StateEnter,
        StateEstablished, StateOutboundClosed, StateInboundClosed,
        StateQueueRemove, ClaimStands
  <1>12. ASSUME NEW s \in Sockets, TcpEstablish(s) PROVE SingleCarrier'
    BY <1>12, NoneIsNoSocket DEF TcpEstablish, Idle
  <1>13. ASSUME NEW s \in Sockets, TcpClose(s) PROVE SingleCarrier'
    BY <1>13, NoneIsNoSocket DEF TcpClose, Idle
  <1>14. ASSUME NEW i \in Ids, Provisional(i) PROVE SingleCarrier'
    BY <1>14, NoneIsNoSocket DEF Provisional, StateTempClosed, FinishInit,
        Cleanup, AuthPromote, AuthRoam, Outdated, RequestReconnect,
        ClaimOutbound
  <1>15. CASE UNCHANGED vars
    BY <1>15, NoneIsNoSocket DEF vars, devVars, sockVars, connVars, claimVars,
        retryVars, skVars, thrVars, listVars, roamVars
  <1>. QED BY <1>1, <1>2, <1>3, <1>4, <1>5, <1>6, <1>7, <1>8, <1>9, <1>10,
        <1>11, <1>12, <1>13, <1>14, <1>15 DEF Next

(* Promotion holds the mutex from the release of the displaced sockets to  *)
(* the transfer, so nobody dials in between.                               *)
LEMMA TransferStep ==
  ThreadTypeOK /\ TransferInv /\ SingleCarrier /\ MutexInv /\ [Next]_vars => TransferInv'
  <1> SUFFICES ASSUME ThreadTypeOK, TransferInv, SingleCarrier, MutexInv, [Next]_vars
               PROVE TransferInv'
    OBVIOUS
  <1> USE DEF ThreadTypeOK, Works, Threads, Callers, NoThread, At, Goto,
        TransferInv, MutexInv, Critical, thrVars, sockVars
  <1>1. ASSUME NEW t \in Callers, Connect(t) PROVE TransferInv'
    <2>1. CASE ConnectClaim(t)
      BY <2>1 DEF ConnectClaim, AfterConnect
    <2>2. CASE ConnectPublish(t)
      BY <2>2 DEF ConnectPublish
    <2>3. CASE ConnectCreateFails(t)
      BY <2>3 DEF ConnectCreateFails
    <2>4. CASE ConnectSetup(t)
      BY <2>4 DEF ConnectSetup
    <2>5. CASE ConnectDial(t)
      BY <2>5 DEF ConnectDial
    <2>6. CASE ConnectFinal(t)
      BY <2>6 DEF ConnectFinal, AfterConnect, Unlock
    <2>7. CASE ConnectFinalFails(t)
      BY <2>7 DEF ConnectFinalFails
    <2>8. CASE UnwindClaim(t)
      BY <2>8 DEF UnwindClaim
    <2>9. CASE UnwindDrain(t)
      BY <2>9 DEF UnwindDrain, StreamDrained
    <2>10. CASE UnwindRelease(t)
      BY <2>10 DEF UnwindRelease, ReleaseSocket, ForgetSocket
    <2>11. CASE UnwindFinal(t)
      BY <2>11 DEF UnwindFinal, AfterConnect, Unlock
    <2>12. CASE UnwindQueue(t)
      BY <2>12 DEF UnwindQueue, AfterConnect, Unlock
    <2>. QED BY <1>1, <2>1, <2>2, <2>3, <2>4, <2>5, <2>6, <2>7, <2>8, <2>9,
        <2>10, <2>11, <2>12 DEF
        Connect
  <1>2. CASE Retry
    BY <1>2 DEF Retry, RetryRun, Reschedule
  <1>3. CASE OutRemove
    <2>1. CASE OutRemoveRun
      BY <2>1 DEF OutRemoveRun
    <2>2. CASE OutRemoveCancelRetry
      BY <2>2 DEF OutRemoveCancelRetry, Cancelled
    <2>3. CASE OutRemoveTake
      BY <2>3 DEF OutRemoveTake, Lock
    <2>4. CASE RemoveDrain("outrem")
      BY <2>4 DEF RemoveDrain, StreamDrained
    <2>5. CASE RemoveRelease("outrem")
      BY <2>5 DEF RemoveRelease, ReleaseSocket, ForgetSocket
    <2>6. CASE OutRemoveFinish
      BY <2>6 DEF OutRemoveFinish, Unlock
    <2>7. CASE OutRemoveReclaim
      BY <2>7 DEF OutRemoveReclaim, RequestReconnect, ClaimOutbound
    <2>8. CASE Reschedule("outrem")
      BY <2>8 DEF Reschedule
    <2>. QED BY <1>3, <2>1, <2>2, <2>3, <2>4, <2>5, <2>6, <2>7, <2>8 DEF
        OutRemove
  <1>4. CASE InRemove
    <2>1. CASE InRemoveRun
      BY <2>1 DEF InRemoveRun
    <2>2. CASE InRemoveTake
      BY <2>2 DEF InRemoveTake, Lock
    <2>3. CASE RemoveDrain("inrem")
      BY <2>3 DEF RemoveDrain, StreamDrained
    <2>4. CASE RemoveRelease("inrem")
      BY <2>4 DEF RemoveRelease, ReleaseSocket, ForgetSocket
    <2>5. CASE InRemoveFinish
      BY <2>5 DEF InRemoveFinish, Unlock
    <2>. QED BY <1>4, <2>1, <2>2, <2>3, <2>4, <2>5 DEF InRemove
  <1>5. CASE Promo
    <2>1. CASE PromoRun
      BY <2>1 DEF PromoRun
    <2>2. CASE PromoNext
      BY <2>2 DEF PromoNext
    <2>3. CASE PromoClaim
      BY <2>3 DEF PromoClaim, Outdated
    <2>4. CASE PromoLock
      BY <2>4 DEF PromoLock, Outdated
    <2>5. CASE PromoDestroy
      BY <2>5 DEF PromoDestroy
    <2>6. CASE PromoDetach
      BY <2>6 DEF PromoDetach
    <2>7. CASE PromoDisplace
      BY <2>7 DEF PromoDisplace
    <2>8. CASE PromoDrain
      BY <2>8 DEF PromoDrain, StreamDrained
    <2>9. CASE PromoRelease
      BY <2>9 DEF PromoRelease, Displaced, ReleaseSocket, ForgetSocket
    <2>10. CASE PromoTransfer
      BY <2>10 DEF PromoTransfer
    <2>11. CASE PromoSetup
      BY <2>11 DEF PromoSetup, Unlock
    <2>12. CASE PromoSetupFails
      BY <2>12 DEF PromoSetupFails
    <2>13. CASE PromoUndo
      BY <2>13 DEF PromoUndo, ReleaseSocket, ForgetSocket, Unlock
    <2>. QED BY <1>5, <2>1, <2>2, <2>3, <2>4, <2>5, <2>6, <2>7, <2>8, <2>9,
        <2>10, <2>11, <2>12, <2>13 DEF
        Promo
  <1>6. CASE Stop
    <2>1. CASE StopGate
      BY <2>1 DEF StopGate, ClaimBoth
    <2>2. ASSUME NEW w \in Works, StopCancel(w) PROVE TransferInv'
      BY <2>2 DEF StopCancel, Cancelled, CancelNext
    <2>3. CASE StopLock
      BY <2>3 DEF StopLock, Lock, ClaimBoth
    <2>4. CASE StopDrain
      BY <2>4 DEF StopDrain, StreamDrained
    <2>5. CASE StopRelease
      BY <2>5 DEF StopRelease, ReleaseSocket, ForgetSocket, Unlock
    <2>6. CASE StopDone
      BY <2>6 DEF StopDone
    <2>7. CASE PeerMakeDead
      BY <2>7 DEF PeerMakeDead
    <2>8. CASE ListDrain
      BY <2>8 DEF ListDrain
    <2>. QED BY <1>6, <2>1, <2>2, <2>3, <2>4, <2>5, <2>6, <2>7, <2>8 DEF Stop
  <1>7. CASE Control
    BY <1>7 DEF Control, ConfigureEndpoint, RequestReconnect, ClaimOutbound,
        RouteChange, StopDevice, RemovePeer, CreatePeer, OpenDevice, OpenPeer,
        OpenFails
  <1>8. CASE StreamWorker
    BY <1>8 DEF StreamWorker, IoStart, StreamOpen, Alive, IoEnd, IoFail,
        ClaimOutbound
  <1>9. CASE SendUnconnected
    BY <1>9 DEF SendUnconnected, StreamOpen
  <1>10. CASE Accept
    BY <1>10 DEF Accept
  <1>11. ASSUME NEW s \in Sockets, StateChange(s) PROVE TransferInv'
    BY <1>11 DEF StateChange, StateChangeIgnored, StateEnter,
        StateEstablished, StateOutboundClosed, StateInboundClosed,
        StateQueueRemove, ClaimStands
  <1>12. ASSUME NEW s \in Sockets, TcpEstablish(s) PROVE TransferInv'
    BY <1>12 DEF TcpEstablish, Idle
  <1>13. ASSUME NEW s \in Sockets, TcpClose(s) PROVE TransferInv'
    BY <1>13 DEF TcpClose, Idle
  <1>14. ASSUME NEW i \in Ids, Provisional(i) PROVE TransferInv'
    BY <1>14 DEF Provisional, StateTempClosed, FinishInit, Cleanup,
        AuthPromote, AuthRoam, Outdated, RequestReconnect, ClaimOutbound
  <1>15. CASE UNCHANGED vars
    BY <1>15 DEF vars, devVars, sockVars, connVars, claimVars, retryVars,
        skVars, thrVars, listVars, roamVars
  <1>. QED BY <1>1, <1>2, <1>3, <1>4, <1>5, <1>6, <1>7, <1>8, <1>9, <1>10,
        <1>11, <1>12, <1>13, <1>14, <1>15 DEF Next

(* The claim that closes the stream gate outlasts the drain and the        *)
(* release it was made for.                                                *)
LEMMA GateStep ==
  ThreadTypeOK /\ GateInv /\ MutexInv /\ ClaimInv /\ StopInv /\ [Next]_vars => GateInv'
  <1> SUFFICES ASSUME ThreadTypeOK, GateInv, MutexInv, ClaimInv, StopInv, [Next]_vars
               PROVE GateInv'
    OBVIOUS
  <1> USE DEF ThreadTypeOK, Works, Threads, Callers, NoThread, At, Goto,
        GateInv, ClaimInv, MutexInv, Critical, thrVars, claimVars, devVars
  <1>1. ASSUME NEW t \in Callers, Connect(t) PROVE GateInv'
    <2>1. CASE ConnectClaim(t)
      BY <2>1 DEF ConnectClaim, AfterConnect, StopInv, Past, StopTail, Stopped
    <2>2. CASE ConnectPublish(t)
      BY <2>2 DEF ConnectPublish, StopInv, Past, StopTail, Stopped
    <2>3. CASE ConnectCreateFails(t)
      BY <2>3 DEF ConnectCreateFails, StopInv, Past, StopTail, Stopped
    <2>4. CASE ConnectSetup(t)
      BY <2>4 DEF ConnectSetup, StopInv, Past, StopTail, Stopped
    <2>5. CASE ConnectDial(t)
      BY <2>5 DEF ConnectDial, StopInv, Past, StopTail, Stopped
    <2>6. CASE ConnectFinal(t)
      BY <2>6 DEF ConnectFinal, AfterConnect, Unlock, StopInv, Past, StopTail,
        Stopped
    <2>7. CASE ConnectFinalFails(t)
      BY <2>7 DEF ConnectFinalFails, StopInv, Past, StopTail, Stopped
    <2>8. CASE UnwindClaim(t)
      BY <2>8 DEF UnwindClaim, StopInv, Past, StopTail, Stopped
    <2>9. CASE UnwindDrain(t)
      BY <2>9 DEF UnwindDrain, StreamDrained, StopInv, Past, StopTail, Stopped
    <2>10. CASE UnwindRelease(t)
      BY <2>10 DEF UnwindRelease, StopInv, Past, StopTail, Stopped
    <2>11. CASE UnwindFinal(t)
      BY <2>11 DEF UnwindFinal, AfterConnect, Unlock, StopInv, Past, StopTail,
        Stopped
    <2>12. CASE UnwindQueue(t)
      BY <2>12 DEF UnwindQueue, AfterConnect, Unlock, Queue, StopInv, Past,
        StopTail, Stopped
    <2>. QED BY <1>1, <2>1, <2>2, <2>3, <2>4, <2>5, <2>6, <2>7, <2>8, <2>9,
        <2>10, <2>11, <2>12 DEF
        Connect
  <1>2. CASE Retry
    BY <1>2 DEF Retry, RetryRun, Reschedule, Queue, StopInv, Past, StopTail,
        Stopped
  <1>3. CASE OutRemove
    <2>1. CASE OutRemoveRun
      BY <2>1 DEF OutRemoveRun, StopInv, Past, StopTail, Stopped
    <2>2. CASE OutRemoveCancelRetry
      BY <2>2 DEF OutRemoveCancelRetry, Cancelled, StopInv, Past, StopTail,
        Stopped
    <2>3. CASE OutRemoveTake
      BY <2>3 DEF OutRemoveTake, Lock, StopInv, Past, StopTail, Stopped
    <2>4. CASE RemoveDrain("outrem")
      BY <2>4 DEF RemoveDrain, StreamDrained, StopInv, Past, StopTail, Stopped
    <2>5. CASE RemoveRelease("outrem")
      BY <2>5 DEF RemoveRelease, StopInv, Past, StopTail, Stopped
    <2>6. CASE OutRemoveFinish
      BY <2>6 DEF OutRemoveFinish, Unlock, StopInv, Past, StopTail, Stopped
    <2>7. CASE OutRemoveReclaim
      BY <2>7 DEF OutRemoveReclaim, RequestReconnect, ClaimOutbound, Queue,
        StopInv, Past, StopTail, Stopped
    <2>8. CASE Reschedule("outrem")
      BY <2>8 DEF Reschedule, Queue, StopInv, Past, StopTail, Stopped
    <2>. QED BY <1>3, <2>1, <2>2, <2>3, <2>4, <2>5, <2>6, <2>7, <2>8 DEF
        OutRemove
  <1>4. CASE InRemove
    <2>1. CASE InRemoveRun
      BY <2>1 DEF InRemoveRun, StopInv, Past, StopTail, Stopped
    <2>2. CASE InRemoveTake
      BY <2>2 DEF InRemoveTake, Lock, StopInv, Past, StopTail, Stopped
    <2>3. CASE RemoveDrain("inrem")
      BY <2>3 DEF RemoveDrain, StreamDrained, StopInv, Past, StopTail, Stopped
    <2>4. CASE RemoveRelease("inrem")
      BY <2>4 DEF RemoveRelease, StopInv, Past, StopTail, Stopped
    <2>5. CASE InRemoveFinish
      BY <2>5 DEF InRemoveFinish, Unlock, StopInv, Past, StopTail, Stopped
    <2>. QED BY <1>4, <2>1, <2>2, <2>3, <2>4, <2>5 DEF InRemove
  <1>5. CASE Promo
    <2>1. CASE PromoRun
      BY <2>1 DEF PromoRun, StopInv, Past, StopTail, Stopped
    <2>2. CASE PromoNext
      BY <2>2 DEF PromoNext, StopInv, Past, StopTail, Stopped
    <2>3. CASE PromoClaim
      BY <2>3 DEF PromoClaim, Outdated, StopInv, Past, StopTail, Stopped
    <2>4. CASE PromoLock
      BY <2>4 DEF PromoLock, Outdated, StopInv, Past, StopTail, Stopped
    <2>5. CASE PromoDestroy
      BY <2>5 DEF PromoDestroy, StopInv, Past, StopTail, Stopped
    <2>6. CASE PromoDetach
      BY <2>6 DEF PromoDetach, StopInv, Past, StopTail, Stopped
    <2>7. CASE PromoDisplace
      BY <2>7 DEF PromoDisplace, StopInv, Past, StopTail, Stopped
    <2>8. CASE PromoDrain
      BY <2>8 DEF PromoDrain, StreamDrained, StopInv, Past, StopTail, Stopped
    <2>9. CASE PromoRelease
      BY <2>9 DEF PromoRelease, Displaced, StopInv, Past, StopTail, Stopped
    <2>10. CASE PromoTransfer
      BY <2>10 DEF PromoTransfer, StopInv, Past, StopTail, Stopped
    <2>11. CASE PromoSetup
      BY <2>11 DEF PromoSetup, Unlock, StopInv, Past, StopTail, Stopped
    <2>12. CASE PromoSetupFails
      BY <2>12 DEF PromoSetupFails, StopInv, Past, StopTail, Stopped
    <2>13. CASE PromoUndo
      BY <2>13 DEF PromoUndo, Unlock, StopInv, Past, StopTail, Stopped
    <2>. QED BY <1>5, <2>1, <2>2, <2>3, <2>4, <2>5, <2>6, <2>7, <2>8, <2>9,
        <2>10, <2>11, <2>12, <2>13 DEF
        Promo
  <1>6. CASE Stop
    <2>1. CASE StopGate
      BY <2>1 DEF StopGate, ClaimBoth, StopInv, Past, StopTail, Stopped
    <2>2. ASSUME NEW w \in Works, StopCancel(w) PROVE GateInv'
      BY <2>2 DEF StopCancel, Cancelled, CancelNext, StopInv, Past, StopTail,
        Stopped
    <2>3. CASE StopLock
      BY <2>3 DEF StopLock, Lock, ClaimBoth, StopInv, Past, StopTail, Stopped
    <2>4. CASE StopDrain
      BY <2>4 DEF StopDrain, StreamDrained, StopInv, Past, StopTail, Stopped
    <2>5. CASE StopRelease
      BY <2>5 DEF StopRelease, Unlock, StopInv, Past, StopTail, Stopped
    <2>6. CASE StopDone
      BY <2>6 DEF StopDone, StopInv, Past, StopTail, Stopped
    <2>7. CASE PeerMakeDead
      BY <2>7 DEF PeerMakeDead, StopInv, Past, StopTail, Stopped
    <2>8. CASE ListDrain
      BY <2>8 DEF ListDrain, StopInv, Past, StopTail, Stopped
    <2>. QED BY <1>6, <2>1, <2>2, <2>3, <2>4, <2>5, <2>6, <2>7, <2>8 DEF Stop
  <1>7. CASE Control
    BY <1>7 DEF Control, ConfigureEndpoint, RequestReconnect, ClaimOutbound,
        Queue, RouteChange, StopDevice, RemovePeer, CreatePeer, OpenDevice,
        OpenPeer, OpenFails, StopInv, Past, StopTail, Stopped
  <1>8. CASE StreamWorker
    BY <1>8 DEF StreamWorker, IoStart, StreamOpen, Alive, IoEnd, IoFail,
        ClaimOutbound, Queue, StopInv, Past, StopTail, Stopped
  <1>9. CASE SendUnconnected
    BY <1>9 DEF SendUnconnected, StreamOpen, Queue, StopInv, Past, StopTail,
        Stopped
  <1>10. CASE Accept
    BY <1>10 DEF Accept, StopInv, Past, StopTail, Stopped
  <1>11. ASSUME NEW s \in Sockets, StateChange(s) PROVE GateInv'
    BY <1>11 DEF StateChange, StateChangeIgnored, StateEnter,
        StateEstablished, StateOutboundClosed, StateInboundClosed,
        StateQueueRemove, ClaimStands, Queue, StopInv, Past, StopTail, Stopped
  <1>12. ASSUME NEW s \in Sockets, TcpEstablish(s) PROVE GateInv'
    BY <1>12 DEF TcpEstablish, Idle, StopInv, Past, StopTail, Stopped
  <1>13. ASSUME NEW s \in Sockets, TcpClose(s) PROVE GateInv'
    BY <1>13 DEF TcpClose, Idle, StopInv, Past, StopTail, Stopped
  <1>14. ASSUME NEW i \in Ids, Provisional(i) PROVE GateInv'
    BY <1>14 DEF Provisional, StateTempClosed, FinishInit, Cleanup,
        AuthPromote, AuthRoam, Outdated, RequestReconnect, ClaimOutbound,
        Queue, StopInv, Past, StopTail, Stopped
  <1>15. CASE UNCHANGED vars
    BY <1>15 DEF vars, devVars, sockVars, connVars, claimVars, retryVars,
        skVars, thrVars, listVars, roamVars, StopInv, Past, StopTail, Stopped
  <1>. QED BY <1>1, <1>2, <1>3, <1>4, <1>5, <1>6, <1>7, <1>8, <1>9, <1>10,
        <1>11, <1>12, <1>13, <1>14, <1>15 DEF Next

(* With the gate closed no stream worker starts between the drain and the  *)
(* release.                                                                *)
LEMMA DrainStep ==
  ThreadTypeOK /\ DrainInv /\ GateInv /\ MutexInv /\ StopInv /\ [Next]_vars => DrainInv'
  <1> SUFFICES ASSUME ThreadTypeOK, DrainInv, GateInv, MutexInv, StopInv, [Next]_vars
               PROVE DrainInv'
    OBVIOUS
  <1> USE DEF ThreadTypeOK, Works, Threads, Callers, NoThread, At, Goto,
        DrainInv, MutexInv, Critical, thrVars, sockVars
  <1>1. ASSUME NEW t \in Callers, Connect(t) PROVE DrainInv'
    <2>1. CASE ConnectClaim(t)
      BY <2>1 DEF ConnectClaim, AfterConnect, GateInv
    <2>2. CASE ConnectPublish(t)
      BY <2>2 DEF ConnectPublish, GateInv
    <2>3. CASE ConnectCreateFails(t)
      BY <2>3 DEF ConnectCreateFails, GateInv
    <2>4. CASE ConnectSetup(t)
      BY <2>4 DEF ConnectSetup, GateInv
    <2>5. CASE ConnectDial(t)
      BY <2>5 DEF ConnectDial, GateInv
    <2>6. CASE ConnectFinal(t)
      BY <2>6 DEF ConnectFinal, AfterConnect, Unlock, GateInv
    <2>7. CASE ConnectFinalFails(t)
      BY <2>7 DEF ConnectFinalFails, GateInv
    <2>8. CASE UnwindClaim(t)
      BY <2>8 DEF UnwindClaim, GateInv
    <2>9. CASE UnwindDrain(t)
      BY <2>9 DEF UnwindDrain, StreamDrained, GateInv
    <2>10. CASE UnwindRelease(t)
      BY <2>10 DEF UnwindRelease, ReleaseSocket, ForgetSocket, GateInv
    <2>11. CASE UnwindFinal(t)
      BY <2>11 DEF UnwindFinal, AfterConnect, Unlock, GateInv
    <2>12. CASE UnwindQueue(t)
      BY <2>12 DEF UnwindQueue, AfterConnect, Unlock, Queue, GateInv
    <2>. QED BY <1>1, <2>1, <2>2, <2>3, <2>4, <2>5, <2>6, <2>7, <2>8, <2>9,
        <2>10, <2>11, <2>12 DEF
        Connect
  <1>2. CASE Retry
    BY <1>2 DEF Retry, RetryRun, Reschedule, Queue, GateInv
  <1>3. CASE OutRemove
    <2>1. CASE OutRemoveRun
      BY <2>1 DEF OutRemoveRun, GateInv
    <2>2. CASE OutRemoveCancelRetry
      BY <2>2 DEF OutRemoveCancelRetry, Cancelled, GateInv
    <2>3. CASE OutRemoveTake
      BY <2>3 DEF OutRemoveTake, Lock, GateInv
    <2>4. CASE RemoveDrain("outrem")
      BY <2>4 DEF RemoveDrain, StreamDrained, GateInv
    <2>5. CASE RemoveRelease("outrem")
      BY <2>5 DEF RemoveRelease, ReleaseSocket, ForgetSocket, GateInv
    <2>6. CASE OutRemoveFinish
      BY <2>6 DEF OutRemoveFinish, Unlock, GateInv
    <2>7. CASE OutRemoveReclaim
      BY <2>7 DEF OutRemoveReclaim, RequestReconnect, ClaimOutbound, Queue,
        GateInv
    <2>8. CASE Reschedule("outrem")
      BY <2>8 DEF Reschedule, Queue, GateInv
    <2>. QED BY <1>3, <2>1, <2>2, <2>3, <2>4, <2>5, <2>6, <2>7, <2>8 DEF
        OutRemove
  <1>4. CASE InRemove
    <2>1. CASE InRemoveRun
      BY <2>1 DEF InRemoveRun, GateInv
    <2>2. CASE InRemoveTake
      BY <2>2 DEF InRemoveTake, Lock, GateInv
    <2>3. CASE RemoveDrain("inrem")
      BY <2>3 DEF RemoveDrain, StreamDrained, GateInv
    <2>4. CASE RemoveRelease("inrem")
      BY <2>4 DEF RemoveRelease, ReleaseSocket, ForgetSocket, GateInv
    <2>5. CASE InRemoveFinish
      BY <2>5 DEF InRemoveFinish, Unlock, GateInv
    <2>. QED BY <1>4, <2>1, <2>2, <2>3, <2>4, <2>5 DEF InRemove
  <1>5. CASE Promo
    <2>1. CASE PromoRun
      BY <2>1 DEF PromoRun, GateInv
    <2>2. CASE PromoNext
      BY <2>2 DEF PromoNext, GateInv
    <2>3. CASE PromoClaim
      BY <2>3 DEF PromoClaim, Outdated, GateInv
    <2>4. CASE PromoLock
      BY <2>4 DEF PromoLock, Outdated, GateInv
    <2>5. CASE PromoDestroy
      BY <2>5 DEF PromoDestroy, GateInv
    <2>6. CASE PromoDetach
      BY <2>6 DEF PromoDetach, GateInv
    <2>7. CASE PromoDisplace
      BY <2>7 DEF PromoDisplace, GateInv
    <2>8. CASE PromoDrain
      BY <2>8 DEF PromoDrain, StreamDrained, GateInv
    <2>9. CASE PromoRelease
      BY <2>9 DEF PromoRelease, Displaced, ReleaseSocket, ForgetSocket,
        GateInv
    <2>10. CASE PromoTransfer
      BY <2>10 DEF PromoTransfer, GateInv
    <2>11. CASE PromoSetup
      BY <2>11 DEF PromoSetup, Unlock, GateInv
    <2>12. CASE PromoSetupFails
      BY <2>12 DEF PromoSetupFails, GateInv
    <2>13. CASE PromoUndo
      BY <2>13 DEF PromoUndo, ReleaseSocket, ForgetSocket, Unlock, GateInv
    <2>. QED BY <1>5, <2>1, <2>2, <2>3, <2>4, <2>5, <2>6, <2>7, <2>8, <2>9,
        <2>10, <2>11, <2>12, <2>13 DEF
        Promo
  <1>6. CASE Stop
    <2>1. CASE StopGate
      BY <2>1 DEF StopGate, ClaimBoth, GateInv
    <2>2. ASSUME NEW w \in Works, StopCancel(w) PROVE DrainInv'
      BY <2>2 DEF StopCancel, Cancelled, CancelNext, GateInv
    <2>3. CASE StopLock
      BY <2>3 DEF StopLock, Lock, ClaimBoth, GateInv
    <2>4. CASE StopDrain
      BY <2>4 DEF StopDrain, StreamDrained, GateInv
    <2>5. CASE StopRelease
      BY <2>5 DEF StopRelease, ReleaseSocket, ForgetSocket, Unlock, GateInv
    <2>6. CASE StopDone
      BY <2>6 DEF StopDone, GateInv
    <2>7. CASE PeerMakeDead
      BY <2>7 DEF PeerMakeDead, GateInv
    <2>8. CASE ListDrain
      BY <2>8 DEF ListDrain, GateInv
    <2>. QED BY <1>6, <2>1, <2>2, <2>3, <2>4, <2>5, <2>6, <2>7, <2>8 DEF Stop
  <1>7. CASE Control
    <2>1. CASE ConfigureEndpoint
      BY <2>1 DEF ConfigureEndpoint, RequestReconnect, ClaimOutbound, Queue,
        GateInv
    <2>2. CASE RouteChange
      BY <2>2 DEF RouteChange, RequestReconnect, ClaimOutbound, Queue, GateInv
    <2>3. CASE StopDevice
      BY <2>3 DEF StopDevice, GateInv
    <2>4. CASE RemovePeer
      BY <2>4 DEF RemovePeer, GateInv
    <2>5. CASE CreatePeer
      BY <2>5 DEF CreatePeer, StopInv, Stopped, Past, StopTail, GateInv
    <2>6. CASE OpenDevice
      BY <2>6 DEF OpenDevice, GateInv
    <2>7. CASE OpenPeer
      BY <2>7 DEF OpenPeer, GateInv
    <2>8. CASE OpenFails
      BY <2>8 DEF OpenFails, GateInv
    <2>. QED BY <1>7, <2>1, <2>2, <2>3, <2>4, <2>5, <2>6, <2>7, <2>8 DEF
        Control
  <1>8. CASE StreamWorker
    <2>1. CASE IoStart
      BY <2>1 DEF IoStart, StreamOpen, Alive, GateInv
    <2>2. CASE IoEnd \/ IoFail
      BY <2>2 DEF IoEnd, IoFail, ClaimOutbound, Queue, GateInv
    <2>. QED BY <1>8, <2>1, <2>2 DEF StreamWorker
  <1>9. CASE SendUnconnected
    BY <1>9 DEF SendUnconnected, StreamOpen, Queue, GateInv
  <1>10. CASE Accept
    BY <1>10 DEF Accept, GateInv
  <1>11. ASSUME NEW s \in Sockets, StateChange(s) PROVE DrainInv'
    BY <1>11 DEF StateChange, StateChangeIgnored, StateEnter,
        StateEstablished, StateOutboundClosed, StateInboundClosed,
        StateQueueRemove, ClaimStands, Queue, GateInv
  <1>12. ASSUME NEW s \in Sockets, TcpEstablish(s) PROVE DrainInv'
    BY <1>12 DEF TcpEstablish, Idle, GateInv
  <1>13. ASSUME NEW s \in Sockets, TcpClose(s) PROVE DrainInv'
    BY <1>13 DEF TcpClose, Idle, GateInv
  <1>14. ASSUME NEW i \in Ids, Provisional(i) PROVE DrainInv'
    BY <1>14 DEF Provisional, StateTempClosed, FinishInit, Cleanup,
        AuthPromote, AuthRoam, Outdated, RequestReconnect, ClaimOutbound,
        Queue, GateInv
  <1>15. CASE UNCHANGED vars
    BY <1>15 DEF vars, devVars, sockVars, connVars, claimVars, retryVars,
        skVars, thrVars, listVars, roamVars, GateInv
  <1>. QED BY <1>1, <1>2, <1>3, <1>4, <1>5, <1>6, <1>7, <1>8, <1>9, <1>10,
        <1>11, <1>12, <1>13, <1>14, <1>15 DEF Next

(* Once tcp_stopping is set nobody queues work for the peer, so what       *)
(* wg_tcp_peer_stop() has cancelled stays cancelled.                       *)
LEMMA StopStep ==
  ThreadTypeOK /\ StopInv /\ MutexInv /\ SingleCarrier /\ DrainInv /\ [Next]_vars => StopInv'
  <1> SUFFICES ASSUME ThreadTypeOK, StopInv, MutexInv, SingleCarrier, DrainInv, [Next]_vars
               PROVE StopInv'
    OBVIOUS
  <1> USE DEF ThreadTypeOK, Works, Threads, Callers, NoThread, At, Goto,
        StopInv, Stopped, Past, StopTail, thrVars, sockVars, devVars, Alive
  <1>1. ASSUME NEW t \in Callers, Connect(t) PROVE StopInv'
    <2>1. CASE ConnectClaim(t)
      BY <2>1 DEF ConnectClaim, AfterConnect, MutexInv, Critical, DrainInv
    <2>2. CASE ConnectPublish(t)
      BY <2>2 DEF ConnectPublish, MutexInv, Critical, DrainInv
    <2>3. CASE ConnectCreateFails(t)
      BY <2>3 DEF ConnectCreateFails, MutexInv, Critical, DrainInv
    <2>4. CASE ConnectSetup(t)
      BY <2>4 DEF ConnectSetup, MutexInv, Critical, DrainInv
    <2>5. CASE ConnectDial(t)
      BY <2>5 DEF ConnectDial, MutexInv, Critical, DrainInv
    <2>6. CASE ConnectFinal(t)
      BY <2>6 DEF ConnectFinal, AfterConnect, Unlock, MutexInv, Critical,
        DrainInv
    <2>7. CASE ConnectFinalFails(t)
      BY <2>7 DEF ConnectFinalFails, MutexInv, Critical, DrainInv
    <2>8. CASE UnwindClaim(t)
      BY <2>8 DEF UnwindClaim, MutexInv, Critical, DrainInv
    <2>9. CASE UnwindDrain(t)
      BY <2>9 DEF UnwindDrain, StreamDrained, MutexInv, Critical, DrainInv
    <2>10. CASE UnwindRelease(t)
      BY <2>10 DEF UnwindRelease, ReleaseSocket, ForgetSocket, MutexInv,
        Critical, DrainInv
    <2>11. CASE UnwindFinal(t)
      BY <2>11 DEF UnwindFinal, AfterConnect, Unlock, MutexInv, Critical,
        DrainInv
    <2>12. CASE UnwindQueue(t)
      BY <2>12 DEF UnwindQueue, AfterConnect, Unlock, Queue, MutexInv,
        Critical, DrainInv
    <2>. QED BY <1>1, <2>1, <2>2, <2>3, <2>4, <2>5, <2>6, <2>7, <2>8, <2>9,
        <2>10, <2>11, <2>12 DEF
        Connect
  <1>2. CASE Retry
    BY <1>2 DEF Retry, RetryRun, Reschedule, Queue, MutexInv, Critical,
        DrainInv
  <1>3. CASE OutRemove
    <2>1. CASE OutRemoveRun
      BY <2>1 DEF OutRemoveRun, MutexInv, Critical, DrainInv
    <2>2. CASE OutRemoveCancelRetry
      BY <2>2 DEF OutRemoveCancelRetry, Cancelled, MutexInv, Critical,
        DrainInv
    <2>3. CASE OutRemoveTake
      BY <2>3 DEF OutRemoveTake, Lock, MutexInv, Critical, DrainInv
    <2>4. CASE RemoveDrain("outrem")
      BY <2>4 DEF RemoveDrain, StreamDrained, MutexInv, Critical, DrainInv
    <2>5. CASE RemoveRelease("outrem")
      BY <2>5 DEF RemoveRelease, ReleaseSocket, ForgetSocket, MutexInv,
        Critical, DrainInv
    <2>6. CASE OutRemoveFinish
      BY <2>6 DEF OutRemoveFinish, Unlock, MutexInv, Critical, DrainInv
    <2>7. CASE OutRemoveReclaim
      BY <2>7 DEF OutRemoveReclaim, RequestReconnect, ClaimOutbound, Queue,
        MutexInv, Critical, DrainInv
    <2>8. CASE Reschedule("outrem")
      BY <2>8 DEF Reschedule, Queue, MutexInv, Critical, DrainInv
    <2>. QED BY <1>3, <2>1, <2>2, <2>3, <2>4, <2>5, <2>6, <2>7, <2>8 DEF
        OutRemove
  <1>4. CASE InRemove
    <2>1. CASE InRemoveRun
      BY <2>1 DEF InRemoveRun, MutexInv, Critical, DrainInv
    <2>2. CASE InRemoveTake
      BY <2>2 DEF InRemoveTake, Lock, MutexInv, Critical, DrainInv
    <2>3. CASE RemoveDrain("inrem")
      BY <2>3 DEF RemoveDrain, StreamDrained, MutexInv, Critical, DrainInv
    <2>4. CASE RemoveRelease("inrem")
      BY <2>4 DEF RemoveRelease, ReleaseSocket, ForgetSocket, MutexInv,
        Critical, DrainInv
    <2>5. CASE InRemoveFinish
      BY <2>5 DEF InRemoveFinish, Unlock, MutexInv, Critical, DrainInv
    <2>. QED BY <1>4, <2>1, <2>2, <2>3, <2>4, <2>5 DEF InRemove
  <1>5. CASE Promo
    <2>1. CASE PromoRun
      BY <2>1 DEF PromoRun, MutexInv, Critical, DrainInv
    <2>2. CASE PromoNext
      BY <2>2 DEF PromoNext, MutexInv, Critical, DrainInv
    <2>3. CASE PromoClaim
      BY <2>3 DEF PromoClaim, Outdated, MutexInv, Critical, DrainInv
    <2>4. CASE PromoLock
      BY <2>4 DEF PromoLock, Outdated, MutexInv, Critical, DrainInv
    <2>5. CASE PromoDestroy
      BY <2>5 DEF PromoDestroy, MutexInv, Critical, DrainInv
    <2>6. CASE PromoDetach
      BY <2>6 DEF PromoDetach, MutexInv, Critical, DrainInv
    <2>7. CASE PromoDisplace
      BY <2>7 DEF PromoDisplace, MutexInv, Critical, DrainInv
    <2>8. CASE PromoDrain
      BY <2>8 DEF PromoDrain, StreamDrained, MutexInv, Critical, DrainInv
    <2>9. CASE PromoRelease
      BY <2>9 DEF PromoRelease, Displaced, ReleaseSocket, ForgetSocket,
        MutexInv, Critical, DrainInv
    <2>10. CASE PromoTransfer
      BY <2>10 DEF PromoTransfer, MutexInv, Critical, DrainInv
    <2>11. CASE PromoSetup
      BY <2>11 DEF PromoSetup, Unlock, MutexInv, Critical, DrainInv
    <2>12. CASE PromoSetupFails
      BY <2>12 DEF PromoSetupFails, MutexInv, Critical, DrainInv
    <2>13. CASE PromoUndo
      BY <2>13 DEF PromoUndo, ReleaseSocket, ForgetSocket, Unlock, MutexInv,
        Critical, DrainInv
    <2>. QED BY <1>5, <2>1, <2>2, <2>3, <2>4, <2>5, <2>6, <2>7, <2>8, <2>9,
        <2>10, <2>11, <2>12, <2>13 DEF
        Promo
  <1>6. CASE Stop
    <2>1. CASE StopGate
      BY <2>1 DEF StopGate, ClaimBoth, MutexInv, Critical, DrainInv
    <2>2. ASSUME NEW w \in Works, StopCancel(w) PROVE StopInv'
      BY <2>2 DEF StopCancel, Cancelled, CancelNext, MutexInv, Critical,
        DrainInv
    <2>3. CASE StopLock
      BY <2>3 DEF StopLock, Lock, ClaimBoth, MutexInv, Critical, DrainInv
    <2>4. CASE StopDrain
      BY <2>4 DEF StopDrain, StreamDrained, MutexInv, Critical, DrainInv
    <2>5. CASE StopRelease
      BY <2>5 DEF StopRelease, ReleaseSocket, ForgetSocket, Unlock,
        SingleCarrier, Displaced, MutexInv, Critical, DrainInv
    <2>6. CASE StopDone
      BY <2>6 DEF StopDone, MutexInv, Critical, DrainInv
    <2>7. CASE PeerMakeDead
      BY <2>7 DEF PeerMakeDead, MutexInv, Critical, DrainInv
    <2>8. CASE ListDrain
      BY <2>8 DEF ListDrain, MutexInv, Critical, DrainInv
    <2>. QED BY <1>6, <2>1, <2>2, <2>3, <2>4, <2>5, <2>6, <2>7, <2>8 DEF Stop
  <1>7. CASE Control
    BY <1>7 DEF Control, ConfigureEndpoint, RequestReconnect, ClaimOutbound,
        Queue, RouteChange, StopDevice, RemovePeer, CreatePeer, OpenDevice,
        OpenPeer, OpenFails, MutexInv, Critical, DrainInv
  <1>8. CASE StreamWorker
    BY <1>8 DEF StreamWorker, IoStart, StreamOpen, Alive, IoEnd, IoFail,
        ClaimOutbound, Queue, MutexInv, Critical, DrainInv
  <1>9. CASE SendUnconnected
    BY <1>9 DEF SendUnconnected, StreamOpen, Queue, MutexInv, Critical,
        DrainInv
  <1>10. CASE Accept
    BY <1>10 DEF Accept, MutexInv, Critical, DrainInv
  <1>11. ASSUME NEW s \in Sockets, StateChange(s) PROVE StopInv'
    BY <1>11 DEF StateChange, StateChangeIgnored, StateEnter,
        StateEstablished, StateOutboundClosed, StateInboundClosed,
        StateQueueRemove, ClaimStands, Queue, MutexInv, Critical, DrainInv
  <1>12. ASSUME NEW s \in Sockets, TcpEstablish(s) PROVE StopInv'
    BY <1>12 DEF TcpEstablish, Idle, MutexInv, Critical, DrainInv
  <1>13. ASSUME NEW s \in Sockets, TcpClose(s) PROVE StopInv'
    BY <1>13 DEF TcpClose, Idle, MutexInv, Critical, DrainInv
  <1>14. ASSUME NEW i \in Ids, Provisional(i) PROVE StopInv'
    BY <1>14 DEF Provisional, StateTempClosed, FinishInit, Cleanup,
        AuthPromote, AuthRoam, Outdated, RequestReconnect, ClaimOutbound,
        Queue, MutexInv, Critical, DrainInv
  <1>15. CASE UNCHANGED vars
    BY <1>15 DEF vars, devVars, sockVars, connVars, claimVars, retryVars,
        skVars, thrVars, listVars, roamVars, MutexInv, Critical, DrainInv
  <1>. QED BY <1>1, <1>2, <1>3, <1>4, <1>5, <1>6, <1>7, <1>8, <1>9, <1>10,
        <1>11, <1>12, <1>13, <1>14, <1>15 DEF Next

(* Initially there is no socket, no claim and no thread under way.         *)
LEMMA CarrierInit == Init => CarrierInv
  <1> SUFFICES ASSUME Init PROVE CarrierInv
    OBVIOUS
  <1> USE DEF Init, NewPeer, Threads, Works, Callers, At
  <1>1. SingleCarrier /\ ClaimInv
    BY DEF SingleCarrier, Displaced, ClaimInv
  <1>2. MutexInv /\ TransferInv
    BY DEF MutexInv, Critical, TransferInv
  <1>3. GateInv /\ DrainInv
    BY DEF GateInv, DrainInv
  <1>4. StopInv
    BY DEF StopInv, Stopped, Past, StopTail
  <1>. QED BY <1>1, <1>2, <1>3, <1>4 DEF CarrierInv

(* CarrierInv holds in every reachable state.                              *)
THEOREM CarrierCorrect == Spec => []CarrierInv
  <1>1. TypeOK /\ CarrierInv /\ [Next]_vars => CarrierInv'
    BY MutexStep, ClaimStep, SingleStep, TransferStep, GateStep, DrainStep,
       StopStep DEF CarrierInv, TypeOK
  <1>. QED BY TypeCorrect, CarrierInit, <1>1, PTL DEF Spec

(* The peer never holds two carriers, and peer_socket is the one it holds: *)
(* wg_tcp_connect() and promotion exclude each other.                      *)
THEOREM OneCarrier == Spec => []SingleCarrier
  <1>1. CarrierInv => SingleCarrier
    BY DEF CarrierInv
  <1>. QED BY CarrierCorrect, <1>1, PTL

(* After wg_tcp_peer_stop() the peer has no work, no stream worker and no  *)
(* socket until the interface comes up again.                              *)
THEOREM StoppedIsQuiescent == Spec => []StopQuiesces
  <1>1. CarrierInv => StopQuiesces
    BY DEF CarrierInv, StopInv, StopQuiesces
  <1>. QED BY CarrierCorrect, <1>1, PTL

(* The action of DrainBeforeRelease.                                       *)
Drained ==
  peer_socket # None /\ peer_socket' # peer_socket /\ ~At("promo", "undo")
    => io # peer_socket

(* No step gives up the active socket under a stream worker.               *)
LEMMA DrainedStep == CarrierInv /\ [Next]_vars => Drained
  <1> SUFFICES ASSUME CarrierInv, [Next]_vars PROVE Drained
    OBVIOUS
  <1> USE DEF CarrierInv, Drained, sockVars, At
  <1>1. ASSUME NEW t \in Callers, Connect(t) PROVE Drained
    <2>1. CASE ConnectPublish(t)
      BY <2>1 DEF ConnectPublish, DrainInv
    <2>2. CASE UnwindRelease(t)
      BY <2>2 DEF UnwindRelease, ReleaseSocket, ForgetSocket, DrainInv
    <2>3. CASE ConnectClaim(t) \/ ConnectCreateFails(t) \/ ConnectSetup(t)
            \/ ConnectDial(t) \/ ConnectFinal(t) \/ ConnectFinalFails(t)
            \/ UnwindClaim(t) \/ UnwindDrain(t) \/ UnwindFinal(t)
            \/ UnwindQueue(t)
      BY <2>3 DEF ConnectClaim, ConnectCreateFails, ConnectSetup, ConnectDial,
        ConnectFinal, Unlock, ConnectFinalFails, UnwindClaim, UnwindDrain,
        StreamDrained, UnwindFinal, UnwindQueue, DrainInv
    <2>. QED BY <1>1, <2>1, <2>2, <2>3 DEF Connect
  <1>2. CASE Retry
    BY <1>2 DEF Retry, RetryRun, Reschedule, DrainInv
  <1>3. CASE OutRemove
    BY <1>3 DEF OutRemove, OutRemoveRun, OutRemoveCancelRetry, Cancelled,
        OutRemoveTake, Lock, RemoveDrain, StreamDrained, RemoveRelease,
        ReleaseSocket, ForgetSocket, OutRemoveFinish, Unlock,
        OutRemoveReclaim, Reschedule, DrainInv
  <1>4. CASE InRemove
    BY <1>4 DEF InRemove, InRemoveRun, InRemoveTake, Lock, RemoveDrain,
        StreamDrained, RemoveRelease, ReleaseSocket, ForgetSocket,
        InRemoveFinish, Unlock, DrainInv
  <1>5. CASE Promo
    <2>1. CASE PromoRelease
      BY <2>1 DEF PromoRelease, Displaced, ReleaseSocket, ForgetSocket,
        DrainInv
    <2>2. CASE PromoTransfer
      BY <2>2 DEF PromoTransfer, SingleCarrier, TransferInv, Displaced,
        DrainInv
    <2>3. CASE PromoUndo
      BY <2>3 DEF PromoUndo, ReleaseSocket, ForgetSocket, Unlock, DrainInv
    <2>4. CASE PromoRun \/ PromoNext \/ PromoClaim \/ PromoLock
            \/ PromoDestroy \/ PromoDetach \/ PromoDisplace \/ PromoDrain
            \/ PromoSetup \/ PromoSetupFails
      BY <2>4 DEF PromoRun, PromoNext, PromoClaim, Outdated, PromoLock,
        PromoDestroy, PromoDetach, PromoDisplace, PromoDrain, StreamDrained,
        PromoSetup, Unlock, PromoSetupFails, DrainInv
    <2>. QED BY <1>5, <2>1, <2>2, <2>3, <2>4 DEF Promo
  <1>6. CASE Stop
    <2>1. CASE StopRelease
      BY <2>1 DEF StopRelease, ReleaseSocket, ForgetSocket, Unlock, DrainInv
    <2>2. CASE StopGate \/ (\E w \in Works : StopCancel(w)) \/ StopLock
            \/ StopDrain \/ StopDone \/ PeerMakeDead \/ ListDrain
      BY <2>2 DEF StopGate, ClaimBoth, StopCancel, Cancelled, CancelNext,
        StopLock, Lock, StopDrain, StreamDrained, StopDone, PeerMakeDead,
        ListDrain, DrainInv
    <2>. QED BY <1>6, <2>1, <2>2 DEF Stop
  <1>7. CASE Control
    <2>1. CASE CreatePeer
      BY <2>1 DEF CreatePeer, StopInv, Stopped, Past, StopTail, DrainInv
    <2>2. CASE ConfigureEndpoint \/ RouteChange \/ StopDevice \/ RemovePeer
            \/ OpenDevice \/ OpenPeer \/ OpenFails
      BY <2>2 DEF ConfigureEndpoint, RouteChange, StopDevice, RemovePeer,
        OpenDevice, OpenPeer, OpenFails, DrainInv
    <2>. QED BY <1>7, <2>1, <2>2 DEF Control
  <1>8. CASE StreamWorker
    BY <1>8 DEF StreamWorker, IoStart, StreamOpen, Alive, IoEnd, IoFail,
        DrainInv
  <1>9. CASE SendUnconnected
    BY <1>9 DEF SendUnconnected, StreamOpen, DrainInv
  <1>10. CASE Accept
    BY <1>10 DEF Accept, DrainInv
  <1>11. ASSUME NEW s \in Sockets, StateChange(s) PROVE Drained
    BY <1>11 DEF StateChange, StateChangeIgnored, StateEnter,
        StateEstablished, StateOutboundClosed, StateInboundClosed,
        StateQueueRemove, ClaimStands, DrainInv
  <1>12. ASSUME NEW s \in Sockets, TcpEstablish(s) PROVE Drained
    BY <1>12 DEF TcpEstablish, Idle, DrainInv
  <1>13. ASSUME NEW s \in Sockets, TcpClose(s) PROVE Drained
    BY <1>13 DEF TcpClose, Idle, DrainInv
  <1>14. ASSUME NEW i \in Ids, Provisional(i) PROVE Drained
    BY <1>14 DEF Provisional, StateTempClosed, FinishInit, Cleanup,
        AuthPromote, AuthRoam, Outdated, DrainInv
  <1>15. CASE UNCHANGED vars
    BY <1>15 DEF vars, devVars, sockVars, connVars, claimVars, retryVars,
        skVars, thrVars, listVars, roamVars, DrainInv
  <1>. QED BY <1>1, <1>2, <1>3, <1>4, <1>5, <1>6, <1>7, <1>8, <1>9, <1>10,
        <1>11, <1>12, <1>13, <1>14, <1>15 DEF Next

(* The active socket is drained before it is given up, by every remover:   *)
(* the failed promotion hand-over is the only exception.                   *)
THEOREM DrainedBeforeRelease == Spec => DrainBeforeRelease
  <1>1. CarrierInv /\ [Next]_vars => [Drained]_vars
    BY DrainedStep
  <1>2. [Drained]_vars =>
          [peer_socket # None /\ peer_socket' # peer_socket
             /\ ~At("promo", "undo") => io # peer_socket]_vars
    BY DEF Drained
  <1>. QED BY CarrierCorrect, <1>1, <1>2, PTL DEF Spec, DrainBeforeRelease

=============================================================================
