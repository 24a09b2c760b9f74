--------------------------- MODULE TcpCarrierTypes ---------------------------
(***************************************************************************)
(* Type correctness of TcpCarrier, for any set of sockets, any bound on    *)
(* accepted connections and any choice of outside events.                  *)
(***************************************************************************)
EXTENDS TcpCarrier, TLAPS

(* The threads of the model.                                               *)
LEMMA ThreadFacts ==
  /\ Callers \subseteq Threads /\ Works \subseteq Threads
  /\ "retry" \in Works /\ "outrem" \in Works /\ "inrem" \in Works
  /\ "promo" \in Works /\ "ctl" \in Threads
  BY DEF Callers, Threads, Works

-----------------------------------------------------------------------------
(* Type correctness.  PromoLock reads entry_sock[claim_id], so the proof   *)
(* needs that the promotion worker carries a real connection id.           *)

ClaimIdInv == pc["promo"] \in {"claim", "lock"} => claim_id \in Ids

TypeInv == TypeOK /\ ClaimIdInv

(* The flags of the device and the peer stay Boolean.                      *)
LEMMA DeviceTypeStep ==
  DeviceTypeOK /\ [Next]_vars => DeviceTypeOK'
  <1> SUFFICES ASSUME DeviceTypeOK, [Next]_vars
               PROVE DeviceTypeOK'
    OBVIOUS
  <1> USE DEF DeviceTypeOK, devVars
  <1>1. ASSUME NEW t \in Callers, Connect(t) PROVE DeviceTypeOK'
    BY <1>1 DEF Connect, ConnectClaim, ConnectPublish, ConnectCreateFails,
        ConnectSetup, ConnectDial, ConnectFinal, ConnectFinalFails,
        UnwindClaim, UnwindDrain, UnwindRelease, UnwindFinal, UnwindQueue
  <1>2. CASE Retry
    BY <1>2 DEF Retry, RetryRun, Reschedule
  <1>3. CASE OutRemove
    BY <1>3 DEF OutRemove, OutRemoveRun, OutRemoveCancelRetry, OutRemoveTake,
        RemoveDrain, RemoveRelease, OutRemoveFinish, OutRemoveReclaim,
        Reschedule
  <1>4. CASE InRemove
    BY <1>4 DEF InRemove, InRemoveRun, InRemoveTake, RemoveDrain,
        RemoveRelease, InRemoveFinish
  <1>5. CASE Promo
    BY <1>5 DEF Promo, PromoRun, PromoNext, PromoClaim, PromoLock,
        PromoDestroy, PromoDetach, PromoDisplace, PromoDrain, PromoRelease,
        PromoTransfer, PromoSetup, PromoSetupFails, PromoUndo
  <1>6. CASE Stop
    BY <1>6 DEF Stop, StopGate, StopCancel, StopLock, StopDrain, StopRelease,
        StopDone, PeerMakeDead, ListDrain
  <1>7. CASE Control
    BY <1>7 DEF Control, ConfigureEndpoint, RouteChange, StopDevice,
        RemovePeer, CreatePeer, OpenDevice, OpenPeer, OpenFails
  <1>8. CASE StreamWorker
    BY <1>8 DEF StreamWorker, IoStart, IoEnd, IoFail
  <1>9. CASE SendUnconnected
    BY <1>9 DEF SendUnconnected
  <1>10. CASE Accept
    BY <1>10 DEF Accept
  <1>11. ASSUME NEW s \in Sockets, StateChange(s) PROVE DeviceTypeOK'
    BY <1>11 DEF StateChange, StateChangeIgnored, StateEnter,
        StateEstablished, StateOutboundClosed, StateInboundClosed,
        StateQueueRemove
  <1>12. ASSUME NEW s \in Sockets, TcpEstablish(s) PROVE DeviceTypeOK'
    BY <1>12 DEF TcpEstablish
  <1>13. ASSUME NEW s \in Sockets, TcpClose(s) PROVE DeviceTypeOK'
    BY <1>13 DEF TcpClose
  <1>14. ASSUME NEW i \in Ids, Provisional(i) PROVE DeviceTypeOK'
    BY <1>14 DEF Provisional, StateTempClosed, FinishInit, Cleanup,
        AuthPromote, AuthRoam
  <1>15. CASE UNCHANGED vars
    BY <1>15 DEF vars, devVars, sockVars, connVars, claimVars, retryVars,
        skVars, thrVars, listVars, roamVars
  <1>. QED BY <1>1, <1>2, <1>3, <1>4, <1>5, <1>6, <1>7, <1>8, <1>9, <1>10,
        <1>11, <1>12, <1>13, <1>14, <1>15 DEF Next

(* The connection flags stay Boolean.                                      *)
LEMMA ConnTypeStep ==
  ConnTypeOK /\ [Next]_vars => ConnTypeOK'
  <1> SUFFICES ASSUME ConnTypeOK, [Next]_vars
               PROVE ConnTypeOK'
    OBVIOUS
  <1> USE DEF ConnTypeOK, connVars
  <1>1. ASSUME NEW t \in Callers, Connect(t) PROVE ConnTypeOK'
    BY <1>1 DEF Connect, ConnectClaim, ConnectPublish, ConnectCreateFails,
        ConnectSetup, ConnectDial, ConnectFinal, ConnectFinalFails,
        UnwindClaim, UnwindDrain, UnwindRelease, ReleaseSocket, ForgetSocket,
        UnwindFinal, UnwindQueue
  <1>2. CASE Retry
    BY <1>2 DEF Retry, RetryRun, Reschedule
  <1>3. CASE OutRemove
    BY <1>3 DEF OutRemove, OutRemoveRun, OutRemoveCancelRetry, OutRemoveTake,
        RemoveDrain, RemoveRelease, ReleaseSocket, ForgetSocket,
        OutRemoveFinish, OutRemoveReclaim, Reschedule
  <1>4. CASE InRemove
    BY <1>4 DEF InRemove, InRemoveRun, InRemoveTake, RemoveDrain,
        RemoveRelease, ReleaseSocket, ForgetSocket, InRemoveFinish
  <1>5. CASE Promo
    BY <1>5 DEF Promo, PromoRun, PromoNext, PromoClaim, PromoLock,
        PromoDestroy, PromoDetach, PromoDisplace, PromoDrain, PromoRelease,
        ReleaseSocket, ForgetSocket, PromoTransfer, PromoSetup,
        PromoSetupFails, PromoUndo
  <1>6. CASE Stop
    BY <1>6 DEF Stop, StopGate, StopCancel, StopLock, StopDrain, StopRelease,
        ReleaseSocket, ForgetSocket, StopDone, PeerMakeDead, ListDrain
  <1>7. CASE Control
    BY <1>7 DEF Control, ConfigureEndpoint, RouteChange, StopDevice,
        RemovePeer, CreatePeer, OpenDevice, OpenPeer, OpenFails
  <1>8. CASE StreamWorker
    BY <1>8 DEF StreamWorker, IoStart, IoEnd, IoFail
  <1>9. CASE SendUnconnected
    BY <1>9 DEF SendUnconnected
  <1>10. CASE Accept
    BY <1>10 DEF Accept
  <1>11. ASSUME NEW s \in Sockets, StateChange(s) PROVE ConnTypeOK'
    BY <1>11 DEF StateChange, StateChangeIgnored, StateEnter,
        StateEstablished, StateOutboundClosed, StateInboundClosed,
        StateQueueRemove
  <1>12. ASSUME NEW s \in Sockets, TcpEstablish(s) PROVE ConnTypeOK'
    BY <1>12 DEF TcpEstablish
  <1>13. ASSUME NEW s \in Sockets, TcpClose(s) PROVE ConnTypeOK'
    BY <1>13 DEF TcpClose
  <1>14. ASSUME NEW i \in Ids, Provisional(i) PROVE ConnTypeOK'
    BY <1>14 DEF Provisional, StateTempClosed, FinishInit, Cleanup,
        AuthPromote, AuthRoam
  <1>15. CASE UNCHANGED vars
    BY <1>15 DEF vars, devVars, sockVars, connVars, claimVars, retryVars,
        skVars, thrVars, listVars, roamVars
  <1>. QED BY <1>1, <1>2, <1>3, <1>4, <1>5, <1>6, <1>7, <1>8, <1>9, <1>10,
        <1>11, <1>12, <1>13, <1>14, <1>15 DEF Next

(* The claim, retry and promotion flags stay Boolean.                      *)
LEMMA ClaimTypeStep ==
  ClaimTypeOK /\ [Next]_vars => ClaimTypeOK'
  <1> SUFFICES ASSUME ClaimTypeOK, [Next]_vars
               PROVE ClaimTypeOK'
    OBVIOUS
  <1> USE DEF ClaimTypeOK, claimVars, retryVars, roamVars
  <1>1. ASSUME NEW t \in Callers, Connect(t) PROVE ClaimTypeOK'
    BY <1>1 DEF Connect, ConnectClaim, ConnectPublish, ConnectCreateFails,
        ConnectSetup, ConnectDial, ConnectFinal, ConnectFinalFails,
        UnwindClaim, UnwindDrain, UnwindRelease, ReleaseSocket, ForgetSocket,
        UnwindFinal, UnwindQueue
  <1>2. CASE Retry
    BY <1>2 DEF Retry, RetryRun, Reschedule
  <1>3. CASE OutRemove
    BY <1>3 DEF OutRemove, OutRemoveRun, OutRemoveCancelRetry, OutRemoveTake,
        RemoveDrain, RemoveRelease, ReleaseSocket, ForgetSocket,
        OutRemoveFinish, OutRemoveReclaim, RequestReconnect, ClaimOutbound,
        Reschedule
  <1>4. CASE InRemove
    BY <1>4 DEF InRemove, InRemoveRun, InRemoveTake, RemoveDrain,
        RemoveRelease, ReleaseSocket, ForgetSocket, InRemoveFinish
  <1>5. CASE Promo
    BY <1>5 DEF Promo, PromoRun, PromoNext, PromoClaim, PromoLock,
        PromoDestroy, PromoDetach, PromoDisplace, PromoDrain, PromoRelease,
        ReleaseSocket, ForgetSocket, PromoTransfer, PromoSetup,
        PromoSetupFails, PromoUndo
  <1>6. CASE Stop
    BY <1>6 DEF Stop, StopGate, ClaimBoth, StopCancel, StopLock, StopDrain,
        StopRelease, ReleaseSocket, ForgetSocket, StopDone, PeerMakeDead,
        ListDrain
  <1>7. CASE Control
    BY <1>7 DEF Control, ConfigureEndpoint, RequestReconnect, ClaimOutbound,
        RouteChange, StopDevice, RemovePeer, CreatePeer, OpenDevice, OpenPeer,
        OpenFails
  <1>8. CASE StreamWorker
    BY <1>8 DEF StreamWorker, IoStart, IoEnd, IoFail, ClaimOutbound
  <1>9. CASE SendUnconnected
    BY <1>9 DEF SendUnconnected
  <1>10. CASE Accept
    BY <1>10 DEF Accept
  <1>11. ASSUME NEW s \in Sockets, StateChange(s) PROVE ClaimTypeOK'
    BY <1>11 DEF StateChange, StateChangeIgnored, StateEnter,
        StateEstablished, StateOutboundClosed, StateInboundClosed,
        StateQueueRemove
  <1>12. ASSUME NEW s \in Sockets, TcpEstablish(s) PROVE ClaimTypeOK'
    BY <1>12 DEF TcpEstablish
  <1>13. ASSUME NEW s \in Sockets, TcpClose(s) PROVE ClaimTypeOK'
    BY <1>13 DEF TcpClose
  <1>14. ASSUME NEW i \in Ids, Provisional(i) PROVE ClaimTypeOK'
    BY <1>14 DEF Provisional, StateTempClosed, FinishInit, Cleanup,
        AuthPromote, AuthRoam, RequestReconnect, ClaimOutbound
  <1>15. CASE UNCHANGED vars
    BY <1>15 DEF vars, devVars, sockVars, connVars, claimVars, retryVars,
        skVars, thrVars, listVars, roamVars
  <1>. QED BY <1>1, <1>2, <1>3, <1>4, <1>5, <1>6, <1>7, <1>8, <1>9, <1>10,
        <1>11, <1>12, <1>13, <1>14, <1>15 DEF Next

(* Sockets keep a state, a callback owner and pending callbacks of their   *)
(* types.                                                                  *)
LEMMA StackTypeStep ==
  StackTypeOK /\ [Next]_vars => StackTypeOK'
  <1> SUFFICES ASSUME StackTypeOK, [Next]_vars
               PROVE StackTypeOK'
    OBVIOUS
  <1> USE DEF StackTypeOK, skVars
  <1>1. ASSUME NEW t \in Callers, Connect(t) PROVE StackTypeOK'
    BY <1>1 DEF Connect, ConnectClaim, ConnectPublish, ConnectCreateFails,
        ConnectSetup, ConnectDial, ConnectFinal, ConnectFinalFails,
        UnwindClaim, UnwindDrain, UnwindRelease, ReleaseSocket, FreeSocket,
        UnwindFinal, UnwindQueue, SkStates
  <1>2. CASE Retry
    BY <1>2 DEF Retry, RetryRun, Reschedule, SkStates
  <1>3. CASE OutRemove
    BY <1>3 DEF OutRemove, OutRemoveRun, OutRemoveCancelRetry, OutRemoveTake,
        RemoveDrain, RemoveRelease, ReleaseSocket, FreeSocket,
        OutRemoveFinish, OutRemoveReclaim, Reschedule, SkStates
  <1>4. CASE InRemove
    BY <1>4 DEF InRemove, InRemoveRun, InRemoveTake, RemoveDrain,
        RemoveRelease, ReleaseSocket, FreeSocket, InRemoveFinish, SkStates
  <1>5. CASE Promo
    BY <1>5 DEF Promo, PromoRun, PromoNext, PromoClaim, PromoLock,
        PromoDestroy, FreeSocket, PromoDetach, PromoDisplace, PromoDrain,
        PromoRelease, Displaced, ReleaseSocket, PromoTransfer, PromoSetup,
        PromoSetupFails, PromoUndo, SkStates
  <1>6. CASE Stop
    <2>1. CASE StopRelease
      BY <2>1 DEF StopRelease, ReleaseSocket, FreeSocket, SkStates
    <2>2. CASE ListDrain
      BY <2>2 DEF ListDrain, SkStates
    <2>3. CASE StopGate \/ (\E w \in Works : StopCancel(w)) \/ StopLock
            \/ StopDrain \/ StopDone \/ PeerMakeDead
      BY <2>3 DEF StopGate, StopCancel, StopLock, StopDrain, StopDone,
        PeerMakeDead, SkStates
    <2>. QED BY <1>6, <2>1, <2>2, <2>3 DEF Stop
  <1>7. CASE Control
    BY <1>7 DEF Control, ConfigureEndpoint, RouteChange, StopDevice,
        RemovePeer, CreatePeer, OpenDevice, OpenPeer, OpenFails, SkStates
  <1>8. CASE StreamWorker
    BY <1>8 DEF StreamWorker, IoStart, IoEnd, IoFail, SkStates
  <1>9. CASE SendUnconnected
    BY <1>9 DEF SendUnconnected, SkStates
  <1>10. CASE Accept
    BY <1>10 DEF Accept, SkStates
  <1>11. ASSUME NEW s \in Sockets, StateChange(s) PROVE StackTypeOK'
    BY <1>11 DEF StateChange, StateChangeIgnored, StateEnter,
        StateEstablished, StateOutboundClosed, StateInboundClosed,
        StateQueueRemove, SkStates
  <1>12. ASSUME NEW s \in Sockets, TcpEstablish(s) PROVE StackTypeOK'
    BY <1>12 DEF TcpEstablish, SkStates
  <1>13. ASSUME NEW s \in Sockets, TcpClose(s) PROVE StackTypeOK'
    BY <1>13 DEF TcpClose, SkStates
  <1>14. ASSUME NEW i \in Ids, Provisional(i) PROVE StackTypeOK'
    BY <1>14 DEF Provisional, StateTempClosed, FinishInit, Cleanup,
        FreeSocket, AuthPromote, AuthRoam, SkStates
  <1>15. CASE UNCHANGED vars
    BY <1>15 DEF vars, devVars, sockVars, connVars, claimVars, retryVars,
        skVars, thrVars, listVars, roamVars, SkStates
  <1>. QED BY <1>1, <1>2, <1>3, <1>4, <1>5, <1>6, <1>7, <1>8, <1>9, <1>10,
        <1>11, <1>12, <1>13, <1>14, <1>15 DEF Next

(* Socket pointers stay sockets or None.                                   *)
LEMMA PointerTypeStep ==
  PointerTypeOK /\ ClaimIdInv /\ [Next]_vars => PointerTypeOK'
  <1> SUFFICES ASSUME PointerTypeOK, ClaimIdInv, [Next]_vars
               PROVE PointerTypeOK'
    OBVIOUS
  <1> USE DEF PointerTypeOK, sockVars, claimVars, thrVars, listVars
  <1>1. ASSUME NEW t \in Callers, Connect(t) PROVE PointerTypeOK'
    BY <1>1, MaxConnIsNat DEF Connect, ConnectClaim, ConnectPublish,
        ConnectCreateFails, ConnectSetup, ConnectDial, ConnectFinal,
        ConnectFinalFails, UnwindClaim, UnwindDrain, UnwindRelease,
        ReleaseSocket, ForgetSocket, UnwindFinal, UnwindQueue, Opt
  <1>2. CASE Retry
    BY <1>2, MaxConnIsNat DEF Retry, RetryRun, Reschedule, Opt
  <1>3. CASE OutRemove
    BY <1>3, MaxConnIsNat DEF OutRemove, OutRemoveRun, OutRemoveCancelRetry,
        OutRemoveTake, RemoveDrain, RemoveRelease, ReleaseSocket,
        ForgetSocket, OutRemoveFinish, OutRemoveReclaim, RequestReconnect,
        ClaimOutbound, Reschedule, Opt
  <1>4. CASE InRemove
    BY <1>4, MaxConnIsNat DEF InRemove, InRemoveRun, InRemoveTake,
        RemoveDrain, RemoveRelease, ReleaseSocket, ForgetSocket,
        InRemoveFinish, Opt
  <1>5. CASE Promo
    <2>1. CASE PromoLock
      BY <2>1, MaxConnIsNat DEF PromoLock, ClaimIdInv, At, Opt
    <2>2. CASE PromoRelease
      BY <2>2, MaxConnIsNat DEF PromoRelease, Displaced, ReleaseSocket,
        ForgetSocket, Opt
    <2>3. CASE PromoRun \/ PromoNext \/ PromoClaim \/ PromoDestroy
            \/ PromoDetach \/ PromoDisplace \/ PromoDrain \/ PromoTransfer
            \/ PromoSetup \/ PromoSetupFails \/ PromoUndo
      BY <2>3, MaxConnIsNat DEF PromoRun, PromoNext, PromoClaim, PromoDestroy,
        PromoDetach, PromoDisplace, PromoDrain, PromoTransfer, PromoSetup,
        PromoSetupFails, PromoUndo, ReleaseSocket, ForgetSocket, Opt
    <2>. QED BY <1>5, <2>1, <2>2, <2>3 DEF Promo
  <1>6. CASE Stop
    BY <1>6, MaxConnIsNat DEF Stop, StopGate, ClaimBoth, StopCancel, StopLock,
        StopDrain, StopRelease, ReleaseSocket, ForgetSocket, StopDone,
        PeerMakeDead, ListDrain, Opt
  <1>7. CASE Control
    BY <1>7, MaxConnIsNat DEF Control, ConfigureEndpoint, RequestReconnect,
        ClaimOutbound, RouteChange, StopDevice, RemovePeer, CreatePeer,
        OpenDevice, OpenPeer, OpenFails, Opt
  <1>8. CASE StreamWorker
    BY <1>8, MaxConnIsNat DEF StreamWorker, IoStart, IoEnd, IoFail,
        ClaimOutbound, Opt
  <1>9. CASE SendUnconnected
    BY <1>9, MaxConnIsNat DEF SendUnconnected, Opt
  <1>10. CASE Accept
    BY <1>10, MaxConnIsNat DEF Accept, Opt
  <1>11. ASSUME NEW s \in Sockets, StateChange(s) PROVE PointerTypeOK'
    BY <1>11, MaxConnIsNat DEF StateChange, StateChangeIgnored, StateEnter,
        StateEstablished, StateOutboundClosed, StateInboundClosed,
        StateQueueRemove, Opt
  <1>12. ASSUME NEW s \in Sockets, TcpEstablish(s) PROVE PointerTypeOK'
    BY <1>12, MaxConnIsNat DEF TcpEstablish, Opt
  <1>13. ASSUME NEW s \in Sockets, TcpClose(s) PROVE PointerTypeOK'
    BY <1>13, MaxConnIsNat DEF TcpClose, Opt
  <1>14. ASSUME NEW i \in Ids, Provisional(i) PROVE PointerTypeOK'
    BY <1>14, MaxConnIsNat DEF Provisional, StateTempClosed, FinishInit,
        Cleanup, AuthPromote, AuthRoam, RequestReconnect, ClaimOutbound, Opt
  <1>15. CASE UNCHANGED vars
    BY <1>15, MaxConnIsNat DEF vars, devVars, sockVars, connVars, claimVars,
        retryVars, skVars, thrVars, listVars, roamVars, Opt
  <1>. QED BY <1>1, <1>2, <1>3, <1>4, <1>5, <1>6, <1>7, <1>8, <1>9, <1>10,
        <1>11, <1>12, <1>13, <1>14, <1>15 DEF Next

(* Threads stay at known labels, and the mutex belongs to a thread or to   *)
(* none.                                                                   *)
LEMMA ThreadTypeStep == TypeInv /\ [Next]_vars => ThreadTypeOK'
  <1> SUFFICES ASSUME TypeInv, [Next]_vars PROVE ThreadTypeOK'
    OBVIOUS
  <1> USE ThreadFacts
  <1> USE DEF TypeInv, TypeOK, ThreadTypeOK, thrVars, Goto
  <1>1. ASSUME NEW t \in Callers, Connect(t) PROVE ThreadTypeOK'
    <2>1. CASE ConnectClaim(t)
      BY <2>1 DEF ConnectClaim, AfterConnect, Labels
    <2>2. CASE ConnectPublish(t)
      BY <2>2 DEF ConnectPublish, Labels
    <2>3. CASE ConnectCreateFails(t)
      BY <2>3 DEF ConnectCreateFails, Labels
    <2>4. CASE ConnectSetup(t)
      BY <2>4 DEF ConnectSetup, Labels
    <2>5. CASE ConnectDial(t)
      BY <2>5 DEF ConnectDial, Labels
    <2>6. CASE ConnectFinal(t)
      BY <2>6 DEF ConnectFinal, AfterConnect, Unlock, Labels
    <2>7. CASE ConnectFinalFails(t)
      BY <2>7 DEF ConnectFinalFails, Labels
    <2>8. CASE UnwindClaim(t)
      BY <2>8 DEF UnwindClaim, Labels
    <2>9. CASE UnwindDrain(t)
      BY <2>9 DEF UnwindDrain, StreamDrained, Labels
    <2>10. CASE UnwindRelease(t)
      BY <2>10 DEF UnwindRelease, ReleaseSocket, ForgetSocket, FreeSocket,
        CallbacksQuiet, Labels
    <2>11. CASE UnwindFinal(t)
      BY <2>11 DEF UnwindFinal, AfterConnect, Unlock, Labels
    <2>12. CASE UnwindQueue(t)
      BY <2>12 DEF UnwindQueue, AfterConnect, Unlock, Queue, Labels
    <2>. QED BY <1>1, <2>1, <2>2, <2>3, <2>4, <2>5, <2>6, <2>7, <2>8, <2>9,
        <2>10, <2>11, <2>12 DEF
        Connect
  <1>2. CASE Retry
    <2>1. CASE RetryRun
      BY <2>1 DEF RetryRun, Labels
    <2>2. CASE Reschedule("retry")
      BY <2>2 DEF Reschedule, Queue, Labels
    <2>. QED BY <1>2, <2>1, <2>2 DEF Retry
  <1>3. CASE OutRemove
    <2>1. CASE OutRemoveRun
      BY <2>1 DEF OutRemoveRun, Labels
    <2>2. CASE OutRemoveCancelRetry
      BY <2>2 DEF OutRemoveCancelRetry, Cancelled, Labels
    <2>3. CASE OutRemoveTake
      BY <2>3 DEF OutRemoveTake, Lock, Labels
    <2>4. CASE RemoveDrain("outrem")
      BY <2>4 DEF RemoveDrain, StreamDrained, CallbacksQuiet, Labels
    <2>5. CASE RemoveRelease("outrem")
      BY <2>5 DEF RemoveRelease, ReleaseSocket, ForgetSocket, FreeSocket,
        CallbacksQuiet, Labels
    <2>6. CASE OutRemoveFinish
      BY <2>6 DEF OutRemoveFinish, Unlock, Labels
    <2>7. CASE OutRemoveReclaim
      BY <2>7 DEF OutRemoveReclaim, RequestReconnect, ClaimOutbound, Queue,
        Labels
    <2>8. CASE Reschedule("outrem")
      BY <2>8 DEF Reschedule, Queue, Labels
    <2>. QED BY <1>3, <2>1, <2>2, <2>3, <2>4, <2>5, <2>6, <2>7, <2>8 DEF
        OutRemove
  <1>4. CASE InRemove
    <2>1. CASE InRemoveRun
      BY <2>1 DEF InRemoveRun, Labels
    <2>2. CASE InRemoveTake
      BY <2>2 DEF InRemoveTake, Lock, Labels
    <2>3. CASE RemoveDrain("inrem")
      BY <2>3 DEF RemoveDrain, StreamDrained, CallbacksQuiet, Labels
    <2>4. CASE RemoveRelease("inrem")
      BY <2>4 DEF RemoveRelease, ReleaseSocket, ForgetSocket, FreeSocket,
        CallbacksQuiet, Labels
    <2>5. CASE InRemoveFinish
      BY <2>5 DEF InRemoveFinish, Unlock, Labels
    <2>. QED BY <1>4, <2>1, <2>2, <2>3, <2>4, <2>5 DEF InRemove
  <1>5. CASE Promo
    <2>1. CASE PromoRun
      BY <2>1 DEF PromoRun, Labels
    <2>2. CASE PromoNext
      BY <2>2 DEF PromoNext, Labels
    <2>3. CASE PromoClaim
      BY <2>3 DEF PromoClaim, Outdated, Labels
    <2>4. CASE PromoLock
      BY <2>4 DEF PromoLock, Outdated, Labels
    <2>5. CASE PromoDestroy
      BY <2>5 DEF PromoDestroy, FreeSocket, CallbacksQuiet, Labels
    <2>6. CASE PromoDetach
      BY <2>6 DEF PromoDetach, CallbacksQuiet, Labels
    <2>7. CASE PromoDisplace
      BY <2>7 DEF PromoDisplace, Labels
    <2>8. CASE PromoDrain
      BY <2>8 DEF PromoDrain, StreamDrained, Labels
    <2>9. CASE PromoRelease
      BY <2>9 DEF PromoRelease, Displaced, ReleaseSocket, ForgetSocket,
        FreeSocket, CallbacksQuiet, Labels
    <2>10. CASE PromoTransfer
      BY <2>10 DEF PromoTransfer, Labels
    <2>11. CASE PromoSetup
      BY <2>11 DEF PromoSetup, Unlock, Labels
    <2>12. CASE PromoSetupFails
      BY <2>12 DEF PromoSetupFails, Labels
    <2>13. CASE PromoUndo
      BY <2>13 DEF PromoUndo, ReleaseSocket, ForgetSocket, FreeSocket, Unlock,
        Labels
    <2>. QED BY <1>5, <2>1, <2>2, <2>3, <2>4, <2>5, <2>6, <2>7, <2>8, <2>9,
        <2>10, <2>11, <2>12, <2>13 DEF
        Promo
  <1>6. CASE Stop
    <2>1. CASE StopGate
      BY <2>1 DEF StopGate, ClaimBoth, Labels
    <2>2. ASSUME NEW w \in Works, StopCancel(w) PROVE ThreadTypeOK'
      <3>1. CancelNext[w] \in Labels
        BY DEF CancelNext, Works, Labels
      <3>. QED BY <2>2, <3>1 DEF StopCancel
    <2>3. CASE StopLock
      BY <2>3 DEF StopLock, Lock, ClaimBoth, Labels
    <2>4. CASE StopDrain
      BY <2>4 DEF StopDrain, StreamDrained, CallbacksQuiet, Labels
    <2>5. CASE StopRelease
      BY <2>5 DEF StopRelease, ReleaseSocket, ForgetSocket, FreeSocket,
        Unlock, CallbacksQuiet, Labels
    <2>6. CASE StopDone
      BY <2>6 DEF StopDone, Labels
    <2>7. CASE PeerMakeDead
      BY <2>7 DEF PeerMakeDead, Labels
    <2>8. CASE ListDrain
      BY <2>8 DEF ListDrain, CallbacksQuiet, Labels
    <2>. QED BY <1>6, <2>1, <2>2, <2>3, <2>4, <2>5, <2>6, <2>7, <2>8 DEF Stop
  <1>7. CASE Control
    <2>1. CASE ConfigureEndpoint
      BY <2>1 DEF ConfigureEndpoint, RequestReconnect, ClaimOutbound, Queue,
        Labels
    <2>2. CASE RouteChange
      BY <2>2 DEF RouteChange, RequestReconnect, ClaimOutbound, Queue, Labels
    <2>3. CASE StopDevice
      BY <2>3 DEF StopDevice, Labels
    <2>4. CASE RemovePeer
      BY <2>4 DEF RemovePeer, Labels
    <2>5. CASE CreatePeer
      BY <2>5 DEF CreatePeer, Labels
    <2>6. CASE OpenDevice
      BY <2>6 DEF OpenDevice, Labels
    <2>7. CASE OpenPeer
      BY <2>7 DEF OpenPeer, Labels
    <2>8. CASE OpenFails
      BY <2>8 DEF OpenFails, Labels
    <2>. QED BY <1>7, <2>1, <2>2, <2>3, <2>4, <2>5, <2>6, <2>7, <2>8 DEF
        Control
  <1>8. CASE StreamWorker
    <2>1. CASE IoFail
      BY <2>1 DEF IoFail, ClaimOutbound, Queue, Labels
    <2>2. CASE UNCHANGED <<work, pc, mutex>>
      BY <2>2
    <2>. QED BY <1>8, <2>1, <2>2 DEF StreamWorker, IoStart, IoEnd
  <1>9. CASE SendUnconnected
    BY <1>9 DEF SendUnconnected, StreamOpen, Queue, Labels
  <1>10. CASE Accept
    BY <1>10 DEF Accept
  <1>11. ASSUME NEW s \in Sockets, StateChange(s) PROVE ThreadTypeOK'
    <2>1. CASE StateEstablished(s)
      BY <2>1 DEF StateEstablished, Labels
    <2>2. CASE StateQueueRemove(s)
      BY <2>2 DEF StateQueueRemove, ClaimStands, Queue, Labels
    <2>3. CASE UNCHANGED <<work, pc, mutex>>
      BY <2>3
    <2>. QED BY <1>11, <2>1, <2>2, <2>3 DEF StateChange, StateChangeIgnored,
        StateEnter, StateOutboundClosed, StateInboundClosed
  <1>12. ASSUME NEW s \in Sockets, TcpEstablish(s) PROVE ThreadTypeOK'
    BY <1>12 DEF TcpEstablish
  <1>13. ASSUME NEW s \in Sockets, TcpClose(s) PROVE ThreadTypeOK'
    BY <1>13 DEF TcpClose
  <1>14. ASSUME NEW i \in Ids, Provisional(i) PROVE ThreadTypeOK'
    <2>1. CASE AuthPromote(i)
      BY <2>1 DEF AuthPromote, Labels
    <2>2. CASE AuthRoam(i)
      BY <2>2 DEF AuthRoam, Outdated, RequestReconnect, ClaimOutbound, Queue,
        Labels
    <2>3. CASE UNCHANGED <<work, pc, mutex>>
      BY <2>3
    <2>. QED BY <1>14, <2>1, <2>2, <2>3 DEF Provisional, StateTempClosed,
        FinishInit, Cleanup
  <1>15. CASE UNCHANGED vars
    BY <1>15 DEF vars
  <1>. QED BY <1>1, <1>2, <1>3, <1>4, <1>5, <1>6, <1>7, <1>8, <1>9, <1>10,
        <1>11, <1>12, <1>13, <1>14, <1>15 DEF Next

(* Releasing a socket keeps the history variable in range.                 *)
LEMMA ForgetId ==
  ASSUME NEW s, inbound_id \in 0 .. MaxConn, ForgetSocket(s)
  PROVE  inbound_id' \in 0 .. MaxConn
  BY MaxConnIsNat DEF ForgetSocket

(* The provisional list and the connection ids stay in range.              *)
LEMMA ListTypeStep == TypeInv /\ [Next]_vars => ListTypeOK'
  <1> SUFFICES ASSUME TypeInv, [Next]_vars PROVE ListTypeOK'
    OBVIOUS
  <1> USE MaxConnIsNat
  <1> USE DEF TypeInv, TypeOK, ListTypeOK, listVars, roamVars, Ids
  <1>1. ASSUME NEW t \in Callers, Connect(t) PROVE ListTypeOK'
    <2>1. CASE UnwindRelease(t)
      BY <2>1, ForgetId DEF UnwindRelease, ReleaseSocket
    <2>2. CASE UNCHANGED <<last_id, entry, authed, temp_dead, napi, roam_id,
                          promo_id, claim_id, inbound_id>>
      BY <2>2
    <2>. QED BY <1>1, <2>1, <2>2 DEF Connect, ConnectClaim, ConnectPublish,
        ConnectCreateFails, ConnectSetup, ConnectDial, ConnectFinal,
        ConnectFinalFails, UnwindClaim, UnwindDrain, UnwindFinal, UnwindQueue
  <1>2. CASE Retry
    BY <1>2 DEF Retry, Reschedule, RetryRun
  <1>3. CASE OutRemove
    <2>1. CASE RemoveRelease("outrem")
      BY <2>1, ForgetId DEF RemoveRelease, ReleaseSocket
    <2>2. CASE UNCHANGED <<last_id, entry, authed, temp_dead, napi, roam_id,
                          promo_id, claim_id, inbound_id>>
      BY <2>2
    <2>. QED BY <1>3, <2>1, <2>2 DEF OutRemove, OutRemoveRun,
        OutRemoveCancelRetry, OutRemoveTake, RemoveDrain, OutRemoveFinish,
        OutRemoveReclaim, Reschedule
  <1>4. CASE InRemove
    <2>1. CASE RemoveRelease("inrem")
      BY <2>1, ForgetId DEF RemoveRelease, ReleaseSocket
    <2>2. CASE UNCHANGED <<last_id, entry, authed, temp_dead, napi, roam_id,
                          promo_id, claim_id, inbound_id>>
      BY <2>2
    <2>. QED BY <1>4, <2>1, <2>2 DEF InRemove, InRemoveRun, InRemoveTake,
        RemoveDrain, InRemoveFinish
  <1>5. CASE Promo
    <2>1. CASE PromoNext
      BY <2>1 DEF PromoNext
    <2>2. CASE PromoClaim
      BY <2>2 DEF PromoClaim, Outdated, ClaimIdInv, At
    <2>3. CASE PromoLock
      BY <2>3 DEF PromoLock, Outdated
    <2>4. CASE PromoDestroy
      BY <2>4 DEF PromoDestroy, FreeSocket, CallbacksQuiet
    <2>5. CASE PromoRelease
      BY <2>5, ForgetId DEF PromoRelease, ReleaseSocket
    <2>6. CASE PromoTransfer
      BY <2>6 DEF PromoTransfer
    <2>7. CASE PromoUndo
      BY <2>7, ForgetId DEF PromoUndo, ReleaseSocket
    <2>8. CASE UNCHANGED <<last_id, entry, authed, temp_dead, napi, roam_id,
                          promo_id, claim_id, inbound_id>>
      BY <2>8
    <2>. QED BY <1>5, <2>1, <2>2, <2>3, <2>4, <2>5, <2>6, <2>7, <2>8 DEF
        Promo, PromoRun, PromoDetach, PromoDisplace, PromoDrain, PromoSetup,
        PromoSetupFails
  <1>6. CASE Stop
    <2>1. CASE StopRelease
      <3> DEFINE s == IF outbound_socket # None THEN outbound_socket
                      ELSE inbound_socket
      <3>1. CASE s = None
        BY <2>1, <3>1 DEF StopRelease
      <3>2. CASE s # None
        BY <2>1, <3>2, ForgetId DEF StopRelease, ReleaseSocket
      <3>. QED BY <3>1, <3>2
    <2>2. CASE ListDrain
      BY <2>2 DEF ListDrain, CallbacksQuiet
    <2>3. CASE UNCHANGED <<last_id, entry, authed, temp_dead, napi, roam_id,
                          promo_id, claim_id, inbound_id>>
      BY <2>3
    <2>. QED BY <1>6, <2>1, <2>2, <2>3 DEF Stop, StopGate, StopCancel,
        StopLock, StopDrain, StopDone, PeerMakeDead
  <1>7. CASE Control
    <2>1. CASE CreatePeer
      BY <2>1 DEF CreatePeer
    <2>2. CASE UNCHANGED <<last_id, entry, authed, temp_dead, napi, roam_id,
                          promo_id, claim_id, inbound_id>>
      BY <2>2
    <2>. QED BY <1>7, <2>1, <2>2 DEF Control, ConfigureEndpoint, RouteChange,
        StopDevice, RemovePeer, OpenDevice, OpenPeer, OpenFails
  <1>8. CASE StreamWorker
    BY <1>8 DEF StreamWorker, IoEnd, IoFail, IoStart
  <1>9. CASE SendUnconnected
    BY <1>9 DEF SendUnconnected
  <1>10. CASE Accept
    BY <1>10 DEF Accept
  <1>11. ASSUME NEW s \in Sockets, StateChange(s) PROVE ListTypeOK'
    BY <1>11 DEF StateChange, StateChangeIgnored, StateEnter,
        StateEstablished, StateInboundClosed, StateOutboundClosed,
        StateQueueRemove
  <1>12. ASSUME NEW s \in Sockets, TcpEstablish(s) PROVE ListTypeOK'
    BY <1>12 DEF TcpEstablish
  <1>13. ASSUME NEW s \in Sockets, TcpClose(s) PROVE ListTypeOK'
    BY <1>13 DEF TcpClose
  <1>14. ASSUME NEW i \in Ids, Provisional(i) PROVE ListTypeOK'
    <2>1. CASE StateTempClosed(i)
      BY <2>1 DEF StateTempClosed
    <2>2. CASE FinishInit(i)
      BY <2>2 DEF FinishInit
    <2>3. CASE Cleanup(i)
      BY <2>3 DEF Cleanup, FreeSocket, CallbacksQuiet
    <2>4. CASE AuthPromote(i)
      BY <2>4 DEF AuthPromote
    <2>5. CASE AuthRoam(i)
      BY <2>5 DEF AuthRoam, Outdated, RequestReconnect, ClaimOutbound, Queue
    <2>. QED BY <1>14, <2>1, <2>2, <2>3, <2>4, <2>5 DEF Provisional
  <1>15. CASE UNCHANGED vars
    BY <1>15 DEF vars
  <1>. QED BY <1>1, <1>2, <1>3, <1>4, <1>5, <1>6, <1>7, <1>8, <1>9, <1>10,
        <1>11, <1>12, <1>13, <1>14, <1>15 DEF Next

(* The promotion worker only claims a connection id that a packet carried. *)
LEMMA ClaimIdStep ==
  ClaimIdInv /\ ThreadTypeOK /\ ListTypeOK /\ [Next]_vars => ClaimIdInv'
  <1> SUFFICES ASSUME ClaimIdInv, ThreadTypeOK, ListTypeOK, [Next]_vars
               PROVE ClaimIdInv'
    OBVIOUS
  <1> USE DEF ClaimIdInv, ThreadTypeOK, Works, Threads, Callers, At, Goto,
        thrVars, roamVars
  <1>1. ASSUME NEW t \in Callers, Connect(t) PROVE ClaimIdInv'
    BY <1>1, MaxConnIsNat DEF Connect, ConnectClaim, ConnectPublish,
        ConnectCreateFails, ConnectSetup, ConnectDial, ConnectFinal,
        ConnectFinalFails, UnwindClaim, UnwindDrain, UnwindRelease,
        UnwindFinal, UnwindQueue
  <1>2. CASE Retry
    BY <1>2, MaxConnIsNat DEF Retry, RetryRun, Reschedule
  <1>3. CASE OutRemove
    BY <1>3, MaxConnIsNat DEF OutRemove, OutRemoveRun, OutRemoveCancelRetry,
        OutRemoveTake, RemoveDrain, RemoveRelease, OutRemoveFinish,
        OutRemoveReclaim, Reschedule
  <1>4. CASE InRemove
    BY <1>4, MaxConnIsNat DEF InRemove, InRemoveRun, InRemoveTake,
        RemoveDrain, RemoveRelease, InRemoveFinish
  <1>5. CASE Promo
    <2>1. CASE PromoNext
      BY <2>1, MaxConnIsNat DEF PromoNext, ListTypeOK, Ids
    <2>2. CASE PromoRun \/ PromoClaim \/ PromoLock \/ PromoDestroy
            \/ PromoDetach \/ PromoDisplace \/ PromoDrain \/ PromoRelease
            \/ PromoTransfer \/ PromoSetup \/ PromoSetupFails \/ PromoUndo
      BY <2>2, MaxConnIsNat DEF PromoRun, PromoClaim, PromoLock, PromoDestroy,
        PromoDetach, PromoDisplace, PromoDrain, PromoRelease, PromoTransfer,
        PromoSetup, PromoSetupFails, PromoUndo
    <2>. QED BY <1>5, <2>1, <2>2 DEF Promo
  <1>6. CASE Stop
    BY <1>6, MaxConnIsNat DEF Stop, StopGate, StopCancel, StopLock, StopDrain,
        StopRelease, StopDone, PeerMakeDead, ListDrain
  <1>7. CASE Control
    BY <1>7, MaxConnIsNat DEF Control, ConfigureEndpoint, RouteChange,
        StopDevice, RemovePeer, CreatePeer, OpenDevice, OpenPeer, OpenFails
  <1>8. CASE StreamWorker
    BY <1>8, MaxConnIsNat DEF StreamWorker, IoStart, IoEnd, IoFail
  <1>9. CASE SendUnconnected
    BY <1>9, MaxConnIsNat DEF SendUnconnected
  <1>10. CASE Accept
    BY <1>10, MaxConnIsNat DEF Accept
  <1>11. ASSUME NEW s \in Sockets, StateChange(s) PROVE ClaimIdInv'
    BY <1>11, MaxConnIsNat DEF StateChange, StateChangeIgnored, StateEnter,
        StateEstablished, StateOutboundClosed, StateInboundClosed,
        StateQueueRemove
  <1>12. ASSUME NEW s \in Sockets, TcpEstablish(s) PROVE ClaimIdInv'
    BY <1>12, MaxConnIsNat DEF TcpEstablish
  <1>13. ASSUME NEW s \in Sockets, TcpClose(s) PROVE ClaimIdInv'
    BY <1>13, MaxConnIsNat DEF TcpClose
  <1>14. ASSUME NEW i \in Ids, Provisional(i) PROVE ClaimIdInv'
    BY <1>14, MaxConnIsNat DEF Provisional, StateTempClosed, FinishInit,
        Cleanup, AuthPromote, AuthRoam
  <1>15. CASE UNCHANGED vars
    BY <1>15, MaxConnIsNat DEF vars, devVars, sockVars, connVars, claimVars,
        retryVars, skVars, thrVars, listVars, roamVars
  <1>. QED BY <1>1, <1>2, <1>3, <1>4, <1>5, <1>6, <1>7, <1>8, <1>9, <1>10,
        <1>11, <1>12, <1>13, <1>14, <1>15 DEF Next

(* Initially every variable has its type.                                  *)
LEMMA TypeInit == Init => TypeInv
  <1> SUFFICES ASSUME Init PROVE TypeInv
    OBVIOUS
  <1> USE DEF Init, NewPeer
  <1>1. DeviceTypeOK /\ ConnTypeOK /\ ClaimTypeOK
    BY DEF DeviceTypeOK, ConnTypeOK, ClaimTypeOK
  <1>2. PointerTypeOK
    BY DEF PointerTypeOK, Opt
  <1>3. StackTypeOK
    BY DEF StackTypeOK, SkStates
  <1>4. ThreadTypeOK
    BY DEF ThreadTypeOK, Labels, NoThread
  <1>5. ListTypeOK
    BY MaxConnIsNat DEF ListTypeOK
  <1>6. ClaimIdInv
    BY ThreadFacts DEF ClaimIdInv, Works
  <1>. QED BY <1>1, <1>2, <1>3, <1>4, <1>5, <1>6 DEF TypeInv, TypeOK

(* Every variable of the model keeps its type in every behaviour.          *)
THEOREM TypeCorrect == Spec => []TypeOK
  <1>1. TypeInv /\ [Next]_vars => TypeInv'
    BY DeviceTypeStep, ConnTypeStep, ClaimTypeStep, StackTypeStep,
       PointerTypeStep, ThreadTypeStep, ListTypeStep, ClaimIdStep
       DEF TypeInv, TypeOK
  <1>2. TypeInv => TypeOK
    BY DEF TypeInv
  <1>. QED BY TypeInit, <1>1, <1>2, PTL DEF Spec

=============================================================================
