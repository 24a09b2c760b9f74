------------------------- MODULE TcpAdmissionProofs -------------------------
(***************************************************************************)
(* Type correctness of TcpAdmission and its limits on provisional          *)
(* connections, for any limits and any number of sockets, addresses,       *)
(* listeners and connections.  Every step of the device changes            *)
(* tcp_connection_list in one of four ways; each of them keeps the         *)
(* counters equal to the list and within their limits.                     *)
(***************************************************************************)
EXTENDS TcpAdmission, FiniteSetTheorems, TLAPS

-----------------------------------------------------------------------------
(* Type correctness.  ListenFinish marks the socket in the listener's      *)
(* register dead, so the proof needs that a listener at work has one.      *)

SocketInHand ==
  \A f \in Families :
    listener[f].pc \notin {"off", "bound", "accept"} => listener[f].sock \in Sockets

TypeInv == TypeOK /\ SocketInHand

(* Device flags, the sweep timer and the states of the workers.            *)
LEMMA DeviceTypeStep == DeviceTypeOK /\ [Next]_vars => DeviceTypeOK'
  <1> SUFFICES ASSUME DeviceTypeOK, [Next]_vars PROVE DeviceTypeOK'
    OBVIOUS
  <1> USE DEF DeviceTypeOK, Off
  <1>1. ASSUME NEW f \in Families, ListenAdmit(f) \/ ListenLookup(f) \/
      ListenReplace(f) \/ ListenDestroy(f) \/ ListenCreate(f) \/ ListenAdd(f)
      PROVE DeviceTypeOK'
    BY <1>1, LimitsArePositive DEF ListenAdmit, ListenLookup, ListenReplace,
        ListenDestroy, ListenCreate, ListenAdd
  <1>2. ASSUME NEW f \in Families, ListenAccept(f) PROVE DeviceTypeOK'
    BY <1>2, LimitsArePositive DEF ListenAccept
  <1>3. ASSUME NEW f \in Families, ListenArm(f) PROVE DeviceTypeOK'
    BY <1>3, LimitsArePositive DEF ListenArm
  <1>4. ASSUME NEW f \in Families, ListenFinish(f) PROVE DeviceTypeOK'
    <2>1. timer' = 0 \/ timer' = timer
      BY <1>4 DEF ListenFinish
    <2> QED BY <1>4, <2>1, LimitsArePositive DEF ListenFinish
  <1>5. ASSUME NEW s \in Sockets, TcpClose(s) \/ CloseCallback(s) \/
      PeerRelease(s) PROVE DeviceTypeOK'
    BY <1>5, LimitsArePositive DEF TcpClose, threadVars, CloseCallback,
        PeerRelease
  <1>6. ASSUME NEW s \in Sockets, CloseQueue(s) PROVE DeviceTypeOK'
    BY <1>6, LimitsArePositive DEF CloseQueue
  <1>7. ASSUME NEW i \in Ids, Touch(i) \/ PromoteFinish(i) PROVE DeviceTypeOK'
    BY <1>7, LimitsArePositive DEF Touch, threadVars, PromoteFinish
  <1>8. ASSUME NEW i \in Ids, Authenticate(i) PROVE DeviceTypeOK'
    BY <1>8, LimitsArePositive DEF Authenticate
  <1>9. ASSUME NEW i \in Ids, PromoteClaim(i) PROVE DeviceTypeOK'
    BY <1>9, LimitsArePositive DEF PromoteClaim
  <1>10. CASE CleanRun
    BY <1>10, LimitsArePositive DEF CleanRun
  <1>11. CASE CleanClaim
    BY <1>11, LimitsArePositive DEF CleanClaim
  <1>12. CASE CleanDestroy
    BY <1>12, LimitsArePositive DEF CleanDestroy
  <1>13. CASE CleanCheck
    BY <1>13, LimitsArePositive DEF CleanCheck
  <1>14. CASE CleanArm
    BY <1>14, LimitsArePositive DEF CleanArm
  <1>15. CASE StopPeers
    BY <1>15, LimitsArePositive DEF StopPeers
  <1>16. CASE StopJoin
    BY <1>16, LimitsArePositive DEF StopJoin
  <1>17. CASE StopCancel
    BY <1>17, LimitsArePositive DEF StopCancel
  <1>18. CASE StopDrain
    BY <1>18, LimitsArePositive DEF StopDrain
  <1>19. CASE StopDestroy
    BY <1>19, LimitsArePositive DEF StopDestroy
  <1>20. CASE Tick
    BY <1>20, LimitsArePositive DEF Tick, AtRest
  <1>21. CASE Open
    BY <1>21, LimitsArePositive DEF Open
  <1>22. CASE Opened
    BY <1>22, LimitsArePositive DEF Opened
  <1>23. CASE OpenFails
    BY <1>23, LimitsArePositive DEF OpenFails
  <1>24. CASE StopBegin
    BY <1>24, LimitsArePositive DEF StopBegin
  <1>25. CASE UNCHANGED vars
    BY <1>25 DEF vars, sockVars, entryVars, threadVars
  <1>26. ASSUME NEW f \in Families, ListenerSocketInit(f) PROVE DeviceTypeOK'
    BY <1>26, LimitsArePositive DEF ListenerSocketInit
  <1> QED
    BY <1>1, <1>2, <1>3, <1>4, <1>5, <1>6, <1>7, <1>8, <1>9, <1>10, <1>11,
        <1>12, <1>13, <1>14, <1>15, <1>16, <1>17, <1>18, <1>19, <1>20, <1>21,
        <1>22, <1>23, <1>24, <1>25, <1>26 DEF Next, Listen, Clean, Stop, Callback

(* Sockets, their callbacks and dead provisional peers.                    *)
LEMMA SocketTypeStep == TypeInv /\ [Next]_vars => SocketTypeOK'
  <1> SUFFICES ASSUME TypeInv, [Next]_vars PROVE SocketTypeOK'
    OBVIOUS
  <1> USE DEF TypeInv, TypeOK, SocketTypeOK
  <1>1. ASSUME NEW f \in Families, ListenLookup(f) \/ ListenReplace(f) \/
      ListenArm(f) \/ ListenerSocketInit(f) PROVE SocketTypeOK'
    BY <1>1 DEF ListenLookup, sockVars, ListenReplace, ListenArm,
        ListenerSocketInit
  <1>2. ASSUME NEW f \in Families, ListenAccept(f) PROVE SocketTypeOK'
    BY <1>2 DEF ListenAccept
  <1>3. ASSUME NEW f \in Families, ListenAdmit(f) PROVE SocketTypeOK'
    BY <1>3 DEF ListenAdmit, FreeSocket, Drop, sockVars
  <1>4. ASSUME NEW f \in Families, ListenDestroy(f) PROVE SocketTypeOK'
    BY <1>4 DEF ListenDestroy, FreeSocket, Destroy
  <1>5. ASSUME NEW f \in Families, ListenCreate(f) PROVE SocketTypeOK'
    BY <1>5 DEF ListenCreate, FreeSocket, Drop, sockVars
  <1>6. ASSUME NEW f \in Families, ListenAdd(f) PROVE SocketTypeOK'
    BY <1>6 DEF ListenAdd, FreeSocket, Drop, sockVars
  <1>7. ASSUME NEW f \in Families, ListenFinish(f) PROVE SocketTypeOK'
    <2>1. listener[f].sock \in Sockets
      BY <1>7 DEF ListenFinish, At, SocketInHand
    <2> QED BY <1>7, <2>1 DEF ListenFinish
  <1>8. ASSUME NEW s \in Sockets, TcpClose(s) PROVE SocketTypeOK'
    BY <1>8 DEF TcpClose
  <1>9. ASSUME NEW s \in Sockets, CloseCallback(s) PROVE SocketTypeOK'
    BY <1>9 DEF CloseCallback
  <1>10. ASSUME NEW s \in Sockets, CloseQueue(s) PROVE SocketTypeOK'
    BY <1>10 DEF CloseQueue
  <1>11. ASSUME NEW s \in Sockets, PeerRelease(s) PROVE SocketTypeOK'
    BY <1>11 DEF PeerRelease
  <1>12. ASSUME NEW i \in Ids, Touch(i) \/ Authenticate(i) \/ PromoteClaim(i)
      PROVE SocketTypeOK'
    BY <1>12 DEF Touch, sockVars, Authenticate, PromoteClaim
  <1>13. ASSUME NEW i \in Ids, PromoteFinish(i) PROVE SocketTypeOK'
    BY <1>13 DEF PromoteFinish, FreeSocket, Destroy
  <1>14. CASE CleanRun \/ CleanClaim \/ CleanCheck \/ CleanArm \/ StopPeers \/
      StopJoin \/ StopCancel \/ StopDrain \/ Tick \/ Open \/ Opened \/
      OpenFails \/ StopBegin
    BY <1>14 DEF CleanRun, sockVars, CleanClaim, CleanCheck, CleanArm,
        StopPeers, StopJoin, StopCancel, StopDrain, Tick, Open, Opened,
        OpenFails, StopBegin
  <1>15. CASE CleanDestroy
    BY <1>15 DEF CleanDestroy, FreeSocket, Destroy
  <1>16. CASE StopDestroy
    BY <1>16 DEF StopDestroy, FreeSocket, Destroy
  <1>17. CASE UNCHANGED vars
    BY <1>17 DEF vars, sockVars, entryVars, threadVars
  <1> QED
    BY <1>1, <1>2, <1>3, <1>4, <1>5, <1>6, <1>7, <1>8, <1>9, <1>10, <1>11,
        <1>12, <1>13, <1>14, <1>15, <1>16, <1>17 DEF Next, Listen, Clean, Stop,
        Callback

(* The fields of the entries, and the counters.                            *)
LEMMA EntryTypeStep == TypeInv /\ [Next]_vars => EntryTypeOK'
  <1> SUFFICES ASSUME TypeInv, [Next]_vars PROVE EntryTypeOK'
    OBVIOUS
  <1> USE DEF TypeInv, TypeOK, EntryTypeOK, Opt
  <1>1. ASSUME NEW f \in Families, ListenAccept(f) \/ ListenAdmit(f) \/
      ListenLookup(f) \/ ListenCreate(f) \/ ListenArm(f) \/
      ListenerSocketInit(f) PROVE EntryTypeOK'
    BY <1>1, LimitsArePositive DEF ListenAccept, entryVars, ListenAdmit,
        ListenLookup, ListenCreate, ListenArm, ListenerSocketInit
  <1>2. ASSUME NEW f \in Families, ListenReplace(f) PROVE EntryTypeOK'
    BY <1>2, LimitsArePositive DEF ListenReplace, ReleaseAdmission, Claim,
        entryVars, unclaimed, Owners
  <1>3. ASSUME NEW f \in Families, ListenDestroy(f) PROVE EntryTypeOK'
    BY <1>3, LimitsArePositive DEF ListenDestroy, Forget, Destroy, unlisted
  <1>4. ASSUME NEW f \in Families, ListenAdd(f) PROVE EntryTypeOK'
    <2>1. listener[f].addr \in Opt(Addrs) /\ listener[f].sock \in Opt(Sockets)
      BY DEF ListenerTypeOK
    <2>2. tcp_connection_sequence' \in 0 .. MaxConn
      BY <1>4, LimitsArePositive DEF ListenAdd, Ids
    <2> QED BY <1>4, <2>1, <2>2 DEF ListenAdd
  <1>5. ASSUME NEW f \in Families, ListenFinish(f) PROVE EntryTypeOK'
    BY <1>5, LimitsArePositive DEF ListenFinish
  <1>6. ASSUME NEW s \in Sockets, TcpClose(s) \/ CloseCallback(s) \/
      CloseQueue(s) \/ PeerRelease(s) PROVE EntryTypeOK'
    BY <1>6, LimitsArePositive DEF TcpClose, entryVars, CloseCallback,
        CloseQueue, PeerRelease
  <1>7. ASSUME NEW i \in Ids, Touch(i) PROVE EntryTypeOK'
    BY <1>7, LimitsArePositive DEF Touch
  <1>8. ASSUME NEW i \in Ids, Authenticate(i) PROVE EntryTypeOK'
    BY <1>8, LimitsArePositive DEF Authenticate, ReleaseAdmission,
        MarkAuthenticated, unclaimed
  <1>9. ASSUME NEW i \in Ids, PromoteClaim(i) PROVE EntryTypeOK'
    BY <1>9, LimitsArePositive DEF PromoteClaim, ReleaseAdmission, Claim,
        MarkAuthenticated, unclaimed, Owners, Promotable
  <1>10. ASSUME NEW i \in Ids, PromoteFinish(i) PROVE EntryTypeOK'
    BY <1>10, LimitsArePositive DEF PromoteFinish, Forget, Destroy, unlisted
  <1>11. CASE CleanRun \/ CleanCheck \/ CleanArm \/ StopPeers \/ StopJoin \/
      StopCancel \/ Tick \/ Open \/ Opened \/ OpenFails \/ StopBegin
    BY <1>11, LimitsArePositive DEF CleanRun, entryVars, CleanCheck, CleanArm,
        StopPeers, StopJoin, StopCancel, Tick, Open, Opened, OpenFails,
        StopBegin
  <1>12. CASE CleanClaim
    BY <1>12, LimitsArePositive DEF CleanClaim, ReleaseAdmission, Claim,
        entryVars, unclaimed, Owners
  <1>13. CASE CleanDestroy
    BY <1>13, LimitsArePositive DEF CleanDestroy, Forget, Destroy, unlisted
  <1>14. CASE StopDrain
    BY <1>14, LimitsArePositive DEF StopDrain, ReleaseAdmission, Claim,
        entryVars, unclaimed, Owners
  <1>15. CASE StopDestroy
    BY <1>15, LimitsArePositive DEF StopDestroy, Forget, Destroy, unlisted
  <1>16. CASE UNCHANGED vars
    BY <1>16 DEF vars, sockVars, entryVars, threadVars
  <1> QED
    BY <1>1, <1>2, <1>3, <1>4, <1>5, <1>6, <1>7, <1>8, <1>9, <1>10, <1>11,
        <1>12, <1>13, <1>14, <1>15, <1>16 DEF Next, Listen, Clean, Stop,
        Callback

(* Zero is an age.                                                        *)
LEMMA ZeroIsAge == AgeCap \in Nat /\ 0 \in 0 .. AgeCap
  BY LimitsArePositive DEF AgeCap

(* Ages are counted up to a bound.                                         *)
LEMMA AgeTypeStep == TypeInv /\ [Next]_vars => AgeTypeOK'
  <1> SUFFICES ASSUME TypeInv, [Next]_vars PROVE AgeTypeOK'
    OBVIOUS
  <1> USE DEF TypeInv, TypeOK, AgeTypeOK
  <1>1. ASSUME NEW f \in Families, ListenAccept(f) \/ ListenAdmit(f) \/
      ListenLookup(f) \/ ListenReplace(f) \/ ListenCreate(f) \/ ListenAdd(f) \/
      ListenArm(f) \/ ListenFinish(f) \/ ListenerSocketInit(f) PROVE AgeTypeOK'
    BY <1>1, ZeroIsAge DEF ListenAccept, entryVars, ListenAdmit, ListenLookup,
        ListenReplace, unclaimed, ListenCreate, ListenAdd, ListenArm,
        ListenFinish, ListenerSocketInit
  <1>2. ASSUME NEW f \in Families, ListenDestroy(f) PROVE AgeTypeOK'
    BY <1>2, ZeroIsAge DEF ListenDestroy, Forget, Destroy
  <1>3. ASSUME NEW s \in Sockets, TcpClose(s) \/ CloseCallback(s) \/
      CloseQueue(s) \/ PeerRelease(s) PROVE AgeTypeOK'
    BY <1>3, ZeroIsAge DEF TcpClose, entryVars, CloseCallback, CloseQueue,
        PeerRelease
  <1>4. ASSUME NEW i \in Ids, Touch(i) PROVE AgeTypeOK'
    BY <1>4, ZeroIsAge DEF Touch
  <1>5. ASSUME NEW i \in Ids, Authenticate(i) PROVE AgeTypeOK'
    BY <1>5, ZeroIsAge DEF Authenticate, MarkAuthenticated, unclaimed
  <1>6. ASSUME NEW i \in Ids, PromoteClaim(i) PROVE AgeTypeOK'
    BY <1>6, ZeroIsAge DEF PromoteClaim, MarkAuthenticated, unclaimed
  <1>7. ASSUME NEW i \in Ids, PromoteFinish(i) PROVE AgeTypeOK'
    BY <1>7, ZeroIsAge DEF PromoteFinish, Forget, Destroy
  <1>8. CASE CleanRun \/ CleanClaim \/ CleanCheck \/ CleanArm \/ StopPeers \/
      StopJoin \/ StopCancel \/ StopDrain \/ Open \/ Opened \/ OpenFails \/
      StopBegin
    BY <1>8, ZeroIsAge DEF CleanRun, entryVars, CleanClaim, unclaimed,
        CleanCheck, CleanArm, StopPeers, StopJoin, StopCancel, StopDrain, Open,
        Opened, OpenFails, StopBegin
  <1>9. CASE CleanDestroy
    BY <1>9, ZeroIsAge DEF CleanDestroy, Forget, Destroy
  <1>10. CASE StopDestroy
    BY <1>10, ZeroIsAge DEF StopDestroy, Forget, Destroy
  <1>11. CASE Tick
    BY <1>11, ZeroIsAge DEF Tick, Older
  <1>12. CASE UNCHANGED vars
    BY <1>12 DEF vars, sockVars, entryVars, threadVars
  <1> QED
    BY <1>1, <1>2, <1>3, <1>4, <1>5, <1>6, <1>7, <1>8, <1>9, <1>10, <1>11,
        <1>12 DEF Next, Listen, Clean, Stop, Callback

(* The registers of the listener threads.                                  *)
LEMMA ListenerTypeStep == TypeInv /\ [Next]_vars => (ListenerTypeOK /\ SocketInHand)'
  <1> SUFFICES ASSUME TypeInv, [Next]_vars PROVE (ListenerTypeOK /\
      SocketInHand)'
    OBVIOUS
  <1> USE DEF TypeInv, TypeOK, ListenerTypeOK, SocketInHand, ListenerSteps, Opt
  <1>1. ASSUME NEW f \in Families, ListenAccept(f) PROVE (ListenerTypeOK /\
      SocketInHand)'
    BY <1>1 DEF ListenAccept, At
  <1>2. ASSUME NEW f \in Families, ListenAdmit(f) PROVE (ListenerTypeOK /\
      SocketInHand)'
    BY <1>2 DEF ListenAdmit, Drop, Rest, Goto, Quiet, At
  <1>3. ASSUME NEW f \in Families, ListenLookup(f) PROVE (ListenerTypeOK /\
      SocketInHand)'
    BY <1>3 DEF ListenLookup, Goto, At, EntryTypeOK
  <1>4. ASSUME NEW f \in Families, ListenReplace(f) PROVE (ListenerTypeOK /\
      SocketInHand)'
    BY <1>4 DEF ListenReplace, Goto, At
  <1>5. ASSUME NEW f \in Families, ListenDestroy(f) PROVE (ListenerTypeOK /\
      SocketInHand)'
    BY <1>5 DEF ListenDestroy, Goto, At
  <1>6. ASSUME NEW f \in Families, ListenCreate(f) PROVE (ListenerTypeOK /\
      SocketInHand)'
    BY <1>6 DEF ListenCreate, Drop, Rest, Goto, Quiet, At
  <1>7. ASSUME NEW f \in Families, ListenAdd(f) PROVE (ListenerTypeOK /\
      SocketInHand)'
    BY <1>7 DEF ListenAdd, Drop, Rest, Goto, Quiet, At
  <1>8. ASSUME NEW f \in Families, ListenArm(f) PROVE (ListenerTypeOK /\
      SocketInHand)'
    BY <1>8 DEF ListenArm, Goto, At
  <1>9. ASSUME NEW f \in Families, ListenFinish(f) PROVE (ListenerTypeOK /\
      SocketInHand)'
    BY <1>9 DEF ListenFinish, Rest, Quiet, At
  <1>10. ASSUME NEW s \in Sockets, TcpClose(s) \/ CloseCallback(s) \/
      CloseQueue(s) \/ PeerRelease(s) PROVE (ListenerTypeOK /\ SocketInHand)'
    BY <1>10 DEF TcpClose, threadVars, CloseCallback, CloseQueue, PeerRelease
  <1>11. ASSUME NEW i \in Ids, Touch(i) \/ Authenticate(i) \/ PromoteClaim(i)
      \/ PromoteFinish(i) PROVE (ListenerTypeOK /\ SocketInHand)'
    BY <1>11 DEF Touch, threadVars, Authenticate, PromoteClaim, PromoteFinish
  <1>12. CASE CleanRun \/ CleanClaim \/ CleanDestroy \/ CleanCheck \/ CleanArm
      \/ StopPeers \/ StopCancel \/ StopDrain \/ StopDestroy \/ Tick \/ Open
      \/ Opened \/ OpenFails \/ StopBegin
    BY <1>12 DEF CleanRun, CleanClaim, CleanDestroy, CleanCheck, CleanArm,
        StopPeers, StopCancel, StopDrain, StopDestroy, Tick, Open, Opened,
        OpenFails, StopBegin
  <1>13. CASE StopJoin
    BY <1>13 DEF StopJoin, Quiet
  <1>14. ASSUME NEW f \in Families, ListenerSocketInit(f) PROVE
      (ListenerTypeOK /\ SocketInHand)'
    BY <1>14 DEF ListenerSocketInit, SetupListen, ListenerThread, Rest, Quiet
  <1>15. CASE UNCHANGED vars
    BY <1>15 DEF vars, sockVars, entryVars, threadVars
  <1> QED
    BY <1>1, <1>2, <1>3, <1>4, <1>5, <1>6, <1>7, <1>8, <1>9, <1>10, <1>11,
        <1>12, <1>13, <1>14, <1>15 DEF Next, Listen, Clean, Stop, Callback

(* Initially every variable has its type.                                  *)
LEMMA TypeInit == Init => TypeInv
  <1> SUFFICES ASSUME Init PROVE TypeInv
    OBVIOUS
  <1>0. 0 \in 0 .. MaxConn /\ Off \in 0 .. Off
    BY LimitsArePositive DEF Off
  <1>1. DeviceTypeOK /\ SocketTypeOK
    BY <1>0 DEF Init, DeviceTypeOK, SocketTypeOK
  <1>2. EntryTypeOK
    BY LimitsArePositive DEF Init, EntryTypeOK, Opt
  <1>3. AgeTypeOK
    BY ZeroIsAge DEF Init, AgeTypeOK
  <1>4. ListenerTypeOK /\ SocketInHand
    BY DEF Init, ListenerTypeOK, SocketInHand, ListenerSteps, Quiet, Opt
  <1> QED BY <1>1, <1>2, <1>3, <1>4 DEF TypeInv, TypeOK

(* Every step keeps the types.                                             *)
LEMMA TypeStep == TypeInv /\ [Next]_vars => TypeInv'
  BY DeviceTypeStep, SocketTypeStep, EntryTypeStep, AgeTypeStep, ListenerTypeStep
  DEF TypeInv, TypeOK

(* The fields of the device, of its listeners and of every entry keep      *)
(* their types; in particular no counter drops below zero.                 *)
THEOREM AdmissionTypes == Spec => []TypeOK
  <1>1. TypeInv => TypeOK
    BY DEF TypeInv
  <1> QED BY <1>1, TypeInit, TypeStep, PTL DEF Spec

-----------------------------------------------------------------------------
(* Ids, ownership and authentication of the entries.                       *)

(* Taking an entry off the list keeps the list in order.                   *)
LEMMA ClaimKeepsList ==
  ASSUME TypeOK, ListInv, NEW i \in listed, NEW o, Claim(i, o),
         authenticated' \in {authenticated, authenticated \cup {i}},
         UNCHANGED tcp_connection_sequence
  PROVE  ListInv'
  <1> USE DEF ListInv, TypeOK, EntryTypeOK
  <1>1. listed' = listed \ {i} /\ owner' = [owner EXCEPT ![i] = o]
    BY DEF Claim
  <1>2. admission_counted' = admission_counted \ {i}
    BY DEF Claim, ReleaseAdmission
  <1>3. admission_counted' = listed' \ authenticated'
    BY <1>1, <1>2
  <1>4. i \in 1 .. tcp_connection_sequence /\ i \in Ids
    OBVIOUS
  <1>5. authenticated' \subseteq 1 .. tcp_connection_sequence
    BY <1>4
  <1>6. \A j \in Ids : owner'[j] # None => j \notin listed'
    BY <1>1
  <1>7. \A j \in Ids : j > tcp_connection_sequence => owner'[j] = None
    BY <1>1, <1>4 DEF Ids
  <1> QED BY <1>1, <1>3, <1>5, <1>6, <1>7

(* So does destroying an entry that has an owner.                          *)
LEMMA ForgetKeepsList ==
  ASSUME TypeOK, ListInv, NEW i \in Ids, owner[i] # None, Forget(i),
         UNCHANGED unlisted
  PROVE  ListInv' /\ \A j \in listed : src_addr'[j] = src_addr[j]
  <1> USE DEF ListInv, TypeOK, EntryTypeOK
  <1>1. i \notin listed
    OBVIOUS
  <1>2. /\ owner' = [owner EXCEPT ![i] = None]
        /\ src_addr' = [src_addr EXCEPT ![i] = None]
        /\ authenticated' = authenticated \ {i}
        /\ UNCHANGED <<tcp_connection_sequence, listed, admission_counted>>
    BY DEF Forget, unlisted
  <1>3. admission_counted' = listed' \ authenticated'
    BY <1>1, <1>2
  <1> QED BY <1>1, <1>2, <1>3

(* So does marking an entry authenticated.                                 *)
LEMMA MarkKeepsList ==
  ASSUME TypeOK, ListInv, NEW i \in Ids, MarkAuthenticated(i),
         UNCHANGED <<tcp_connection_sequence, listed, owner>>
  PROVE  ListInv'
  BY DEF ListInv, TypeOK, EntryTypeOK, MarkAuthenticated, ReleaseAdmission

(* The list stays in order.                                                *)
LEMMA ListStep == TypeOK /\ ListInv /\ [Next]_vars => ListInv'
  <1> SUFFICES ASSUME TypeOK, ListInv, [Next]_vars PROVE ListInv'
    OBVIOUS
  <1> USE DEF ListInv
  <1>1. ASSUME NEW f \in Families, ListenAccept(f) \/ ListenAdmit(f) \/
      ListenLookup(f) \/ ListenCreate(f) \/ ListenArm(f) \/ ListenFinish(f) \/
      ListenerSocketInit(f) PROVE ListInv'
    BY <1>1 DEF ListenAccept, entryVars, ListenAdmit, ListenLookup,
        ListenCreate, ListenArm, ListenFinish, ListenerSocketInit
  <1>2. ASSUME NEW f \in Families, ListenReplace(f) PROVE ListInv'
    <2>1. CASE UNCHANGED entryVars
      BY <2>1 DEF entryVars
    <2>2. ASSUME NEW i \in listed, NEW o, Claim(i, o),
                 UNCHANGED <<unclaimed, authenticated, touched>>
          PROVE ListInv'
      BY <2>2, ClaimKeepsList DEF unclaimed
    <2> QED BY <1>2, <2>1, <2>2 DEF ListenReplace
  <1>3. ASSUME NEW f \in Families, ListenDestroy(f) PROVE ListInv'
    BY <1>3, NoneIsNothing, ForgetKeepsList DEF ListenDestroy, Destroy
  <1>4. ASSUME NEW f \in Families, ListenAdd(f) PROVE ListInv'
    <2> DEFINE new == tcp_connection_sequence + 1
    <2> USE DEF TypeOK, EntryTypeOK, Ids
    <2>1. new \in Ids /\ tcp_connection_sequence' = new /\ UNCHANGED <<authenticated, owner>>
      BY <1>4 DEF ListenAdd
    <2>2. new \notin authenticated /\ owner[new] = None
      BY <2>1, LimitsArePositive
    <2>3. \/ UNCHANGED <<listed, admission_counted>>
          \/ /\ listed' = listed \cup {new}
             /\ admission_counted' = admission_counted \cup {new}
      BY <1>4 DEF ListenAdd
    <2>4. admission_counted' = listed' \ authenticated'
      BY <2>1, <2>2, <2>3
    <2>a. 1 .. tcp_connection_sequence \subseteq 1 .. new /\ new \in 1 .. new
      OBVIOUS
    <2>5. listed' \subseteq 1 .. new /\ authenticated' \subseteq 1 .. new
      BY <2>1, <2>3, <2>a
    <2>6. \A i \in Ids : i > new => owner'[i] = None
      BY <2>1
    <2>7. \A i \in Ids : owner'[i] # None => i \notin listed'
      BY <2>1, <2>2, <2>3
    <2> QED BY <2>1, <2>4, <2>5, <2>6, <2>7
  <1>5. ASSUME NEW s \in Sockets, TcpClose(s) \/ CloseCallback(s) \/
      CloseQueue(s) \/ PeerRelease(s) PROVE ListInv'
    BY <1>5 DEF TcpClose, entryVars, CloseCallback, CloseQueue, PeerRelease
  <1>6. ASSUME NEW i \in Ids, Touch(i) PROVE ListInv'
    BY <1>6 DEF Touch
  <1>7. ASSUME NEW i \in Ids, Authenticate(i) PROVE ListInv'
    BY <1>7, MarkKeepsList DEF Authenticate, unclaimed
  <1>8. ASSUME NEW i \in Ids, PromoteClaim(i) PROVE ListInv'
    <2>1. CASE Promotable(i) /\ Claim(i, "promo") /\ authenticated' = authenticated \cup {i}
      BY <1>8, <2>1, ClaimKeepsList DEF PromoteClaim, Promotable, unclaimed
    <2>2. CASE MarkAuthenticated(i) /\ UNCHANGED <<listed, owner>>
      BY <1>8, <2>2, MarkKeepsList DEF PromoteClaim, unclaimed
    <2> QED BY <1>8, <2>1, <2>2 DEF PromoteClaim
  <1>9. ASSUME NEW i \in Ids, PromoteFinish(i) PROVE ListInv'
    BY <1>9, NoneIsNothing, ForgetKeepsList DEF PromoteFinish, Destroy
  <1>10. CASE CleanRun \/ CleanCheck \/ CleanArm \/ StopPeers \/ StopJoin \/
      StopCancel \/ Tick \/ Open \/ Opened \/ OpenFails \/ StopBegin
    BY <1>10 DEF CleanRun, entryVars, CleanCheck, CleanArm, StopPeers,
        StopJoin, StopCancel, Tick, Open, Opened, OpenFails, StopBegin
  <1>11. CASE CleanClaim
    <2>1. CASE UNCHANGED entryVars
      BY <2>1 DEF entryVars
    <2>2. ASSUME NEW i \in listed, NEW o, Claim(i, o),
                 UNCHANGED <<unclaimed, authenticated, touched>>
          PROVE ListInv'
      BY <2>2, ClaimKeepsList DEF unclaimed
    <2> QED BY <1>11, <2>1, <2>2 DEF CleanClaim
  <1>12. CASE CleanDestroy
    BY <1>12, NoneIsNothing, ForgetKeepsList DEF CleanDestroy, Destroy
  <1>13. CASE StopDrain
    <2>1. CASE UNCHANGED entryVars
      BY <2>1 DEF entryVars
    <2>2. ASSUME NEW i \in listed, NEW o, Claim(i, o),
                 UNCHANGED <<unclaimed, authenticated, touched>>
          PROVE ListInv'
      BY <2>2, ClaimKeepsList DEF unclaimed
    <2> QED BY <1>13, <2>1, <2>2 DEF StopDrain
  <1>14. CASE StopDestroy
    BY <1>14, NoneIsNothing, ForgetKeepsList DEF StopDestroy, Destroy
  <1>15. CASE UNCHANGED vars
    BY <1>15 DEF vars, sockVars, entryVars, threadVars
  <1> QED
    BY <1>1, <1>2, <1>3, <1>4, <1>5, <1>6, <1>7, <1>8, <1>9, <1>10, <1>11,
        <1>12, <1>13, <1>14, <1>15 DEF Next, Listen, Clean, Stop, Callback

-----------------------------------------------------------------------------
(* The list, the counters and the addresses of the entries stay.           *)
Untouched ==
  /\ UNCHANGED <<listed, admission_counted, tcp_pending_connections,
                 tcp_tracked_connections>>
  /\ \A j \in listed : src_addr'[j] = src_addr[j]

(* Entry i no longer counts for admission.                                 *)
Admitted(i) ==
  /\ i \in listed /\ ReleaseAdmission(i)
  /\ UNCHANGED <<listed, tcp_tracked_connections, src_addr>>

(* Entry i leaves the list.                                                *)
Taken(i) ==
  /\ i \in listed /\ ReleaseAdmission(i)
  /\ tcp_tracked_connections' = IF tcp_tracked_connections = 0 THEN 0
                                ELSE tcp_tracked_connections - 1
  /\ listed' = listed \ {i}
  /\ UNCHANGED src_addr

(* A new entry from address a is published.                                *)
Added(a) ==
  LET i == tcp_connection_sequence + 1 IN
  /\ i \in Ids /\ MayAdd(a)
  /\ listed' = listed \cup {i}
  /\ admission_counted' = admission_counted \cup {i}
  /\ tcp_pending_connections' = tcp_pending_connections + 1
  /\ tcp_tracked_connections' = tcp_tracked_connections + 1
  /\ src_addr' = [src_addr EXCEPT ![i] = a]

(* Every step of the listeners, callbacks, packets, workers and interface  *)
(* changes the list in one of the four ways.                               *)
LEMMA ListChange ==
  TypeOK /\ ListInv /\ [Next]_vars =>
    \/ Untouched
    \/ \E i \in Ids : Admitted(i) \/ Taken(i)
    \/ \E a \in Opt(Addrs) : Added(a)
  <1> SUFFICES ASSUME TypeOK, ListInv, [Next]_vars
               PROVE \/ Untouched
                     \/ \E i \in Ids : Admitted(i) \/ Taken(i)
                     \/ \E a \in Opt(Addrs) : Added(a)
    OBVIOUS
  <1> USE DEF ListInv, TypeOK, EntryTypeOK
  <1>1. ASSUME NEW f \in Families, ListenAccept(f) PROVE Untouched
    BY <1>1 DEF ListenAccept, entryVars, Untouched
  <1>2. ASSUME NEW f \in Families, ListenAdmit(f) \/ ListenLookup(f) \/ ListenCreate(f)
                                   \/ ListenArm(f) \/ ListenFinish(f)
                                   \/ ListenerSocketInit(f)
        PROVE Untouched
    BY <1>2 DEF ListenAdmit, ListenLookup, ListenCreate, ListenArm, ListenFinish,
                ListenerSocketInit, entryVars, Untouched
  <1>3. ASSUME NEW f \in Families, ListenReplace(f)
        PROVE Untouched \/ \E i \in Ids : Taken(i)
    BY <1>3 DEF ListenReplace, Claim, Untouched, Taken, entryVars, unclaimed
  <1>4. ASSUME NEW f \in Families, ListenDestroy(f) PROVE Untouched
    BY <1>4, NoneIsNothing, ForgetKeepsList
    DEF ListenDestroy, Destroy, Untouched, unlisted
  <1>5. ASSUME NEW f \in Families, ListenAdd(f)
        PROVE Untouched \/ \E a \in Opt(Addrs) : Added(a)
    BY <1>5 DEF ListenAdd, Untouched, Added, ListenerTypeOK
  <1>6. ASSUME NEW s \in Sockets, TcpClose(s) \/ Callback(s) \/ PeerRelease(s)
        PROVE Untouched
    BY <1>6 DEF TcpClose, Callback, CloseCallback, CloseQueue, PeerRelease,
                entryVars, Untouched
  <1>7. ASSUME NEW i \in Ids, Touch(i) PROVE Untouched
    BY <1>7 DEF Touch, Untouched
  <1>8. ASSUME NEW i \in Ids, Authenticate(i) PROVE Untouched \/ Admitted(i)
    BY <1>8 DEF Authenticate, MarkAuthenticated, Untouched, Admitted, unclaimed
  <1>9. ASSUME NEW i \in Ids, PromoteClaim(i)
        PROVE Untouched \/ Admitted(i) \/ Taken(i)
    BY <1>9 DEF PromoteClaim, MarkAuthenticated, Claim, Promotable, Untouched,
                Admitted, Taken, unclaimed
  <1>10. ASSUME NEW i \in Ids, PromoteFinish(i) PROVE Untouched
    BY <1>10, NoneIsNothing, ForgetKeepsList
    DEF PromoteFinish, Destroy, Untouched, unlisted
  <1>11. CASE Clean
    <2>1. CASE CleanRun \/ CleanCheck \/ CleanArm
      BY <2>1 DEF CleanRun, CleanCheck, CleanArm, entryVars, Untouched
    <2>2. CASE CleanClaim
      BY <2>2 DEF CleanClaim, Claim, Untouched, Taken, entryVars, unclaimed
    <2>3. CASE CleanDestroy
      BY <2>3, NoneIsNothing, ForgetKeepsList
      DEF CleanDestroy, Destroy, Untouched, unlisted
    <2> QED BY <1>11, <2>1, <2>2, <2>3 DEF Clean
  <1>12. CASE Stop
    <2>1. CASE StopPeers \/ StopJoin \/ StopCancel
      BY <2>1 DEF StopPeers, StopJoin, StopCancel, entryVars, Untouched
    <2>2. CASE StopDrain
      BY <2>2 DEF StopDrain, Claim, Untouched, Taken, entryVars, unclaimed
    <2>3. CASE StopDestroy
      BY <2>3, NoneIsNothing, ForgetKeepsList
      DEF StopDestroy, Destroy, Untouched, unlisted
    <2> QED BY <1>12, <2>1, <2>2, <2>3 DEF Stop
  <1>13. CASE Open \/ Opened \/ OpenFails \/ StopBegin \/ Tick
    BY <1>13 DEF Open, Opened, OpenFails, StopBegin, Tick, entryVars, Untouched
  <1>14. CASE UNCHANGED vars
    BY <1>14 DEF vars, entryVars, Untouched
  <1> QED
    BY <1>1, <1>2, <1>3, <1>4, <1>5, <1>6, <1>7, <1>8, <1>9, <1>10, <1>11, <1>12,
       <1>13, <1>14 DEF Next, Listen

-----------------------------------------------------------------------------
(* The counters.                                                           *)

(* The list and its unauthenticated part are finite sets.                  *)
LEMMA ListsAreFinite ==
  TypeOK => IsFiniteSet(listed) /\ IsFiniteSet(admission_counted)
  <1> SUFFICES ASSUME TypeOK
               PROVE IsFiniteSet(listed) /\ IsFiniteSet(admission_counted)
    OBVIOUS
  <1>1. IsFiniteSet(Ids)
    BY FS_Interval, LimitsArePositive DEF Ids
  <1> QED BY <1>1, FS_Subset DEF TypeOK, EntryTypeOK

(* Releasing an entry's admission keeps the pending counter exact, whoever *)
(* releases it and however often.                                          *)
LEMMA ReleaseKeepsCount ==
  ASSUME TypeOK, CountInv, NEW i \in Ids, ReleaseAdmission(i)
  PROVE  /\ tcp_pending_connections' = Cardinality(admission_counted')
         /\ tcp_pending_connections' <= MaxPending
         /\ admission_counted' \subseteq admission_counted
  <1> USE DEF CountInv
  <1>1. IsFiniteSet(admission_counted)
    BY ListsAreFinite
  <1>2. Cardinality(admission_counted) \in Nat
    BY <1>1, FS_CardinalityType
  <1>3. CASE i \in admission_counted
    <2>1. Cardinality(admission_counted \ {i}) = Cardinality(admission_counted) - 1
      BY <1>1, <1>3, FS_RemoveElement
    <2>2. Cardinality(admission_counted \ {i}) \in Nat
      BY <1>1, FS_RemoveElement, FS_CardinalityType
    <2>3. tcp_pending_connections # 0
      BY <1>2, <2>1, <2>2
    <2> QED BY <1>2, <1>3, <2>1, <2>3, LimitsArePositive DEF ReleaseAdmission
  <1>4. CASE i \notin admission_counted
    BY <1>4 DEF ReleaseAdmission
  <1> QED BY <1>3, <1>4

(* The counters stay equal to the list and within their limits.            *)
LEMMA CountStep == TypeOK /\ ListInv /\ CountInv /\ [Next]_vars => CountInv'
  <1> SUFFICES ASSUME TypeOK, ListInv, CountInv, [Next]_vars PROVE CountInv'
    OBVIOUS
  <1> USE DEF CountInv
  <1>0. /\ IsFiniteSet(listed) /\ Cardinality(listed) \in Nat
        /\ IsFiniteSet(admission_counted) /\ Cardinality(admission_counted) \in Nat
    BY ListsAreFinite, FS_CardinalityType
  <1>1. CASE Untouched
    BY <1>1 DEF Untouched
  <1>2. ASSUME NEW i \in Ids, Admitted(i) PROVE CountInv'
    BY <1>2, ReleaseKeepsCount DEF Admitted
  <1>3. ASSUME NEW i \in Ids, Taken(i) PROVE CountInv'
    <2>1. /\ Cardinality(listed \ {i}) = Cardinality(listed) - 1
          /\ Cardinality(listed \ {i}) \in Nat
      BY <1>0, <1>3, FS_RemoveElement, FS_CardinalityType DEF Taken
    <2>2. tcp_tracked_connections' = Cardinality(listed) - 1
      BY <1>0, <1>3, <2>1 DEF Taken
    <2>3. /\ tcp_tracked_connections' = Cardinality(listed')
          /\ tcp_tracked_connections' <= MaxTracked
      BY <1>0, <1>3, <2>1, <2>2, LimitsArePositive DEF Taken
    <2> QED BY <1>3, <2>3, ReleaseKeepsCount DEF Taken
  <1>4. ASSUME NEW a \in Opt(Addrs), Added(a) PROVE CountInv'
    <2> DEFINE n == tcp_connection_sequence + 1
    <2>1. n \notin listed /\ n \notin admission_counted
      BY DEF ListInv, TypeOK, EntryTypeOK
    <2>2. /\ Cardinality(listed \cup {n}) = Cardinality(listed) + 1
          /\ Cardinality(admission_counted \cup {n}) = Cardinality(admission_counted) + 1
      BY <1>0, <2>1, FS_AddElement
    <2>3. /\ tcp_pending_connections < MaxPending
          /\ tcp_tracked_connections < MaxTracked
      BY <1>4 DEF Added, MayAdd
    <2> QED BY <1>0, <1>4, <2>2, <2>3, LimitsArePositive DEF Added
  <1> QED BY <1>1, <1>2, <1>3, <1>4, ListChange

(* The entries that count against the source of address a.                 *)
Counted(a) ==
  {i \in listed \cap admission_counted : Host[src_addr[i]] = Host[a]}

(* No source exceeds its limit.                                            *)
LEMMA SourceStep == TypeOK /\ ListInv /\ SourceInv /\ [Next]_vars => SourceInv'
  <1> SUFFICES ASSUME TypeOK, ListInv, SourceInv, [Next]_vars, NEW a \in Addrs
               PROVE Cardinality(Counted(a)') <= PerSource
    BY DEF SourceInv, PendingFrom, SameHost, Counted
  <1>0. \A b : IsFiniteSet(Counted(b)) /\ Cardinality(Counted(b)) \in Nat
    BY ListsAreFinite, FS_Subset, FS_CardinalityType DEF Counted
  <1>1. Cardinality(Counted(a)) <= PerSource
    BY DEF SourceInv, PendingFrom, SameHost, Counted
  <1>2. ASSUME Counted(a)' \subseteq Counted(a)
        PROVE Cardinality(Counted(a)') <= PerSource
    <2>1. /\ Cardinality(Counted(a)') <= Cardinality(Counted(a))
          /\ Cardinality(Counted(a)') \in Nat
      BY <1>0, <1>2, FS_Subset, FS_CardinalityType
    <2> QED BY <1>0, <1>1, <2>1, LimitsArePositive
  <1>3. CASE Untouched
    BY <1>2, <1>3 DEF Untouched, Counted
  <1>4. ASSUME NEW i \in Ids, Admitted(i) \/ Taken(i)
        PROVE Cardinality(Counted(a)') <= PerSource
    BY <1>2, <1>4 DEF Admitted, Taken, ReleaseAdmission, Counted
  <1>5. ASSUME NEW b \in Opt(Addrs), Added(b)
        PROVE Cardinality(Counted(a)') <= PerSource
    <2> DEFINE n == tcp_connection_sequence + 1
    <2>1. n \notin listed /\ n \in Ids
      BY <1>5 DEF ListInv, TypeOK, EntryTypeOK, Added
    <2>2. src_addr'[n] = b /\ \A i \in listed : src_addr'[i] = src_addr[i]
      BY <1>5, <2>1 DEF Added, TypeOK, EntryTypeOK
    <2>3. CASE Host[b] # Host[a]
      <3>1. Counted(a)' \subseteq Counted(a)
        BY <1>5, <2>2, <2>3 DEF Added, Counted
      <3> QED BY <1>2, <3>1
    <2>4. CASE Host[b] = Host[a]
      <3>1. Counted(a)' \subseteq Counted(a) \cup {n}
        BY <1>5, <2>2 DEF Added, Counted
      <3>2. Counted(b) = Counted(a)
        BY <2>4 DEF Counted
      <3>3. Cardinality(Counted(a)) < PerSource
        BY <1>5, <3>2 DEF Added, MayAdd, PendingFrom, SameHost, Counted
      <3>4. n \notin Counted(a)
        BY <2>1 DEF Counted
      <3>5. /\ IsFiniteSet(Counted(a) \cup {n})
            /\ Cardinality(Counted(a) \cup {n}) = Cardinality(Counted(a)) + 1
        BY <1>0, <3>4, FS_AddElement
      <3>6. /\ Cardinality(Counted(a)') <= Cardinality(Counted(a) \cup {n})
            /\ Cardinality(Counted(a)') \in Nat
        BY <3>1, <3>5, FS_Subset, FS_CardinalityType
      <3> QED BY <1>0, <3>3, <3>5, <3>6, LimitsArePositive
    <2> QED BY <2>3, <2>4
  <1> QED BY <1>3, <1>4, <1>5, ListChange

(* Initially there is no entry.                                            *)
LEMMA AdmissionInit == Init => ListInv /\ CountInv /\ SourceInv
  <1> SUFFICES ASSUME Init PROVE ListInv /\ CountInv /\ SourceInv
    OBVIOUS
  <1>1. ListInv
    BY DEF Init, ListInv
  <1>2. CountInv
    BY FS_EmptySet, LimitsArePositive DEF Init, CountInv
  <1>3. \A a : Counted(a) = {}
    BY DEF Init, Counted
  <1>4. SourceInv
    BY <1>3, FS_EmptySet, LimitsArePositive DEF SourceInv, PendingFrom, SameHost, Counted
  <1> QED BY <1>1, <1>2, <1>4

(* The inductive invariant: types, order of the list, exact counters and   *)
(* the limit per source.                                                   *)
THEOREM AdmissionCorrect == Spec => []AdmissionInv
  <1>1. Init => TypeInv /\ AdmissionInv
    BY TypeInit, AdmissionInit DEF AdmissionInv, TypeInv
  <1>2. TypeInv /\ AdmissionInv /\ [Next]_vars => (TypeInv /\ AdmissionInv)'
    BY TypeStep, ListStep, CountStep, SourceStep DEF AdmissionInv, TypeInv
  <1> QED BY <1>1, <1>2, PTL DEF Spec

(* The two counters always equal the list, whatever order authentication,  *)
(* promotion, replacement, cleanup and stop release an entry in.           *)
THEOREM CountersAreExact == Spec => []CountsExact
  <1>1. AdmissionInv => CountsExact
    BY DEF AdmissionInv, ListInv, CountInv, CountsExact
  <1> QED BY <1>1, AdmissionCorrect, PTL

(* The device never holds more than MaxTracked entries, more than          *)
(* MaxPending unauthenticated ones, or more than PerSource of these from   *)
(* one host.                                                               *)
THEOREM LimitsHold == Spec => []CapsHold
  <1>1. AdmissionInv => CapsHold
    BY DEF AdmissionInv, ListInv, CountInv, SourceInv, CapsHold
  <1> QED BY <1>1, AdmissionCorrect, PTL

=============================================================================
