--------------------------- MODULE MCPacketQueue ---------------------------
(***************************************************************************)
(* The packet queue and the replay window share no state: a behaviour of   *)
(* this instance is one of the queue or one of the window.                 *)
(***************************************************************************)
EXTENDS PacketQueue, ReplayCounter

MCInit == Init /\ WindowInit

MCNext == \/ /\ window.received = 0
             /\ Next
             /\ UNCHANGED window
          \/ /\ enqueued = 0 /\ removal.at = "alive" /\ dir = "rx"
             /\ WindowNext
             /\ UNCHANGED vars

MCSpec == MCInit /\ [][MCNext]_<<vars, window>> /\ WF_vars(Progress)
=============================================================================
