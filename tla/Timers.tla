------------------------------- MODULE Timers -------------------------------
(***************************************************************************)
(* The timers of one peer (kernel/timers.c).  A timer is the Boolean       *)
(* timer_pending(); time is not modelled, so a pending timer may fire at   *)
(* any moment its deadline does not exclude.  As in module Noise every     *)
(* operator maps the state d of a device to the state a function leaves.   *)
(***************************************************************************)
EXTENDS Naturals

CONSTANT PersistentKeepalive  \* persistent_keepalive_interval is set

(* wg_timers_init() *)
TimersInit == [timer_retransmit_handshake |-> FALSE,
               timer_send_keepalive |-> FALSE,
               timer_new_handshake |-> FALSE,
               timer_zero_key_material |-> FALSE,
               timer_persistent_keepalive |-> FALSE,
               timer_need_another_keepalive |-> FALSE,
               timer_handshake_attempts |-> 0,
               sent_lastminute_handshake |-> FALSE]

(* mod_peer_timer() does nothing unless the interface is up. *)
Armed(d, pending) == pending \/ d.up

TimersDataSent(d) ==
    [d EXCEPT !.timer_new_handshake = Armed(d, @)]

TimersDataReceived(d) ==
    IF ~d.up THEN d
    ELSE [d EXCEPT !.timer_send_keepalive = TRUE,
                   !.timer_need_another_keepalive =
                        @ \/ d.timer_send_keepalive]

TimersAnyAuthenticatedPacketSent(d) ==
    [d EXCEPT !.timer_send_keepalive = FALSE]

TimersAnyAuthenticatedPacketReceived(d) ==
    [d EXCEPT !.timer_new_handshake = FALSE]

TimersHandshakeInitiated(d) ==
    [d EXCEPT !.timer_retransmit_handshake = Armed(d, @)]

TimersHandshakeComplete(d) ==
    [d EXCEPT !.timer_retransmit_handshake = FALSE,
              !.timer_handshake_attempts = 0,
              !.sent_lastminute_handshake = FALSE]

(* The timer is set only by the initiator. *)
TimersSessionDerivedInitiator(d) ==
    [d EXCEPT !.timer_zero_key_material =
                   IF d.current_keypair.i_am_the_initiator
                   THEN Armed(d, @) ELSE @]

TimersSessionDerived(d) ==
    [d EXCEPT !.timer_zero_key_material = Armed(d, @)]

TimersAnyAuthenticatedPacketTraversal(d) ==
    [d EXCEPT !.timer_persistent_keepalive =
                   @ \/ (PersistentKeepalive /\ d.up)]

(* wg_timers_stop(); clear_peer_work is flushed by the caller's guard. *)
TimersStop(d) ==
    [d EXCEPT !.timer_retransmit_handshake = FALSE,
              !.timer_send_keepalive = FALSE,
              !.timer_new_handshake = FALSE,
              !.timer_zero_key_material = FALSE,
              !.timer_persistent_keepalive = FALSE]
=============================================================================
