---------------------------- MODULE MCConnection ----------------------------
(* A connection attempt (ClientConnect) and the messages on the WebRTC stream *)
(* it may end with (WebRtcFraming), the latter over variables of its own.     *)
EXTENDS ClientConnect, Naturals, Sequences

CONSTANTS Clones, Sends, MaxMsg, Buffer

VARIABLES f_at, f_timed, f_size, f_wrote, f_sent, f_permit, f_state, f_tasks, f_closer, f_close,
          f_wire, f_acc, f_cap, f_delivered, f_ended

F == INSTANCE WebRtcFraming WITH
    at <- f_at, timed <- f_timed, size <- f_size, wrote <- f_wrote, sent <- f_sent,
    permit <- f_permit, state <- f_state, tasks <- f_tasks, closer <- f_closer,
    close <- f_close, wire <- f_wire, acc <- f_acc, cap <- f_cap,
    delivered <- f_delivered, ended <- f_ended

ASSUME FramingAssumption == Clones \cap {F!Free, F!Teardown} = {}

framingVars == <<f_at, f_timed, f_size, f_wrote, f_sent, f_permit, f_state, f_tasks, f_closer,
                 f_close, f_wire, f_acc, f_cap, f_delivered, f_ended>>

-----------------------------------------------------------------------------
(* The properties of the instantiated module, stated there.                   *)

(* What the receiver returns is a message some sender sent, whole.            *)
NoSplice == F!NoSplice

(* A sender that has a timeout is never stuck.                                *)
SendReturns == F!SendReturns
=============================================================================
