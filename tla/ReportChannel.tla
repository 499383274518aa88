---------------------------- MODULE ReportChannel ----------------------------
(***************************************************************************)
(* What the polls of the USB host promise of the reports of a keyboard:    *)
(* the main program sees each of them once, in their order.                *)
(***************************************************************************)
EXTENDS Integers, Sequences

CONSTANTS Reports, Ahead    \* how many a device may hold

VARIABLES
    waiting,    \* reports made and not yet seen, oldest first
    keycode     \* the last report seen, none at first

channelVars == <<waiting, keycode>>
-----------------------------------------------------------------------------
Make(r) ==
    /\ Len(waiting) <= Ahead
    /\ waiting' = Append(waiting, r)
    /\ UNCHANGED keycode

See ==
    /\ waiting # <<>>
    /\ keycode' = Head(waiting)
    /\ waiting' = Tail(waiting)

(* A device that is configured anew forgets its reports. *)
Forget == waiting' = <<>> /\ UNCHANGED keycode

ChannelNext == (\E r \in Reports : Make(r)) \/ See \/ Forget

ChannelSpec == waiting = <<>> /\ keycode = "none" /\ [][ChannelNext]_channelVars
=============================================================================
