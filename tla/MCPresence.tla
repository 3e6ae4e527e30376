------------------------------- MODULE MCPresence -------------------------------
(* Constants of Presence for TLC.                                          *)
EXTENDS Presence, TLC

CONSTANTS a, a1, a2

(* One contact with two devices.                                           *)
TwoDevices == [d \in {a1, a2} |-> a]

(* One of them is available, the other busy or away whenever it is there.  *)
OneBusy == (a1 :> {""}) @@ (a2 :> {"dnd", "away"})

=============================================================================
