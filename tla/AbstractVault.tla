---------------------------- MODULE AbstractVault ----------------------------
(***************************************************************************)
(* What the duress vault (rust/src/duress.rs) promises: the PIN changes at *)
(* one moment, and it is forgotten only when there are no instances left   *)
(* to remove, so that a wipe that was cut short can always be repeated.    *)
(* A power loss takes the vault back to an earlier moment, PIN and         *)
(* instances together.                                                     *)
(***************************************************************************)
CONSTANTS Pin, NoPin

VARIABLES
    pin,      \* the PIN that triggers the wipe
    rest,     \* of the instances: "none", "whole", or "part"
    saved     \* pin and rest after a power loss

vars == <<pin, rest, saved>>

State == [pin |-> pin, rest |-> rest]

Init == pin = NoPin /\ rest = "none" /\ saved = State

Configure(p) == pin' = p /\ UNCHANGED <<rest, saved>>

\* A guest makes its instance, or adds to what is there.
Make == rest = "none" /\ rest' = "whole" /\ UNCHANGED <<pin, saved>>

\* The wipe goes on only while there is a PIN to repeat it with.
Remove ==
    /\ rest # "none" /\ pin # NoPin
    /\ rest' \in {"part", "none"}
    /\ UNCHANGED <<pin, saved>>

Forget == rest = "none" /\ pin' = NoPin /\ UNCHANGED <<rest, saved>>

Save == saved' = State /\ UNCHANGED <<pin, rest>>

PowerLoss == pin' = saved.pin /\ rest' = saved.rest /\ UNCHANGED saved

Next ==
    \/ \E p \in Pin : Configure(p)
    \/ Make \/ Remove \/ Forget \/ Save \/ PowerLoss

Spec == Init /\ [][Next]_vars
=============================================================================
