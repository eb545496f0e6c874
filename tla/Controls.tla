------------------------------ MODULE Controls -------------------------------
(***************************************************************************)
(* What a plugin promises its host: the controls of a device can be asked  *)
(* for by their roles, one request at a time. A request reads, sets or     *)
(* moves the control it names and no other, or it is refused and nothing   *)
(* changes. How a role becomes an object number and comes back is left to  *)
(* ObjectBridge, which implements this.                                    *)
(***************************************************************************)
EXTENDS Integers

CONSTANTS Roles, Levels, Refused, None

VARIABLES controls, asked, reply

vars == <<controls, asked, reply>>

Wants == {[kind |-> "get"], [kind |-> "nudge"]} \cup [kind : {"set"}, type : {"f32", "bool"}, value : Levels]
Requests == [role : Roles, want : Wants]

Init == controls \in [Roles -> Levels] /\ asked = None /\ reply = None

Ask == asked = None /\ asked' \in Requests /\ reply' = None /\ UNCHANGED controls

\* What a control holds after the request: a move ends where the range does.
Holds(want, value) ==
    \/ want.kind = "set" /\ value = want.value
    \/ want.kind = "nudge" /\ value \in Levels

Serve ==
    /\ asked # None
    /\ asked' = None
    /\ \/ asked.want.kind = "get" /\ reply' = controls[asked.role] /\ UNCHANGED controls
       \/ \E value \in Levels :
             /\ Holds(asked.want, value)
             /\ controls' = [controls EXCEPT ![asked.role] = value]
             /\ reply' = IF asked.want.kind = "nudge" THEN value - controls[asked.role] ELSE value
       \/ reply' = Refused /\ UNCHANGED controls

\* Somebody at the device.
Turn == controls' \in [Roles -> Levels] /\ UNCHANGED <<asked, reply>>

Next == Ask \/ Serve \/ Turn
Spec == Init /\ [][Next]_vars
=============================================================================
