---------------------------- MODULE AtomicRestore ----------------------------
(***************************************************************************)
(* What restoring the gateway's state promises: the state an administrator *)
(* asked for replaces the current one in one step, as often as it takes,   *)
(* and nothing is done on the restored state before the request is         *)
(* withdrawn.  Two holes are part of the promise: a state that was moved   *)
(* aside is lost when it is not put back before the gateway opens it, and  *)
(* a request that cannot be withdrawn is carried out again later.          *)
(***************************************************************************)
CONSTANTS Content, Fresh, None

VARIABLES
    state,   \* the content of the state database
    asked,   \* the content that was asked for, or None
    phase    \* "open", "restored" (not yet withdrawn), "aside"

vars == <<state, asked, phase>>

Init == state \in Content /\ asked = None /\ phase = "open"

Change == phase = "open" /\ state' \in Content /\ UNCHANGED <<asked, phase>>
Ask == phase = "open" /\ asked = None /\ asked' \in Content /\ UNCHANGED <<state, phase>>
SetAside == phase # "aside" /\ asked # None /\ phase' = "aside" /\ UNCHANGED <<state, asked>>
PutBack == phase = "aside" /\ phase' = "open" /\ UNCHANGED <<state, asked>>
Restore == asked # None /\ state' = asked /\ phase' = "restored" /\ UNCHANGED asked
Withdraw ==
    /\ asked # None /\ asked' = None
    /\ phase' = IF phase = "aside" THEN "aside" ELSE "open"
    /\ UNCHANGED state
CannotWithdraw == phase = "restored" /\ phase' = "open" /\ UNCHANGED <<state, asked>>
Lose == phase = "aside" /\ state' = Fresh /\ phase' = "open" /\ UNCHANGED asked

Next ==
    \/ Change \/ Ask \/ SetAside \/ PutBack \/ Restore
    \/ Withdraw \/ CannotWithdraw \/ Lose

Spec == Init /\ [][Next]_vars

=============================================================================
