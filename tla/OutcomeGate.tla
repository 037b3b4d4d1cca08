----------------------------- MODULE OutcomeGate -----------------------------
(***************************************************************************)
(* What the outcome word promises (spec section 4, "outcome word"), with   *)
(* the encoding left out: one call returns a Result across the gate.  The  *)
(* kernel either hands over a Result that fits (an Ok payload in          *)
(* 0..isize::MAX, or a catalogue error), which the receiver then gets      *)
(* exactly, or is refused at the construction site (an Ok payload too     *)
(* large, a contract violation that never crosses the gate).  A foreign    *)
(* sender may hand over any Result that fits, and the receiver gets that.  *)
(***************************************************************************)
EXTENDS Integers

CONSTANTS
    IsizeMax,  \* isize::MAX
    Codes      \* the ErrorStatus catalogue

VARIABLES
    aphase,  \* "idle", "sent", "refused", "delivered"
    src,     \* "none", "kernel", "foreign"
    msg,     \* the Result handed over (or refused)
    got      \* the Result the receiver obtained

gvars == <<aphase, src, msg, got>>

Ok(x) == [tag |-> "Ok", val |-> x]
Err(x) == [tag |-> "Err", val |-> x]
NoResult == [tag |-> "None", val |-> 0]

\* The Results that can cross the gate.
Deliverable == {Ok(v) : v \in 0..IsizeMax} \cup {Err(e) : e \in Codes}

\* The Results a kernel handler may hold that cannot: a usize payload
\* above isize::MAX.
Oversize == {Ok(v) : v \in (IsizeMax + 1)..(2 * IsizeMax + 1)}

GInit ==
    /\ aphase = "idle"
    /\ src = "none"
    /\ msg = NoResult
    /\ got = NoResult

Send(r) ==
    /\ aphase = "idle"
    /\ r \in Deliverable
    /\ aphase' = "sent"
    /\ src' = "kernel"
    /\ msg' = r
    /\ UNCHANGED got

Refuse(r) ==
    /\ aphase = "idle"
    /\ r \in Oversize
    /\ aphase' = "refused"
    /\ src' = "kernel"
    /\ msg' = r
    /\ UNCHANGED got

Forge(r) ==
    /\ aphase = "idle"
    /\ r \in Deliverable
    /\ aphase' = "sent"
    /\ src' = "foreign"
    /\ msg' = r
    /\ UNCHANGED got

Deliver ==
    /\ aphase = "sent"
    /\ aphase' = "delivered"
    /\ got' = msg
    /\ UNCHANGED <<src, msg>>

GNext ==
    \/ \E r \in Deliverable : Send(r) \/ Forge(r)
    \/ \E r \in Oversize : Refuse(r)
    \/ Deliver

GSpec == GInit /\ [][GNext]_gvars
=============================================================================
