---------------------------- MODULE DispatchRule ----------------------------
(***************************************************************************)
(* The dispatch rule DEC-0096 as the comment at the head of                *)
(* apps/satellite-web/src/node/provider-core.ts states it: the node runs a *)
(* mission only on a valid offer and a valid assignment, of one Navigator, *)
(* in force, and never used before.                                        *)
(*                                                                         *)
(* It says nothing of maps, waits, streams or signatures being checked:    *)
(* only which messages exist, what time it is and what has been served.    *)
(***************************************************************************)
EXTENDS Naturals, Sequences

CONSTANTS
    Missions,
    Navigators,
    Offered,   \* offers the Navigators signed
    Assigned,  \* assignments of this node they signed
    Grace      \* ASSIGNMENT_GRACE_MS, past the deadline of the offer

VARIABLES
    now,
    served     \* missions run, with the Navigator each was run for, in order

rvars == <<now, served>>

ServedMissions == {served[i].mission : i \in DOMAIN served}

InForce(m, n) ==
    \E o \in Offered, a \in Assigned :
        /\ o.mission = m /\ o.nav = n
        /\ a.mission = m /\ a.nav = n
        /\ now <= o.deadline + Grace

Init == now = 0 /\ served = <<>>

Elapse == now' = now + 1 /\ UNCHANGED served

Dispatch(m, n) ==
    /\ m \notin ServedMissions
    /\ InForce(m, n)
    /\ served' = Append(served, [mission |-> m, nav |-> n])
    /\ UNCHANGED now

Next == Elapse \/ \E m \in Missions, n \in Navigators : Dispatch(m, n)

Spec == Init /\ [][Next]_rvars
=============================================================================
