----------------------------- MODULE MutualEntry -----------------------------
(***************************************************************************)
(* What a phase 2 session promises to the layers above it: it is confirmed *)
(* when both sides have entered and not before, a closed session stays     *)
(* closed, and a friendship is recorded only while a session with that     *)
(* actor is confirmed.                                                     *)
(***************************************************************************)
CONSTANTS Sessions, Actors

VARIABLES name, status, entered, friends

vars == <<name, status, entered, friends>>
Sides == {"local", "remote"}

Init ==
    /\ name \in [Sessions -> Actors]
    /\ status = [s \in Sessions |-> "open"]
    /\ entered = [s \in Sessions |-> {}]
    /\ friends = {}

Enter(s, side) ==
    /\ status[s] = "open"
    /\ entered' = [entered EXCEPT ![s] = @ \cup {side}]
    /\ status' = IF entered'[s] = Sides THEN [status EXCEPT ![s] = "mutual"] ELSE status
    /\ UNCHANGED <<name, friends>>

Close(s) ==
    /\ status[s] \in {"open", "mutual"}
    /\ status' = [status EXCEPT ![s] = "closed"]
    /\ UNCHANGED <<name, entered, friends>>

Befriend(s) ==
    /\ status[s] = "mutual"
    /\ friends' = friends \cup {name[s]}
    /\ UNCHANGED <<name, status, entered>>

Next == \E s \in Sessions :
    Close(s) \/ Befriend(s) \/ \E side \in Sides : Enter(s, side)

Spec == Init /\ [][Next]_vars
=============================================================================
