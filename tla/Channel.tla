------------------------------- MODULE Channel -------------------------------
(***************************************************************************)
(* What the way from Alertmanager to the processor promises about one       *)
(* subject (D4, FR-1.5, FR-1.6): notifications are carried in the order the *)
(* sender made them and at most once each, and one the sender was told was  *)
(* accepted has been carried.                                               *)
(***************************************************************************)
EXTENDS Naturals, Sequences

VARIABLES
    offered,   \* how many notifications the sender has made; they are 1, 2, ...
    carried,   \* the notifications that reached the queue, in its order
    told       \* the notifications whose sender got a 202

channelVars == <<offered, carried, told>>

LastCarried == IF carried = << >> THEN 0 ELSE carried[Len(carried)]

Init == offered = 0 /\ carried = << >> /\ told = {}

Offer == offered' = offered + 1 /\ UNCHANGED <<carried, told>>

Carry ==
    /\ LastCarried < offered
    /\ carried' = Append(carried, offered)
    /\ UNCHANGED <<offered, told>>

Tell ==
    /\ LastCarried = offered
    /\ told' = told \union {offered}
    /\ UNCHANGED <<offered, carried>>

Next == Offer \/ Carry \/ Tell

Spec == Init /\ [][Next]_channelVars
=============================================================================
