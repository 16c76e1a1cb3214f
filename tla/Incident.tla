------------------------------ MODULE Incident ------------------------------
(***************************************************************************)
(* What one incident promises to whoever looks at it: it goes forward only,  *)
(* it pages higher and higher while nobody has handled it, and after that at *)
(* most the one page that was on its way, and one more for everything that   *)
(* went wrong around it and excuses a page.                                  *)
(***************************************************************************)
EXTENDS Naturals

CONSTANTS
    Top,          \* the highest rung there is
    Replaceable   \* whether a handled incident makes room for the next one

VARIABLES
    state,    \* "none", "firing", "acked" or "resolved"
    rung,     \* the highest rung that has been paged
    late,     \* how many pages have gone out after it was handled
    excuses   \* what has gone wrong: lost answers, lagging reads

incidentVars == <<state, rung, late, excuses>>

Handled == state \in {"acked", "resolved"}

Init == state = "none" /\ rung = 0 /\ late = 0 /\ excuses = 0

Free == state = "none" \/ (Replaceable /\ Handled)

(* It opens, with its first page or ahead of it. *)
Open == Free /\ state' = "firing" /\ rung' \in {0, 1} /\ late' = 0

(* News of an incident that is over already. *)
Shut == Free /\ Replaceable /\ state' = "resolved" /\ rung' = 0 /\ late' = 0

Page == state = "firing" /\ rung' \in rung + 1 .. Top /\ UNCHANGED <<state, late>>

LatePage ==
    /\ Handled
    /\ late' = late + 1 /\ late <= excuses'
    /\ rung' \in rung .. Top
    /\ UNCHANGED state

Ack == state = "firing" /\ state' = "acked" /\ UNCHANGED <<rung, late>>

Resolve == state \in {"firing", "acked"} /\ state' = "resolved" /\ UNCHANGED <<rung, late>>

Forget == Replaceable /\ state' = "none" /\ rung' = 0 /\ late' = 0

GoesWrong == UNCHANGED <<state, rung, late>>

Next ==
    /\ excuses <= excuses'
    /\ Open \/ Shut \/ Page \/ LatePage \/ Ack \/ Resolve \/ Forget \/ GoesWrong

Spec == Init /\ [][Next]_incidentVars
=============================================================================
