---------------------------- MODULE OnCallPromise ----------------------------
(***************************************************************************)
(* Every incident of OnCall keeps the promise of Incident.                  *)
(***************************************************************************)
EXTENDS OnCall, FiniteSets

(* What is told of group g outside. *)
StateOf(g) == IF meta[g].state = Absent THEN "none" ELSE meta[g].state
RungOf(g) == IF chat[g] = << >> THEN 0 ELSE chat[g][Len(chat[g])].level
LateOf(g) == Cardinality({m \in DOMAIN chat[g] : ~ chat[g][m].firing})
ExcusesOf(g) == faults + exec[g].misled

Promise(g) == INSTANCE Incident
    WITH Replaceable <- FALSE,
         state <- StateOf(g), rung <- RungOf(g), late <- LateOf(g), excuses <- ExcusesOf(g)

(* Whatever workers, notifiers, presses and retries do to it, each incident is seen  *)
(* to move forward only, to page rung by rung while it fires, and after somebody       *)
(* handled it at most once more, plus once for every call that failed and every state  *)
(* check that a lagging replica answered (FR-2.4, FR-3.2, FR-3.5, FR-6.3).             *)
EachIncidentKeepsItsPromise ==
    /\ \A g \in Groups : Promise(g)!Init
    /\ [][\A g \in Groups : [Promise(g)!Next]_(Promise(g)!incidentVars)]_vars
=============================================================================
