----------------------------- MODULE GroupState -----------------------------
(***************************************************************************)
(* The state machine of an alert group (internal/domain/group.go).         *)
(***************************************************************************)

Firing   == "firing"
Acked    == "acked"
Resolved == "resolved"

States == {Firing, Acked, Resolved}

(* The state of a META item that does not exist; the program has no name for it. *)
Absent == "absent"

(* Mutant of Moves: a resolved incident can be acked again. *)
MovesWithUnresolve ==
    {<<Firing, Acked>>, <<Firing, Resolved>>, <<Acked, Resolved>>, <<Resolved, Acked>>}

(* The moves the machine makes; every other pair of distinct states is refused. *)
Moves == {<<Firing, Acked>>, <<Firing, Resolved>>, <<Acked, Resolved>>}

(* What domain.Transition returns: nil, ErrAlreadyInState or ErrInvalidTransition. *)
Transition(from, to) ==
    IF from = to THEN "already"
    ELSE IF <<from, to>> \in Moves THEN "nil" ELSE "invalid"

(* The states the condition expression of Store.transition lets through. *)
Allowed(to) == {from \in States : Transition(from, to) = "nil"}

(* How far an incident has come: a state later in this order is never left   *)
(* for an earlier one.                                                       *)
Rank(state) == CASE state = Absent   -> 0
                 [] state = Firing   -> 1
                 [] state = Acked    -> 2
                 [] state = Resolved -> 3
=============================================================================
