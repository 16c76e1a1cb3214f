------------------------------ MODULE MCOnCall ------------------------------
(***************************************************************************)
(* Instances of OnCall for TLC.                                            *)
(***************************************************************************)
EXTENDS OnCallPromise, TLC

CONSTANTS f1, f2

(* Envelopes about one problem: firing, or all resolved. *)
OneSubject == {<<[fp |-> f1, firing |-> TRUE]>>, <<[fp |-> f1, firing |-> FALSE]>>}

(* Only firing envelopes about one problem. *)
OnlyFiring == {<<[fp |-> f1, firing |-> TRUE]>>}

(* A problem that fires; and a delivery in which it has resolved while another fires. *)
Mixed ==
    {<<[fp |-> f1, firing |-> TRUE]>>,
     <<[fp |-> f1, firing |-> FALSE], [fp |-> f2, firing |-> TRUE]>>}

PressSymmetry == Permutations(Presses)
KeySymmetry == Permutations(Keys)
=============================================================================
