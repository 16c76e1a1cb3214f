------------------------------- MODULE MCRung -------------------------------
(***************************************************************************)
(* Instances for TLC of what a rung of the ladder rests on: the rota that    *)
(* names whom to page, the Telegram call that pages, and the stack both run   *)
(* on.  They share no state: a scene is one of them, the others  *)
(* stay in one initial state.                                               *)
(***************************************************************************)
EXTENDS Rota, TelegramClient, Deployment

VARIABLE scene

(* Two rotations, one with a COUNT and one with an UNTIL, and a single shift. *)
MCEvents ==
    {[user |-> "mai",  start |-> 0, dur |-> 2, every |-> 4, until |-> 99, count |-> 0],
     [user |-> "linh", start |-> 2, dur |-> 2, every |-> 4, until |-> 99, count |-> 2],
     [user |-> "vy",   start |-> 3, dur |-> 2, every |-> 2, until |-> 6,  count |-> 0],
     [user |-> "huy",  start |-> 4, dur |-> 1, every |-> 0, until |-> 99, count |-> 0]}
MCRemovable == {ev \in MCEvents : ev.user = "huy"}
MCOverrides == {[user |-> "tan", start |-> 1, end |-> 4, source |-> "override"]}

Scenes == {"rota", "client", "deployment"}
rungVars == <<rotaVars, clientVars, deployVars, scene>>

Init ==
    /\ scene \in Scenes
    /\ RotaInit /\ ClientInit /\ DeployInit
    /\ scene # "client" => caller = "notify" /\ elapsed = 0
    /\ scene # "deployment" => env = "local"

Next ==
    /\ UNCHANGED scene
    /\ \/ scene = "rota" /\ RotaNext /\ UNCHANGED <<clientVars, deployVars>>
       \/ scene = "client" /\ ClientNext /\ UNCHANGED <<rotaVars, deployVars>>
       \/ scene = "deployment" /\ DeployNext /\ UNCHANGED <<rotaVars, clientVars>>

Spec == Init /\ [][Next]_rungVars

(* The types of all three. *)
RungType == RotaType /\ ClientType /\ DeployType
=============================================================================
