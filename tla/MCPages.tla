------------------------------ MODULE MCPages ------------------------------
(***************************************************************************)
(* Instances for TLC of what runs in a reader's browser: the status page   *)
(* with the endpoint behind it, the simulation, the documentation shell and*)
(* the preferences.  They share nothing: a scene is one of them, the others*)
(* stay in their initial states.  The page has two scenes, "lists", with all*)
(* incidents and one load at a time that nothing disturbs, and "board", with*)
(* one incident and all that can happen to loads; so has the documentation,*)
(* "site", without its card, and "card", without scrolling.                *)
(***************************************************************************)
EXTENDS Board, Demo, Site, Preferences

VARIABLE scene

Scenes == {"lists", "board", "demo", "site", "card", "preferences"}

Counts(good, total) == [good |-> good, total |-> total]

(* Three days of counts: met, breached by the last day, breached at low volume, none. *)
MCRollups ==
    {[ingest_availability    |-> [d \in 0 .. 2 |-> Counts(1000, 1000)],
      notification_latency   |-> (0 :> Counts(998, 1000) @@ 1 :> Counts(0, 0)
                                              @@ 2 :> Counts(980, 1000)),
      delivery_success       |-> [d \in 0 .. 2 |-> IF d = 1 THEN Counts(960, 1000)
                                                   ELSE Counts(500, 500)],
      escalation_correctness |-> [d \in 0 .. 2 |-> Counts(0, 0)]]}

MCSeverity == <<"critical", "warning">>
MCStanding == {{}, {1}, {1, 2}}
MCBeats == <<0, 90, 180>>
MCVisited == {<< >>, <<"demo">>, <<"deployment">>, <<"deployment", "x">>}

pagesVars == <<boardVars, demoVars, siteVars, prefVars, scene>>

Init ==
    /\ scene \in Scenes
    /\ BoardInit /\ DemoInit /\ SiteInit /\ PrefInit
    /\ scene = "board" => OpenNow = {}
    /\ scene \notin {"lists", "board"} => OpenNow = {1}
    /\ scene \notin {"site", "card"} => address.path = << >> /\ ~ address.slash /\ lang = "en"
    /\ scene # "preferences" => ~ blocked /\ system = [theme |-> "light", lang |-> "en"]

Lone == CHOOSE l \in Loads : TRUE

(* What a scene leaves alone. *)
InLists(A) ==
    /\ scene = "lists" /\ A
    /\ \A l \in Loads \ {Lone} : UNCHANGED load[l]
    /\ UNCHANGED failures /\ ~ page'.strict /\ (page.mounted => page'.mounted)
InBoard(A) == scene = "board" /\ A /\ \A i \in Incidents \ {1} : UNCHANGED index[i]
InSite(A)  == scene = "site" /\ A /\ UNCHANGED card
InCard(A)  == scene = "card" /\ A /\ UNCHANGED <<lang, menu, band>>

Next ==
    /\ UNCHANGED scene
    /\ \/ InLists(BoardNext) /\ UNCHANGED <<demoVars, siteVars, prefVars>>
       \/ InBoard(BoardNext) /\ UNCHANGED <<demoVars, siteVars, prefVars>>
       \/ scene = "demo" /\ DemoNext /\ UNCHANGED <<boardVars, siteVars, prefVars>>
       \/ InSite(SiteNext) /\ UNCHANGED <<boardVars, demoVars, prefVars>>
       \/ InCard(SiteNext) /\ UNCHANGED <<boardVars, demoVars, prefVars>>
       \/ scene = "preferences" /\ PrefNext /\ UNCHANGED <<boardVars, demoVars, siteVars>>

(* The fairness of the components, each in its scene. *)
Fairness ==
    /\ WF_boardVars(InLists(EffectRuns)) /\ WF_boardVars(InBoard(EffectRuns))
    /\ \A l \in Loads : WF_boardVars(scene \in {"lists", "board"} /\ LoadSteps(l))
    /\ \A i \in Incidents :
          WF_boardVars(/\ scene \in {"lists", "board"}
                       /\ Propagates(i) /\ UNCHANGED <<page, load, failures>>)
    /\ WF_demoVars(scene = "demo" /\ Tick) /\ WF_demoVars(scene = "demo" /\ Effect)

Spec == Init /\ [][Next]_pagesVars /\ Fairness

(* The types of all four. *)
PagesType == BoardType /\ DemoType /\ SiteType /\ PrefType
=============================================================================
