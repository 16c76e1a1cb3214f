---------------------------- MODULE PagesProofs ----------------------------
(***************************************************************************)
(* What the pages of a reader's browser keep to, for every number of tabs,  *)
(* loads, incidents, beats and visits.                                      *)
(***************************************************************************)
EXTENDS MCPages, FiniteSetTheorems, TLAPS

-----------------------------------------------------------------------------
(* Preferences.  What a tab keeps, and that the last choice that could be stored is    *)
(* what is stored.                                                                    *)
Choosable == Themes \union LANGS \union ENVS \union {Unset}

Htmls == [{"theme", "lang"} -> Choosable]
States == [Keys -> Choosable]
TabSet == [at : {"closed", "loaded", "mounted"}, state : States, html : Htmls]

PrefInv ==
    /\ PrefType /\ last = storage
    /\ storage = [k \in Keys |-> storage[k]] /\ system \in [theme : Themes, lang : LANGS]
    /\ tab \in [Tabs -> TabSet]

LEMMA ValueFacts ==
    /\ Values("theme") = Themes /\ Values("lang") = LANGS /\ Values("env") = ENVS
    /\ Unset \notin Themes /\ Unset \notin LANGS /\ Unset \notin ENVS
    /\ \A k \in Keys : Values(k) \subseteq Choosable
BY DEF Values, Themes, LANGS, ENVS, Unset, Keys, Choosable

LEMMA InitialFacts ==
    ASSUME PrefInv
    PROVE  /\ Initial \in States
           /\ \A k \in Keys : Initial[k] \in Values(k)
           /\ \A k \in Keys : ~ blocked /\ last[k] # Unset => Initial[k] = last[k]
           /\ Initial["theme"] = initTheme /\ initTheme = Else(storedTheme, system.theme)
BY ValueFacts
   DEF PrefInv, PrefType, Initial, States, initTheme, storedTheme, systemTheme, Stored, Else, LangProvider,
       EnvProvider, Keys, Themes, LANGS, ENVS, Choosable, Unset

LEMMA InitPref == PrefInit => PrefInv
BY PreferencesAssumption
   DEF PrefInit, PrefInv, PrefType, Keys, Closed, Choosable, Unset, TabSet, States, Htmls

(* A tab that changes by itself keeps the tabs what they are. *)
LEMMA OneTab ==
    ASSUME PrefInv, NEW t \in Tabs, NEW r, tab' = [tab EXCEPT ![t] = r],
           r \in TabSet,
           r.at = "mounted" =>
               /\ \A k \in Keys : r.state[k] \in Values(k)
               /\ Else(r.html["theme"], system.theme) = r.state["theme"],
           UNCHANGED <<blocked, system>>, choices' \in 0 .. MaxChoices,
           last' = storage', storage' = [k \in Keys |-> storage'[k]],
           \A k \in Keys : storage'[k] \in Values(k) \union {Unset}
    PROVE  PrefInv'
<1>1. \A u \in Tabs : tab'[u] = IF u = t THEN r ELSE tab[u]
  BY DEF PrefInv
<1>2. tab' \in [Tabs -> TabSet]
  BY DEF PrefInv
<1>3. PrefType'
  BY <1>1 DEF PrefInv, PrefType, Palette, Else
<1> QED BY <1>2, <1>3 DEF PrefInv

(* A tab with other attributes, another state, or both. *)
LEMMA TabWith ==
    ASSUME NEW r \in TabSet, NEW a \in {"closed", "loaded", "mounted"}, NEW s \in States, NEW h \in Htmls
    PROVE  /\ [r EXCEPT !.at = a, !.html = h] \in TabSet /\ [r EXCEPT !.html = h] \in TabSet
           /\ [r EXCEPT !.at = a, !.state = s, !.html = h] \in TabSet
           /\ [r EXCEPT !.state = s] \in TabSet /\ [r EXCEPT !.html = h, !.state = s] \in TabSet
BY DEF TabSet

LEMMA OtherHtml ==
    ASSUME NEW h \in Htmls, NEW v \in Choosable
    PROVE  /\ [h EXCEPT !["lang"] = v] \in Htmls /\ [h EXCEPT !["theme"] = v] \in Htmls
           /\ [h EXCEPT !["lang"] = v]["theme"] = h["theme"] /\ [h EXCEPT !["theme"] = v]["theme"] = v
BY DEF Htmls

LEMMA OtherState ==
    ASSUME NEW s \in States, NEW k \in Keys, NEW v \in Choosable
    PROVE  /\ [s EXCEPT ![k] = v] \in States
           /\ \A j \in Keys : [s EXCEPT ![k] = v][j] = IF j = k THEN v ELSE s[j]
BY DEF States

LEMMA StepPref ==
    ASSUME PrefInv, [PrefNext]_prefVars
    PROVE  PrefInv'
<1>0. /\ \A u \in Tabs : tab[u].state \in States
      /\ \A u \in Tabs : tab[u].html \in Htmls
      /\ {"theme", "lang", "env"} = Keys /\ MaxChoices \in Nat /\ choices \in 0 .. MaxChoices
      /\ last = storage /\ storage = [k \in Keys |-> storage[k]]
      /\ \A k \in Keys : storage[k] \in Values(k) \union {Unset}
      /\ Unset \in Choosable /\ \A k \in Keys : Stored(k) \in Choosable
      /\ \A u \in Tabs : tab[u] \in TabSet
  BY ValueFacts, PreferencesAssumption DEF PrefInv, PrefType, Keys, Stored, Choosable, TabSet
<1>1. ASSUME NEW t \in Tabs, Load(t) PROVE PrefInv'
  <2> DEFINE h == [theme |-> storedTheme, lang |-> Stored("lang")]
  <2>1. h \in Htmls
    BY <1>0 DEF Htmls, storedTheme
  <2>2. /\ tab' = [tab EXCEPT ![t] = [tab[t] EXCEPT !.at = "loaded", !.html = h]]
        /\ UNCHANGED <<storage, blocked, system, choices, last>>
    BY <1>1 DEF Load, PrefInv
  <2> HIDE DEF h
  <2> DEFINE r == [tab[t] EXCEPT !.at = "loaded", !.html = h]
  <2>3. r \in TabSet
    BY <1>0, <2>1, TabWith
  <2>4. r.at = "loaded"
    BY <1>0 DEF TabSet
  <2> HIDE DEF r
  <2> QED BY <1>0, <2>2, <2>3, <2>4, OneTab DEF r
<1>2. ASSUME NEW t \in Tabs, Render(t) PROVE PrefInv'
  <2> DEFINE h == [tab[t].html EXCEPT !["theme"] = initTheme]
             r == [tab[t] EXCEPT !.at = "mounted", !.state = Initial, !.html = h]
  <2>1. /\ Initial \in States /\ \A k \in Keys : Initial[k] \in Values(k)
        /\ Initial["theme"] = initTheme /\ initTheme \in Themes /\ initTheme \in Choosable
    BY <1>0, InitialFacts, ValueFacts DEF Choosable
  <2>2. h \in Htmls /\ h["theme"] = initTheme
    <3>1. tab[t].html \in Htmls
      BY <1>0
    <3> QED BY <2>1, <3>1, OtherHtml
  <2>3. /\ tab' = [tab EXCEPT ![t] = r]
        /\ UNCHANGED <<storage, blocked, system, choices, last>>
    BY <1>2 DEF Render, PrefInv
  <2> HIDE DEF h
  <2>4. r \in TabSet
    BY <1>0, <2>1, <2>2, TabWith
  <2>5. r.state = Initial /\ r.html = h
    BY <1>0 DEF TabSet
  <2>6. Else(initTheme, system.theme) = initTheme
    BY <2>1, ValueFacts DEF Else
  <2> HIDE DEF r
  <2> QED BY <1>0, <2>1, <2>2, <2>3, <2>4, <2>5, <2>6, OneTab
<1>3. ASSUME NEW t \in Tabs, LangEffect(t) PROVE PrefInv'
  <2> DEFINE h == [tab[t].html EXCEPT !["lang"] = tab[t].state["lang"]]
             r == [tab[t] EXCEPT !.html = h]
  <2>1. h \in Htmls /\ h["theme"] = tab[t].html["theme"]
    <3>1. tab[t].state["lang"] \in Choosable /\ tab[t].html \in Htmls
      BY <1>0 DEF States
    <3> QED BY <3>1, OtherHtml
  <2>2. tab' = [tab EXCEPT ![t] = r] /\ UNCHANGED <<storage, blocked, system, choices, last>>
    BY <1>3 DEF LangEffect, PrefInv
  <2> HIDE DEF h
  <2>3. r \in TabSet
    BY <1>0, <2>1, TabWith
  <2>4. r.state = tab[t].state /\ r.html = h /\ r.at = tab[t].at
    BY <1>0 DEF TabSet
  <2> HIDE DEF r
  <2>5. r.at = "mounted" => /\ \A k \in Keys : r.state[k] \in Values(k)
                            /\ Else(r.html["theme"], system.theme) = r.state["theme"]
    BY <2>1, <2>4 DEF PrefInv, PrefType, Palette
  <2> QED BY <1>0, <2>2, <2>3, <2>5, OneTab
<1>4. ASSUME NEW t \in Tabs, Close(t) PROVE PrefInv'
  <2>1. tab' = [tab EXCEPT ![t] = Closed] /\ UNCHANGED <<storage, blocked, system, choices, last>>
    BY <1>4 DEF Close
  <2>2. Closed \in TabSet /\ Closed.at = "closed"
    BY <1>0 DEF Closed, TabSet, States, Htmls
  <2> QED BY <1>0, <2>1, <2>2, OneTab
<1>5. ASSUME NEW k \in Keys, NEW v \in Values(k), Remember(k, v)
      PROVE  /\ last' = storage' /\ storage' = [j \in Keys |-> storage'[j]]
             /\ \A j \in Keys : storage'[j] \in Values(j) \union {Unset}
  BY <1>0, <1>5 DEF Remember
<1>6. ASSUME NEW t \in Tabs, NEW k \in {"lang", "env"}, NEW v \in Values(k), Chooses(t),
             Remember(k, v), UNCHANGED <<blocked, system>>,
             tab' = [tab EXCEPT ![t] = [tab[t] EXCEPT !.state = [tab[t].state EXCEPT ![k] = v]]]
      PROVE  PrefInv'
  <2> DEFINE s == [tab[t].state EXCEPT ![k] = v]
             r == [tab[t] EXCEPT !.state = s]
  <2>1. s \in States /\ \A j \in Keys : s[j] = IF j = k THEN v ELSE tab[t].state[j]
    <3>1. v \in Choosable /\ k \in Keys /\ tab[t].state \in States
      BY <1>0, ValueFacts
    <3> QED BY <3>1, OtherState
  <2> HIDE DEF s
  <2>2. r \in TabSet
    BY <1>0, <2>1, TabWith
  <2>3. r.html = tab[t].html /\ r.state = s
    BY <1>0 DEF TabSet
  <2>4. tab[t].at = "mounted" /\ choices' \in 0 .. MaxChoices /\ tab' = [tab EXCEPT ![t] = r]
    BY <1>0, <1>6 DEF Chooses, s
  <2> HIDE DEF r
  <2>5. /\ \A j \in Keys : r.state[j] \in Values(j)
        /\ Else(r.html["theme"], system.theme) = r.state["theme"]
    BY <1>0, <1>6, <2>1, <2>3, <2>4 DEF PrefInv, PrefType, Palette
  <2> QED BY <1>0, <1>5, <1>6, <2>2, <2>4, <2>5, OneTab
<1>7. ASSUME NEW t \in Tabs, NEW l \in LANGS, setLang(t, l) PROVE PrefInv'
  <2>1. tab' = [tab EXCEPT ![t] = [tab[t] EXCEPT !.state = [tab[t].state EXCEPT !["lang"] = l]]]
    BY <1>0, <1>7 DEF setLang, PrefInv
  <2> QED BY <1>6, <1>7, <2>1, ValueFacts DEF setLang
<1>8. ASSUME NEW t \in Tabs, NEW e \in ENVS, setEnv(t, e) PROVE PrefInv'
  <2>1. tab' = [tab EXCEPT ![t] = [tab[t] EXCEPT !.state = [tab[t].state EXCEPT !["env"] = e]]]
    BY <1>0, <1>8 DEF setEnv, PrefInv
  <2> QED BY <1>6, <1>8, <2>1, ValueFacts DEF setEnv
<1>9. ASSUME NEW t \in Tabs, ThemeToggle(t) PROVE PrefInv'
  <2> DEFINE next == IF tab[t].state.theme = "dark" THEN "light" ELSE "dark"
             h == [tab[t].html EXCEPT !["theme"] = next]
             s == [tab[t].state EXCEPT !["theme"] = next]
             r == [tab[t] EXCEPT !.html = h, !.state = s]
  <2>1. /\ tab' = [tab EXCEPT ![t] = r] /\ Chooses(t) /\ Remember("theme", next)
        /\ UNCHANGED <<blocked, system>>
    BY <1>9 DEF ThemeToggle, applyTheme, PrefInv
  <2>2. next \in Values("theme") /\ next \in Choosable /\ next # Unset
    BY ValueFacts DEF Themes, Choosable, Unset
  <2> HIDE DEF next
  <2>3. /\ h \in Htmls /\ h["theme"] = next /\ s \in States
        /\ \A j \in Keys : s[j] = IF j = "theme" THEN next ELSE tab[t].state[j]
    <3>1. tab[t].html \in Htmls /\ tab[t].state \in States /\ "theme" \in Keys
      BY <1>0
    <3>2. h \in Htmls /\ h["theme"] = next
      BY <2>2, <3>1, OtherHtml
    <3>3. s \in States /\ \A j \in Keys : s[j] = IF j = "theme" THEN next ELSE tab[t].state[j]
      BY <2>2, <3>1, OtherState
    <3> QED BY <3>2, <3>3
  <2> HIDE DEF h, s
  <2>4. r \in TabSet
    BY <1>0, <2>3, TabWith
  <2>5. r.html = h /\ r.state = s
    BY <1>0 DEF TabSet
  <2> HIDE DEF r
  <2>6. tab[t].at = "mounted" /\ choices' \in 0 .. MaxChoices
    BY <1>0, <2>1 DEF Chooses
  <2>7. /\ \A j \in Keys : r.state[j] \in Values(j)
        /\ Else(r.html["theme"], system.theme) = r.state["theme"]
    BY <1>0, <2>2, <2>3, <2>5, <2>6 DEF PrefInv, PrefType, Else
  <2> QED BY <1>0, <1>5, <2>1, <2>2, <2>4, <2>6, <2>7, OneTab
<1>10. CASE BlockOrUnblock
  BY <1>10 DEF BlockOrUnblock, PrefInv, PrefType, Palette
<1>11. CASE UNCHANGED prefVars
  BY <1>11 DEF prefVars, PrefInv, PrefType, Palette
<1> QED BY <1>1, <1>2, <1>3, <1>4, <1>7, <1>8, <1>9, <1>10, <1>11 DEF PrefNext

THEOREM PreferencesHold == PrefSpec => []PrefInv
<1>1. PrefInv /\ [PrefNext]_prefVars => PrefInv'
  BY StepPref
<1> QED BY InitPref, <1>1, PTL DEF PrefSpec

(* A tab that starts with its storage open starts with the last choice of any tab.    *)
THEOREM ChoicesFollow == PrefSpec => ChoiceFollows
<1>1. ASSUME PrefInv, NEW t \in Tabs, NEW k \in Keys, Render(t), ~ blocked, last[k] # Unset
      PROVE  tab'[t].state[k] = last[k]
  <2>1. tab'[t].state = Initial
    BY <1>1 DEF Render, PrefInv, TabSet
  <2> QED BY <1>1, <2>1, InitialFacts
<1>2. PrefInv /\ [PrefNext]_prefVars
        => [\A t \in Tabs, k \in Keys :
               Render(t) /\ ~ blocked /\ last[k] # Unset => tab'[t].state[k] = last[k]]_prefVars
  BY <1>1
<1> QED BY <1>2, PreferencesHold, PTL DEF PrefSpec, ChoiceFollows

(* Mounting does not change the palette of a tab whose attributes are those of the     *)
(* storage as it is.                                                                  *)
THEOREM MountingDoesNotFlash == PrefSpec => NoFlash
<1>1. ASSUME PrefInv, NEW t \in Tabs, Render(t), tab[t].html.theme = storedTheme
      PROVE  Palette(t)' = Palette(t)
  <2>1. tab'[t].html.theme = initTheme /\ system' = system
    BY <1>1 DEF Render, PrefInv, TabSet, Htmls
  <2> QED BY <1>1, <2>1 DEF Palette, initTheme, systemTheme, Else
<1>2. PrefInv /\ [PrefNext]_prefVars
        => [\A t \in Tabs :
               Render(t) /\ tab[t].html.theme = storedTheme => Palette(t)' = Palette(t)]_prefVars
  BY <1>1
<1> QED BY <1>2, PreferencesHold, PTL DEF PrefSpec, NoFlash

-----------------------------------------------------------------------------
(* Numbers. *)
LEMMA Minimum ==
    ASSUME NEW S, S # {}, S \subseteq Nat
    PROVE  \E m \in S : \A n \in S : m <= n
<1>1. PICK m \in S : \A n \in S : ~ (<<n, m>> \in OpToRel(<, Nat))
  BY NatLessThanWellFounded, WFMin
<1>2. ASSUME NEW n \in S PROVE m <= n
  <2>1. ~ (n < m)
    BY <1>1, m \in Nat, n \in Nat DEF OpToRel
  <2> QED BY <2>1
<1> QED BY <1>2

-----------------------------------------------------------------------------
(* The documentation shell.  Every page has the same sections in both languages. *)
AllPages == routes \union {NotFound}

LEMMA RouteFacts ==
    ASSUME NEW path, NEW ids, NEW r,
           r = Route(path, ids) \/ r = [Route(path, ids) EXCEPT !.wide = TRUE]
    PROVE  r.path = path /\ \A l \in Langs : Sections(r, l) = ids
BY DEF Route, Sections

Segments == {"quickstart", "architecture", "demo", "local-development", "reference", "testing",
             "deployment", "decisions"}

LEMMA PathFacts ==
    /\ \A r \in routes : r.path = << >> \/ \E x \in Segments : r.path = <<x>>
    /\ \A p \in AllPages : \A k, l \in Langs : Sections(p, k) = Sections(p, l)
    /\ ~ HasToc(NotFound)
<1>1. ASSUME NEW r \in routes
      PROVE  \E path, ids :
                /\ r = Route(path, ids) \/ r = [Route(path, ids) EXCEPT !.wide = TRUE]
                /\ path = << >> \/ \E x \in Segments : path = <<x>>
  BY DEF routes, Segments
<1>2. ASSUME NEW r \in routes
      PROVE  /\ r.path = << >> \/ \E x \in Segments : r.path = <<x>>
             /\ \A k, l \in Langs : Sections(r, k) = Sections(r, l)
  <2>1. PICK path, ids :
            /\ r = Route(path, ids) \/ r = [Route(path, ids) EXCEPT !.wide = TRUE]
            /\ path = << >> \/ \E x \in Segments : path = <<x>>
    BY <1>1
  <2>2. r.path = path /\ \A l \in Langs : Sections(r, l) = ids
    BY <2>1, RouteFacts
  <2> QED BY <2>1, <2>2
<1>3. \A k, l \in Langs : Sections(NotFound, k) = Sections(NotFound, l)
  BY DEF NotFound, Sections
<1> QED BY <1>2, <1>3 DEF AllPages, HasToc, NotFound

(* The ids of sections, none of which is Nowhere. *)
Ids == {"loop", "why", "status", "prereq", "run", "running", "path", "core", "keys", "layout",
        "demo", "containers", "wiring", "bug", "poking", "endpoints", "data", "slis", "config",
        "tiers", "nonce", "checks", "gaps", "cdk", "ten", "deviations", "slo", "cost", "risks",
        "roadmap"}

LEMMA SectionIds ==
    ASSUME NEW p \in AllPages, NEW l \in Langs
    PROVE  Sections(p, l) \in Seq(Ids) /\ Nowhere \notin Ids
<1>1. ASSUME p \in routes
      PROVE  Sections(p, l) \in Seq(Ids)
  <2>1. PICK path, ids :
            /\ p = Route(path, ids) \/ p = [Route(path, ids) EXCEPT !.wide = TRUE]
            /\ ids \in {<<"loop", "why", "status">>,
                       <<"prereq", "run", "running">>,
                       <<"path", "core", "keys", "layout">>,
                       <<"demo">>,
                       <<"containers", "wiring", "bug", "poking">>,
                       <<"endpoints", "data", "slis", "config">>,
                       <<"tiers", "nonce", "checks", "gaps">>,
                       <<"run", "cdk">>,
                       <<"ten", "deviations", "slo", "cost", "risks", "roadmap">>}
    BY <1>1 DEF routes
  <2>2. CASE ids = <<"loop", "why", "status">>
    <3>1. {"loop", "why", "status"} \subseteq Ids
      BY DEF Ids
    <3> HIDE DEF Ids
    <3>2. ids \in Seq(Ids)
      BY <2>2, <3>1
    <3> QED BY <2>1, <3>2, RouteFacts
  <2>3. CASE ids = <<"prereq", "run", "running">>
    <3>1. {"prereq", "run", "running"} \subseteq Ids
      BY DEF Ids
    <3> HIDE DEF Ids
    <3>2. ids \in Seq(Ids)
      BY <2>3, <3>1
    <3> QED BY <2>1, <3>2, RouteFacts
  <2>4. CASE ids = <<"path", "core", "keys", "layout">>
    <3>1. {"path", "core", "keys", "layout"} \subseteq Ids
      BY DEF Ids
    <3> HIDE DEF Ids
    <3>2. ids \in Seq(Ids)
      BY <2>4, <3>1
    <3> QED BY <2>1, <3>2, RouteFacts
  <2>5. CASE ids = <<"demo">>
    <3>1. {"demo"} \subseteq Ids
      BY DEF Ids
    <3> HIDE DEF Ids
    <3>2. ids \in Seq(Ids)
      BY <2>5, <3>1
    <3> QED BY <2>1, <3>2, RouteFacts
  <2>6. CASE ids = <<"containers", "wiring", "bug", "poking">>
    <3>1. {"containers", "wiring", "bug", "poking"} \subseteq Ids
      BY DEF Ids
    <3> HIDE DEF Ids
    <3>2. ids \in Seq(Ids)
      BY <2>6, <3>1
    <3> QED BY <2>1, <3>2, RouteFacts
  <2>7. CASE ids = <<"endpoints", "data", "slis", "config">>
    <3>1. {"endpoints", "data", "slis", "config"} \subseteq Ids
      BY DEF Ids
    <3> HIDE DEF Ids
    <3>2. ids \in Seq(Ids)
      BY <2>7, <3>1
    <3> QED BY <2>1, <3>2, RouteFacts
  <2>8. CASE ids = <<"tiers", "nonce", "checks", "gaps">>
    <3>1. {"tiers", "nonce", "checks", "gaps"} \subseteq Ids
      BY DEF Ids
    <3> HIDE DEF Ids
    <3>2. ids \in Seq(Ids)
      BY <2>8, <3>1
    <3> QED BY <2>1, <3>2, RouteFacts
  <2>9. CASE ids = <<"run", "cdk">>
    <3>1. {"run", "cdk"} \subseteq Ids
      BY DEF Ids
    <3> HIDE DEF Ids
    <3>2. ids \in Seq(Ids)
      BY <2>9, <3>1
    <3> QED BY <2>1, <3>2, RouteFacts
  <2>10. CASE ids = <<"ten", "deviations", "slo", "cost", "risks", "roadmap">>
    <3>1. {"ten", "deviations", "slo", "cost", "risks", "roadmap"} \subseteq Ids
      BY DEF Ids
    <3> HIDE DEF Ids
    <3>2. ids \in Seq(Ids)
      BY <2>10, <3>1
    <3> QED BY <2>1, <3>2, RouteFacts
  <2> QED BY <2>1, <2>2, <2>3, <2>4, <2>5, <2>6, <2>7, <2>8, <2>9, <2>10
<1>2. Sections(NotFound, l) \in Seq(Ids)
  BY DEF NotFound, Sections
<1>3. Nowhere \notin Ids
  BY DEF Nowhere, Ids
<1> QED BY <1>1, <1>2, <1>3 DEF AllPages

(* No two pages have one address. *)
LEMMA RoutesDiffer ==
    ASSUME NEW r \in routes, NEW s \in routes, r.path = s.path
    PROVE  r = s
<1> DEFINE home  == Route(<< >>, <<"loop", "why", "status">>)
           start == Route(<<"quickstart">>, <<"prereq", "run", "running">>)
           arch  == Route(<<"architecture">>, <<"path", "core", "keys", "layout">>)
           sim   == [Route(<<"demo">>, <<"demo">>) EXCEPT !.wide = TRUE]
           dev   == Route(<<"local-development">>, <<"containers", "wiring", "bug", "poking">>)
           ref   == Route(<<"reference">>, <<"endpoints", "data", "slis", "config">>)
           tests == Route(<<"testing">>, <<"tiers", "nonce", "checks", "gaps">>)
           ops   == Route(<<"deployment">>, <<"run", "cdk">>)
           why   == Route(<<"decisions">>, <<"ten", "deviations", "slo", "cost", "risks", "roadmap">>)
<1>1. \A q \in routes : q \in {home, start, arch, sim, dev, ref, tests, ops, why}
  BY DEF routes
<1>2. /\ home.path = << >>
      /\ start.path = <<"quickstart">>
      /\ arch.path = <<"architecture">>
      /\ sim.path = <<"demo">>
      /\ dev.path = <<"local-development">>
      /\ ref.path = <<"reference">>
      /\ tests.path = <<"testing">>
      /\ ops.path = <<"deployment">>
      /\ why.path = <<"decisions">>
  BY RouteFacts
<1> HIDE DEF home, start, arch, sim, dev, ref, tests, ops, why
<1>3. \A x, y : <<x>> = <<y>> => x = y
  OBVIOUS
<1>4. \A x : <<x>> # << >>
  OBVIOUS
<1>5. CASE r = home
  BY <1>1, <1>2, <1>3, <1>4, <1>5
<1>6. CASE r = start
  BY <1>1, <1>2, <1>3, <1>4, <1>6
<1>7. CASE r = arch
  BY <1>1, <1>2, <1>3, <1>4, <1>7
<1>8. CASE r = sim
  BY <1>1, <1>2, <1>3, <1>4, <1>8
<1>9. CASE r = dev
  BY <1>1, <1>2, <1>3, <1>4, <1>9
<1>10. CASE r = ref
  BY <1>1, <1>2, <1>3, <1>4, <1>10
<1>11. CASE r = tests
  BY <1>1, <1>2, <1>3, <1>4, <1>11
<1>12. CASE r = ops
  BY <1>1, <1>2, <1>3, <1>4, <1>12
<1>13. CASE r = why
  BY <1>1, <1>2, <1>3, <1>4, <1>13
<1> QED BY <1>1, <1>5, <1>6, <1>7, <1>8, <1>9, <1>10, <1>11, <1>12, <1>13

LEMMA PrefixFacts ==
    ASSUME NEW x \in Segments, NEW y \in Segments
    PROVE  /\ IsPrefix(<<x>>, <<y>>) <=> x = y
           /\ ~ IsPrefix(<<x>>, << >>)
<1>1. /\ Len(<<x>>) = 1 /\ Len(<<y>>) = 1 /\ Len(<< >>) = 0
      /\ <<x>> \in Seq(Segments) /\ <<y>> \in Seq(Segments)
      /\ <<x>>[1] = x /\ <<y>>[1] = y
  OBVIOUS
<1>2. ASSUME NEW s \in Seq(Segments), Len(s) = 1
      PROVE  SubSeq(s, 1, 1) = s
  BY <1>2
<1>3. <<x>> = <<y>> <=> x = y
  OBVIOUS
<1>4. SubSeq(<<x>>, 1, 1) = <<x>> /\ SubSeq(<<y>>, 1, 1) = <<y>>
  BY <1>1, <1>2
<1> QED BY <1>1, <1>3, <1>4 DEF IsPrefix

(* The page of an address of the table, and the entry that is active for it. *)
LEMMA PageOf ==
    ASSUME NEW a, NEW r \in routes, a.path = r.path, normalize(a).path = a.path
    PROVE  PageAt(a) = r /\ Active(a) = {r.path}
<1>1. PageAt(a) = r
  BY RoutesDiffer DEF PageAt
<1>2. ASSUME NEW s \in routes
      PROVE  (IF s.path = << >> THEN a.path = << >> ELSE IsPrefix(s.path, a.path)) <=> s.path = r.path
  <2>1. CASE s.path = << >>
    BY <2>1
  <2>2. CASE s.path # << >>
    <3>1. PICK x \in Segments : s.path = <<x>>
      BY <2>2, PathFacts
    <3>2. CASE r.path = << >>
      BY <2>2, <3>1, <3>2, PrefixFacts
    <3>3. CASE r.path # << >>
      <4>1. PICK y \in Segments : r.path = <<y>>
        BY <3>3, PathFacts
      <4> QED BY <2>2, <3>1, <4>1, PrefixFacts
    <3> QED BY <3>2, <3>3
  <2> QED BY <2>1, <2>2
<1> QED BY <1>1, <1>2 DEF Active

LEMMA PageKinds ==
    ASSUME NEW a PROVE PageAt(a) \in AllPages
BY DEF PageAt, AllPages

(* What the shell is made of; the rail knows of a section of its page, or will be told, *)
(* once there is one in the band.                                                     *)
Shapes ==
    /\ address = [path |-> address.path, slash |-> address.slash, hash |-> address.hash]
    /\ toc = [active |-> toc.active, observed |-> toc.observed, report |-> toc.report]
    /\ card \in [open : BOOLEAN, copied : BOOLEAN, writing : Nat, timers : Nat]

Knows(rail, own) == rail.report \in own \/ (rail.report = Nowhere /\ rail.active \in own)

RailKnows ==
    IF HasToc(Page) THEN band # {} => Knows(toc, Range(Sections(Page, lang)))
    ELSE toc = NoRail

SiteInv == SiteType /\ Shapes /\ RailKnows /\ CopiedIsTimed

(* What is in the band are sections of the page; the lowest of some is one of them. *)
LEMMA BandFacts ==
    ASSUME NEW p \in AllPages, NEW l \in Langs, NEW in \in Bands(p, l)
    PROVE  in \subseteq Range(Sections(p, l))
<1> DEFINE s == Sections(p, l)
<1>1. in = {} \/ \E top \in DOMAIN s, bottom \in DOMAIN s : in = {s[n] : n \in top .. bottom}
  BY DEF Bands
<1>2. s \in Seq(Ids)
  BY SectionIds
<1> HIDE DEF s
<1>3. ASSUME NEW top \in DOMAIN s, NEW bottom \in DOMAIN s, NEW n \in top .. bottom
      PROVE  s[n] \in Range(s)
  BY <1>2, <1>3 DEF Range
<1>4. in \subseteq Range(s)
  BY <1>1, <1>3
<1> QED BY <1>4 DEF s

LEMMA Greatest ==
    ASSUME NEW k \in Nat, NEW S, S # {}, S \subseteq 1 .. k
    PROVE  Max(S) \in S
<1> DEFINE left == {k - n : n \in S}
<1>0. \A n \in S : n \in Nat /\ k - n \in Nat
  OBVIOUS
<1>1. left # {} /\ left \subseteq Nat
  BY <1>0
<1>2. PICK m \in left : \A n \in left : m <= n
  <2> HIDE DEF left
  <2> QED BY <1>1, Minimum
<1>3. PICK top \in S : m = k - top
  BY <1>2
<1>4. ASSUME NEW n \in S PROVE top >= n
  <2>1. k - n \in left /\ n \in Nat /\ top \in Nat
    BY <1>0
  <2>2. k - top <= k - n
    BY <1>2, <1>3, <2>1
  <2> QED BY <2>1, <2>2
<1> QED BY <1>4 DEF Max

LEMMA LowestFacts ==
    ASSUME NEW p \in AllPages, NEW l \in Langs, NEW entered, entered # {},
           entered \subseteq Range(Sections(p, l))
    PROVE  Lowest(p, l, entered) \in Range(Sections(p, l))
<1> DEFINE s == Sections(p, l)
           at == {n \in DOMAIN s : s[n] \in entered}
<1>1. s \in Seq(Ids) /\ Lowest(p, l, entered) = s[Max(at)]
  BY SectionIds DEF Lowest
<1>2. entered \subseteq Range(s)
  OBVIOUS
<1> HIDE DEF s
<1>3. Len(s) \in Nat /\ DOMAIN s = 1 .. Len(s)
  BY <1>1
<1>4. at # {} /\ at \subseteq 1 .. Len(s)
  BY <1>2, <1>3 DEF Range
<1> HIDE DEF at
<1>5. Max(at) \in at
  BY <1>3, <1>4, Greatest
<1> QED BY <1>1, <1>3, <1>4, <1>5 DEF s, Range

(* A rail that is told of what has come into the band, having known of what was there. *)
IsRail(rail) ==
    rail = [active |-> rail.active, observed |-> rail.observed, report |-> rail.report]

Follows(rail, observed, in, own) ==
    IsRail(rail) /\ rail.observed = observed /\ (in # {} => Knows(rail, own))

LEMMA Told ==
    ASSUME NEW p \in AllPages, NEW l \in Langs, NEW in \in Bands(p, l), NEW was, NEW rail,
           IsRail(rail), in \intersect was # {} => Knows(rail, Range(Sections(p, l)))
    PROVE  Follows(Reports(rail, p, l, in \ was), rail.observed, in, Range(Sections(p, l)))
<1> DEFINE next == Reports(rail, p, l, in \ was)
           own == Range(Sections(p, l))
           said == IF in \ was = {} THEN rail.report ELSE Lowest(p, l, in \ was)
<1>1. in \subseteq own
  BY BandFacts
<1>2. in \ was # {} => said \in own
  BY <1>1, LowestFacts
<1>3. next = [rail EXCEPT !.report = said]
  BY Zenon DEF Reports
<1>4. in \ was = {} => said = rail.report
  OBVIOUS
<1> HIDE DEF said, own, next
<1>5. next = [active |-> rail.active, observed |-> rail.observed, report |-> said]
  BY <1>3 DEF IsRail
<1>6. in # {} /\ in \ was = {} => Knows(rail, own)
  BY DEF own
<1>7. in # {} => Knows(next, own)
  BY <1>2, <1>4, <1>5, <1>6 DEF Knows
<1>8. Follows(next, rail.observed, in, own)
  BY <1>5, <1>7 DEF Follows, IsRail
<1> QED BY <1>8 DEF own, next

LEMMA InitSite == SiteInit => SiteInv
<1> SUFFICES ASSUME SiteInit PROVE SiteInv
  OBVIOUS
<1>1. CopiedIsTimed /\ Shapes
  BY DEF SiteInit, CopiedIsTimed, Shapes, NewCard, Rail, NoRail
<1>2. card.writing + card.timers \in 0 .. MaxCopies
  BY SiteAssumption DEF SiteInit, NewCard
<1>3. toc.observed = IF HasToc(Page) THEN Range(Sections(Page, lang)) ELSE {}
  BY DEF SiteInit, Rail, NoRail
<1>4. {} \in Bands(Page, lang)
  BY DEF Bands
<1>5. SiteType
  BY <1>2, <1>3, <1>4 DEF SiteInit, SiteType
<1> QED BY <1>1, <1>5 DEF SiteInit, SiteInv, RailKnows

(* The observer that goes on, over the page there is. *)
LEMMA AsItMoves ==
    ASSUME SiteInv, NEW in \in Bands(Page, lang), toc' = Moved(in)
    PROVE  /\ toc' = [active |-> toc'.active, observed |-> toc'.observed, report |-> toc'.report]
           /\ toc'.observed = IF HasToc(Page) THEN Range(Sections(Page, lang)) ELSE {}
           /\ IF HasToc(Page) THEN in # {} => Knows(toc', Range(Sections(Page, lang)))
              ELSE toc' = NoRail
<1>1. /\ Page \in AllPages /\ lang \in Langs
      /\ toc = [active |-> toc.active, observed |-> toc.observed, report |-> toc.report]
      /\ toc.observed = IF HasToc(Page) THEN Range(Sections(Page, lang)) ELSE {}
  BY PageKinds DEF Page, SiteInv, SiteType, Shapes
<1>2. toc' = Reports(toc, Page, lang, (in \intersect toc.observed) \ band)
  BY DEF Moved
<1>3. CASE HasToc(Page)
  <2>1. in \intersect toc.observed = in
    BY <1>1, <1>3, BandFacts
  <2>2. in \intersect band # {} => Knows(toc, Range(Sections(Page, lang)))
    BY <1>3 DEF SiteInv, RailKnows
  <2>3. toc' = Reports(toc, Page, lang, in \ band)
    BY <1>2, <2>1
  <2>4. Follows(toc', toc.observed, in, Range(Sections(Page, lang)))
    BY <1>1, <2>2, <2>3, Told DEF IsRail
  <2> QED BY <1>1, <1>3, <2>4 DEF Follows, IsRail
<1>4. CASE ~ HasToc(Page)
  <2>1. (in \intersect toc.observed) \ band = {}
    BY <1>1, <1>4
  <2>2. toc' = toc
    BY <1>1, <1>2, <2>1 DEF Reports
  <2> QED BY <1>1, <1>4, <2>2 DEF SiteInv, RailKnows
<1> QED BY <1>3, <1>4

(* Showing a page, another or the same in the other language, with some sections in    *)
(* the band.                                                                          *)
LEMMA Shown ==
    ASSUME SiteInv, NEW p \in AllPages, NEW l \in Langs, NEW in \in Bands(p, l),
           toc' = RailOn(p, l, in)
    PROVE  /\ toc' = [active |-> toc'.active, observed |-> toc'.observed, report |-> toc'.report]
           /\ toc'.observed = IF HasToc(p) THEN Range(Sections(p, l)) ELSE {}
           /\ IF HasToc(p) THEN in # {} => Knows(toc', Range(Sections(p, l))) ELSE toc' = NoRail
<1>1. CASE ~ HasToc(p)
  BY <1>1 DEF RailOn, NoRail
<1>2. CASE HasToc(p) /\ p = Page /\ l = lang
  BY <1>2, AsItMoves DEF RailOn
<1>3. CASE HasToc(p) /\ HasToc(Page) /\ ~ (p = Page /\ l = lang)
  <2> DEFINE rail == [toc EXCEPT !.observed = Range(Sections(p, l))]
  <2>1. toc' = Reports(rail, p, l, in \ {})
    BY <1>3 DEF RailOn, Reobserve
  <2>2. rail = [active |-> toc.active, observed |-> Range(Sections(p, l)), report |-> toc.report]
    BY DEF SiteInv, Shapes
  <2>3. /\ rail = [active |-> rail.active, observed |-> rail.observed, report |-> rail.report]
        /\ rail.observed = Range(Sections(p, l))
    BY <2>2
  <2> HIDE DEF rail
  <2>4. Follows(toc', rail.observed, in, Range(Sections(p, l)))
    BY <2>1, <2>3, Told DEF IsRail
  <2> QED BY <1>3, <2>3, <2>4 DEF Follows, IsRail
<1>4. CASE HasToc(p) /\ ~ HasToc(Page) /\ ~ (p = Page /\ l = lang)
  <2> DEFINE rail == Rail(p, l)
  <2>1. toc' = Reports(rail, p, l, in \ {})
    BY <1>4 DEF RailOn
  <2>2. /\ rail = [active |-> rail.active, observed |-> rail.observed, report |-> rail.report]
        /\ rail.observed = Range(Sections(p, l))
    BY DEF Rail
  <2> HIDE DEF rail
  <2>3. Follows(toc', rail.observed, in, Range(Sections(p, l)))
    BY <2>1, <2>2, Told DEF IsRail
  <2> QED BY <1>4, <2>2, <2>3 DEF Follows, IsRail
<1> QED BY <1>1, <1>2, <1>3, <1>4

CardSet == [open : BOOLEAN, copied : BOOLEAN, writing : Nat, timers : Nat]

LEMMA StepSite ==
    ASSUME SiteInv, [SiteNext]_siteVars
    PROVE  SiteInv'
<1>0. /\ Page \in AllPages /\ lang \in Langs /\ menu \in BOOLEAN
      /\ card \in [open : BOOLEAN, copied : BOOLEAN, writing : Nat, timers : Nat]
      /\ card.writing + card.timers \in 0 .. MaxCopies /\ MaxCopies \in Nat \ {0} /\ CopiedIsTimed
  BY PageKinds, SiteAssumption DEF Page, SiteInv, SiteType, Shapes
<1>1. ASSUME NEW to, GoTo(to), menu' \in BOOLEAN,
             to = [path |-> to.path, slash |-> to.slash, hash |-> to.hash]
      PROVE  SiteInv'
  <2>1. PICK in \in Bands(PageAt(to), lang) :
            /\ address' = to /\ band' = in
            /\ toc' = RailOn(PageAt(to), lang, in)
            /\ card' = IF PageAt(to) = Page THEN card ELSE NewCard
            /\ UNCHANGED lang
    BY <1>1 DEF GoTo
  <2>2. Page' = PageAt(to) /\ PageAt(to) \in AllPages
    BY <2>1, PageKinds DEF Page
  <2>3. /\ toc' = [active |-> toc'.active, observed |-> toc'.observed, report |-> toc'.report]
        /\ toc'.observed = IF HasToc(PageAt(to)) THEN Range(Sections(PageAt(to), lang)) ELSE {}
        /\ IF HasToc(PageAt(to)) THEN in # {} => Knows(toc', Range(Sections(PageAt(to), lang)))
           ELSE toc' = NoRail
    BY <1>0, <2>1, <2>2, Shown
  <2>4. /\ card' \in [open : BOOLEAN, copied : BOOLEAN, writing : Nat, timers : Nat]
        /\ card'.writing + card'.timers \in 0 .. MaxCopies
        /\ card'.copied => card'.timers > 0
    BY <1>0, <2>1 DEF NewCard, CopiedIsTimed
  <2>5. /\ HasToc(Page)' = HasToc(PageAt(to))
        /\ Sections(Page, lang)' = Sections(PageAt(to), lang)
        /\ Bands(Page, lang)' = Bands(PageAt(to), lang)
    BY <2>1, <2>2
  <2> QED BY <1>0, <1>1, <2>1, <2>3, <2>4, <2>5 DEF SiteInv, SiteType, Shapes, RailKnows, CopiedIsTimed
<1>2. ASSUME NEW path, NEW slash, At(path, slash) = At(path, slash)
      PROVE  At(path, slash) = [path |-> At(path, slash).path, slash |-> At(path, slash).slash,
                                hash |-> At(path, slash).hash]
  BY DEF At
<1>3. ASSUME NEW path, FollowLink(path) PROVE SiteInv'
  BY <1>0, <1>1, <1>2, <1>3 DEF FollowLink
<1>4. ASSUME NEW path, NEW slash, Enter(path, slash) PROVE SiteInv'
  BY <1>0, <1>1, <1>2, <1>4 DEF Enter
<1>5. ASSUME NEW in \in Bands(Page, lang), Scroll(in) PROVE SiteInv'
  <2>1. /\ band' = in /\ UNCHANGED <<address, lang, menu, card>>
        /\ toc' = Moved(in)
    BY <1>5 DEF Scroll
  <2>2. Page' = Page
    BY <2>1 DEF Page
  <2>3. /\ toc' = [active |-> toc'.active, observed |-> toc'.observed, report |-> toc'.report]
        /\ toc'.observed = IF HasToc(Page) THEN Range(Sections(Page, lang)) ELSE {}
        /\ IF HasToc(Page) THEN in # {} => Knows(toc', Range(Sections(Page, lang)))
           ELSE toc' = NoRail
    BY <2>1, AsItMoves
  <2> QED BY <1>5, <2>1, <2>2, <2>3 DEF SiteInv, SiteType, Shapes, RailKnows, CopiedIsTimed
<1>6. CASE Report
  <2>1. /\ toc' = [toc EXCEPT !.active = toc.report, !.report = Nowhere]
        /\ toc.report # Nowhere /\ UNCHANGED <<address, lang, menu, band, card>>
    BY <1>6 DEF Report
  <2>2. Page' = Page
    BY <2>1 DEF Page
  <2>3. toc' = [active |-> toc.report, observed |-> toc.observed, report |-> Nowhere]
    BY <2>1 DEF SiteInv, Shapes
  <2>4. HasToc(Page)
    BY <2>1 DEF SiteInv, RailKnows, NoRail
  <2>5. band # {} => Knows(toc, Range(Sections(Page, lang)))
    BY <2>4 DEF SiteInv, RailKnows
  <2>6. band # {} => Knows(toc', Range(Sections(Page, lang)))
    BY <2>1, <2>3, <2>5 DEF Knows
  <2> QED BY <2>1, <2>2, <2>3, <2>4, <2>6 DEF SiteInv, SiteType, Shapes, RailKnows, CopiedIsTimed
<1>7. CASE ToggleCard \/ Copy \/ ClipboardAnswers \/ TimerFires
  <2>1. UNCHANGED <<address, lang, menu, band, toc>>
    BY <1>7 DEF ToggleCard, Copy, ClipboardAnswers, TimerFires
  <2>2. /\ card' \in [open : BOOLEAN, copied : BOOLEAN, writing : Nat, timers : Nat]
        /\ card'.writing + card'.timers \in 0 .. MaxCopies
        /\ card'.copied => card'.timers > 0
    <3>1. CASE ToggleCard
      BY <1>0, <3>1 DEF ToggleCard, CopiedIsTimed
    <3>2. CASE Copy
      <4>1. card' = [card EXCEPT !.writing = card.writing + 1] /\ card.writing + card.timers < MaxCopies
        BY <3>2 DEF Copy
      <4> QED BY <1>0, <4>1 DEF CopiedIsTimed
    <3>3. CASE card.writing > 0 /\ card' = Written
      <4> DEFINE w == card.writing - 1
                 n == card.timers + 1
      <4>1. card' = [card EXCEPT !.writing = w, !.copied = TRUE, !.timers = n] /\ card \in CardSet
        BY <1>0, <3>3 DEF Written, CardSet
      <4>2. w \in Nat /\ n \in Nat /\ n > 0 /\ w + n = card.writing + card.timers
        BY <1>0, <3>3
      <4> HIDE DEF w, n
      <4>3. card' \in CardSet /\ card'.writing = w /\ card'.timers = n
        BY <4>1, <4>2 DEF CardSet
      <4> QED BY <1>0, <4>2, <4>3 DEF CardSet
    <3>4. CASE card.writing > 0 /\ card' = [card EXCEPT !.writing = @ - 1]
      BY <1>0, <3>4 DEF CopiedIsTimed
    <3>5. CASE TimerFires
      <4> DEFINE n == card.timers - 1
      <4>1. card' = [card EXCEPT !.timers = n, !.copied = FALSE] /\ card \in CardSet
        BY <1>0, <3>5 DEF TimerFires, CardSet
      <4>2. n \in Nat /\ card.writing + n \in 0 .. MaxCopies
        BY <1>0, <3>5 DEF TimerFires
      <4> HIDE DEF n
      <4>3. card' \in CardSet /\ card'.writing = card.writing /\ card'.timers = n /\ ~ card'.copied
        BY <4>1, <4>2 DEF CardSet
      <4> QED BY <4>2, <4>3 DEF CardSet
    <3> QED BY <1>7, <3>1, <3>2, <3>3, <3>4, <3>5 DEF ClipboardAnswers
  <2>3. Page' = Page
    BY <2>1 DEF Page
  <2> QED BY <2>1, <2>2, <2>3 DEF SiteInv, SiteType, Shapes, RailKnows, CopiedIsTimed
<1>8. CASE ToggleMenu \/ UNCHANGED siteVars
  <2>1. UNCHANGED <<address, lang, band, toc, card>> /\ menu' \in BOOLEAN
    BY <1>0, <1>8 DEF ToggleMenu, siteVars
  <2>2. Page' = Page
    BY <2>1 DEF Page
  <2> QED BY <2>1, <2>2 DEF SiteInv, SiteType, Shapes, RailKnows, CopiedIsTimed
<1>9. ASSUME NEW id, FollowSection(id) PROVE SiteInv'
  <2>1. PICK in \in Bands(Page, lang) : band' = in /\ toc' = Moved(in)
    BY <1>9 DEF FollowSection
  <2>2. address' = [address EXCEPT !.hash = id] /\ UNCHANGED <<lang, menu, card>>
    BY <1>9 DEF FollowSection
  <2>3. address' = [path |-> address.path, slash |-> address.slash, hash |-> id]
    BY <2>2 DEF SiteInv, Shapes
  <2>4. Page' = Page
    BY <2>3 DEF Page, PageAt, normalize, SiteInv, Shapes
  <2>5. /\ toc' = [active |-> toc'.active, observed |-> toc'.observed, report |-> toc'.report]
        /\ toc'.observed = IF HasToc(Page) THEN Range(Sections(Page, lang)) ELSE {}
        /\ IF HasToc(Page) THEN in # {} => Knows(toc', Range(Sections(Page, lang)))
           ELSE toc' = NoRail
    BY <2>1, AsItMoves
  <2> QED BY <2>1, <2>2, <2>3, <2>4, <2>5 DEF SiteInv, SiteType, Shapes, RailKnows, CopiedIsTimed
<1>10. CASE SwitchLang
  <2>0. PICK l \in Langs \ {lang} : \E in \in Bands(Page, l) :
            /\ lang' = l /\ band' = in
            /\ toc' = RailOn(Page, l, in)
            /\ UNCHANGED <<address, menu, card>>
    BY <1>10 DEF SwitchLang
  <2>1. PICK in \in Bands(Page, l) :
            /\ lang' = l /\ band' = in
            /\ toc' = RailOn(Page, l, in)
            /\ UNCHANGED <<address, menu, card>>
    BY <2>0
  <2>2. Page' = Page
    BY <2>1 DEF Page
  <2>3. /\ toc' = [active |-> toc'.active, observed |-> toc'.observed, report |-> toc'.report]
        /\ toc'.observed = IF HasToc(Page) THEN Range(Sections(Page, l)) ELSE {}
        /\ IF HasToc(Page) THEN in # {} => Knows(toc', Range(Sections(Page, l))) ELSE toc' = NoRail
    BY <1>0, <2>1, <2>2, Shown
  <2> QED BY <2>1, <2>2, <2>3 DEF SiteInv, SiteType, Shapes, RailKnows, CopiedIsTimed
<1> QED BY <1>3, <1>4, <1>5, <1>6, <1>7, <1>8, <1>9, <1>10 DEF SiteNext

THEOREM SiteHolds == SiteSpec => []SiteInv
<1>1. SiteInv /\ [SiteNext]_siteVars => SiteInv'
  BY StepSite
<1> QED BY InitSite, <1>1, PTL DEF SiteSpec

(* The sidebar marks the page the reader is on; the rail, once told, a section of it. *)
THEOREM ReaderIsMarked == SiteSpec => []MarksTheReader
<1>1. ASSUME SiteInv PROVE MarksTheReader
  <2>1. normalize(address).path = address.path
    BY <1>1 DEF SiteInv, Shapes, normalize
  <2>2. \A r \in routes : address.path = r.path => Page = r /\ Active(address) = {r.path}
    BY <2>1, PageOf DEF Page
  <2>3. ASSUME HasToc(Page), band # {}, toc.report = Nowhere
        PROVE  toc.active \in Range(Sections(Page, lang))
    <3>1. Page \in AllPages /\ lang \in Langs
      BY <1>1, PageKinds DEF Page, SiteInv, SiteType
    <3>2. Sections(Page, lang) \in Seq(Ids) /\ Nowhere \notin Ids
      BY <3>1, SectionIds
    <3>3. Nowhere \notin Range(Sections(Page, lang))
      BY <3>2 DEF Range
    <3> QED BY <1>1, <2>3, <3>3 DEF SiteInv, RailKnows, Knows
  <2> QED BY <2>2, <2>3 DEF MarksTheReader
<1> QED BY <1>1, SiteHolds, PTL

(* "Copied" is always taken away. *)
THEOREM CopiedHasItsTimer == SiteSpec => []CopiedIsTimed
<1>1. SiteInv => CopiedIsTimed
  BY DEF SiteInv
<1> QED BY <1>1, SiteHolds, PTL

-----------------------------------------------------------------------------
(* The status board.  First the lists: a set of incidents has one that is newer than   *)
(* all others, so that a list of the newest exists at every length it can have.        *)
Sortable(found, top) ==
    \A a \in found : /\ SortKey(a) \in Int /\ SortKey(a) <= top /\ a.id \in Nat
                     /\ \A b \in found : a.id = b.id => a = b

LEMMA Newest ==
    ASSUME NEW found, found # {}, NEW top \in Int, Sortable(found, top)
    PROVE  \E a \in found : \A b \in found \ {a} : Newer(a, b)
<1> DEFINE ages == {top - SortKey(a) : a \in found}
<1>1. ages # {} /\ ages \subseteq Nat
  BY DEF Sortable
<1>2. PICK age \in ages : \A n \in ages : age <= n
  <2> HIDE DEF ages
  <2> QED BY <1>1, Minimum
<1> DEFINE ids == {a.id : a \in {b \in found : top - SortKey(b) = age}}
<1>3. ids # {} /\ ids \subseteq Nat
  BY <1>2 DEF Sortable
<1>4. PICK id \in ids : \A n \in ids : id <= n
  <2> HIDE DEF ids
  <2> QED BY <1>3, Minimum
<1>5. PICK a \in found : a.id = id /\ top - SortKey(a) = age
  BY <1>4
<1>6. ASSUME NEW b \in found, b # a PROVE Newer(a, b)
  <2>1. age <= top - SortKey(b) /\ SortKey(a) \in Int /\ SortKey(b) \in Int
    BY <1>2 DEF Sortable
  <2>2. SortKey(a) >= SortKey(b)
    BY <1>5, <2>1
  <2>3. SortKey(a) = SortKey(b) => a.id <= b.id
    BY <1>4, <1>5
  <2>4. a.id # b.id /\ a.id \in Nat /\ b.id \in Nat
    BY <1>6 DEF Sortable
  <2> QED BY <2>1, <2>2, <2>3, <2>4 DEF Newer
<1> QED BY <1>5, <1>6

LEMMA OneMoreListed ==
    ASSUME NEW found, IsFiniteSet(found), NEW top \in Int, Sortable(found, top),
           NEW m \in Nat, m < Cardinality(found), NEW s \in [1 .. m -> found], IsNewest(s, found)
    PROVE  \E t \in [1 .. m + 1 -> found] : IsNewest(t, found)
<1> DEFINE rest == found \ Range(s)
<1>1. rest # {}
  <2> SUFFICES ASSUME rest = {} PROVE FALSE
    OBVIOUS
  <2>1. s \in Surjection(1 .. m, found)
    BY DEF Surjection, Range
  <2>2. Cardinality(found) <= m
    BY <2>1, FS_SurjCardinalityBound DEF ExistsSurjection
  <2> QED BY <2>2, FS_CardinalityType
<1>2. PICK a \in rest : \A b \in rest \ {a} : Newer(a, b)
  <2>1. Sortable(rest, top)
    BY DEF Sortable
  <2> HIDE DEF rest
  <2> QED BY <1>1, <2>1, Newest
<1> DEFINE t == [n \in 1 .. m + 1 |-> IF n <= m THEN s[n] ELSE a]
<1>3. t \in [1 .. m + 1 -> found] /\ t[m + 1] = a /\ \A n \in 1 .. m : t[n] = s[n]
  BY <1>2
<1>4. \A n \in 1 .. m + 1 : n \in 1 .. m \/ n = m + 1
  OBVIOUS
<1> HIDE DEF t
<1>5. ASSUME NEW k \in 1 .. m + 1, NEW n \in 1 .. m + 1, k < n PROVE Newer(t[k], t[n])
  <2>1. k \in 1 .. m
    BY <1>5
  <2>2. CASE n \in 1 .. m
    BY <1>3, <1>5, <2>1, <2>2 DEF IsNewest
  <2>3. CASE n = m + 1
    BY <1>2, <1>3, <2>1, <2>3 DEF IsNewest
  <2> QED BY <1>4, <2>2, <2>3
<1>6. ASSUME NEW x \in found \ Range(t), NEW n \in 1 .. m + 1 PROVE Newer(t[n], x)
  <2>1. x # a /\ x \in rest
    <3>1. Range(t) = {t[j] : j \in 1 .. m + 1} /\ Range(s) = {s[j] : j \in 1 .. m}
      BY <1>3 DEF Range
    <3>2. m + 1 \in 1 .. m + 1 /\ \A j \in 1 .. m : j \in 1 .. m + 1
      OBVIOUS
    <3>3. a \in Range(t) /\ Range(s) \subseteq Range(t)
      BY <1>3, <3>1, <3>2
    <3> QED BY <1>6, <3>3
  <2>2. CASE n \in 1 .. m
    BY <1>3, <2>1, <2>2 DEF IsNewest
  <2>3. CASE n = m + 1
    BY <1>2, <1>3, <2>1, <2>3
  <2> QED BY <1>4, <2>2, <2>3
<1>7. IsNewest(t, found)
  BY <1>3, <1>5, <1>6 DEF IsNewest
<1> QED BY <1>3, <1>7

LEMMA ListExists ==
    ASSUME NEW found, IsFiniteSet(found), NEW top \in Int, Sortable(found, top),
           NEW m \in Nat, m <= Cardinality(found)
    PROVE  \E s \in [1 .. m -> found] : IsNewest(s, found)
<1> DEFINE Can(n) == \E s \in [1 .. n -> found] : IsNewest(s, found)
           bad == {n \in Nat : n <= Cardinality(found) /\ ~ Can(n)}
<1>1. Can(0)
  <2> DEFINE s == [n \in 1 .. 0 |-> CHOOSE x \in found : TRUE]
  <2>1. s \in [1 .. 0 -> found] /\ DOMAIN s = {}
    OBVIOUS
  <2>2. IsNewest(s, found)
    BY <2>1 DEF IsNewest
  <2> QED BY <2>1, <2>2
<1>2. Cardinality(found) \in Nat
  BY FS_CardinalityType
<1>3. ASSUME NEW n \in Nat, n < Cardinality(found), Can(n) PROVE Can(n + 1)
  BY <1>3, OneMoreListed
<1>4. bad = {}
  <2> SUFFICES ASSUME bad # {} PROVE FALSE
    OBVIOUS
  <2>1. PICK n \in bad : \A k \in bad : n <= k
    <3>1. bad \subseteq Nat
      OBVIOUS
    <3> HIDE DEF bad
    <3> QED BY <3>1, Minimum
  <2>2. n \in Nat /\ n <= Cardinality(found) /\ ~ Can(n)
    OBVIOUS
  <2> HIDE DEF Can
  <2>3. n # 0
    BY <1>1, <2>2
  <2>4. n - 1 \in Nat /\ n - 1 < Cardinality(found) /\ n - 1 + 1 = n
    BY <1>2, <2>2, <2>3
  <2>5. Can(n - 1)
    BY <1>2, <2>1, <2>2, <2>4
  <2>6. Can(n - 1 + 1)
    BY <1>3, <2>4, <2>5
  <2> QED BY <2>2, <2>4, <2>6
<1>5. m \notin bad
  BY <1>4
<1> QED BY <1>5

-----------------------------------------------------------------------------
(* What the table and an answer look like. *)
Entry == [id : Incidents, state : {"none", "firing", "acked", "resolved"},
          severity : {Severity[i] : i \in Incidents}, started : Int, acked : Int, resolved : Int]

Faithful(e) == e.severity = Severity[e.id]

(* What an item of incident i may hold. *)
Plausible(e, i, now) ==
    /\ e.id = i /\ Faithful(e)
    /\ e.started \in None .. now /\ e.resolved \in None .. now
    /\ e.state = "resolved" => e.resolved # None

TableInv ==
    /\ time \in Nat /\ index \in [Incidents -> Entry] /\ past \in [Incidents -> SUBSET Entry]
    /\ \A i \in Incidents : Plausible(index[i], i, time)
    /\ \A i \in Incidents : \A e \in past[i] : Plausible(e, i, time)

(* A view of the table is a table that may have been. *)
LEMMA ViewFacts ==
    ASSUME TableInv, NEW view \in Views
    PROVE  /\ view \in [Incidents -> Entry]
           /\ \A i \in Incidents : Plausible(view[i], i, time)
           /\ \A i \in Incidents : past[i] = {} => view[i] = index[i]
<1>1. DOMAIN view = Incidents /\ view = [i \in Incidents |-> view[i]]
  BY DEF Views
<1>2. ASSUME NEW i \in Incidents
      PROVE  /\ view[i] \in Entry /\ Plausible(view[i], i, time)
             /\ past[i] = {} => view[i] = index[i]
  <2>1. view[i] \in Seen(i)
    BY DEF Views
  <2> QED BY <2>1 DEF Seen, TableInv
<1> QED BY <1>1, <1>2

(* The latest to close first. *)
LatestFirst(s) ==
    /\ \A n \in DOMAIN s : s[n].resolved # None
    /\ \A m, n \in DOMAIN s : m < n => s[m].resolved >= s[n].resolved

Found(state, view) == {view[i] : i \in {j \in Incidents : view[j].state = state}}

Listed(s, i) == \E n \in DOMAIN s : s[n].id = i

Fits == Cardinality(Incidents) <= Limit

LEMMA FoundFacts ==
    ASSUME TableInv, NEW state, NEW view \in Views
    PROVE  /\ IsFiniteSet(Found(state, view)) /\ Cardinality(Found(state, view)) <= Cardinality(Incidents)
           /\ Sortable(Found(state, view), time) /\ Found(state, view) \subseteq Entry
<1> DEFINE these == {j \in Incidents : view[j].state = state}
<1>1. IsFiniteSet(these) /\ Cardinality(these) <= Cardinality(Incidents)
  BY StatusAssumption, FS_Subset
<1>2. [j \in these |-> view[j]] \in Surjection(these, Found(state, view))
  BY DEF Surjection, Found
<1>3. IsFiniteSet(Found(state, view)) /\ Cardinality(Found(state, view)) <= Cardinality(these)
  <2> HIDE DEF these
  <2> QED BY <1>1, <1>2, FS_Surjection
<1>4. Sortable(Found(state, view), time) /\ Found(state, view) \subseteq Entry
  <2>1. \A i \in Incidents : view[i] \in Entry /\ Plausible(view[i], i, time)
    BY ViewFacts
  <2>2. time \in Nat /\ Incidents \subseteq Nat
    BY StatusAssumption DEF TableInv
  <2>3. ASSUME NEW i \in Incidents
        PROVE  SortKey(view[i]) \in Int /\ SortKey(view[i]) <= time /\ view[i].id = i /\ i \in Nat
    BY <2>1, <2>2 DEF SortKey, Plausible, Entry, None
  <2> QED BY <2>1, <2>3 DEF Sortable, Found
<1> QED BY <1>1, <1>3, <1>4, StatusAssumption, FS_CardinalityType

(* A list has only what was found, and all of it when it is not cut off. *)
LEMMA ListFacts ==
    ASSUME TableInv, NEW state, NEW view \in Views, NEW s, s = IncidentsByState(state, view)
    PROVE  /\ s \in Seq(Entry) /\ IsNewest(s, Found(state, view))
           /\ \A n \in DOMAIN s : s[n] \in Found(state, view)
           /\ Fits => \A i \in Incidents : view[i].state = state => Listed(s, i)
<1> DEFINE found == Found(state, view)
           m == Smaller(Limit, Cardinality(found))
<1>1. Cardinality(found) \in Nat /\ Cardinality(Incidents) \in Nat /\ Limit \in Nat
  BY FoundFacts, StatusAssumption, FS_CardinalityType
<1>2. m \in Nat /\ m <= Cardinality(found) /\ (Fits => m = Cardinality(found))
  BY <1>1, FoundFacts DEF Smaller, Fits
<1>3. s = CHOOSE r \in [1 .. m -> found] : IsNewest(r, found)
  BY DEF IncidentsByState, Found
<1>4. \E r \in [1 .. m -> found] : IsNewest(r, found)
  <2> HIDE DEF m, found
  <2>1. IsFiniteSet(found) /\ Sortable(found, time) /\ time \in Int
    BY FoundFacts DEF found, TableInv
  <2> QED BY <1>2, <2>1, ListExists
<1> HIDE DEF m
<1>5. s \in [1 .. m -> found] /\ IsNewest(s, found)
  BY <1>3, <1>4
<1>6. s \in Seq(Entry) /\ \A n \in DOMAIN s : s[n] \in found
  BY <1>2, <1>5, FoundFacts
<1>7. ASSUME Fits, NEW i \in Incidents, view[i].state = state PROVE Listed(s, i)
  <2>1. IsInjective(s)
    <3> SUFFICES ASSUME NEW j \in 1 .. m, NEW k \in 1 .. m, s[j] = s[k], j < k PROVE FALSE
      BY <1>2, <1>5 DEF IsInjective
    <3>1. Newer(s[j], s[j])
      BY <1>5 DEF IsNewest
    <3>2. SortKey(s[j]) \in Int /\ s[j].id \in Nat
      BY <1>5, FoundFacts DEF Sortable
    <3> QED BY <3>1, <3>2 DEF Newer
  <2>2. s \in Injection(1 .. m, found)
    BY <1>5, <2>1 DEF Injection
  <2>3. Cardinality(1 .. m) = m
    BY <1>2, FS_Interval
  <2>4. s \in Surjection(1 .. m, found)
    BY <1>2, <1>7, <2>2, <2>3, FoundFacts, FS_Injection
  <2>5. view[i] \in found /\ view[i].id = i
    <3>1. Plausible(view[i], i, time)
      BY ViewFacts
    <3> QED BY <1>7, <3>1 DEF Found, Plausible
  <2>6. PICK n \in 1 .. m : s[n] = view[i]
    BY <2>4, <2>5 DEF Surjection
  <2> QED BY <1>5, <2>5, <2>6 DEF Listed
<1> QED BY <1>5, <1>6, <1>7

LEMMA ClosedListed ==
    ASSUME TableInv, NEW view \in Views, NEW s, s = IncidentsByState("resolved", view)
    PROVE  LatestFirst(s)
<1>1. IsNewest(s, Found("resolved", view)) /\ \A n \in DOMAIN s : s[n] \in Found("resolved", view)
  BY ListFacts
<1>2. \A e \in Found("resolved", view) :
          e.resolved # None /\ e.resolved \in Int /\ SortKey(e) = e.resolved
  <2>1. \A i \in Incidents : view[i] \in Entry /\ Plausible(view[i], i, time)
    BY ViewFacts
  <2> QED BY <2>1 DEF Found, Plausible, Entry, SortKey
<1>3. ASSUME NEW m \in DOMAIN s, NEW n \in DOMAIN s, m < n PROVE s[m].resolved >= s[n].resolved
  <2>1. Newer(s[m], s[n])
    BY <1>1, <1>3 DEF IsNewest
  <2> QED BY <1>1, <1>2, <2>1 DEF Newer
<1> QED BY <1>1, <1>2, <1>3 DEF LatestFirst

-----------------------------------------------------------------------------
(* The requests and the page. *)
Lists == Seq(Entry)
Answer200 == [status : {200}, active : Lists, recent : Lists, health : {"operational", "degraded", "down"}]
Answer500 == [status : {500}]
Answers == {NoAnswer} \union Answer200 \union Answer500

Request == [query : 0 .. 3, active : Lists, throughout : SUBSET Incidents, answer : Answers]

(* Everything that is open and has been asked for is in hand; what was acked before the  *)
(* first query, as GSI1 showed then, comes with the second.                             *)
Collects(r) ==
    Fits => \A i \in r.throughout :
        /\ r.query = 2 => Listed(r.active, i) \/ (index[i].state = "acked" /\ past[i] = {})
        /\ r.query = 3 => Listed(r.active, i)

Honest(r) ==
    Fits /\ r.answer.status = 200 =>
        /\ r.throughout # {} => r.answer.health # "operational"
        /\ (\E i \in r.throughout : Severity[i] = "critical") => r.answer.health = "down"

GoodRequest(r) ==
    /\ r.throughout \subseteq OpenNow /\ \A n \in DOMAIN r.active : Faithful(r.active[n])
    /\ Collects(r) /\ Honest(r) /\ (r.query > 0 => r.answer = NoAnswer)
    /\ r.answer.status = 200 => LatestFirst(r.answer.recent)
    /\ r.answer.status = 500 => failures > 0

RequestInv == request \in [Loads -> Request] /\ \A l \in Loads : GoodRequest(request[l])

PageRecord == [mounted : BOOLEAN, strict : BOOLEAN, board : {NoBoard} \union Answer200, error : BOOLEAN]

PageInv ==
    /\ page \in PageRecord
    /\ page.board.status = 200 => LatestFirst(page.board.recent)
    /\ failures \in Nat /\ ErrorIsReal

BoardInv == TableInv /\ RequestInv /\ PageInv /\ BoardType

LEMMA StatusFacts ==
    /\ NoAnswer \in Answers /\ NoAnswer.status = 0 /\ NoBoard.status = 0
    /\ \A a \in Answer200 : a.status = 200 /\ a \in Answers
    /\ \A a \in Answer500 : a.status = 500 /\ a \in Answers
    /\ [status |-> 500] \in Answer500 /\ << >> \in Lists /\ DOMAIN << >> = {}
BY DEF NoAnswer, NoBoard, Answers, Answer200, Answer500, Lists

LEMMA OtherEntry ==
    ASSUME NEW e \in Entry, NEW state \in {"firing", "acked", "resolved"}, NEW at \in Int
    PROVE  /\ [e EXCEPT !.state = state, !.started = at] \in Entry
           /\ [e EXCEPT !.state = state, !.acked = at] \in Entry
           /\ [e EXCEPT !.state = state, !.resolved = at] \in Entry
BY DEF Entry

LEMMA IdleFacts ==
    /\ Idle \in Request /\ Idle.query = 0 /\ Idle.active = << >> /\ Idle.throughout = {}
    /\ Idle.answer = NoAnswer
BY StatusFacts DEF Idle, Request

LEMMA BeginFacts ==
    /\ Begin \in Request /\ Begin.query = 1 /\ Begin.active = << >> /\ Begin.throughout = {}
    /\ Begin.answer = NoAnswer
<1> DEFINE idle == Idle
           one == 1
<1>1. idle \in Request /\ idle = Idle
  BY IdleFacts
<1>2. one \in 0 .. 3 /\ one = 1
  OBVIOUS
<1>3. Begin = [idle EXCEPT !.query = one]
  BY DEF Begin
<1> HIDE DEF idle, one
<1>4. Begin \in Request /\ Begin.query = one
  BY <1>1, <1>2, <1>3 DEF Request
<1>5. Begin.active = idle.active /\ Begin.throughout = idle.throughout /\ Begin.answer = idle.answer
  BY <1>1, <1>2, <1>3 DEF Request
<1> QED BY <1>1, <1>2, <1>4, <1>5, IdleFacts

LEMMA FreshRequests == GoodRequest(Idle) /\ GoodRequest(Begin)
BY IdleFacts, BeginFacts, StatusFacts DEF GoodRequest, Collects, Honest

LEMMA HealthFacts ==
    ASSUME NEW active \in Lists, NEW slis
    PROVE  LET health == OverallHealth(active, slis) IN
           /\ health \in {"operational", "degraded", "down"}
           /\ active # << >> => health # "operational"
           /\ (\E n \in DOMAIN active : active[n].severity = "critical") => health = "down"
BY DEF OverallHealth

LEMMA InitBoard == BoardInit => BoardInv
<1> SUFFICES ASSUME BoardInit PROVE BoardInv
  OBVIOUS
<1>1. TableInv
  <2>1. PICK open \in Standing :
            index = [i \in Incidents |->
                       IF i \in open THEN [NoIncident(i) EXCEPT !.state = "firing", !.started = 0]
                       ELSE NoIncident(i)]
    BY DEF BoardInit, StatusInit
  <2>2. ASSUME NEW i \in Incidents
        PROVE  /\ index[i] \in Entry /\ index[i].id = i /\ Faithful(index[i])
               /\ index[i].started \in {None, 0} /\ index[i].resolved = None
               /\ index[i].state # "resolved"
    <3>1. NoIncident(i) \in Entry /\ NoIncident(i).id = i /\ NoIncident(i).severity = Severity[i]
          /\ NoIncident(i).started = None /\ NoIncident(i).resolved = None /\ NoIncident(i).state = "none"
      BY DEF NoIncident, Entry, None
    <3>2. index[i] = NoIncident(i) \/ index[i] = [NoIncident(i) EXCEPT !.state = "firing", !.started = 0]
      BY <2>1
    <3>3. 0 \in Int /\ "firing" \in {"firing", "acked", "resolved"}
      OBVIOUS
    <3>4. index[i] \in Entry
      BY <3>1, <3>2, <3>3, OtherEntry
    <3> QED BY <3>1, <3>2, <3>4 DEF Entry, Faithful
  <2>3. time = 0 /\ None \in None .. time /\ 0 \in None .. time
    <3>1. time = 0
      BY DEF BoardInit, StatusInit
    <3> QED BY <3>1 DEF None
  <2>4. index \in [Incidents -> Entry]
    BY <2>1, <2>2
  <2>5. past = [i \in Incidents |-> {}]
    BY DEF BoardInit, StatusInit
  <2>6. ASSUME NEW i \in Incidents PROVE Plausible(index[i], i, time)
    BY <2>2, <2>3 DEF Plausible
  <2> QED BY <2>3, <2>4, <2>5, <2>6 DEF TableInv
<1>2. RequestInv
  BY IdleFacts, FreshRequests DEF BoardInit, StatusInit, RequestInv
<1>3. PageInv /\ BoardType
  <2>1. page = [mounted |-> FALSE, strict |-> FALSE, board |-> NoBoard, error |-> FALSE] /\ failures = 0
    BY DEF BoardInit
  <2>2. page.board.status = 0
    BY <2>1, StatusFacts
  <2>3. load = [l \in Loads |-> "none"] /\ request = [l \in Loads |-> Idle]
    BY DEF BoardInit, StatusInit
  <2> QED BY <2>1, <2>2, <2>3 DEF PageInv, PageRecord, BoardType, ErrorIsReal
<1> QED BY <1>1, <1>2, <1>3 DEF BoardInv

-----------------------------------------------------------------------------
(* What moves in the table keeps the requests what they are: what was open stays open     *)
(* unless it is struck out, and what was acked stays acked unless it is resolved.        *)
LEMMA EntryChanges ==
    ASSUME TableInv, NEW i \in Incidents, NEW e \in Entry, time' = time + 1,
           index' = [index EXCEPT ![i] = e], past' = [past EXCEPT ![i] = @ \cup {index[i]}],
           Plausible(e, i, time + 1)
    PROVE  /\ TableInv' /\ \A j \in Incidents : index'[j] = IF j = i THEN e ELSE index[j]
           /\ \A j \in Incidents \ {i} : past'[j] = past[j]
<1>1. index' \in [Incidents -> Entry] /\ \A j \in Incidents : index'[j] = IF j = i THEN e ELSE index[j]
  BY DEF TableInv
<1>2. /\ past' \in [Incidents -> SUBSET Entry]
      /\ \A j \in Incidents : past'[j] = IF j = i THEN past[j] \cup {index[j]} ELSE past[j]
  BY DEF TableInv
<1>3. time' \in Nat /\ \A x : x \in None .. time => x \in None .. time + 1
  BY DEF TableInv, None
<1>4. \A j \in Incidents : \A v : Plausible(v, j, time) => Plausible(v, j, time')
  BY <1>3 DEF Plausible
<1>5. ASSUME NEW j \in Incidents PROVE Plausible(index'[j], j, time')
  BY <1>1, <1>4 DEF TableInv
<1>6. ASSUME NEW j \in Incidents, NEW v \in past'[j] PROVE Plausible(v, j, time')
  BY <1>2, <1>4 DEF TableInv
<1> QED BY <1>1, <1>2, <1>3, <1>5, <1>6 DEF TableInv, Plausible, Faithful

LEMMA GoodStays ==
    ASSUME NEW r \in Request, GoodRequest(r), failures \in Nat, failures' \in Nat, failures <= failures',
           index \in [Incidents -> Entry],
           \A j \in r.throughout : /\ index[j].state = "acked" /\ past[j] = {}
                                          => index'[j].state = "acked" /\ past'[j] = {}
                                   /\ index'[j].state \in {"firing", "acked"}
    PROVE  GoodRequest(r)'
<1>1. r.throughout \subseteq OpenNow'
  BY DEF OpenNow, IsOpen, Request
<1>2. Collects(r)' /\ Honest(r)'
  BY DEF Collects, Honest, Fits, Listed, GoodRequest, Request
<1>3. r.answer.status = 200 => LatestFirst(r.answer.recent)'
  BY DEF LatestFirst, GoodRequest
<1>4. /\ (\A n \in DOMAIN r.active : Faithful(r.active[n]))'
      /\ r.answer.status = 500 => failures' > 0
      /\ (r.query > 0 => r.answer = NoAnswer)'
  BY DEF GoodRequest, Faithful, NoAnswer
<1> QED BY <1>1, <1>2, <1>3, <1>4 DEF GoodRequest

(* An incident that is over is struck out of what was open all along. *)
LEMMA StruckOut ==
    ASSUME NEW r \in Request, GoodRequest(r), NEW i \in Incidents
    PROVE  [r EXCEPT !.throughout = @ \ {i}] \in Request /\ GoodRequest([r EXCEPT !.throughout = @ \ {i}])
<1> DEFINE left == r.throughout \ {i}
<1>1. left \in SUBSET Incidents /\ left \subseteq r.throughout
  BY DEF Request
<1>2. [r EXCEPT !.throughout = @ \ {i}] = [r EXCEPT !.throughout = left]
  OBVIOUS
<1> HIDE DEF left
<1> DEFINE s == [r EXCEPT !.throughout = left]
<1>3. s \in Request /\ s.throughout = left
  BY <1>1 DEF Request
<1>4. s.query = r.query /\ s.active = r.active /\ s.answer = r.answer
  BY <1>1 DEF Request
<1> HIDE DEF s
<1>5. s.throughout \subseteq r.throughout
  BY <1>1, <1>3
<1>6. GoodRequest(s)
  BY <1>4, <1>5 DEF GoodRequest, Collects, Honest
<1>7. s = [r EXCEPT !.throughout = left]
  BY DEF s
<1> QED BY <1>2, <1>3, <1>6, <1>7

LEMMA StepTable ==
    ASSUME BoardInv, TableNext, UNCHANGED <<page, load, failures>>
    PROVE  BoardInv'
<1> PICK i \in Incidents : Opens(i) \/ Acks(i) \/ Resolves(i) \/ Propagates(i)
  BY DEF TableNext
<1>0. /\ time \in Nat /\ index[i] \in Entry /\ index[i].id = i /\ time + 1 \in Int
      /\ Faithful(index[i]) /\ index[i].started \in None .. time + 1 /\ index[i].resolved \in None .. time + 1
      /\ time + 1 \in None .. time + 1 /\ time + 1 # None /\ failures \in Nat
  BY DEF BoardInv, TableInv, Plausible, PageInv, PageRecord, None
<1>1. Opens(i) \/ Acks(i) \/ Resolves(i) => time' = time + 1 /\ past' = [past EXCEPT ![i] = @ \cup {index[i]}]
  BY DEF Moves, Opens, Acks, Resolves
<1>2. ASSUME TableInv', NEW e, \A j \in Incidents : index'[j] = IF j = i THEN e ELSE index[j],
             \A j \in Incidents \ {i} : past'[j] = past[j],
             request' = request, e.state \in {"firing", "acked"}, index[i].state # "acked"
      PROVE  BoardInv'
  <2>1. ASSUME NEW l \in Loads PROVE GoodRequest(request[l])'
    <3> DEFINE r == request[l]
    <3>1. r \in Request /\ GoodRequest(r)
      BY DEF BoardInv, RequestInv
    <3>2. \A j \in r.throughout : j \in Incidents /\ index[j].state \in {"firing", "acked"}
      BY <3>1 DEF GoodRequest, OpenNow, IsOpen
    <3>3. index \in [Incidents -> Entry]
      BY DEF BoardInv, TableInv
    <3>4. r' = r
      BY <1>2
    <3> HIDE DEF r
    <3>5. ASSUME NEW q, q = r PROVE GoodRequest(q)'
      BY <1>0, <1>2, <3>1, <3>2, <3>3, <3>5, GoodStays
    <3>6. GoodRequest(r)'
      BY <3>4, <3>5
    <3> QED BY <3>6 DEF r
  <2>2. RequestInv'
    BY <1>2, <2>1 DEF BoardInv, RequestInv
  <2> QED BY <1>2, <2>2 DEF BoardInv, PageInv, PageRecord, ErrorIsReal, LatestFirst, BoardType

<1>3. CASE Opens(i)
  <2> DEFINE e == [index[i] EXCEPT !.state = "firing", !.started = time + 1]
  <2>1. index' = [index EXCEPT ![i] = e] /\ index[i].state = "none" /\ request' = request
    BY <1>0, <1>3 DEF Opens, Moves, BoardInv, TableInv
  <2>2. e \in Entry
    BY <1>0, OtherEntry
  <2>3. /\ e.state = "firing" /\ e.started = time + 1 /\ e.id = i
        /\ e.severity = index[i].severity /\ e.resolved = index[i].resolved
    BY <1>0 DEF Entry
  <2> HIDE DEF e
  <2>a. Plausible(e, i, time + 1)
    BY <1>0, <2>3 DEF Plausible, Faithful
  <2>4. /\ TableInv' /\ \A j \in Incidents : index'[j] = IF j = i THEN e ELSE index[j]
        /\ \A j \in Incidents \ {i} : past'[j] = past[j]
    BY <1>1, <1>3, <2>1, <2>2, <2>a, EntryChanges DEF BoardInv
  <2> QED BY <1>2, <2>1, <2>3, <2>4
<1>4. CASE Acks(i)
  <2> DEFINE e == [index[i] EXCEPT !.state = "acked", !.acked = time + 1]
  <2>1. index' = [index EXCEPT ![i] = e] /\ index[i].state = "firing" /\ request' = request
    BY <1>0, <1>4 DEF Acks, Moves, BoardInv, TableInv
  <2>2. e \in Entry
    BY <1>0, OtherEntry
  <2>3. /\ e.state = "acked" /\ e.started = index[i].started /\ e.id = i
        /\ e.severity = index[i].severity /\ e.resolved = index[i].resolved
    BY <1>0 DEF Entry
  <2> HIDE DEF e
  <2>a. Plausible(e, i, time + 1)
    BY <1>0, <2>3 DEF Plausible, Faithful
  <2>4. /\ TableInv' /\ \A j \in Incidents : index'[j] = IF j = i THEN e ELSE index[j]
        /\ \A j \in Incidents \ {i} : past'[j] = past[j]
    BY <1>1, <1>4, <2>1, <2>2, <2>a, EntryChanges DEF BoardInv
  <2> QED BY <1>2, <2>1, <2>3, <2>4
<1>5. CASE Resolves(i)
  <2> DEFINE e == [index[i] EXCEPT !.state = "resolved", !.resolved = time + 1]
  <2>1. index' = [index EXCEPT ![i] = e]
    BY <1>0, <1>5 DEF Resolves, Moves, BoardInv, TableInv
  <2>2. e \in Entry
    BY <1>0, OtherEntry
  <2>3. /\ e.state = "resolved" /\ e.started = index[i].started /\ e.id = i
        /\ e.severity = index[i].severity /\ e.resolved = time + 1
    BY <1>0 DEF Entry
  <2> HIDE DEF e
  <2>a. Plausible(e, i, time + 1)
    BY <1>0, <2>3 DEF Plausible, Faithful
  <2>4. /\ TableInv' /\ \A j \in Incidents : index'[j] = IF j = i THEN e ELSE index[j]
        /\ \A j \in Incidents \ {i} : past'[j] = past[j]
    BY <1>1, <1>5, <2>1, <2>2, <2>a, EntryChanges DEF BoardInv
  <2>5. ASSUME NEW l \in Loads PROVE request'[l] \in Request /\ GoodRequest(request[l])'
    <3> DEFINE r == [request[l] EXCEPT !.throughout = @ \ {i}]
    <3>1. r \in Request /\ GoodRequest(r)
      BY StruckOut DEF BoardInv, RequestInv
    <3>2. r.throughout = request[l].throughout \ {i} /\ request'[l] = r
      BY <1>5 DEF Resolves, BoardInv, RequestInv, Request
    <3>3. index \in [Incidents -> Entry]
      BY DEF BoardInv, TableInv
    <3> HIDE DEF r
    <3>4. \A j \in r.throughout : j \in Incidents /\ j # i /\ index[j].state \in {"firing", "acked"}
      BY <3>1, <3>2 DEF GoodRequest, OpenNow, IsOpen
    <3>5. ASSUME NEW q, q = r PROVE GoodRequest(q)'
      BY <1>0, <2>4, <3>1, <3>3, <3>4, <3>5, GoodStays
    <3> QED BY <3>1, <3>2, <3>5
  <2>6. DOMAIN request' = Loads /\ request' = [l \in Loads |-> request'[l]]
    BY <1>5 DEF Resolves
  <2>7. request' \in [Loads -> Request]
    BY <2>5, <2>6
  <2>8. RequestInv'
    BY <2>5, <2>7 DEF RequestInv
  <2>9. \A l \in Loads : request'[l] # Idle => request[l] # Idle
    <3> SUFFICES ASSUME NEW l \in Loads, request[l] = Idle PROVE request'[l] = Idle
      OBVIOUS
    <3>1. request'[l] = [Idle EXCEPT !.throughout = @ \ {i}]
      BY <1>5 DEF Resolves
    <3> QED BY <3>1 DEF Idle
  <2> QED BY <2>4, <2>8, <2>9 DEF BoardInv, PageInv, PageRecord, ErrorIsReal, LatestFirst, BoardType
<1>6. CASE Propagates(i)
  <2>1. /\ past' = [past EXCEPT ![i] = {}] /\ UNCHANGED <<time, index, request>>
        /\ past \in [Incidents -> SUBSET Entry]
    BY <1>6 DEF Propagates, BoardInv, TableInv
  <2>2. TableInv'
    BY <2>1 DEF BoardInv, TableInv, Plausible, Faithful
  <2>3. ASSUME NEW l \in Loads PROVE GoodRequest(request[l])'
    <3>1. request[l] \in Request /\ GoodRequest(request[l]) /\ index \in [Incidents -> Entry]
      BY DEF BoardInv, RequestInv, TableInv
    <3>2. \A j \in request[l].throughout : /\ index[j].state \in {"firing", "acked"}
                                           /\ past[j] = {} => past'[j] = {}
      BY <2>1, <3>1 DEF GoodRequest, OpenNow, IsOpen
    <3>3. ASSUME NEW q, q = request[l] PROVE GoodRequest(q)'
      <4>1. /\ q \in Request /\ GoodRequest(q) /\ failures \in Nat /\ failures' = failures
            /\ index' = index
        BY <1>0, <2>1, <3>1, <3>3
      <4>2. failures' \in Nat /\ failures <= failures'
        BY <4>1
      <4>3. \A j \in q.throughout : /\ index[j].state = "acked" /\ past[j] = {}
                                           => index'[j].state = "acked" /\ past'[j] = {}
                                    /\ index'[j].state \in {"firing", "acked"}
        BY <3>2, <3>3, <4>1
      <4> QED BY <3>1, <4>1, <4>2, <4>3, GoodStays
    <3> QED BY <2>1, <3>3
  <2>4. RequestInv'
    BY <2>1, <2>3 DEF BoardInv, RequestInv
  <2> QED BY <2>1, <2>2, <2>4 DEF BoardInv, PageInv, PageRecord, ErrorIsReal, LatestFirst, BoardType
<1> QED BY <1>3, <1>4, <1>5, <1>6

-----------------------------------------------------------------------------
(* The requests that the endpoint and the page change leave the others what they are.      *)
LEMMA FreshNext ==
    ASSUME BoardInv, UNCHANGED <<index, past>>, failures' \in Nat, failures <= failures'
    PROVE  GoodRequest(Idle)' /\ GoodRequest(Begin)' /\ Begin' = Begin /\ Idle' = Idle
<1>1. Idle \in Request /\ Begin \in Request /\ index \in [Incidents -> Entry] /\ failures \in Nat
  BY IdleFacts, BeginFacts DEF BoardInv, TableInv, PageInv, PageRecord
<1>2. \A j \in OpenNow : index[j].state \in {"firing", "acked"}
  BY DEF OpenNow, IsOpen
<1>3. ASSUME NEW q, q = Idle PROVE GoodRequest(q)'
  BY <1>1, <1>2, <1>3, FreshRequests, IdleFacts, GoodStays
<1>4. ASSUME NEW q, q = Begin PROVE GoodRequest(q)'
  BY <1>1, <1>2, <1>4, FreshRequests, BeginFacts, GoodStays
<1>5. Begin' = Begin /\ Idle' = Idle
  BY DEF Begin, Idle, OpenNow, IsOpen, NoAnswer
<1> QED BY <1>3, <1>4, <1>5

LEMMA RequestsNext ==
    ASSUME BoardInv, NEW R \in SUBSET Loads, failures' \in Nat, failures <= failures',
           request' \in [Loads -> Request],
           \A l \in Loads \ R : request'[l] = request[l] \/ request'[l] = Idle,
           \A l \in R : GoodRequest(request[l])',
           UNCHANGED <<time, index, past>>
    PROVE  RequestInv' /\ TableInv'
<1>1. ASSUME NEW l \in Loads \ R PROVE GoodRequest(request[l])'
  <2>1. request[l] \in Request /\ GoodRequest(request[l]) /\ index \in [Incidents -> Entry] /\ failures \in Nat
    BY DEF BoardInv, RequestInv, TableInv, PageInv, PageRecord
  <2>2. \A j \in request[l].throughout : index[j].state \in {"firing", "acked"}
    BY <2>1 DEF GoodRequest, OpenNow, IsOpen
  <2>3. ASSUME NEW q, q = request[l] PROVE GoodRequest(q)'
    BY <2>1, <2>2, <2>3, GoodStays
  <2>4. GoodRequest(Idle)' /\ Idle' = Idle
    BY FreshNext
  <2> QED BY <2>3, <2>4
<1>2. RequestInv'
  BY <1>1 DEF RequestInv
<1> QED BY <1>2 DEF BoardInv, TableInv, Plausible, Faithful

LEMMA StepOpen ==
    ASSUME BoardInv, NEW l \in Loads, QueryOpen(l), UNCHANGED <<page, load, failures>>
    PROVE  BoardInv'
<1> DEFINE old == request[l]
           state == OpenStates[old.query]
<1>0. PICK view \in Views :
          request' = [request EXCEPT ![l].active = @ \o IncidentsByState(state, view),
                                     ![l].throughout = Watched(l), ![l].query = @ + 1]
  BY DEF QueryOpen
<1> DEFINE list == IncidentsByState(state, view)
           open == Watched(l)
           r == [old EXCEPT !.active = @ \o list, !.throughout = open, !.query = @ + 1]
<1>1. old \in Request /\ GoodRequest(old) /\ failures \in Nat /\ index \in [Incidents -> Entry]
  BY DEF BoardInv, RequestInv, PageInv, PageRecord, TableInv
<1>2. /\ old.query \in {1, 2} /\ (old.query = 1 => state = "firing") /\ (old.query = 2 => state = "acked")
      /\ old.answer = NoAnswer
  BY <1>1 DEF QueryOpen, OpenStates, Request, GoodRequest
<1>3. /\ list \in Lists /\ \A n \in DOMAIN list : Faithful(list[n])
      /\ Fits => \A i \in Incidents : index[i].state = state /\ past[i] = {} => Listed(list, i)
  <2>1. TableInv
    BY DEF BoardInv
  <2> HIDE DEF state, list, r
  <2>2. \A e \in Found(state, view) : Faithful(e)
    <3>1. \A i \in Incidents : Plausible(view[i], i, time)
      BY <2>1, ViewFacts
    <3> QED BY <3>1 DEF Plausible, Found
  <2>3. list = IncidentsByState(state, view)
    BY DEF list
  <2>4. \A i \in Incidents : past[i] = {} => view[i] = index[i]
    BY <2>1, ViewFacts
  <2>5. /\ list \in Seq(Entry) /\ \A n \in DOMAIN list : list[n] \in Found(state, view)
        /\ Fits => \A i \in Incidents : view[i].state = state => Listed(list, i)
    BY <2>1, <2>3, ListFacts
  <2> QED BY <2>2, <2>4, <2>5 DEF Lists
<1>4. request' = [request EXCEPT ![l] = r]
  BY <1>0 DEF BoardInv, RequestInv
<1>a. /\ open \in SUBSET Incidents /\ open \subseteq OpenNow
      /\ old.query = 1 => \A i \in open : past[i] = {}
      /\ old.query = 2 => open = old.throughout
  BY <1>1, <1>2 DEF Watched, OpenNow, Settled, GoodRequest, Request
<1> HIDE DEF list, open
<1> DEFINE active == old.active \o list
           next == old.query + 1
<1>5. active \in Lists /\ next \in 0 .. 3
  BY <1>1, <1>2, <1>3 DEF Request, Lists
<1>6. /\ \A n \in DOMAIN active : Faithful(active[n])
      /\ \A i : Listed(old.active, i) \/ Listed(list, i) => Listed(active, i)
  <2>1. old.active \in Lists
    BY <1>1 DEF Request
  <2> DEFINE head == old.active
  <2> HIDE DEF old
  <2>2. ASSUME NEW a \in Lists, NEW b \in Lists,
               \A n \in DOMAIN a : Faithful(a[n]), \A n \in DOMAIN b : Faithful(b[n])
        PROVE  /\ \A n \in DOMAIN (a \o b) : Faithful((a \o b)[n])
               /\ \A i : Listed(a, i) \/ Listed(b, i) => Listed(a \o b, i)
    <3>1. /\ DOMAIN (a \o b) = 1 .. Len(a) + Len(b) /\ DOMAIN a = 1 .. Len(a) /\ DOMAIN b = 1 .. Len(b)
          /\ \A n \in 1 .. Len(a) : (a \o b)[n] = a[n]
          /\ Len(a) \in Nat /\ Len(b) \in Nat
      BY DEF Lists
    <3>2. \A n \in 1 .. Len(b) : (a \o b)[Len(a) + n] = b[n] /\ Len(a) + n \in DOMAIN (a \o b)
      BY <3>1 DEF Lists
    <3>3. ASSUME NEW n \in DOMAIN (a \o b) PROVE Faithful((a \o b)[n])
      <4>1. CASE n <= Len(a)
        BY <2>2, <3>1, <4>1
      <4>2. CASE n > Len(a)
        <5>1. n - Len(a) \in 1 .. Len(b) /\ Len(a) + (n - Len(a)) = n
          BY <3>1, <4>2
        <5> QED BY <2>2, <3>1, <3>2, <5>1
      <4> QED BY <3>1, <4>1, <4>2
    <3>4. ASSUME NEW i, Listed(a, i) PROVE Listed(a \o b, i)
      BY <3>1, <3>4 DEF Listed
    <3>5. ASSUME NEW i, Listed(b, i) PROVE Listed(a \o b, i)
      BY <3>1, <3>2, <3>5 DEF Listed
    <3> QED BY <3>3, <3>4, <3>5
  <2> QED BY <1>1, <1>3, <2>1, <2>2 DEF GoodRequest
<1>7. r = [old EXCEPT !.active = active, !.throughout = open, !.query = next]
  OBVIOUS
<1> HIDE DEF active, next
<1>8. r \in Request /\ r.active = active /\ r.query = next
  BY <1>1, <1>5, <1>7, <1>a DEF Request
<1>9. r.throughout = open /\ r.answer = old.answer
  BY <1>1, <1>5, <1>7, <1>a DEF Request
<1> HIDE DEF r
<1>10. Collects(r)
  <2> SUFFICES ASSUME Fits, NEW i \in open
               PROVE  /\ next = 2 => Listed(active, i) \/ (index[i].state = "acked" /\ past[i] = {})
                      /\ next = 3 => Listed(active, i)
    BY <1>8, <1>9 DEF Collects
  <2>1. i \in Incidents /\ index[i].state \in {"firing", "acked"}
    BY <1>a DEF OpenNow, IsOpen
  <2>2. old.query = 2 => Listed(old.active, i) \/ (index[i].state = "acked" /\ past[i] = {})
    BY <1>1, <1>a DEF GoodRequest, Collects
  <2>3. next = old.query + 1 /\ (old.query = 1 => past[i] = {})
    BY <1>a DEF next
  <2> QED BY <1>2, <1>3, <1>6, <2>1, <2>2, <2>3
<1>11. GoodRequest(r)
  <2>1. r.answer = NoAnswer /\ r.answer.status = 0
    BY <1>2, <1>9, StatusFacts
  <2> QED BY <1>6, <1>8, <1>9, <1>10, <1>a, <2>1 DEF GoodRequest, Honest
<1>12. request'[l] = r /\ request' \in [Loads -> Request]
  BY <1>4, <1>8 DEF BoardInv, RequestInv
<1>13. ASSUME NEW q, q = r PROVE GoodRequest(q)'
  <2>1. /\ UNCHANGED past
        /\ \A j \in q.throughout : index'[j].state = index[j].state /\ index[j].state \in {"firing", "acked"}
    BY <1>11, <1>13 DEF GoodRequest, OpenNow, IsOpen, QueryOpen
  <2> QED BY <1>1, <1>8, <1>11, <1>13, <2>1, GoodStays
<1>14. RequestInv' /\ TableInv'
  <2>1. ASSUME NEW k \in {l} PROVE GoodRequest(request[k])'
    BY <1>12, <1>13
  <2>2. \A k \in Loads \ {l} : request'[k] = request[k] \/ request'[k] = Idle
    BY <1>4 DEF BoardInv, RequestInv
  <2>3. {l} \in SUBSET Loads /\ request' \in [Loads -> Request]
    BY <1>12
  <2>4. failures' \in Nat /\ failures <= failures' /\ UNCHANGED <<time, index, past>>
    BY <1>1 DEF QueryOpen
  <2> QED BY <2>1, <2>2, <2>3, <2>4, RequestsNext
<1>15. old # Idle
  BY <1>2, IdleFacts
<1>16. BoardType'
  BY <1>4, <1>15 DEF BoardInv, BoardType, RequestInv
<1> QED BY <1>14, <1>16 DEF BoardInv, PageInv, PageRecord, ErrorIsReal, LatestFirst

LEMMA StepResolved ==
    ASSUME BoardInv, NEW l \in Loads, QueryResolved(l), UNCHANGED <<page, load, failures>>
    PROVE  BoardInv'
<1>0. PICK view \in Views :
          request' = [request EXCEPT ![l] =
              [Idle EXCEPT !.throughout = request[l].throughout,
                           !.answer = [status |-> 200, active |-> request[l].active,
                                       recent |-> IncidentsByState("resolved", view),
                                       health |-> OverallHealth(request[l].active, SLIs)]]]
  BY DEF QueryResolved
<1> DEFINE old == request[l]
           recent == IncidentsByState("resolved", view)
           health == OverallHealth(old.active, SLIs)
           answer == [status |-> 200, active |-> old.active, recent |-> recent, health |-> health]
           r == [Idle EXCEPT !.throughout = old.throughout, !.answer = answer]
<1>1. old \in Request /\ GoodRequest(old) /\ failures \in Nat /\ index \in [Incidents -> Entry] /\ TableInv
  BY DEF BoardInv, RequestInv, PageInv, PageRecord, TableInv
<1>2. old.query = 3 /\ request' = [request EXCEPT ![l] = r] /\ UNCHANGED <<time, index, past>>
  <2>1. old.query = 3 /\ UNCHANGED <<time, index, past>>
    BY DEF QueryResolved, LastQuery, OpenStates
  <2> QED BY <1>0, <2>1
<1>3. recent \in Lists /\ LatestFirst(recent)
  BY <1>1, ListFacts, ClosedListed DEF Lists
<1>4. /\ health \in {"operational", "degraded", "down"}
      /\ old.active # << >> => health # "operational"
      /\ (\E n \in DOMAIN old.active : old.active[n].severity = "critical") => health = "down"
  BY <1>1, HealthFacts DEF Request
<1> HIDE DEF recent, health
<1>5. answer \in Answer200
  BY <1>1, <1>3, <1>4 DEF Answer200, Request
<1>6. answer.status = 200 /\ answer.recent = recent /\ answer.health = health /\ answer \in Answers
  BY <1>5 DEF Answers
<1> HIDE DEF answer
<1> DEFINE open == old.throughout
           idle == Idle
<1>7. /\ idle \in Request /\ idle.query = 0 /\ idle.active = << >> /\ open \in SUBSET Incidents
      /\ r = [idle EXCEPT !.throughout = open, !.answer = answer]
  BY <1>1, IdleFacts DEF Request
<1> HIDE DEF idle, open
<1> HIDE DEF old, r
<1>8. r \in Request /\ r.query = 0 /\ r.active = << >>
  <2>1. r \in Request
    BY <1>6, <1>7 DEF Request
  <2>2. r.query = idle.query /\ r.active = idle.active
    BY <1>6, <1>7 DEF Request
  <2> QED BY <1>7, <2>1, <2>2
<1>9. r.throughout = open /\ r.answer = answer
  BY <1>6, <1>7 DEF Request
<1> USE DEF old
<1>10. Honest(r)
  <2> SUFFICES ASSUME Fits, NEW i \in open
               PROVE  health # "operational" /\ (Severity[i] = "critical" => health = "down")
    BY <1>6, <1>9 DEF Honest
  <2>1. Listed(old.active, i)
    BY <1>1, <1>2 DEF GoodRequest, Collects, open
  <2>2. PICK n \in DOMAIN old.active : old.active[n].id = i
    BY <2>1 DEF Listed
  <2>3. Faithful(old.active[n]) /\ old.active # << >>
    BY <1>1, <2>2 DEF GoodRequest
  <2> QED BY <1>4, <2>2, <2>3 DEF Faithful
<1>11. GoodRequest(r)
  BY <1>1, <1>3, <1>6, <1>8, <1>9, <1>10 DEF GoodRequest, Collects, open
<1>12. ASSUME NEW q, q = r PROVE GoodRequest(q)'
  <2>1. /\ UNCHANGED past
        /\ \A j \in q.throughout : index'[j].state = index[j].state /\ index[j].state \in {"firing", "acked"}
    BY <1>2, <1>11, <1>12 DEF GoodRequest, OpenNow, IsOpen
  <2> QED BY <1>1, <1>8, <1>11, <1>12, <2>1, GoodStays
<1>13. RequestInv' /\ TableInv'
  <2>1. ASSUME NEW k \in {l} PROVE GoodRequest(request[k])'
    BY <1>2, <1>12 DEF BoardInv, RequestInv
  <2>2. \A k \in Loads \ {l} : request'[k] = request[k] \/ request'[k] = Idle
    BY <1>2 DEF BoardInv, RequestInv
  <2>3. {l} \in SUBSET Loads /\ request' \in [Loads -> Request]
    BY <1>2, <1>8 DEF BoardInv, RequestInv
  <2>4. failures' \in Nat /\ failures <= failures' /\ UNCHANGED <<time, index, past>>
    BY <1>1, <1>2
  <2> QED BY <2>1, <2>2, <2>3, <2>4, RequestsNext
<1>14. old # Idle
  BY <1>2, IdleFacts
<1>15. BoardType'
  BY <1>2, <1>14 DEF BoardInv, BoardType, RequestInv
<1> QED BY <1>13, <1>15 DEF BoardInv, PageInv, PageRecord, ErrorIsReal, LatestFirst

LEMMA StepFails ==
    ASSUME BoardInv, NEW l \in Loads, QueryFails(l), Failure, UNCHANGED <<page, load>>
    PROVE  BoardInv'
<1> DEFINE answer == [status |-> 500]
           r == [Idle EXCEPT !.answer = answer]
<1>1. failures \in Nat /\ failures' = failures + 1 /\ index \in [Incidents -> Entry]
  BY DEF BoardInv, PageInv, PageRecord, TableInv, Failure
<1>2. request[l].query > 0 /\ request' = [request EXCEPT ![l] = r] /\ UNCHANGED <<time, index, past>>
  BY DEF QueryFails
<1>3. answer \in Answers /\ answer.status = 500
  BY StatusFacts
<1> HIDE DEF answer
<1>4. r \in Request /\ r.query = 0 /\ r.active = << >> /\ r.throughout = {} /\ r.answer = answer
  <2> DEFINE idle == Idle
  <2>1. idle \in Request /\ idle = Idle
    BY IdleFacts
  <2>2. r = [idle EXCEPT !.answer = answer]
    OBVIOUS
  <2> HIDE DEF idle, r
  <2>3. r \in Request
    BY <1>3, <2>1, <2>2 DEF Request
  <2>4. r.query = idle.query /\ r.active = idle.active
    BY <1>3, <2>1, <2>2 DEF Request
  <2>5. r.throughout = idle.throughout /\ r.answer = answer
    BY <1>3, <2>1, <2>2 DEF Request
  <2> QED BY <2>1, <2>3, <2>4, <2>5, IdleFacts
<1> HIDE DEF r
<1>5. ASSUME NEW q, q = r PROVE GoodRequest(q)'
  BY <1>1, <1>3, <1>4, <1>5 DEF GoodRequest, Collects, Honest
<1>6. RequestInv' /\ TableInv'
  <2>1. ASSUME NEW k \in {l} PROVE GoodRequest(request[k])'
    BY <1>2, <1>5 DEF BoardInv, RequestInv
  <2>2. \A k \in Loads \ {l} : request'[k] = request[k] \/ request'[k] = Idle
    BY <1>2 DEF BoardInv, RequestInv
  <2>3. {l} \in SUBSET Loads /\ request' \in [Loads -> Request]
    BY <1>2, <1>4 DEF BoardInv, RequestInv
  <2>4. failures' \in Nat /\ failures <= failures' /\ UNCHANGED <<time, index, past>>
    BY <1>1, <1>2
  <2> QED BY <2>1, <2>2, <2>3, <2>4, RequestsNext
<1>7. request[l] # Idle
  BY <1>2, IdleFacts
<1>8. BoardType'
  BY <1>2, <1>7 DEF BoardInv, BoardType, RequestInv
<1> QED BY <1>1, <1>6, <1>8 DEF BoardInv, PageInv, PageRecord, ErrorIsReal, LatestFirst

LEMMA PageStep ==
    ASSUME BoardInv, failures' \in Nat, failures <= failures', TableStays,
           request' = [k \in Loads |-> request'[k]],
           \A k \in Loads : request'[k] = request[k] \/ request'[k] = Idle \/ request'[k] = Begin
    PROVE  RequestInv' /\ TableInv'
<1> DEFINE R == {k \in Loads : request'[k] = Begin}
<1>1. request' \in [Loads -> Request]
  BY IdleFacts, BeginFacts DEF BoardInv, RequestInv
<1>2. GoodRequest(Begin)' /\ Begin' = Begin
  BY FreshNext DEF TableStays
<1>3. ASSUME NEW k \in R PROVE GoodRequest(request[k])'
  BY <1>2
<1>4. R \in SUBSET Loads /\ \A k \in Loads \ R : request'[k] = request[k] \/ request'[k] = Idle
  OBVIOUS
<1> HIDE DEF R
<1> QED BY <1>1, <1>3, <1>4, RequestsNext DEF TableStays

LEMMA MountSteps ==
    ASSUME BoardInv, NEW l, NEW strict \in BOOLEAN,
           (l \in Loads /\ (Mount(l, strict) \/ Remount(l) \/ Refresh(l))) \/ Unmount
    PROVE  BoardInv'
<1>1. /\ request \in [Loads -> Request] /\ failures \in Nat
      /\ load \in [Loads -> {"none", "pending", "aborted"}]
      /\ \A k \in Loads : request[k] # Idle => load[k] = "pending"
  BY DEF BoardInv, RequestInv, PageInv, PageRecord, BoardType
<1>2. failures' = failures /\ TableStays
  BY DEF Mount, Remount, Refresh, Unmount
<1>3. PageInv' /\ page'.mounted \in BOOLEAN /\ page'.error \in BOOLEAN /\ page'.board.status \in {0, 200}
  <2>1. page.board \in {NoBoard} \union Answer200 /\ page.board.status \in {0, 200}
    BY StatusFacts DEF BoardInv, PageInv, PageRecord
  <2>2. CASE Mount(l, strict)
    BY <1>1, <1>2, <2>2, StatusFacts DEF BoardInv, PageInv, PageRecord, Mount, ErrorIsReal
  <2>3. CASE Remount(l) \/ Refresh(l) \/ Unmount
    <3>1. page' = page \/ page' = [page EXCEPT !.strict = FALSE] \/ page' = [page EXCEPT !.mounted = FALSE]
      BY <2>3 DEF Remount, Refresh, Unmount
    <3>2. /\ page'.board = page.board /\ page'.error = page.error
          /\ page' \in PageRecord
      BY <3>1 DEF BoardInv, PageInv, PageRecord
    <3> QED BY <1>1, <1>2, <2>1, <3>2 DEF BoardInv, PageInv, PageRecord, ErrorIsReal, LatestFirst
  <2> QED BY <2>2, <2>3
<1>4. /\ request' = [k \in Loads |-> request'[k]]
      /\ \A k \in Loads : request'[k] = request[k] \/ request'[k] = Idle \/ request'[k] = Begin
      /\ load' \in [Loads -> {"none", "pending", "aborted"}]
      /\ \A k \in Loads : request'[k] # Idle => load'[k] = "pending"
  <2>1. CASE l \in Loads /\ Fetch(l)
    BY <1>1, <2>1 DEF Fetch
  <2>2. CASE l \in Loads /\ Remount(l)
    BY <1>1, <2>2 DEF Remount, Aborted, Unheard
  <2>3. CASE Unmount
    BY <1>1, <2>3 DEF Unmount, Aborted, Unheard
  <2> QED BY <2>1, <2>2, <2>3 DEF Mount, Refresh
<1>5. RequestInv' /\ TableInv'
  BY <1>1, <1>2, <1>4, PageStep
<1>6. Idle' = Idle
  BY DEF Idle, NoAnswer
<1> QED BY <1>3, <1>4, <1>5, <1>6 DEF BoardInv, BoardType

LEMMA SettleSteps ==
    ASSUME BoardInv, NEW l \in Loads, Settles(l) \/ Rejects(l) \/ NetworkFails(l)
    PROVE  BoardInv'
<1>1. /\ request \in [Loads -> Request] /\ failures \in Nat
      /\ load \in [Loads -> {"none", "pending", "aborted"}]
      /\ \A k \in Loads : request[k] # Idle => load[k] = "pending"
  BY DEF BoardInv, RequestInv, PageInv, PageRecord, BoardType
<1>2. failures' \in Nat /\ failures <= failures' /\ TableStays /\ Free(l)
  BY <1>1 DEF Settles, Rejects, NetworkFails, Failure
<1>3. PageInv' /\ page'.mounted \in BOOLEAN /\ page'.error \in BOOLEAN /\ page'.board.status \in {0, 200}
  <2>1. page.board \in {NoBoard} \union Answer200 /\ page.board.status \in {0, 200}
    BY StatusFacts DEF BoardInv, PageInv, PageRecord
  <2>2. request[l].answer \in Answers /\ GoodRequest(request[l])
    BY <1>1 DEF BoardInv, RequestInv, Request
  <2>3. CASE Settles(l)
    <3> DEFINE answer == request[l].answer
    <3>1. answer \in Answer200 /\ answer.status = 200 /\ LatestFirst(answer.recent)
      BY <2>2, <2>3, StatusFacts DEF Settles, Answered, Answers, GoodRequest
    <3>2. page' = [page EXCEPT !.board = answer, !.error = FALSE] /\ failures' = failures
      BY <2>3 DEF Settles, Shows
    <3> HIDE DEF answer
    <3>3. page' \in PageRecord
      BY <3>1, <3>2 DEF BoardInv, PageInv, PageRecord
    <3>4. page'.board = answer /\ page'.error = FALSE
      BY <3>2 DEF BoardInv, PageInv, PageRecord
    <3> QED BY <1>1, <3>1, <3>2, <3>3, <3>4 DEF PageInv, PageRecord, ErrorIsReal, LatestFirst
  <2>4. CASE Rejects(l) \/ NetworkFails(l)
    <3>1. page' = page \/ (page' = [page EXCEPT !.error = TRUE] /\ failures' > 0)
      BY <1>1, <2>2, <2>4 DEF Rejects, NetworkFails, Complains, Failure, Answered, GoodRequest
    <3>2. /\ page'.board = page.board /\ (page'.error => page.error \/ failures' > 0)
          /\ page' \in PageRecord
      BY <3>1 DEF BoardInv, PageInv, PageRecord
    <3> QED BY <1>1, <1>2, <2>1, <3>2 DEF BoardInv, PageInv, PageRecord, ErrorIsReal, LatestFirst
  <2> QED BY <2>3, <2>4
<1>4. /\ request' = [k \in Loads |-> request'[k]]
      /\ \A k \in Loads : request'[k] = request[k] \/ request'[k] = Idle
      /\ load' \in [Loads -> {"none", "pending", "aborted"}]
      /\ \A k \in Loads : request'[k] # Idle => load'[k] = "pending"
  BY <1>1, <1>2 DEF Free
<1>5. RequestInv' /\ TableInv'
  BY <1>1, <1>2, <1>4, PageStep
<1>6. Idle' = Idle
  BY DEF Idle, NoAnswer
<1> QED BY <1>3, <1>4, <1>5, <1>6 DEF BoardInv, BoardType

LEMMA StepBoard == BoardInv /\ [BoardNext]_boardVars => BoardInv'
<1> SUFFICES ASSUME BoardInv, [BoardNext]_boardVars PROVE BoardInv'
  OBVIOUS
<1>1. CASE UNCHANGED boardVars
  BY <1>1 DEF boardVars, statusVars, BoardInv, TableInv, RequestInv, GoodRequest, Collects, Honest,
              PageInv, PageRecord, OpenNow, IsOpen, BoardType, ErrorIsReal, Faithful, LatestFirst, Idle, NoAnswer
<1>2. CASE TableNext /\ UNCHANGED <<page, load, failures>>
  BY <1>2, StepTable
<1>3. ASSUME NEW l \in Loads, LoadSteps(l) PROVE BoardInv'
  BY <1>3, StepOpen, StepResolved, SettleSteps DEF LoadSteps, Serves
<1>4. CASE Unmount
  <2>1. TRUE \in BOOLEAN
    OBVIOUS
  <2> QED BY <1>4, <2>1, MountSteps
<1>5. ASSUME NEW l \in Loads, NEW strict \in BOOLEAN, Mount(l, strict) PROVE BoardInv'
  BY <1>5, MountSteps
<1>6. ASSUME NEW l \in Loads, Remount(l) \/ Refresh(l) PROVE BoardInv'
  <2>1. TRUE \in BOOLEAN
    OBVIOUS
  <2> QED BY <1>6, <2>1, MountSteps
<1>7. ASSUME NEW l \in Loads, NetworkFails(l) PROVE BoardInv'
  BY <1>7, SettleSteps
<1>8. ASSUME NEW l \in Loads, QueryFails(l), Failure, UNCHANGED <<page, load>> PROVE BoardInv'
  BY <1>8, StepFails
<1> QED BY <1>1, <1>2, <1>3, <1>4, <1>5, <1>6, <1>7, <1>8 DEF BoardNext

THEOREM BoardHolds == BoardSpec => []BoardInv
<1> QED BY InitBoard, StepBoard, PTL DEF BoardSpec

(* The headline never says less than what was open while it was made up. *)
THEOREM HeadlineIsTrue == BoardSpec => []HeadlineIsHonest
<1>1. BoardInv => HeadlineIsHonest
  <2> SUFFICES ASSUME BoardInv, Fits, NEW l \in Loads, request[l].answer.status = 200
               PROVE  /\ request[l].throughout # {} => request[l].answer.health # "operational"
                      /\ (\E i \in request[l].throughout : index[i].severity = "critical")
                            => request[l].answer.health = "down"
    BY DEF HeadlineIsHonest, Fits
  <2>1. Honest(request[l]) /\ request[l].throughout \subseteq Incidents
    BY DEF BoardInv, RequestInv, GoodRequest, OpenNow
  <2>2. \A i \in Incidents : index[i].severity = Severity[i]
    BY DEF BoardInv, TableInv, Plausible, Faithful
  <2> QED BY <2>1, <2>2 DEF Honest
<1> QED BY <1>1, BoardHolds, PTL

(* The page only shows an error after something failed at the endpoint or on the way. *)
THEOREM ErrorsAreReal == BoardSpec => []ErrorIsReal
<1>1. BoardInv => ErrorIsReal
  BY DEF BoardInv, PageInv, PageRecord
<1> QED BY <1>1, BoardHolds, PTL

(* The history is of incidents that are over, and the means are of its rows. *)
LEMMA DurationShows == \A s : Duration(s) # Nothing
BY DEF Duration, Nothing

LEMMA MeanFacts ==
    ASSUME NEW recent \in Lists, NEW K, K \subseteq DOMAIN recent
    PROVE  Cardinality(K) > 0 <=> K # {}
<1>1. IsFiniteSet(1 .. Len(recent)) /\ K \in SUBSET (1 .. Len(recent))
  BY FS_Interval DEF Lists
<1>2. IsFiniteSet(K)
  BY <1>1, FS_Subset
<1>3. Cardinality(K) \in Nat /\ (Cardinality(K) = 0 <=> K = {})
  BY <1>2, FS_CardinalityType, FS_EmptySet
<1> QED BY <1>3

THEOREM HistoryIsClosed == BoardSpec => []HistoryIsOfTheClosed
<1>1. ASSUME BoardInv, page.board.status = 200 PROVE HistoryIsOfTheClosed
  <2> DEFINE recent == page.board.recent
             rows == IncidentHistory(page.board)
  <2>1. recent \in Lists /\ LatestFirst(recent)
    BY <1>1, StatusFacts DEF BoardInv, PageInv, PageRecord, Answer200
  <2>2. DOMAIN rows = DOMAIN recent /\ \A n \in DOMAIN rows : rows[n].lasted # Nothing
    BY <2>1, DurationShows DEF LatestFirst, IncidentHistory, TotalDuration
  <2>3. \A n \in DOMAIN rows : rows[n].ack # Nothing <=> recent[n].acked # None
    BY DurationShows DEF IncidentHistory, AckDelay
  <2>4. Tile(Mttr(page.board)) # Nothing <=> rows # << >>
    <3> DEFINE K == {n \in DOMAIN recent : recent[n].resolved # None}
    <3>1. Mttr(page.board).size = Cardinality(K)
      BY DEF Mttr, MeanTimeTo
    <3>2. Cardinality(K) > 0 <=> K # {}
      BY <2>1, MeanFacts
    <3>3. K = DOMAIN recent
      BY <2>1 DEF LatestFirst
    <3>4. DOMAIN recent # {} <=> rows # << >>
      BY <2>1, <2>2 DEF Lists, IncidentHistory
    <3> QED BY <3>1, <3>2, <3>3, <3>4, DurationShows DEF Tile
  <2>5. Tile(Mtta(page.board)) # Nothing <=> \E n \in DOMAIN rows : rows[n].ack # Nothing
    <3> DEFINE K == {n \in DOMAIN recent : recent[n].acked # None}
    <3>1. Mtta(page.board).size = Cardinality(K)
      BY DEF Mtta, MeanTimeTo
    <3>2. Cardinality(K) > 0 <=> K # {}
      BY <2>1, MeanFacts
    <3>3. K # {} <=> \E n \in DOMAIN rows : rows[n].ack # Nothing
      BY <2>2, <2>3
    <3> QED BY <3>1, <3>2, <3>3, DurationShows DEF Tile
  <2>6. \A i, j \in DOMAIN recent : i < j => recent[i].resolved >= recent[j].resolved
    BY <2>1 DEF LatestFirst
  <2> QED BY <2>2, <2>4, <2>5, <2>6 DEF HistoryIsOfTheClosed
<1>2. BoardInv => HistoryIsOfTheClosed
  BY <1>1 DEF HistoryIsOfTheClosed
<1> QED BY <1>2, BoardHolds, PTL

-----------------------------------------------------------------------------
(* The indicators.  A sum is a recursive function: that there is one is shown by the   *)
(* least length that had none, and so is what it adds up to.                            *)
LEMMA Product ==
    ASSUME NEW a \in Nat, NEW b \in Nat, NEW c \in Nat, a <= b
    PROVE  a * c \in Nat /\ b * c \in Nat /\ a * c <= b * c
<1>1. a * c \in Nat /\ b * c \in Nat /\ (b - a) * c \in Nat
  OBVIOUS
<1>2. b * c = a * c + (b - a) * c
  OBVIOUS
<1> QED BY <1>1, <1>2

LEMMA Division ==
    ASSUME NEW a \in Nat, NEW d \in Nat \ {0}
    PROVE  /\ a \div d \in Nat /\ (a \div d) * d <= a /\ a < (a \div d + 1) * d
           /\ (a \div d + 1) * d \in Nat
OBVIOUS

(* What the running sums of a count are: the first is 0, each later one has a day more. *)
RunningSums(sum, len, v) ==
    sum = [n \in 0 .. len |-> IF n = 0 THEN 0 ELSE sum[n - 1] + v[n]]

LEMMA SumsExist ==
    ASSUME NEW len \in Nat, NEW v \in [1 .. len -> Nat]
    PROVE  \E sum : RunningSums(sum, len, v)
<1> DEFINE Bad == {m \in 0 .. len : ~ \E sum : RunningSums(sum, m, v)}
<1> SUFFICES ASSUME Bad # {} PROVE FALSE
  <2>1. len \in Bad \/ \E sum : RunningSums(sum, len, v)
    OBVIOUS
  <2> QED BY <2>1
<1>2. PICK m \in Bad : \A n \in Bad : m <= n
  <2>1. Bad \subseteq Nat
    OBVIOUS
  <2> HIDE DEF Bad
  <2> QED BY <2>1, Minimum
<1>3. CASE m = 0
  <2>1. RunningSums([n \in 0 .. 0 |-> 0], 0, v)
    BY DEF RunningSums
  <2> QED BY <1>2, <1>3, <2>1
<1>4. CASE m # 0
  <2>1. m - 1 \in 0 .. len /\ m - 1 \notin Bad
    BY <1>2, <1>4
  <2>2. PICK sum : RunningSums(sum, m - 1, v)
    BY <2>1
  <2> DEFINE more == [n \in 0 .. m |-> IF n = m THEN sum[m - 1] + v[m] ELSE sum[n]]
  <2>3. \A n \in 0 .. m - 1 : sum[n] = IF n = 0 THEN 0 ELSE sum[n - 1] + v[n]
    BY <2>2 DEF RunningSums
  <2>4. \A n \in 0 .. m : more[n] = IF n = 0 THEN 0 ELSE more[n - 1] + v[n]
    BY <1>2, <1>4, <2>3
  <2>5. RunningSums(more, m, v)
    <3>1. more = [n \in 0 .. m |-> more[n]]
      OBVIOUS
    <3> HIDE DEF more
    <3> QED BY <2>4, <3>1 DEF RunningSums
  <2> QED BY <1>2, <2>5
<1> QED BY <1>3, <1>4

(* The counts of a window. *)
Window(days, len) ==
    /\ days = [n \in 1 .. len |-> days[n]]
    /\ \A n \in 1 .. len : days[n].good \in Nat /\ days[n].total \in Nat

LEMMA SumsFacts ==
    ASSUME NEW len \in Nat, NEW v \in [1 .. len -> Nat]
    PROVE  /\ Len(v) = len
           /\ Sums(v)[0] = 0
           /\ \A n \in 1 .. len : Sums(v)[n] = Sums(v)[n - 1] + v[n]
<1> DEFINE s == Sums(v)
<1>1. Len(v) = len
  OBVIOUS
<1>2. s = CHOOSE sum : sum = [n \in 0 .. len |-> IF n = 0 THEN 0 ELSE sum[n - 1] + v[n]]
  BY <1>1 DEF Sums
<1>3. \E sum : sum = [n \in 0 .. len |-> IF n = 0 THEN 0 ELSE sum[n - 1] + v[n]]
  BY SumsExist DEF RunningSums
<1>4. s = [n \in 0 .. len |-> IF n = 0 THEN 0 ELSE s[n - 1] + v[n]]
  <2> HIDE DEF s
  <2> QED BY <1>2, <1>3
<1> HIDE DEF s
<1>5. \A n \in 0 .. len : s[n] = IF n = 0 THEN 0 ELSE s[n - 1] + v[n]
  BY <1>4
<1>6. s[0] = 0
  BY <1>5
<1>7. ASSUME NEW n \in 1 .. len PROVE s[n] = s[n - 1] + v[n]
  <2>1. n \in 0 .. len /\ n # 0
    OBVIOUS
  <2> QED BY <1>5, <2>1
<1> QED BY <1>1, <1>6, <1>7 DEF s

(* A window whose every day reaches a share t of a thousand reaches it as a whole: so  *)
(* if the window falls short, one of its days does.                                    *)
LEMMA SharesAdd ==
    ASSUME NEW t \in Nat, NEW a \in Nat, NEW b \in Nat, NEW x \in Nat, NEW y \in Nat,
           a * 1000 >= t * b, x * 1000 >= t * y
    PROVE  (a + x) * 1000 >= t * (b + y)
<1>1. t * (b + y) = t * b + t * y /\ t * b \in Nat /\ t * y \in Nat
  OBVIOUS
<1> QED BY <1>1

Good(days) == Total([n \in DOMAIN days |-> days[n].good])
All(days) == Total([n \in DOMAIN days |-> days[n].total])

ShortDay(day, t) == day.good * 1000 < t * day.total

LEMMA ShortWindow ==
    ASSUME NEW len \in Nat, NEW days, Window(days, len), NEW t \in Nat,
           \A n \in 1 .. len : ~ ShortDay(days[n], t)
    PROVE  /\ Good(days) \in Nat /\ All(days) \in Nat
           /\ Good(days) * 1000 >= t * All(days)
<1> DEFINE v == [n \in 1 .. len |-> days[n].good]
           w == [n \in 1 .. len |-> days[n].total]
           g == Sums(v)
           h == Sums(w)
           Holds(n) == g[n] \in Nat /\ h[n] \in Nat /\ g[n] * 1000 >= t * h[n]
           Bad == {n \in 0 .. len : ~ Holds(n)}
<1>0. /\ v \in [1 .. len -> Nat] /\ w \in [1 .. len -> Nat] /\ DOMAIN days = 1 .. len
      /\ \A n \in 1 .. len : v[n] = days[n].good /\ w[n] = days[n].total
  BY DEF Window
<1>1. /\ Len(v) = len /\ Len(w) = len /\ g[0] = 0 /\ h[0] = 0
      /\ \A n \in 1 .. len : g[n] = g[n - 1] + v[n] /\ h[n] = h[n - 1] + w[n]
  <2> HIDE DEF v, w
  <2> QED BY <1>0, SumsFacts
<1>5. Good(days) = g[len] /\ All(days) = h[len]
  BY <1>0, <1>1 DEF Good, All, Total
<1> HIDE DEF v, w
<1>2. \A n \in 1 .. len : v[n] \in Nat /\ w[n] \in Nat /\ v[n] * 1000 >= t * w[n]
  BY <1>0 DEF Window, ShortDay
<1> HIDE DEF g, h
<1>3. Bad = {}
  <2> SUFFICES ASSUME Bad # {} PROVE FALSE
    OBVIOUS
  <2>1. PICK m \in Bad : \A n \in Bad : m <= n
    <3>1. Bad \subseteq Nat
      OBVIOUS
    <3> HIDE DEF Bad
    <3> QED BY <3>1, Minimum
  <2>2. CASE m = 0
    <3>1. g[0] = 0 /\ h[0] = 0 /\ t * 0 = 0
      BY <1>1
    <3>2. Holds(0)
      BY <3>1
    <3> QED BY <2>1, <2>2, <3>2
  <2>3. CASE m # 0
    <3>1. m \in 1 .. len /\ m - 1 \in 0 .. len /\ m - 1 \notin Bad
      BY <2>1, <2>3
    <3>2. Holds(m - 1)
      BY <3>1
    <3>3. g[m] = g[m - 1] + v[m] /\ h[m] = h[m - 1] + w[m]
      BY <1>1, <3>1
    <3>4. Holds(m)
      BY <1>2, <3>1, <3>2, <3>3, SharesAdd
    <3> QED BY <2>1, <3>4
  <2> QED BY <2>2, <2>3
<1>4. Holds(len)
  BY <1>3
<1> QED BY <1>4, <1>5

LEMMA WindowAdds ==
    ASSUME NEW len \in Nat, NEW days, Window(days, len)
    PROVE  Good(days) \in Nat /\ All(days) \in Nat
<1>1. \A n \in 1 .. len : ~ ShortDay(days[n], 0)
  BY DEF Window, ShortDay
<1> QED BY <1>1, ShortWindow

(* Rounding to the nearest. *)
LEMMA Rounded ==
    ASSUME NEW a \in Nat, NEW b \in Nat \ {0}
    PROVE  /\ Round(a, b) \in Nat /\ 2 * b * Round(a, b) <= 2 * a + b
           /\ \A q \in Nat : 2 * b * q <= 2 * a + b => q <= Round(a, b)
<1> DEFINE n == 2 * a + b
           d == 2 * b
           q == n \div d
<1>1. n \in Nat /\ d \in Nat \ {0} /\ Round(a, b) = q
  BY DEF Round
<1>2. q \in Nat /\ q * d <= n /\ n < (q + 1) * d
  <2> HIDE DEF n, d
  <2> QED BY <1>1, Division
<1>3. ASSUME NEW r \in Nat, d * r <= n PROVE r <= q
  <2> HIDE DEF n, q, d
  <2>1. SUFFICES ASSUME q + 1 <= r PROVE FALSE
    BY <1>2
  <2>2. (q + 1) * d <= r * d
    BY <1>1, <1>2, <2>1, Product
  <2>3. r * d = d * r /\ r * d \in Nat /\ (q + 1) * d \in Nat
    BY <1>1, <1>2
  <2> QED BY <1>1, <1>2, <1>3, <2>2, <2>3
<1>4. q * d = d * q
  <2> HIDE DEF q, d
  <2> QED BY <1>1, <1>2
<1> QED BY <1>1, <1>2, <1>3, <1>4

LEMMA RoundedUp ==
    ASSUME NEW a \in Nat, NEW b \in Nat \ {0}, NEW q \in Nat, (2 * b) * q <= 2 * a + b
    PROVE  Round(a, b) \in Nat /\ q <= Round(a, b)
BY Rounded

LEMMA RoundedGrows ==
    ASSUME NEW x \in Nat, NEW y \in Nat, NEW total \in Nat \ {0}, y * total <= x * 1000,
           NEW budget \in Nat, 2000 * budget <= 2 * y + 1000
    PROVE  Round(x, total) \in Nat /\ budget <= Round(x, total)
<1>1. (2000 * budget) * total <= (2 * y + 1000) * total
  BY Product
<1>2. /\ (2000 * budget) * total = 1000 * ((2 * total) * budget)
      /\ (2 * y + 1000) * total = 2 * (y * total) + 1000 * total
  OBVIOUS
<1>3. (2 * total) * budget \in Nat /\ y * total \in Nat
  OBVIOUS
<1>4. (2 * total) * budget <= 2 * x + total
  BY <1>1, <1>2, <1>3
<1> QED BY <1>4, RoundedUp

(* A window that falls short has used up its budget: what its failures have eaten,     *)
(* rounded, is no less than what the target allows, rounded.                           *)
LEMMA BudgetUsedUp ==
    ASSUME NEW t \in Nat, t < 1000, NEW good \in Nat, NEW total \in Nat, good * 1000 < t * total
    PROVE  /\ Round(WindowSeconds * (1000 - t), 1000) \in Nat \ {0}
           /\ Consumed(total - good, total, Round(WindowSeconds * (1000 - t), 1000))
                = Round(WindowSeconds * (1000 - t), 1000)
<1> DEFINE w == WindowSeconds
           y == w * (1000 - t)
           x == w * (total - good)
           budget == Round(y, 1000)
<1>0. w \in Nat \ {0} /\ w >= 1000
  BY StatusAssumption DEF WindowSeconds
<1> HIDE DEF w
<1>1. t * total <= 1000 * total /\ t * total \in Nat /\ good < total /\ total # 0
  <2>1. t * total <= 1000 * total /\ t * total \in Nat
    BY Product
  <2>2. good * 1000 < 1000 * total
    BY <2>1
  <2>3. total # 0
    BY <2>2
  <2> QED BY <2>1, <2>2, <2>3
<1>2. y \in Nat /\ x \in Nat /\ total - good \in Nat /\ 1000 - t \in Nat
  BY <1>0, <1>1
<1>3. y >= 1000
  <2>1. 1 * w <= (1000 - t) * w /\ (1000 - t) * w = w * (1000 - t)
    BY <1>0, <1>2, Product
  <2> QED BY <1>0, <2>1
<1>4. y * total <= x * 1000
  <2>1. (1000 - t) * total <= (total - good) * 1000 /\ (1000 - t) * total \in Nat
    <3>1. (1000 - t) * total = 1000 * total - t * total
      OBVIOUS
    <3> QED BY <1>1, <1>2, <3>1
  <2>2. ((1000 - t) * total) * w <= ((total - good) * 1000) * w
    BY <1>0, <1>2, <2>1, Product
  <2>3. ((1000 - t) * total) * w = y * total /\ ((total - good) * 1000) * w = x * 1000
    BY <1>0
  <2> QED BY <1>2, <2>2, <2>3
<1> HIDE DEF x, y
<1>5. budget \in Nat /\ 2000 * budget <= 2 * y + 1000 /\ budget >= 1
  <2>1. /\ budget \in Nat /\ (2 * 1000) * budget <= 2 * y + 1000
        /\ \A q \in Nat : (2 * 1000) * q <= 2 * y + 1000 => q <= budget
    BY <1>2, Rounded
  <2>2. 1 <= budget
    BY <1>2, <1>3, <2>1
  <2> QED BY <2>1, <2>2
<1> HIDE DEF budget
<1>6. total \in Nat \ {0}
  BY <1>1
<1>7. Round(x, total) \in Nat /\ budget <= Round(x, total)
  BY <1>2, <1>4, <1>5, <1>6, RoundedGrows
<1>8. Consumed(total - good, total, budget) = budget
  BY <1>1, <1>5, <1>7 DEF Consumed, Smaller, x, w
<1>9. budget = Round(WindowSeconds * (1000 - t), 1000)
  BY DEF budget, y, w
<1>10. budget \in Nat \ {0}
  BY <1>5
<1> QED BY <1>8, <1>9, <1>10

(* A budget that is used up is 1000 per mille used. *)
LEMMA AllOfIt ==
    ASSUME NEW b \in Nat \ {0}
    PROVE  Round(b * 1000, b) >= 1000
<1>1. (2 * b) * 1000 <= 2 * (b * 1000) + b
  OBVIOUS
<1> QED BY <1>1, Rounded

RollupsInv == rollups \in Rollups

LEMMA WindowIsCounted ==
    ASSUME RollupsInv, NEW n \in DOMAIN SLIDefinitions
    PROVE  /\ Window(DailyCounts(SLIDefinitions[n].key), SLIWindowDays + 1)
           /\ DOMAIN DailyCounts(SLIDefinitions[n].key) = 1 .. SLIWindowDays + 1
<1> DEFINE key == SLIDefinitions[n].key
           days == DailyCounts(key)
<1>1. SLIWindowDays \in Nat \ {0} /\ Today \in Nat
  BY StatusAssumption
<1>2. ASSUME NEW d \in 1 .. SLIWindowDays + 1
      PROVE  days[d].good \in Nat /\ days[d].total \in Nat
  <2> DEFINE date == Today - SLIWindowDays + d - 1
             count == rollups[key][date]
  <2>1. date \in Today - SLIWindowDays .. Today
    BY <1>1, <1>2
  <2>2. count.good \in Nat /\ count.total \in Nat
    <3> HIDE DEF date
    <3> QED BY <2>1, CountsAssumption DEF RollupsInv
  <2>3. days[d] = [date |-> date, good |-> count.good, total |-> count.total]
    BY <1>2 DEF DailyCounts
  <2> QED BY <2>2, <2>3
<1>3. days = [d \in 1 .. SLIWindowDays + 1 |-> days[d]] /\ DOMAIN days = 1 .. SLIWindowDays + 1
  BY DEF DailyCounts
<1> QED BY <1>2, <1>3 DEF Window

LEMMA RollupsStay == RollupsInv /\ [BoardNext]_boardVars => RollupsInv'
<1>1. [BoardNext]_boardVars => rollups' = rollups
  BY DEF BoardNext, boardVars, statusVars, TableStays, TableNext, Opens, Acks, Resolves, Moves, Propagates,
         Serves, QueryOpen, QueryResolved, QueryFails, Unmount, Mount, Remount, Refresh, Fetch, LoadSteps,
         Settles, Rejects, NetworkFails
<1> QED BY <1>1 DEF RollupsInv

(* The card, the bar and the strip of an indicator say the same of it. *)
THEOREM IndicatorsMatch == BoardSpec => []IndicatorsAgree
<1>1. ASSUME RollupsInv PROVE IndicatorsAgree
  <2> SUFFICES ASSUME NEW n \in DOMAIN SLIs
               PROVE  LET shown == Sli(SLIs[n]) IN
                      /\ shown.pill = "Breached" =>
                            /\ shown.fill = "st-critical" /\ shown.left = <<0, 0, 0>>
                            /\ \E c \in DOMAIN shown.cells : shown.cells[c] \in {"warning", "critical"}
                      /\ \A c \in DOMAIN shown.cells : shown.cells[c] \in Legend
    BY DEF IndicatorsAgree
  <2> DEFINE def == SLIDefinitions[n]
             days == DailyCounts(def.key)
             t == def.target
             len == SLIWindowDays + 1
             sli == SLIs[n]
             shown == Sli(sli)
             cells == shown.cells
             budget == Round(WindowSeconds * (1000 - t), 1000)
             consumed == Consumed(All(days) - Good(days), All(days), budget)
  <2>1. n \in DOMAIN SLIDefinitions /\ sli = BuildSLIStatus(def, days)
    BY DEF SLIs
  <2>2. t \in Nat /\ t < 1000
    BY <2>1 DEF SLIDefinitions
  <2>3. Window(days, len) /\ DOMAIN days = 1 .. len /\ len \in Nat
    BY <1>1, <2>1, WindowIsCounted, StatusAssumption
  <2>5. /\ sli.meeting = (All(days) = 0 \/ Good(days) * 1000 >= t * All(days))
        /\ sli.days = days /\ sli.target = t
        /\ sli.budget.remaining = budget - consumed
        /\ sli.budget.percent = Round(consumed * 1000, budget)
    BY <2>1 DEF BuildSLIStatus, Good, All
  <2> HIDE DEF sli, days, t, len, budget, consumed
  <2>6. /\ shown.pill = (IF sli.meeting THEN "Meeting target" ELSE "Breached")
        /\ shown.fill = (IF sli.budget.percent >= 1000 THEN "st-critical"
                        ELSE IF sli.budget.percent >= 600 THEN "st-warning" ELSE "st-good")
        /\ shown.left = Duration(sli.budget.remaining)
        /\ cells = [d \in 1 .. len |-> ClassifyDay(days[d], t)]
    BY <2>3, <2>5 DEF Sli, Strip
  <2> HIDE DEF shown, cells
  <2>7. \A d \in DOMAIN cells : cells[d] \in Legend
    <3>1. \A day, u : ClassifyDay(day, u) \in Legend
      BY DEF ClassifyDay, Legend
    <3> QED BY <2>6, <3>1
  <2>8. ASSUME shown.pill = "Breached"
        PROVE  /\ shown.fill = "st-critical" /\ shown.left = <<0, 0, 0>>
               /\ \E d \in DOMAIN cells : cells[d] \in {"warning", "critical"}
    <3>1. ~ sli.meeting
      BY <2>6, <2>8
    <3>2. All(days) # 0 /\ ~ (Good(days) * 1000 >= t * All(days))
      BY <2>5, <3>1
    <3>3. PICK d \in 1 .. len : ShortDay(days[d], t)
      BY <2>2, <2>3, <3>2, ShortWindow
    <3>4. days[d].total \in Nat /\ days[d].good \in Nat
      BY <2>3 DEF Window
    <3>5. days[d].total # 0 /\ ~ (days[d].good * 1000 >= t * days[d].total)
      BY <2>2, <3>3, <3>4 DEF ShortDay
    <3>6. ClassifyDay(days[d], t) \in {"warning", "critical"}
      BY <3>5 DEF ClassifyDay
    <3>7. Good(days) \in Nat /\ All(days) \in Nat
      BY <2>2, <2>3, WindowAdds
    <3>8. budget \in Nat \ {0} /\ consumed = budget
      <4>1. t * All(days) \in Nat /\ Good(days) * 1000 < t * All(days)
        BY <2>2, <3>2, <3>7
      <4> QED BY <2>2, <3>7, <4>1, BudgetUsedUp DEF budget, consumed
    <3>9. sli.budget.percent >= 1000
      BY <2>5, <3>8, AllOfIt
    <3>10. sli.budget.remaining = 0
      BY <2>5, <3>8
    <3>11. shown.fill = "st-critical"
      BY <2>6, <3>9
    <3>12. shown.left = <<0, 0, 0>>
      <4>1. Duration(0) = <<0, 0, 0>>
        BY DEF Duration
      <4> QED BY <2>6, <3>10, <4>1
    <3>13. d \in DOMAIN cells /\ cells[d] = ClassifyDay(days[d], t)
      BY <2>6
    <3> QED BY <3>6, <3>11, <3>12, <3>13
  <2> QED BY <2>7, <2>8 DEF shown, cells, sli
<1>2. BoardInit => RollupsInv
  BY DEF BoardInit, StatusInit, RollupsInv
<1> QED BY <1>1, <1>2, RollupsStay, PTL DEF BoardSpec

-----------------------------------------------------------------------------
(* The simulation.  Its speeds have a greatest, and a rung is due exactly when the count    *)
(* of the reducer says so.                                                               *)
LEMMA GreatestExists ==
    ASSUME NEW S, S \subseteq Nat, IsFiniteSet(S), S # {}
    PROVE  \E m \in S : \A n \in S : n <= m
<1> DEFINE bare == {T \in SUBSET S : T # {} /\ ~ \E m \in T : \A n \in T : n <= m}
           sizes == {Cardinality(T) : T \in bare}
<1> SUFFICES ASSUME bare # {} PROVE FALSE
  OBVIOUS
<1>1. \A T \in bare : IsFiniteSet(T) /\ Cardinality(T) \in Nat
  BY FS_Subset, FS_CardinalityType
<1>2. PICK k \in sizes : \A j \in sizes : k <= j
  <2>1. sizes # {} /\ sizes \subseteq Nat
    BY <1>1
  <2> HIDE DEF sizes
  <2> QED BY <2>1, Minimum
<1>3. PICK T \in bare : Cardinality(T) = k
  OBVIOUS
<1>4. PICK x \in T : TRUE
  OBVIOUS
<1> DEFINE U == T \ {x}
<1>5. IsFiniteSet(U) /\ Cardinality(U) = k - 1 /\ Cardinality(U) \in Nat
  BY <1>1, <1>3, FS_RemoveElement, FS_CardinalityType
<1>6. U \notin bare
  <2>1. k - 1 \notin sizes
    <3>1. k \in Nat
      BY <1>1, <1>3
    <3> HIDE DEF sizes
    <3> QED BY <1>2, <3>1
  <2> QED BY <1>5, <2>1
<1>7. CASE U = {}
  BY <1>7
<1>8. CASE U # {}
  <2>1. PICK m \in U : \A n \in U : n <= m
    BY <1>6, <1>8
  <2>2. CASE x <= m
    BY <2>1, <2>2
  <2>3. CASE m <= x
    <3>1. \A n \in T : n <= x
      BY <2>1, <2>3
    <3> QED BY <3>1
  <2> QED BY <2>1, <2>2, <2>3
<1> QED BY <1>7, <1>8

LEMMA BeatFacts ==
    /\ Rungs \in Nat \ {0} /\ Highest \in Nat /\ Rungs <= Highest /\ DOMAIN BEATS = 1 .. Rungs
    /\ \A n \in 1 .. Rungs : BEATS[n] \in Nat
    /\ \A m, n \in 1 .. Rungs : m < n => BEATS[m] < BEATS[n]
    /\ BEATS[1] = 0 /\ REPEAT_EVERY \in Nat \ {0} /\ MAX_REPEATS \in Nat /\ Highest = Rungs + MAX_REPEATS
BY DemoAssumption DEF Rungs, Highest

LEMMA BeatNumber == \A n \in 1 .. Highest : BeatAt(n) \in Nat
<1> SUFFICES ASSUME NEW n \in 1 .. Highest PROVE BeatAt(n) \in Nat
  OBVIOUS
<1>1. CASE n <= Rungs
  BY <1>1, BeatFacts DEF BeatAt
<1>2. CASE n > Rungs
  <2>1. n - Rungs \in Nat /\ REPEAT_EVERY \in Nat /\ BEATS[Rungs] \in Nat
    BY <1>2, BeatFacts
  <2>2. (n - Rungs) * REPEAT_EVERY \in Nat
    BY <2>1
  <2> QED BY <1>2, <2>1, <2>2, BeatFacts DEF BeatAt
<1> QED BY <1>1, <1>2, BeatFacts

LEMMA DueFacts ==
    ASSUME NEW e \in Nat
    PROVE  /\ Due(e) \in 1 .. Highest
           /\ \A n \in 1 .. Highest : e >= BeatAt(n) <=> n <= Due(e)
<1> DEFINE final == BEATS[Rungs]
<1>1. final \in Nat
  BY BeatFacts
<1>2. CASE e >= final
  <2> DEFINE q == (e - final) \div REPEAT_EVERY
  <2>1. e - final \in Nat
    BY <1>1, <1>2
  <2>2. /\ q \in Nat /\ q * REPEAT_EVERY <= e - final /\ e - final < (q + 1) * REPEAT_EVERY
        /\ (q + 1) * REPEAT_EVERY \in Nat
    BY <2>1, BeatFacts, Division
  <2> HIDE DEF q
  <2>3. Due(e) = Rungs + (IF MAX_REPEATS <= q THEN MAX_REPEATS ELSE q)
    BY <1>2 DEF Due, Least, q
  <2>4. ASSUME NEW n \in 1 .. Highest, n <= Rungs PROVE e >= BeatAt(n) /\ n <= Due(e)
    BY <1>1, <1>2, <2>2, <2>3, <2>4, BeatFacts DEF BeatAt
  <2>5. ASSUME NEW n \in 1 .. Highest, n > Rungs PROVE e >= BeatAt(n) <=> n <= Due(e)
    <3> DEFINE k == n - Rungs
    <3>1. k \in Nat /\ k <= MAX_REPEATS /\ BeatAt(n) = final + k * REPEAT_EVERY
      BY <2>5, BeatFacts DEF BeatAt
    <3>2. n <= Due(e) <=> k <= q
      BY <2>2, <2>3, <3>1, BeatFacts
    <3> HIDE DEF k
    <3>3. ASSUME k <= q PROVE e >= BeatAt(n)
      <4>1. k * REPEAT_EVERY \in Nat /\ k * REPEAT_EVERY <= q * REPEAT_EVERY /\ q * REPEAT_EVERY \in Nat
        BY <2>2, <3>1, <3>3, BeatFacts, Product
      <4> QED BY <1>1, <2>1, <2>2, <3>1, <4>1
    <3>4. ASSUME q < k PROVE ~ (e >= BeatAt(n))
      <4>1. q + 1 <= k /\ q + 1 \in Nat
        BY <2>2, <3>1, <3>4
      <4>2. (q + 1) * REPEAT_EVERY <= k * REPEAT_EVERY /\ k * REPEAT_EVERY \in Nat
        BY <3>1, <4>1, BeatFacts, Product
      <4> QED BY <1>1, <2>1, <2>2, <3>1, <4>2
    <3> QED BY <2>2, <3>1, <3>2, <3>3, <3>4
  <2>6. Due(e) \in 1 .. Highest
    BY <2>2, <2>3, BeatFacts
  <2> QED BY <2>4, <2>5, <2>6, BeatFacts
<1>3. CASE e < final
  <2> DEFINE later == {n \in 1 .. Rungs : e < BEATS[n]}
  <2>1. PICK k \in later : \A n \in later : k <= n
    <3>1. later # {} /\ later \subseteq Nat
      BY <1>3, BeatFacts
    <3> HIDE DEF later
    <3> QED BY <3>1, Minimum
  <2>2. k \in 2 .. Rungs
    BY <2>1, BeatFacts
  <2>3. {n \in DOMAIN BEATS : e >= BEATS[n]} = 1 .. k - 1
    <3>1. ASSUME NEW n \in 1 .. Rungs, n < k PROVE e >= BEATS[n]
      BY <2>1, <3>1, BeatFacts
    <3>2. ASSUME NEW n \in 1 .. Rungs, n >= k PROVE ~ (e >= BEATS[n])
      BY <2>1, <3>2, BeatFacts
    <3> QED BY <2>2, <3>1, <3>2, BeatFacts
  <2>4. Cardinality(1 .. k - 1) = k - 1
    BY <2>2, FS_Interval
  <2>5. Due(e) = k - 1
    <3>1. ~ (e >= final)
      BY <1>1, <1>3
    <3>2. Due(e) = Cardinality({n \in DOMAIN BEATS : e >= BEATS[n]})
      BY <3>1 DEF Due
    <3> QED BY <2>3, <2>4, <3>2
  <2>6. ASSUME NEW n \in 1 .. Highest PROVE e >= BeatAt(n) <=> n <= Due(e)
    <3>1. CASE n <= Rungs
      BY <2>1, <2>2, <2>5, <3>1, BeatFacts DEF BeatAt
    <3>2. CASE n > Rungs
      <4>1. (n - Rungs) * REPEAT_EVERY \in Nat /\ BeatAt(n) = final + (n - Rungs) * REPEAT_EVERY
        <5>1. n - Rungs \in Nat /\ REPEAT_EVERY \in Nat
          BY <3>2, BeatFacts
        <5> QED BY <3>2, <5>1, BeatFacts DEF BeatAt
      <4> QED BY <1>1, <1>3, <2>2, <2>5, <3>2, <4>1, BeatFacts
    <3> QED BY <3>1, <3>2, BeatFacts
  <2> QED BY <2>2, <2>5, <2>6, BeatFacts
<1> QED BY <1>1, <1>2, <1>3

(* The log: the pages of the rungs 1 .. level, each once, in order and on time. *)
Line == [t : Nat, kind : Kinds, rung : Nat]
Logs == Seq(Line)

Tells(log_, level, elapsed) ==
    /\ \A n \in DOMAIN log_ : log_[n].kind = "page" =>
          /\ log_[n].rung \in 1 .. level
          /\ log_[n].rung > 1 => log_[n].t = BeatAt(log_[n].rung) /\ log_[n].t <= elapsed
    /\ \A r \in 1 .. level : \E n \in DOMAIN log_ : log_[n].kind = "page" /\ log_[n].rung = r
    /\ \A m, n \in DOMAIN log_ :
          m < n /\ log_[m].kind = "page" /\ log_[n].kind = "page" => log_[m].rung < log_[n].rung

(* The lines besides the pages. *)
Others(phase) == CASE phase = "idle" -> 0 [] phase = "running" -> 2 [] phase = "acked" -> 3 [] OTHER -> 4

DemoRecord ==
    [phase : {"idle", "running", "acked", "resolved"}, payload : Payloads, elapsed : Nat, speed : Speeds,
     paused : BOOLEAN, stage : 0 .. 4, level : 0 .. Highest, events : Logs]

GoodDemo(d) ==
    /\ d \in DemoRecord /\ Tells(d.events, d.level, d.elapsed)
    /\ \E s \in Speeds : d.elapsed <= MaxElapsed + 10 * s
    /\ d.phase = "idle" => d.level = 0
    /\ d.phase = "running" => d.level >= 1 /\ Due(d.elapsed) <= d.level
    /\ Len(d.events) <= d.level + Others(d.phase)

DemoInv == GoodDemo(demo) /\ timer \in {0} \union Speeds

LEMMA NotAPage ==
    ASSUME NEW log_ \in Logs, NEW level \in Nat, NEW elapsed \in Nat, Tells(log_, level, elapsed),
           NEW line \in Line, line.kind # "page"
    PROVE  /\ Append(log_, line) \in Logs /\ Tells(Append(log_, line), level, elapsed)
           /\ Len(Append(log_, line)) = Len(log_) + 1
<1> DEFINE more == Append(log_, line)
<1>1. /\ more \in Logs /\ Len(more) = Len(log_) + 1 /\ Len(log_) \in Nat /\ more[Len(log_) + 1] = line
      /\ DOMAIN log_ = 1 .. Len(log_) /\ DOMAIN more = 1 .. Len(log_) + 1
      /\ \A n \in 1 .. Len(log_) : more[n] = log_[n]
  BY DEF Logs
<1> HIDE DEF more
<1>2. \A n \in DOMAIN more : more[n].kind = "page" => n \in DOMAIN log_ /\ more[n] = log_[n]
  BY <1>1
<1>3. DOMAIN log_ \subseteq DOMAIN more /\ \A n \in DOMAIN log_ : more[n] = log_[n]
  BY <1>1
<1>4. Tells(more, level, elapsed)
  BY <1>2, <1>3 DEF Tells
<1> QED BY <1>1, <1>4 DEF more

(* The pages that a tick catches up on. *)
IsMissed(missed, level, due, later) ==
    /\ missed \in Logs /\ Len(missed) = due - level
    /\ \A i \in 1 .. due - level :
          /\ missed[i].kind = "page" /\ missed[i].rung = level + i
          /\ missed[i].t = BeatAt(level + i) /\ missed[i].t <= later

LEMMA MissedFacts ==
    ASSUME NEW level \in Nat, NEW later \in Nat, level < Due(later), NEW missed,
           missed = [i \in 1 .. Due(later) - level |-> PageEv(BeatAt(level + i), level + i)]
    PROVE  IsMissed(missed, level, Due(later), later)
<1>1. Due(later) \in 1 .. Highest
  BY DueFacts
<1> DEFINE d == Due(later) - level
<1>2. d \in Nat
  BY <1>1
<1>3. ASSUME NEW i \in 1 .. d
      PROVE  missed[i] \in Line /\ missed[i].kind = "page" /\ missed[i].rung = level + i
             /\ missed[i].t = BeatAt(level + i) /\ missed[i].t <= later
  <2> DEFINE r == level + i
  <2>1. missed[i] = [t |-> BeatAt(r), kind |-> "page", rung |-> r]
    BY DEF PageEv
  <2>2. r \in 1 .. Highest /\ r <= Due(later) /\ r \in Nat
    BY <1>1, BeatFacts
  <2> HIDE DEF r
  <2>3. BeatAt(r) \in Nat /\ later >= BeatAt(r)
    BY <2>2, BeatNumber, DueFacts
  <2>4. missed[i] \in Line
    BY <2>1, <2>2, <2>3 DEF Line, Kinds
  <2>5. r = level + i
    BY DEF r
  <2>6. missed[i].kind = "page" /\ missed[i].rung = r /\ missed[i].t = BeatAt(r)
    BY <2>1
  <2> QED BY <2>3, <2>4, <2>5, <2>6
<1>4. missed = [i \in 1 .. d |-> missed[i]]
  OBVIOUS
<1>5. missed \in [1 .. d -> Line]
  BY <1>3, <1>4
<1>6. \A i \in 1 .. d : /\ missed[i].kind = "page" /\ missed[i].rung = level + i
                       /\ missed[i].t = BeatAt(level + i) /\ missed[i].t <= later
  BY <1>3
<1> SUFFICES missed \in Logs /\ Len(missed) = d
  BY <1>6 DEF IsMissed
<1> HIDE DEF d
<1> SUFFICES ASSUME NEW f \in [1 .. d -> Line] PROVE f \in Logs /\ Len(f) = d
  BY <1>5
<1> QED BY <1>2 DEF Logs

LEMMA CatchesUp ==
    ASSUME NEW log_ \in Logs, NEW level \in Nat, NEW elapsed \in Nat, Tells(log_, level, elapsed),
           NEW later \in Nat, elapsed <= later, NEW due \in Nat, level >= 1, level < due,
           NEW missed, IsMissed(missed, level, due, later)
    PROVE  /\ log_ \o missed \in Logs /\ Tells(log_ \o missed, due, later)
           /\ Len(log_ \o missed) = Len(log_) + (due - level)
<1> DEFINE more == log_ \o missed
           k == Len(log_)
           d == due - level
<1>1. d \in Nat /\ d >= 1 /\ level + d = due
  OBVIOUS
<1>3. missed \in Logs /\ Len(missed) = d
  BY DEF IsMissed
<1>4. more \in Logs /\ k \in Nat /\ Len(more) = k + d
  BY <1>1, <1>3 DEF Logs
<1>5. /\ DOMAIN log_ = 1 .. k /\ DOMAIN more = 1 .. k + d
      /\ \A n \in 1 .. k : more[n] = log_[n]
      /\ \A n \in k + 1 .. k + d : more[n] = missed[n - k] /\ n - k \in 1 .. d
  BY <1>1, <1>3, <1>4 DEF Logs
<1>2. \A i \in 1 .. d : /\ missed[i].kind = "page" /\ missed[i].rung = level + i
                       /\ missed[i].t = BeatAt(level + i) /\ missed[i].t <= later
  BY DEF IsMissed
<1> HIDE DEF more, k, d
<1>6. ASSUME NEW n \in DOMAIN more, n > k
      PROVE  /\ more[n].kind = "page" /\ more[n].rung = level + (n - k) /\ n - k \in 1 .. d
             /\ more[n].t = BeatAt(more[n].rung) /\ more[n].t <= later
  <2>1. n \in k + 1 .. k + d
    BY <1>1, <1>4, <1>5, <1>6
  <2> DEFINE i == n - k
  <2>2. more[n] = missed[i] /\ i \in 1 .. d
    BY <1>5, <2>1
  <2>3. level + i = level + (n - k) /\ i = n - k
    OBVIOUS
  <2> HIDE DEF i
  <2>4. missed[i].rung = level + i /\ missed[i].kind = "page"
    BY <1>2, <2>2
  <2>5. missed[i].t = BeatAt(level + i) /\ missed[i].t <= later
    BY <1>2, <2>2
  <2> QED BY <2>2, <2>3, <2>4, <2>5
<1>7. ASSUME NEW n \in DOMAIN more, n <= k PROVE more[n] = log_[n] /\ n \in DOMAIN log_
  BY <1>1, <1>4, <1>5, <1>7
<1>8. \A n \in DOMAIN more : n \in Int
  BY <1>5
<1>9. ASSUME NEW n \in DOMAIN more, more[n].kind = "page"
      PROVE  /\ more[n].rung \in 1 .. due
             /\ more[n].rung > 1 => more[n].t = BeatAt(more[n].rung) /\ more[n].t <= later
  <2>1. CASE n <= k
    <3>1. log_[n].rung \in 1 .. level /\ log_[n] \in Line
      BY <1>7, <1>9, <2>1 DEF Tells, Logs
    <3> QED BY <1>1, <1>7, <1>9, <2>1, <3>1 DEF Tells, Line
  <2>2. CASE n > k
    BY <1>1, <1>6, <2>2
  <2> QED BY <1>4, <1>8, <2>1, <2>2
<1>10. ASSUME NEW r \in 1 .. due PROVE \E n \in DOMAIN more : more[n].kind = "page" /\ more[n].rung = r
  <2>1. CASE r <= level
    <3>1. PICK n \in DOMAIN log_ : log_[n].kind = "page" /\ log_[n].rung = r
      BY <2>1 DEF Tells
    <3>2. n \in DOMAIN more /\ more[n] = log_[n]
      BY <1>1, <1>4, <1>5
    <3> QED BY <3>1, <3>2
  <2>2. CASE r > level
    <3> DEFINE n == k + (r - level)
    <3>1. n \in DOMAIN more /\ n > k /\ level + (n - k) = r
      BY <1>1, <1>4, <1>5, <2>2
    <3> HIDE DEF n
    <3> QED BY <1>6, <3>1
  <2> QED BY <2>1, <2>2
<1>11. ASSUME NEW m \in DOMAIN more, NEW n \in DOMAIN more, m < n, more[m].kind = "page", more[n].kind = "page"
       PROVE  more[m].rung < more[n].rung
  <2>1. CASE n <= k
    BY <1>4, <1>7, <1>8, <1>11, <2>1 DEF Tells
  <2>2. CASE n > k /\ m <= k
    <3>1. more[m].rung \in 1 .. level
      BY <1>7, <1>11, <2>2 DEF Tells
    <3> QED BY <1>6, <2>2, <3>1
  <2>3. CASE n > k /\ m > k
    BY <1>4, <1>6, <1>8, <1>11, <2>3
  <2> QED BY <1>4, <1>8, <2>1, <2>2, <2>3
<1>12. Tells(more, due, later)
  BY <1>9, <1>10, <1>11 DEF Tells
<1> QED BY <1>4, <1>12 DEF more, k, d

LEMMA OthersFacts ==
    Others("idle") = 0 /\ Others("running") = 2 /\ Others("acked") = 3 /\ Others("resolved") = 4
BY DEF Others

LEMMA InitialRecord ==
    /\ initial \in DemoRecord /\ initial.phase = "idle" /\ initial.elapsed = 0 /\ initial.level = 0
    /\ initial.events = << >> /\ initial.payload = "firing" /\ initial.speed = StartSpeed
BY DemoAssumption, BeatFacts DEF initial, DemoRecord, Logs, Payloads

LEMMA FreshGood ==
    ASSUME NEW d \in DemoRecord, d.phase = "idle", d.elapsed = 0, d.level = 0, d.events = << >>
    PROVE  GoodDemo(d)
<1>1. << >> \in Logs /\ Len(<< >>) = 0 /\ DOMAIN << >> = {}
  BY DEF Logs
<1>2. Tells(d.events, d.level, d.elapsed)
  BY <1>1 DEF Tells
<1>3. 0 <= MaxElapsed + 10 * StartSpeed /\ StartSpeed \in Speeds
  <2>1. StartSpeed \in Speeds /\ StartSpeed \in Nat /\ MaxElapsed \in Nat
    BY DemoAssumption
  <2> QED BY <2>1
<1>4. Len(d.events) <= d.level + Others(d.phase)
  BY <1>1, OthersFacts
<1> QED BY <1>2, <1>3, <1>4 DEF GoodDemo

LEMMA InitialDemo ==
    ASSUME NEW payload \in Payloads, NEW speed \in Speeds
    PROVE  GoodDemo([initial EXCEPT !.payload = payload, !.speed = speed])
<1> DEFINE d == [initial EXCEPT !.payload = payload, !.speed = speed]
           start == initial
<1>1. start \in DemoRecord /\ start = initial /\ d = [start EXCEPT !.payload = payload, !.speed = speed]
  BY InitialRecord
<1> HIDE DEF d, start
<1>2. d \in DemoRecord
  BY <1>1 DEF DemoRecord
<1>3. d.phase = start.phase /\ d.elapsed = start.elapsed /\ d.level = start.level /\ d.events = start.events
  BY <1>1 DEF DemoRecord
<1>4. GoodDemo(d)
  BY <1>1, <1>2, <1>3, FreshGood, InitialRecord
<1> QED BY <1>4 DEF d

LEMMA Longer ==
    ASSUME NEW d, GoodDemo(d), NEW phase \in {"acked", "resolved"}, NEW kind \in Kinds \ {"page"},
           d.phase \in {"running", "acked"}, phase = "acked" => d.phase = "running",
           NEW e, e = [d EXCEPT !.phase = phase, !.events = Append(d.events, Ev(d.elapsed, kind))]
    PROVE  GoodDemo(e)
<1> DEFINE events == Append(d.events, Ev(d.elapsed, kind))
<1>1. d \in DemoRecord /\ d.elapsed \in Nat /\ d.events \in Logs /\ d.level \in Nat
  BY BeatFacts DEF GoodDemo, DemoRecord
<1>2. Ev(d.elapsed, kind) \in Line /\ Ev(d.elapsed, kind).kind # "page"
  BY <1>1 DEF Ev, Line
<1>3. events \in Logs /\ Tells(events, d.level, d.elapsed) /\ Len(events) = Len(d.events) + 1
  BY <1>1, <1>2, NotAPage DEF GoodDemo
<1>4. e = [d EXCEPT !.phase = phase, !.events = events]
  OBVIOUS
<1> HIDE DEF events
<1>5. e \in DemoRecord
  BY <1>1, <1>3, <1>4 DEF DemoRecord
<1>6. e.phase = phase /\ e.events = events /\ e.level = d.level /\ e.elapsed = d.elapsed
  BY <1>1, <1>4 DEF DemoRecord
<1>7. Len(d.events) \in Nat
  BY <1>1 DEF Logs
<1>8. Len(events) <= e.level + Others(e.phase)
  BY <1>1, <1>3, <1>6, <1>7 DEF GoodDemo, Others
<1> QED BY <1>3, <1>5, <1>6, <1>8 DEF GoodDemo

LEMMA FireGood ==
    ASSUME DemoInv, Fire
    PROVE  GoodDemo(demo')
<1> DEFINE fresh == [initial EXCEPT !.payload = demo.payload, !.speed = demo.speed]
           flood == IF demo.payload = "flood" THEN "evFlood" ELSE "evQueued"
           shut == Append(<<Ev(4, "evAccepted"), Ev(31, flood)>>, Ev(62, "evClosed"))
           paged == Append(<<Ev(4, "evAccepted"), Ev(31, flood)>>, PageEv(100, 1))
<1>1. demo.payload \in Payloads /\ demo.speed \in Speeds
  BY DEF DemoInv, GoodDemo, DemoRecord
<1>2. GoodDemo(fresh)
  BY <1>1, InitialDemo
<1>3. /\ fresh \in DemoRecord /\ fresh.phase = "idle" /\ fresh.elapsed = 0 /\ fresh.level = 0
      /\ \E s \in Speeds : fresh.elapsed <= MaxElapsed + 10 * s
  <2>1. fresh.phase = "idle" /\ fresh.elapsed = 0 /\ fresh.level = 0
    BY DEF initial
  <2> HIDE DEF fresh
  <2> QED BY <1>2, <2>1 DEF GoodDemo
<1>4. flood \in Kinds \ {"page"}
  BY DEF Kinds
<1>5. ASSUME NEW a \in Line, NEW b \in Line, NEW c \in Line, a.kind # "page", b.kind # "page"
      PROVE  /\ Append(<<a, b>>, c) \in Logs /\ Len(Append(<<a, b>>, c)) = 3
             /\ c.kind # "page" => Tells(Append(<<a, b>>, c), 0, 0)
             /\ c.kind = "page" /\ c.rung = 1 => Tells(Append(<<a, b>>, c), 1, 0)
  <2> DEFINE s == Append(<<a, b>>, c)
  <2>1. s \in Logs /\ Len(s) = 3 /\ DOMAIN s = {1, 2, 3} /\ s[1] = a /\ s[2] = b /\ s[3] = c
    BY DEF Logs
  <2> HIDE DEF s
  <2>2. c.kind # "page" => Tells(s, 0, 0)
    BY <1>5, <2>1 DEF Tells
  <2>3. c.kind = "page" /\ c.rung = 1 => Tells(s, 1, 0)
    <3> SUFFICES ASSUME c.kind = "page", c.rung = 1 PROVE Tells(s, 1, 0)
      OBVIOUS
    <3>1. \A n \in DOMAIN s : s[n].kind = "page" => n = 3
      BY <1>5, <2>1
    <3>2. \A n \in DOMAIN s : s[n].kind = "page" => s[n].rung = 1
      BY <2>1, <3>1
    <3>3. \A r \in 1 .. 1 : \E n \in DOMAIN s : s[n].kind = "page" /\ s[n].rung = r
      BY <2>1
    <3>4. \A m, n \in DOMAIN s : m < n /\ s[m].kind = "page" /\ s[n].kind = "page" => s[m].rung < s[n].rung
      BY <3>1
    <3> QED BY <3>2, <3>3, <3>4 DEF Tells
  <2> QED BY <2>1, <2>2, <2>3 DEF s
<1> HIDE DEF flood
<1>6. /\ Ev(4, "evAccepted") \in Line /\ Ev(4, "evAccepted").kind # "page"
      /\ Ev(31, flood) \in Line /\ Ev(31, flood).kind # "page"
      /\ Ev(62, "evClosed") \in Line /\ Ev(62, "evClosed").kind # "page"
      /\ PageEv(100, 1) \in Line /\ PageEv(100, 1).kind = "page" /\ PageEv(100, 1).rung = 1
  BY <1>4 DEF Ev, PageEv, Line, Kinds
<1>7. /\ shut \in Logs /\ Len(shut) = 3 /\ Tells(shut, 0, 0)
      /\ paged \in Logs /\ Len(paged) = 3 /\ Tells(paged, 1, 0)
  BY <1>5, <1>6
<1>8. demo' = IF demo.payload = "resolved"
              THEN [fresh EXCEPT !.phase = "resolved", !.stage = 4, !.events = shut]
              ELSE [fresh EXCEPT !.phase = "running", !.level = 1, !.events = paged]
  <2>1. fresh = [initial EXCEPT !.payload = demo.payload, !.speed = demo.speed]
    OBVIOUS
  <2> HIDE DEF fresh
  <2> QED BY <2>1 DEF Fire, flood
<1> HIDE DEF fresh, shut, paged
<1>9. ASSUME NEW d, d = [fresh EXCEPT !.phase = "resolved", !.stage = 4, !.events = shut] PROVE GoodDemo(d)
  <2> DEFINE four == 4
             over == "resolved"
  <2>1. four \in 0 .. 4 /\ over \in {"idle", "running", "acked", "resolved"} /\ over = "resolved"
    OBVIOUS
  <2>2. d = [fresh EXCEPT !.phase = over, !.stage = four, !.events = shut]
    BY <1>9
  <2> HIDE DEF four, over
  <2>3. d \in DemoRecord
    BY <1>3, <1>7, <2>1, <2>2 DEF DemoRecord
  <2>4. d.phase = over /\ d.events = shut /\ d.level = fresh.level /\ d.elapsed = fresh.elapsed
    BY <1>3, <2>2 DEF DemoRecord
  <2>5. Tells(d.events, d.level, d.elapsed)
    <3>1. d.events = shut /\ d.level = 0 /\ d.elapsed = 0
      BY <1>3, <2>4
    <3> QED BY <1>7, <3>1, Zenon
  <2>6. Len(d.events) <= d.level + Others(d.phase)
    <3>1. Len(d.events) = 3 /\ d.level = 0 /\ Others(d.phase) = 4
      BY <1>3, <1>7, <2>1, <2>4, OthersFacts
    <3> QED BY <3>1
  <2> QED BY <1>3, <2>1, <2>3, <2>4, <2>5, <2>6 DEF GoodDemo
<1>10. ASSUME NEW d, d = [fresh EXCEPT !.phase = "running", !.level = 1, !.events = paged] PROVE GoodDemo(d)
  <2> DEFINE one == 1
  <2>1. /\ one \in 0 .. Highest /\ one = 1
        /\ d = [fresh EXCEPT !.phase = "running", !.level = one, !.events = paged]
    BY <1>10, BeatFacts
  <2> HIDE DEF one
  <2>2. d \in DemoRecord
    BY <1>3, <1>7, <2>1 DEF DemoRecord
  <2>3. d.phase = "running" /\ d.events = paged /\ d.level = one /\ d.elapsed = 0
    BY <1>3, <2>1 DEF DemoRecord
  <2>4. Due(0) <= 1
    <3>1. Due(0) \in 1 .. Highest /\ \A n \in 1 .. Highest : 0 >= BeatAt(n) <=> n <= Due(0)
      BY DueFacts
    <3>2. ASSUME 2 <= Due(0) PROVE FALSE
      <4>1. 2 \in 1 .. Highest /\ 0 >= BeatAt(2)
        BY <3>1, <3>2, BeatFacts
      <4>2. CASE 2 <= Rungs
        BY <4>1, <4>2, BeatFacts DEF BeatAt
      <4>3. CASE Rungs = 1
        BY <4>1, <4>3, BeatFacts DEF BeatAt
      <4> QED BY <4>2, <4>3, BeatFacts
    <3> QED BY <3>1, <3>2
  <2>5. Tells(d.events, d.level, d.elapsed)
    <3>1. d.events = paged /\ d.level = 1 /\ d.elapsed = 0
      BY <2>1, <2>3
    <3> QED BY <1>7, <3>1, Zenon
  <2>6. Len(d.events) <= d.level + Others(d.phase)
    <3>1. Len(d.events) = 3 /\ d.level = 1 /\ Others(d.phase) = 2
      BY <1>7, <2>1, <2>3, OthersFacts
    <3> QED BY <3>1
  <2> QED BY <1>3, <2>1, <2>2, <2>3, <2>4, <2>5, <2>6 DEF GoodDemo
<1> QED BY <1>8, <1>9, <1>10

LEMMA TickGood ==
    ASSUME DemoInv, Tick, Ticks
    PROVE  /\ GoodDemo(demo') /\ demo'.phase = demo.phase /\ demo'.level >= demo.level
<1> DEFINE later == demo.elapsed + 10 * timer
           due == Due(later)
           stage == Stage(later)
<1>1. /\ demo \in DemoRecord /\ timer \in Speeds /\ timer \in Nat /\ demo.elapsed \in Nat
      /\ demo.elapsed < MaxElapsed /\ demo.phase = "running" /\ demo.level \in Nat /\ demo.level >= 1
      /\ demo.events \in Logs /\ Tells(demo.events, demo.level, demo.elapsed)
      /\ Due(demo.elapsed) <= demo.level
  BY DemoAssumption, BeatFacts DEF DemoInv, GoodDemo, DemoRecord, Tick, Ticks, live
<1>2. later \in Nat /\ demo.elapsed <= later /\ later <= MaxElapsed + 10 * timer
  BY <1>1, DemoAssumption
<1>3. due \in 1 .. Highest
  BY <1>2, DueFacts
<1>4. stage \in 0 .. 4
  <2> DEFINE n == (2 * later) \div 75
  <2>1. n \in Nat
    BY <1>2
  <2> HIDE DEF n, later
  <2>2. Stage(later) = IF 4 <= n + 1 THEN 4 ELSE n + 1
    BY DEF Stage, Least, n
  <2> QED BY <2>1, <2>2
<1>5. demo' = IF due > demo.level
              THEN [demo EXCEPT !.elapsed = later, !.stage = stage, !.events = @ \o Missed(due), !.level = due]
              ELSE [demo EXCEPT !.elapsed = later, !.stage = stage]
  BY DEF Tick
<1>6. due <= demo.level \/ due > demo.level
  BY <1>1, <1>3
<1>7. Len(demo.events) <= demo.level + 2 /\ Len(demo.events) \in Nat
  BY <1>1, OthersFacts DEF DemoInv, GoodDemo, Logs
<1>8. CASE due > demo.level
  <2> DEFINE missed == Missed(due)
             more == demo.events \o missed
             log_ == demo.events
             level == demo.level
             e == demo.elapsed
  <2>1. missed = [i \in 1 .. Due(later) - level |-> PageEv(BeatAt(level + i), level + i)]
    BY DEF Missed
  <2>2. /\ more \in Logs /\ Tells(more, due, later)
        /\ Len(more) = Len(demo.events) + (due - demo.level)
    <3>1. due \in Nat /\ level < due /\ level \in Nat /\ level >= 1 /\ log_ \in Logs
      BY <1>1, <1>3, <1>8
    <3>2. Tells(log_, level, e) /\ e \in Nat /\ e <= later /\ later \in Nat
      BY <1>1, <1>2
    <3>3. more = log_ \o missed /\ demo.level = level /\ demo.events = log_ /\ due = Due(later)
      OBVIOUS
    <3> HIDE DEF missed, log_, level, e, more, later, due
    <3>4. IsMissed(missed, level, due, later)
      BY <2>1, <3>1, <3>2, <3>3, MissedFacts
    <3>5. /\ log_ \o missed \in Logs /\ Tells(log_ \o missed, due, later)
          /\ Len(log_ \o missed) = Len(log_) + (due - level)
      BY <3>1, <3>2, <3>4, CatchesUp
    <3> QED BY <3>3, <3>5
  <2>3. demo' = [demo EXCEPT !.elapsed = later, !.stage = stage, !.events = more, !.level = due]
    BY <1>5, <1>8 DEF missed
  <2>4. due = Due(later) /\ due \in 0 .. Highest
    BY <1>3
  <2> HIDE DEF more, due, later, stage
  <2>5. demo' \in DemoRecord
    BY <1>1, <1>2, <1>4, <2>2, <2>3, <2>4 DEF DemoRecord
  <2>6. demo'.phase = demo.phase /\ demo'.elapsed = later
    BY <1>1, <2>3 DEF DemoRecord
  <2>7. demo'.level = due /\ demo'.events = more
    BY <1>1, <2>3 DEF DemoRecord
  <2>8. Len(demo'.events) <= demo'.level + Others(demo'.phase)
    BY <1>1, <1>3, <1>7, <2>2, <2>6, <2>7, OthersFacts
  <2>9. Due(demo'.elapsed) <= demo'.level /\ demo'.level >= 1 /\ demo'.level >= demo.level
    BY <1>1, <1>3, <1>8, <2>4, <2>6, <2>7
  <2>10. Tells(demo'.events, demo'.level, demo'.elapsed)
    BY <2>2, <2>6, <2>7
  <2>11. \E s \in Speeds : demo'.elapsed <= MaxElapsed + 10 * s
    BY <1>1, <1>2, <2>6
  <2>12. demo'.phase = "running"
    BY <1>1, <2>6
  <2>13. GoodDemo(demo')
    BY <2>5, <2>8, <2>9, <2>10, <2>11, <2>12 DEF GoodDemo
  <2> QED BY <2>6, <2>9, <2>13
<1>9. CASE due <= demo.level
  <2>1. demo' = [demo EXCEPT !.elapsed = later, !.stage = stage]
    BY <1>1, <1>3, <1>5, <1>9
  <2>2. due = Due(later)
    OBVIOUS
  <2> HIDE DEF due, later, stage
  <2>3. demo' \in DemoRecord
    BY <1>1, <1>2, <1>4, <2>1 DEF DemoRecord
  <2>4. demo'.phase = demo.phase /\ demo'.elapsed = later
    BY <1>1, <2>1 DEF DemoRecord
  <2>5. demo'.level = demo.level /\ demo'.events = demo.events
    BY <1>1, <2>1 DEF DemoRecord
  <2>6. Len(demo'.events) <= demo'.level + Others(demo'.phase)
    BY <1>1, <1>7, <2>4, <2>5, OthersFacts
  <2>7. Tells(demo'.events, demo'.level, demo'.elapsed)
    <3>1. \A n \in DOMAIN demo.events : demo.events[n] \in Line
      BY <1>1 DEF Logs
    <3>2. Tells(demo.events, demo.level, later)
      BY <1>1, <1>2, <3>1 DEF Tells, Line
    <3> QED BY <2>4, <2>5, <3>2
  <2>8. \E s \in Speeds : demo'.elapsed <= MaxElapsed + 10 * s
    BY <1>1, <1>2, <2>4
  <2>9. demo'.phase = "running" /\ demo'.level >= 1 /\ Due(demo'.elapsed) <= demo'.level
    BY <1>1, <1>9, <2>2, <2>4, <2>5
  <2>10. GoodDemo(demo')
    BY <2>3, <2>6, <2>7, <2>8, <2>9 DEF GoodDemo
  <2> QED BY <1>1, <2>4, <2>5, <2>10
<1> QED BY <1>6, <1>8, <1>9

(* What the buttons do to a log: nothing, a line that is no page, or a fresh one. *)
LEMMA Untouched ==
    ASSUME NEW d, GoodDemo(d), NEW e,
           NEW payload \in Payloads, NEW speed \in Speeds, NEW paused \in BOOLEAN,
           \/ e = [d EXCEPT !.payload = payload]
           \/ e = [d EXCEPT !.speed = speed]
           \/ e = [d EXCEPT !.paused = paused]
    PROVE  GoodDemo(e) /\ e.phase = d.phase /\ e.level = d.level
<1>1. e \in DemoRecord /\ d \in DemoRecord
  BY DEF GoodDemo, DemoRecord
<1>2. e.phase = d.phase /\ e.level = d.level /\ e.events = d.events /\ e.elapsed = d.elapsed
  BY <1>1 DEF DemoRecord
<1> QED BY <1>1, <1>2 DEF GoodDemo

(* Where a step leads: to a fresh log, or on with the one there is. *)
Way ==
    \/ demo'.phase = "idle" /\ demo'.level = 0
    \/ demo.phase # "running" /\ demo'.phase = "running" /\ demo'.level = 1
    \/ demo.phase # "running" /\ demo'.phase = "resolved" /\ demo'.level = 0
    \/ demo'.phase = demo.phase /\ demo'.level = demo.level
    \/ demo.phase = "running" /\ demo'.phase = demo.phase /\ demo'.level \in demo.level + 1 .. Highest
    \/ demo.phase = "running" /\ demo'.phase = "acked" /\ demo'.level = demo.level
    \/ demo.phase \in {"running", "acked"} /\ demo'.phase = "resolved" /\ demo'.level = demo.level

LEMMA StepDemo ==
    ASSUME DemoInv, [DemoNext]_demoVars
    PROVE  DemoInv' /\ Way
<1>1. /\ demo \in DemoRecord /\ GoodDemo(demo) /\ demo.payload \in Payloads /\ demo.speed \in Speeds
      /\ demo.paused \in BOOLEAN /\ timer \in {0} \union Speeds
      /\ demo.phase \in {"idle", "running", "acked", "resolved"} /\ demo.level \in Nat
  BY BeatFacts DEF DemoInv, GoodDemo, DemoRecord
<1>2. ASSUME GoodDemo(demo'), timer' \in {0} \union Speeds PROVE DemoInv'
  <2>1. ASSUME NEW d, d = demo', GoodDemo(d) PROVE GoodDemo(demo)'
    BY <2>1 DEF GoodDemo, Tells, Due, BeatAt, Rungs, Highest, DemoRecord, Logs, Line, Kinds, Payloads,
                Others, Least
  <2> QED BY <1>2, <2>1 DEF DemoInv
<1>3. CASE UNCHANGED demoVars
  BY <1>1, <1>2, <1>3 DEF demoVars, Way
<1>4. CASE Reset
  <2>1. demo' = [initial EXCEPT !.payload = demo.payload, !.speed = demo.speed] /\ timer' = timer
    BY <1>4 DEF Reset
  <2>2. GoodDemo(demo')
    BY <1>1, <2>1, InitialDemo
  <2>3. demo'.phase = "idle" /\ demo'.level = 0
    BY <2>1 DEF initial
  <2> QED BY <1>1, <1>2, <2>1, <2>2, <2>3 DEF Way
<1>5. ASSUME NEW p \in Payloads, Payload(p) PROVE DemoInv' /\ Way
  <2>1. demo' = [demo EXCEPT !.payload = p] /\ timer' = timer
    BY <1>5 DEF Payload
  <2> QED BY <1>1, <1>2, <2>1, Untouched DEF Way
<1>6. ASSUME NEW s \in Speeds, Speed(s) PROVE DemoInv' /\ Way
  <2>1. demo' = [demo EXCEPT !.speed = s] /\ timer' = timer
    BY <1>6 DEF Speed
  <2> QED BY <1>1, <1>2, <2>1, Untouched DEF Way
<1>7. CASE Pause
  <2>1. demo' = [demo EXCEPT !.paused = ~ demo.paused] /\ timer' = timer /\ (~ demo.paused) \in BOOLEAN
    BY <1>1, <1>7 DEF Pause
  <2> DEFINE paused == ~ demo.paused
  <2>2. paused \in BOOLEAN /\ demo' = [demo EXCEPT !.paused = paused]
    BY <2>1
  <2> HIDE DEF paused
  <2> QED BY <1>1, <1>2, <2>1, <2>2, Untouched DEF Way
<1>8. CASE Fire
  <2>1. GoodDemo(demo') /\ demo.phase # "running" /\ timer' = timer
    BY <1>8, FireGood DEF Fire, live
  <2>2. \/ demo'.phase = "running" /\ demo'.level = 1
        \/ demo'.phase = "resolved" /\ demo'.level = 0
    BY <1>8 DEF Fire, initial
  <2> QED BY <1>1, <1>2, <2>1, <2>2 DEF Way
<1>9. CASE Tick
  <2>1. timer' = timer
    BY <1>9 DEF Tick
  <2>2. CASE Ticks
    <3>1. GoodDemo(demo') /\ demo'.phase = demo.phase /\ demo'.level >= demo.level /\ demo.phase = "running"
      BY <1>9, <2>2, TickGood DEF Ticks, live
    <3>2. demo'.level \in 0 .. Highest
      BY <3>1 DEF GoodDemo, DemoRecord
    <3>3. demo'.level = demo.level \/ demo'.level \in demo.level + 1 .. Highest
      BY <1>1, <3>1, <3>2
    <3> QED BY <1>1, <1>2, <2>1, <3>1, <3>3 DEF Way
  <2>3. CASE ~ Ticks
    BY <1>1, <1>2, <1>9, <2>1, <2>3 DEF Tick, Way
  <2> QED BY <2>2, <2>3
<1>10. CASE Ack
  <2> DEFINE phase == "acked"
             kind == "evAcked"
             e == demo'
  <2>1. /\ demo.phase = "running" /\ timer' = timer
        /\ e = [demo EXCEPT !.phase = phase, !.events = Append(demo.events, Ev(demo.elapsed, kind))]
    BY <1>10 DEF Ack, live, log
  <2>2. kind \in Kinds \ {"page"} /\ phase \in {"acked", "resolved"} /\ phase = "acked"
    BY DEF Kinds
  <2> HIDE DEF phase, kind, e
  <2>3. GoodDemo(e)
    BY <1>1, <2>1, <2>2, Longer
  <2>4. e.phase = phase /\ e.level = demo.level
    BY <1>1, <2>1 DEF DemoRecord
  <2>5. e = demo'
    BY DEF e
  <2> QED BY <1>1, <1>2, <2>1, <2>2, <2>3, <2>4, <2>5 DEF Way
<1>11. CASE Resolve
  <2> DEFINE phase == "resolved"
             kind == "evResolved"
             e == demo'
  <2>1. /\ demo.phase \in {"running", "acked"} /\ timer' = timer
        /\ e = [demo EXCEPT !.phase = phase, !.events = Append(demo.events, Ev(demo.elapsed, kind))]
    BY <1>1, <1>11 DEF Resolve, log
  <2>2. kind \in Kinds \ {"page"} /\ phase \in {"acked", "resolved"} /\ phase = "resolved"
    BY DEF Kinds
  <2> HIDE DEF phase, kind, e
  <2>3. GoodDemo(e)
    BY <1>1, <2>1, <2>2, Longer
  <2>4. e.phase = phase /\ e.level = demo.level
    BY <1>1, <2>1 DEF DemoRecord
  <2>5. e = demo'
    BY DEF e
  <2> QED BY <1>1, <1>2, <2>1, <2>2, <2>3, <2>4, <2>5 DEF Way
<1>12. CASE Effect
  <2>1. timer' \in {0} \union Speeds /\ demo' = demo
    BY <1>1, <1>12 DEF Effect, Wanted
  <2> QED BY <1>1, <1>2, <2>1 DEF Way
<1>13. CASE Leave
  <2>1. demo' = initial /\ timer' = 0
    BY <1>13 DEF Leave
  <2>2. GoodDemo(initial)
    BY FreshGood, InitialRecord
  <2> QED BY <1>2, <2>1, <2>2, InitialRecord DEF Way
<1> QED BY <1>3, <1>4, <1>5, <1>6, <1>7, <1>8, <1>9, <1>10, <1>11, <1>12, <1>13 DEF DemoNext

LEMMA InitDemo == DemoInit => DemoInv
BY FreshGood, InitialRecord DEF DemoInit, DemoInv

THEOREM DemoHolds == DemoSpec => []DemoInv
<1>1. DemoInv /\ [DemoNext]_demoVars => DemoInv'
  BY StepDemo
<1> QED BY InitDemo, <1>1, PTL DEF DemoSpec

LEMMA DemoTypes == DemoInv => DemoType
<1> SUFFICES ASSUME DemoInv PROVE DemoType
  OBVIOUS
<1>1. /\ demo \in DemoRecord /\ demo.events \in Logs /\ demo.elapsed \in Nat
      /\ timer \in {0} \union Speeds
  BY DEF DemoInv, GoodDemo, DemoRecord
<1>2. \A n \in DOMAIN demo.events : demo.events[n].kind \in Kinds
  <2>1. \A n \in DOMAIN demo.events : demo.events[n] \in Line
    BY <1>1 DEF Logs
  <2> QED BY <2>1 DEF Line
<1>3. demo.elapsed \in 0 .. MaxElapsed + 10 * Max(Speeds)
  <2>1. PICK s \in Speeds : demo.elapsed <= MaxElapsed + 10 * s
    BY DEF DemoInv, GoodDemo
  <2>2. \E m \in Speeds : \A n \in Speeds : m >= n
    <3>1. Speeds \subseteq Nat /\ IsFiniteSet(Speeds) /\ Speeds # {}
      BY DemoAssumption
    <3>2. PICK m \in Speeds : \A n \in Speeds : n <= m
      BY <3>1, GreatestExists
    <3> QED BY <3>1, <3>2
  <2>3. Max(Speeds) \in Speeds /\ \A n \in Speeds : Max(Speeds) >= n
    BY <2>2 DEF Max
  <2>4. Max(Speeds) \in Nat /\ s \in Nat /\ s <= Max(Speeds) /\ MaxElapsed \in Nat
    BY <2>3, DemoAssumption
  <2> QED BY <1>1, <2>1, <2>4
<1> QED BY <1>1, <1>2, <1>3 DEF DemoType, DemoRecord

(* Premise.  The bar is full no earlier than the last rung is due (engine.ts: BEATS and    *)
(* REPEAT_EVERY, 600 each).                                                            *)
BarFits == BEATS[Rungs] <= REPEAT_EVERY

(* The log has the pages that are due, each once, in order and on time, and what is shown  *)
(* beside it agrees with it.                                                           *)
THEOREM PagesAsTheyAreDue ==
    ASSUME BarFits
    PROVE  DemoSpec => []EachBeatOnce
<1>1. ASSUME DemoInv PROVE EachBeatOnce
  <2>1. /\ demo \in DemoRecord /\ demo.elapsed \in Nat /\ demo.level \in 0 .. Highest
        /\ demo.events \in Logs
        /\ Tells(demo.events, demo.level, demo.elapsed) /\ (demo.phase = "idle" => demo.level = 0)
        /\ demo.phase = "running" => demo.level >= 1 /\ Due(demo.elapsed) <= demo.level
        /\ Len(demo.events) <= demo.level + Others(demo.phase)
        /\ demo.phase \in {"idle", "running", "acked", "resolved"}
    BY <1>1 DEF DemoInv, GoodDemo, DemoRecord
  <2>2. Paged = 1 .. demo.level
    BY <2>1 DEF Paged, Pages, Tells
  <2>3. \A m, n \in Pages : m < n => demo.events[m].rung < demo.events[n].rung
    BY <2>1 DEF Pages, Tells
  <2>4. \A n \in Pages : LET line == demo.events[n] IN
            line.rung > 1 => line.t = BeatAt(line.rung) /\ line.t <= demo.elapsed
    BY <2>1 DEF Pages, Tells
  <2>5. live => \A n \in 1 .. Highest : demo.elapsed >= BeatAt(n) => n \in Paged
    <3> SUFFICES ASSUME live, NEW n \in 1 .. Highest, demo.elapsed >= BeatAt(n) PROVE n \in Paged
      OBVIOUS
    <3>1. n <= Due(demo.elapsed) /\ Due(demo.elapsed) \in 1 .. Highest
      BY <2>1, DueFacts
    <3> QED BY <2>1, <2>2, <3>1 DEF live
  <2>6. Reached = Paged \intersect 1 .. Rungs + 1
    BY <2>1, <2>2, BeatFacts DEF Reached
  <2>7. OnCall \in {0} \union Paged /\ \A r \in Paged : r <= OnCall \/ r > Rungs
    BY <2>1, <2>2, BeatFacts DEF OnCall, Least
  <2>8. live /\ Bar = 100 => Rungs \in Reached
    <3> SUFFICES ASSUME live, Bar = 100 PROVE Rungs \in Reached
      OBVIOUS
    <3> DEFINE q == (demo.elapsed * 100) \div REPEAT_EVERY
    <3>1. demo.elapsed * 100 \in Nat /\ REPEAT_EVERY \in Nat \ {0}
      BY <2>1, BeatFacts
    <3>2. q \in Nat /\ q * REPEAT_EVERY <= demo.elapsed * 100
      BY <3>1, Division
    <3> HIDE DEF q
    <3>3. Bar = IF 100 <= q THEN 100 ELSE q
      BY DEF Bar, Least, q
    <3>4. 100 <= q
      BY <3>2, <3>3
    <3>5. 100 * REPEAT_EVERY <= q * REPEAT_EVERY /\ 100 * REPEAT_EVERY \in Nat /\ q * REPEAT_EVERY \in Nat
      BY <3>1, <3>2, <3>4, Product
    <3>6. REPEAT_EVERY <= demo.elapsed
      BY <2>1, <3>1, <3>2, <3>5
    <3>7. Rungs \in 1 .. Highest /\ demo.elapsed >= BeatAt(Rungs)
      BY <2>1, <3>1, <3>6, BeatFacts DEF BeatAt, BarFits
    <3>8. Rungs \in Paged
      BY <2>5, <3>7
    <3> QED BY <2>6, <3>8, BeatFacts
  <2>9. Len(demo.events) <= Highest + 4
    <3>1. Len(demo.events) \in Nat
      BY <2>1 DEF Logs
    <3>2. Others(demo.phase) \in 0 .. 4
      BY <2>1, OthersFacts
    <3> QED BY <2>1, <3>1, <3>2, BeatFacts
  <2> QED BY <2>2, <2>3, <2>4, <2>5, <2>6, <2>7, <2>8, <2>9 DEF EachBeatOnce
<1> QED BY <1>1, DemoHolds, PTL

(* The alert of the simulation keeps the promise of Incident, one after another. *)
THEOREM DemoImplementsIncident == DemoSpec => SameShape
<1>1. DemoInit => Promise!Init
  BY InitialRecord DEF DemoInit, Promise!Init, live
<1>2. ASSUME DemoInv, [DemoNext]_demoVars PROVE [Promise!Next]_(Promise!incidentVars)
  <2>1. /\ DemoInv' /\ demo.phase \in {"idle", "running", "acked", "resolved"}
        /\ demo.phase = "idle" => demo.level = 0
    BY <1>2, StepDemo DEF DemoInv, GoodDemo, DemoRecord
  <2>2. CASE demo'.phase = "idle" /\ demo'.level = 0
    BY <2>2 DEF Promise!Next, Promise!Forget, live
  <2>3. CASE demo.phase # "running" /\ demo'.phase = "running" /\ demo'.level = 1
    BY <2>1, <2>3 DEF Promise!Next, Promise!Open, Promise!Free, Promise!Handled, live
  <2>4. CASE demo.phase # "running" /\ demo'.phase = "resolved" /\ demo'.level = 0
    BY <2>1, <2>4 DEF Promise!Next, Promise!Shut, Promise!Free, Promise!Handled, live
  <2>5. CASE demo'.phase = demo.phase /\ demo'.level = demo.level
    BY <2>5 DEF Promise!incidentVars, live
  <2>6. CASE demo'.phase = demo.phase /\ demo.phase = "running" /\ demo'.level \in demo.level + 1 .. Highest
    <3>1. Highest' = Highest
      BY DEF Highest, Rungs
    <3> QED BY <2>6, <3>1 DEF Promise!Next, Promise!Page, live
  <2>7. CASE demo.phase = "running" /\ demo'.phase = "acked" /\ demo'.level = demo.level
    BY <2>7 DEF Promise!Next, Promise!Ack, live
  <2>8. CASE demo.phase \in {"running", "acked"} /\ demo'.phase = "resolved" /\ demo'.level = demo.level
    BY <2>8 DEF Promise!Next, Promise!Resolve, live
  <2> QED BY <1>2, <2>2, <2>3, <2>4, <2>5, <2>6, <2>7, <2>8, StepDemo DEF Way
<1> QED BY <1>1, <1>2, DemoHolds, PTL DEF DemoSpec, SameShape, Promise!Spec

-----------------------------------------------------------------------------
(* A scene is a run of its part: what the parts keep to holds in the instance.              *)
PagesInv == BoardInv /\ DemoInv /\ SiteInv /\ PrefInv

LEMMA SceneSteps ==
    [Next]_pagesVars =>
        [BoardNext]_boardVars /\ [DemoNext]_demoVars /\ [SiteNext]_siteVars /\ [PrefNext]_prefVars
BY DEF Next, pagesVars, InLists, InBoard, InSite, InCard

(* A behaviour of the scenes is one of each part, the others standing still: what holds   *)
(* of every step of a part holds of the scenes.                                       *)
THEOREM PagesAreParts ==
    Spec => /\ BoardInit /\ [][BoardNext]_boardVars
            /\ DemoInit /\ [][DemoNext]_demoVars
            /\ SiteSpec /\ PrefSpec
<1>1. Init => BoardInit /\ DemoInit /\ SiteInit /\ PrefInit
  BY DEF Init
<1> QED BY <1>1, SceneSteps, PTL DEF Spec, SiteSpec, PrefSpec

(* The four parts keep their types. *)
THEOREM PagesAreTyped == Spec => []PagesType
<1>1. Init => PagesInv
  BY InitBoard, InitDemo, InitSite, InitPref DEF Init, PagesInv
<1>2. PagesInv /\ [Next]_pagesVars => PagesInv'
  <2> SUFFICES ASSUME PagesInv, [Next]_pagesVars PROVE PagesInv'
    OBVIOUS
  <2>1. BoardInv' /\ DemoInv'
    BY SceneSteps, StepBoard, StepDemo DEF PagesInv
  <2>2. SiteInv' /\ PrefInv'
    BY SceneSteps, StepSite, StepPref DEF PagesInv
  <2> QED BY <2>1, <2>2 DEF PagesInv
<1>3. PagesInv => PagesType
  BY DemoTypes DEF PagesInv, PagesType, BoardInv, SiteInv, PrefInv
<1> QED BY <1>1, <1>2, <1>3, PTL DEF Spec
============================================================================
