----------------------------- MODULE Preferences -----------------------------
(***************************************************************************)
(* What a reader chooses on the two sites: theme, language and environment,  *)
(* kept by the component in each tab, on the <html> element and in the       *)
(* browser's storage, which all tabs share and which may be blocked.         *)
(***************************************************************************)
EXTENDS Naturals

CONSTANTS
    Tabs,         \* tabs of one browser on one site
    MaxChoices    \* bound: choices made in all

ASSUME PreferencesAssumption == MaxChoices \in Nat

(* The keys of the storage and what may be chosen for each. *)
Themes == {"light", "dark"}
LANGS == {"vi", "en"}
ENVS == {"local", "aws", "docs"}
Keys == {"theme", "lang", "env"}
Values(k) == CASE k = "theme" -> Themes [] k = "lang" -> LANGS [] k = "env" -> ENVS
Unset == "unset"

VARIABLES
    storage,   \* per key what is stored, or Unset
    blocked,   \* whether the browser lets the site at its storage
    system,    \* the browser's own preferences: its palette and its language
    tab,       \* tab[t]: what tab t keeps and shows
    choices,   \* choices made
    last       \* history: per key the last choice that could be stored

prefVars == <<storage, blocked, system, tab, choices, last>>

(* A tab: closed, loaded or mounted; the state of the providers and the toggle;   *)
(* the attributes of <html>.                                                     *)
Closed ==
    [at |-> "closed",
     state |-> [k \in Keys |-> Unset],
     html |-> [k \in {"theme", "lang"} |-> Unset]]

PrefInit ==
    /\ storage = [k \in Keys |-> Unset] /\ last = storage
    /\ blocked \in BOOLEAN
    /\ system \in [theme : Themes, lang : LANGS]
    /\ tab = [t \in Tabs |-> Closed]
    /\ choices = 0

-----------------------------------------------------------------------------
(* Reading; storage that is blocked throws, which counts as nothing stored. *)
Stored(k) == IF blocked THEN Unset ELSE storage[k]

Else(value, default) == IF value = Unset THEN default ELSE value

storedTheme == Stored("theme")
systemTheme == system.theme

(* Mutant of initTheme: light, unless something else was stored. *)
initThemeLight == Else(storedTheme, "light")

(* initTheme, when the toggle renders for the first time. *)
initTheme == Else(storedTheme, systemTheme)

(* Mutant of EnvProvider: the choice is stored, and not read. *)
EnvProviderLocal == "local"

(* The first value of a provider's state. *)
LangProvider == Else(Stored("lang"), system.lang)
EnvProvider == Else(Stored("env"), "local")

Initial == [theme |-> initTheme, lang |-> LangProvider, env |-> EnvProvider]

(* The tab loads: the script of index.html runs, ahead of React. *)
Load(t) ==
    /\ tab[t].at = "closed"
    /\ tab' = [tab EXCEPT ![t].at = "loaded",
                          ![t].html = [theme |-> storedTheme, lang |-> Stored("lang")]]
    /\ UNCHANGED <<storage, blocked, system, choices, last>>

(* The first render; the effect that names the language follows it. *)
Render(t) ==
    /\ tab[t].at = "loaded"
    /\ tab' = [tab EXCEPT ![t].at = "mounted", ![t].state = Initial,
                          ![t].html.theme = initTheme]
    /\ UNCHANGED <<storage, blocked, system, choices, last>>

LangEffect(t) ==
    /\ tab[t].at = "mounted" /\ tab[t].html.lang # tab[t].state.lang
    /\ tab' = [tab EXCEPT ![t].html.lang = tab[t].state.lang]
    /\ UNCHANGED <<storage, blocked, system, choices, last>>

-----------------------------------------------------------------------------
(* Choosing: it is applied, and stored if the storage lets it. *)

Remember(k, v) ==
    /\ storage' = IF blocked THEN storage ELSE [storage EXCEPT ![k] = v]
    /\ last' = IF blocked THEN last ELSE [last EXCEPT ![k] = v]

Chooses(t) == tab[t].at = "mounted" /\ choices < MaxChoices /\ choices' = choices + 1

(* With the state of the toggle that called it. *)
applyTheme(t, theme) ==
    tab' = [tab EXCEPT ![t].html.theme = theme, ![t].state.theme = theme]

ThemeToggle(t) ==
    LET next == IF tab[t].state.theme = "dark" THEN "light" ELSE "dark" IN
    /\ Chooses(t)
    /\ applyTheme(t, next)
    /\ Remember("theme", next)
    /\ UNCHANGED <<blocked, system>>

setLang(t, l) ==
    /\ Chooses(t)
    /\ tab' = [tab EXCEPT ![t].state.lang = l]
    /\ Remember("lang", l)
    /\ UNCHANGED <<blocked, system>>

setEnv(t, e) ==
    /\ Chooses(t)
    /\ tab' = [tab EXCEPT ![t].state.env = e]
    /\ Remember("env", e)
    /\ UNCHANGED <<blocked, system>>

(* The reader closes the tab, or reloads it, or lets the site at its storage. *)
Close(t) ==
    /\ tab[t].at # "closed"
    /\ tab' = [tab EXCEPT ![t] = Closed]
    /\ UNCHANGED <<storage, blocked, system, choices, last>>

BlockOrUnblock ==
    /\ blocked' = ~ blocked
    /\ UNCHANGED <<storage, system, tab, choices, last>>

PrefNext ==
    \/ BlockOrUnblock
    \/ \E t \in Tabs :
          \/ Load(t) \/ Render(t) \/ LangEffect(t) \/ Close(t) \/ ThemeToggle(t)
          \/ \E l \in LANGS : setLang(t, l)
          \/ \E e \in ENVS : setEnv(t, e)

PrefSpec == PrefInit /\ [][PrefNext]_prefVars
-----------------------------------------------------------------------------
(* What a tab looks like: the style sheet asks the browser when <html> says nothing. *)
Palette(t) == Else(tab[t].html.theme, system.theme)

(* Types; and a tab shows the theme its toggle thinks it shows. *)
PrefType ==
    /\ \A k \in Keys : storage[k] \in Values(k) \union {Unset}
    /\ blocked \in BOOLEAN /\ choices \in 0 .. MaxChoices
    /\ \A t \in Tabs : tab[t].at = "mounted" =>
          /\ \A k \in Keys : tab[t].state[k] \in Values(k)
          /\ Palette(t) = tab[t].state.theme

(* The choice follows the reader (env.tsx, theme.ts): a tab that is loaded later starts *)
(* with the last choice of any tab that could be stored.                             *)
ChoiceFollows ==
    [][\A t \in Tabs, k \in Keys :
          Render(t) /\ ~ blocked /\ last[k] # Unset => tab'[t].state[k] = last[k]]_prefVars

(* No flash of the wrong palette (index.html, theme.ts): mounting changes it only if    *)
(* another tab chose, or the storage was unblocked, since this one loaded.            *)
NoFlash ==
    [][\A t \in Tabs :
          Render(t) /\ tab[t].html.theme = storedTheme => Palette(t)' = Palette(t)]_prefVars
=============================================================================
