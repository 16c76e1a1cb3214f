-------------------------------- MODULE Site --------------------------------
(***************************************************************************)
(* The documentation site in one tab (docs/src): the address and the page    *)
(* it resolves to, the sidebar, the contents rail with its scroll spy, and    *)
(* an endpoint card with its copy button.                                    *)
(***************************************************************************)
EXTENDS Integers, Sequences, SequencesExt, FiniteSetsExt

CONSTANTS
    Visited,    \* the addresses the reader goes to, as sequences of segments
    MaxCopies   \* bound: copies under way or shown at once

ASSUME SiteAssumption == Visited \subseteq Seq(STRING) /\ MaxCopies \in Nat \ {0}

VARIABLES
    address,   \* the path, whether it ends in a slash, and the fragment
    lang,      \* the language of the provider
    menu,      \* whether the menu of a small screen is open
    band,      \* the sections in the band of the window that the scroll spy watches
    toc,       \* the rail: what it highlights, the sections it observes, a report on its way
    card       \* an endpoint card: open, copied, writes to the clipboard, timers

siteVars == <<address, lang, menu, band, toc, card>>

Nowhere == "nowhere"
Langs == {"vi", "en"}

(* The route table; the ids of a page's sections are those of either language.    *)
Route(path, ids) == [path |-> path, sections |-> [l \in Langs |-> ids], wide |-> FALSE]
routes ==
    {Route(<< >>, <<"loop", "why", "status">>),
     Route(<<"quickstart">>, <<"prereq", "run", "running">>),
     Route(<<"architecture">>, <<"path", "core", "keys", "layout">>),
     [Route(<<"demo">>, <<"demo">>) EXCEPT !.wide = TRUE],
     Route(<<"local-development">>, <<"containers", "wiring", "bug", "poking">>),
     Route(<<"reference">>, <<"endpoints", "data", "slis", "config">>),
     Route(<<"testing">>, <<"tiers", "nonce", "checks", "gaps">>),
     Route(<<"deployment">>, <<"run", "cdk">>),
     Route(<<"decisions">>, <<"ten", "deviations", "slo", "cost", "risks", "roadmap">>)}

NotFound == [path |-> <<"no such page">>, sections |-> [l \in Langs |-> << >>], wide |-> TRUE]

-----------------------------------------------------------------------------
(* App.tsx. *)

(* The root has no slash to lose. *)
normalize(a) == [a EXCEPT !.slash = FALSE]

(* Mutant of PageAt: the address as it stands. *)
PageAtAsIs(a) ==
    IF \E r \in routes : r.path = a.path /\ ~ a.slash
    THEN CHOOSE r \in routes : r.path = a.path ELSE NotFound

(* What Shell shows for an address. *)
PageAt(a) ==
    IF \E r \in routes : r.path = normalize(a).path
    THEN CHOOSE r \in routes : r.path = normalize(a).path ELSE NotFound

Page == PageAt(address)

Sections(page, l) == page.sections[l]
HasToc(page) == ~ page.wide

(* NavLink: the entries of the sidebar that are active; "end" makes the first one exact. *)
Active(a) ==
    {r.path : r \in {s \in routes : IF s.path = << >> THEN a.path = << >>
                                    ELSE IsPrefix(s.path, a.path)}}

-----------------------------------------------------------------------------
(* Toc.tsx. *)

(* When a rail mounts it highlights the first section. *)
Rail(page, l) ==
    [active |-> Sections(page, l)[1], observed |-> Range(Sections(page, l)), report |-> Nowhere]
NoRail == [active |-> Nowhere, observed |-> {}, report |-> Nowhere]

(* What may be in the band: neighbours, as they are on the page, or nothing. *)
Bands(page, l) ==
    LET s == Sections(page, l) IN
    {{}} \union {{s[n] : n \in first .. last} : first \in DOMAIN s, last \in DOMAIN s}

(* The lowest on the page of those that came into the band: each sets the highlight,  *)
(* in the order of the sections, and that one is left.                              *)
Lowest(page, l, entered) ==
    LET s == Sections(page, l) IN s[Max({n \in DOMAIN s : s[n] \in entered})]

(* The observer says what has come in; what has left changes nothing. *)
Reports(rail, page, l, entered) ==
    [rail EXCEPT !.report = IF entered = {} THEN @ ELSE Lowest(page, l, entered)]

(* Mutant of Reobserve: the effect does not depend on the sections. *)
ReobserveNever(page, l, in) == toc

(* The rail stays mounted from page to page, and keeps what it highlights.  The    *)
(* effect observes the sections it has now: all that are in the band are new to it; *)
(* what the observer before has queued is still delivered, ahead of that.          *)
Reobserve(page, l, in) ==
    Reports([toc EXCEPT !.observed = Range(Sections(page, l))], page, l, in)

(* The observer goes on: only changes are reported, so a section that was in the    *)
(* band beside another and is alone there now is not.                              *)
Moved(in) == Reports(toc, Page, lang, (in \intersect toc.observed) \ band)

RailOn(page, l, in) ==
    IF ~ HasToc(page) THEN NoRail
    ELSE IF page = Page /\ l = lang THEN Moved(in)
    ELSE IF HasToc(Page) THEN Reobserve(page, l, in)
    ELSE Reports(Rail(page, l), page, l, in)

(* Between two frames the reader scrolls, resizes the window or opens a card. *)
Scroll(in) ==
    /\ in # band /\ band' = in
    /\ toc' = Moved(in)
    /\ UNCHANGED <<address, lang, menu, card>>

Report ==
    /\ toc.report # Nowhere
    /\ toc' = [toc EXCEPT !.active = toc.report, !.report = Nowhere]
    /\ UNCHANGED <<address, lang, menu, band, card>>

-----------------------------------------------------------------------------
(* EndpointCard.tsx. *)

NewCard == [open |-> TRUE, copied |-> FALSE, writing |-> 0, timers |-> 0]

ToggleCard ==
    /\ card' = [card EXCEPT !.open = ~ @]
    /\ UNCHANGED <<address, lang, menu, band, toc>>

Copy ==
    /\ card.open /\ card.writing + card.timers < MaxCopies
    /\ card' = [card EXCEPT !.writing = @ + 1]
    /\ UNCHANGED <<address, lang, menu, band, toc>>

(* Mutant of Written: one timer is enough, whatever has become of it. *)
WrittenOneTimer == [card EXCEPT !.writing = @ - 1, !.copied = TRUE,
                                !.timers = IF card.copied THEN @ - 1 ELSE @ + 1]

Written == [card EXCEPT !.writing = @ - 1, !.copied = TRUE, !.timers = @ + 1]

(* The clipboard has it, or is blocked. *)
ClipboardAnswers ==
    /\ card.writing > 0
    /\ card' = Written \/ card' = [card EXCEPT !.writing = @ - 1]
    /\ UNCHANGED <<address, lang, menu, band, toc>>

(* Each copy has a timer of its own: an early one ends what a later one shows.      *)
TimerFires ==
    /\ card.timers > 0
    /\ card' = [card EXCEPT !.timers = @ - 1, !.copied = FALSE]
    /\ UNCHANGED <<address, lang, menu, band, toc>>

-----------------------------------------------------------------------------
SiteInit ==
    /\ address \in [path : Visited, slash : BOOLEAN, hash : {Nowhere}]
    /\ lang \in Langs /\ menu = FALSE /\ band = {} /\ card = NewCard
    /\ toc = IF HasToc(Page) THEN Rail(Page, lang) ELSE NoRail

(* Another page: back to the top, where some section may be in the band already;     *)
(* the cards of the page before are gone.                                          *)
GoTo(to) ==
    \E in \in Bands(PageAt(to), lang) :
        /\ address' = to /\ band' = in
        /\ toc' = RailOn(PageAt(to), lang, in)
        /\ card' = IF PageAt(to) = Page THEN card ELSE NewCard
        /\ UNCHANGED lang

At(path, slash) == [path |-> path, slash |-> slash, hash |-> Nowhere]

(* A link of the sidebar, of the menu (which it closes), or the logo and the links   *)
(* in a page (which leave the menu as it is); and an address typed or gone back to.  *)
FollowLink(path) ==
    /\ At(path, FALSE) # address /\ GoTo(At(path, FALSE))
    /\ menu' \in {FALSE, menu}

Enter(path, slash) ==
    /\ At(path, slash) # address /\ GoTo(At(path, slash))
    /\ UNCHANGED menu

ToggleMenu ==
    /\ menu' = ~ menu
    /\ UNCHANGED <<address, lang, band, toc, card>>

(* An entry of the rail: the fragment changes, the browser scrolls to the section as *)
(* far as the page goes, which need not bring it into the band.                     *)
FollowSection(id) ==
    /\ HasToc(Page) /\ address.hash # id
    /\ address' = [address EXCEPT !.hash = id]
    /\ \E in \in Bands(Page, lang) : band' = in /\ toc' = Moved(in)
    /\ UNCHANGED <<lang, menu, card>>

(* The text of the other language is shorter or longer: the band may be elsewhere.    *)
SwitchLang ==
    \E l \in Langs \ {lang} : \E in \in Bands(Page, l) :
        /\ lang' = l /\ band' = in
        /\ toc' = RailOn(Page, l, in)
        /\ UNCHANGED <<address, menu, card>>

SiteNext ==
    \/ \E path \in Visited : FollowLink(path) \/ \E slash \in BOOLEAN : Enter(path, slash)
    \/ \E in \in Bands(Page, lang) : Scroll(in)
    \/ \E id \in Range(Sections(Page, lang)) : FollowSection(id)
    \/ ToggleMenu \/ SwitchLang \/ Report
    \/ ToggleCard \/ Copy \/ ClipboardAnswers \/ TimerFires

SiteSpec == SiteInit /\ [][SiteNext]_siteVars
-----------------------------------------------------------------------------
SiteType ==
    /\ lang \in Langs /\ menu \in BOOLEAN
    /\ band \in Bands(Page, lang)
    /\ toc.observed = IF HasToc(Page) THEN Range(Sections(Page, lang)) ELSE {}
    /\ card.writing + card.timers \in 0 .. MaxCopies

(* The site marks where the reader is.  The sidebar: an address of the table, with or    *)
(* without a trailing slash, shows its page and makes its entry the active one.  The     *)
(* rail: with a section in the band and no report on its way, what it highlights is one  *)
(* of its own entries, whatever page the highlight it kept and the reports of the        *)
(* observer before came from (App.tsx normalize, Sidebar.tsx, Toc.tsx).                  *)
MarksTheReader ==
    /\ \A r \in routes : address.path = r.path => Page = r /\ Active(address) = {r.path}
    /\ HasToc(Page) /\ band # {} /\ toc.report = Nowhere
          => toc.active \in Range(Sections(Page, lang))

(* "Copied" ends: whatever copies and timers overlap, one is left to take it away. *)
CopiedIsTimed == card.copied => card.timers > 0
=============================================================================
