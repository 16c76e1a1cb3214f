----------------------------- MODULE RungProofs -----------------------------
(***************************************************************************)
(* What a rung of the ladder can rest on, for every calendar, every number  *)
(* of attempts and every sequence of deployments: who is paged, when an      *)
(* invocation is killed, what a function may do.                             *)
(***************************************************************************)
EXTENDS MCRung, FiniteSetTheorems, TLAPS

-----------------------------------------------------------------------------
(* Among finitely many starts there is a last one. *)
LEMMA Latest ==
    ASSUME NEW S, S # {}, NEW n \in Nat, \A s \in S : s.start \in 0 .. n
    PROVE  \E s \in S : \A r \in S : r.start <= s.start
<1> DEFINE T == {n - s.start : s \in S}
<1>1. T \subseteq Nat /\ T # {}
  OBVIOUS
<1>2. PICK m \in T : \A y \in T : ~ (<<y, m>> \in OpToRel(<, Nat))
  <2> HIDE DEF T
  <2> QED BY <1>1, NatLessThanWellFounded, WFMin
<1>3. PICK s \in S : m = n - s.start
  BY <1>2
<1>4. ASSUME NEW r \in S PROVE r.start <= s.start
  <2>1. n - r.start \in T /\ n - r.start \in Nat /\ m \in Nat
    BY <1>1, <1>2
  <2>2. ~ (n - r.start < m)
    BY <1>2, <2>1 DEF OpToRel
  <2> QED BY <1>3, <2>1, <2>2
<1> QED BY <1>4

-----------------------------------------------------------------------------
(* What the rota is made of. *)
AllShifts == UNION {{ShiftOf(ev, s) : s \in Days} : ev \in Events}

SyncType ==
    sync \in [busy : BOOLEAN, todo : SUBSET AllShifts, current : BOOLEAN, whole : BOOLEAN, began : Nat]

ItemsType ==
    /\ items = [s \in Days |-> items[s]]
    /\ \A s \in Days : items[s].source \in {"none", "ical", "override"}
    /\ \A s \in Days : items[s].source = "none" => items[s] = NoShift

RotaInv == RotaType /\ SyncType /\ ItemsType /\ good <= day

LEMMA ShiftFacts ==
    ASSUME NEW sh \in AllShifts
    PROVE  /\ sh.start \in Days /\ sh.source = "ical"
           /\ \E ev \in Events : sh = ShiftOf(ev, sh.start)
BY DEF AllShifts, ShiftOf

LEMMA DayFacts ==
    /\ 0 .. MaxDay \subseteq Days /\ Days \subseteq Nat
    /\ \A o \in Overrides : o.start \in Days
BY RotaAssumption DEF Days

LEMMA OneMore ==
    ASSUME NEW a \in Int, NEW b \in Int
    PROVE  (a + 1) * b = a * b + b
OBVIOUS

(* An occurrence of the expansion is one of the rule, within the window. *)
LEMMA ExpandSound ==
    ASSUME NEW ev \in Events, day \in 0 .. MaxDay,
           NEW sh \in Expand(ev, day - Lookback, day + Lookahead)
    PROVE  \E s \in StartDays(ev) : sh = ShiftOf(ev, s)
<1> DEFINE from == day - Lookback
           to == day + Lookahead
           first == Skipped(ev, from)
           limit == IF ev.until < to THEN ev.until ELSE to
           ks == IF ev.every = 0 THEN {0}
                 ELSE {k \in first .. to : ev.start + k * ev.every < limit
                                            /\ (ev.count > 0 => k < ev.count)}
<1>0. /\ ev.start \in Nat /\ ev.dur \in Nat \ {0} /\ ev.every \in Nat /\ ev.until \in Nat
      /\ ev.count \in Nat /\ Lookback \in Nat /\ Lookahead \in Nat /\ MaxDay \in Nat
      /\ to \in Nat /\ to <= MaxDay + Lookahead /\ from \in Int
  BY RotaAssumption
<1>1. limit \in Int /\ limit <= to /\ limit <= ev.until
  BY <1>0
<1>2. ev.every > 0 => first \in Nat
  BY <1>0 DEF Skipped
<1>3. PICK k \in ks : sh = ShiftOf(ev, ev.start + k * ev.every) /\ ev.start + k * ev.every < to
  BY DEF Expand
<1> DEFINE s == ev.start + k * ev.every
<1>4. k \in Nat
  BY <1>0, <1>2, <1>3
<1>5. s \in Nat /\ s \in Days
  BY <1>0, <1>3, <1>4 DEF Days
<1>6. k <= s
  BY <1>0, <1>3, <1>4
<1>7. ev.every > 0 => s <= ev.until /\ (ev.count > 0 => k < ev.count)
  BY <1>0, <1>1, <1>3, <1>5
<1>8. s \in StartDays(ev)
  BY <1>4, <1>5, <1>6, <1>7 DEF StartDays
<1> QED BY <1>3, <1>8

(* And no occurrence of the rule within the window is left out, save one at UNTIL: the *)
(* jump to the first one that could be in range loses none.                          *)
LEMMA ExpandComplete ==
    ASSUME NEW ev \in Events, day \in 0 .. MaxDay, NEW s \in StartDays(ev),
           s + ev.dur > day - Lookback, s < day + Lookahead, ev.every > 0 => s # ev.until
    PROVE  ShiftOf(ev, s) \in Expand(ev, day - Lookback, day + Lookahead)
<1> DEFINE from == day - Lookback
           to == day + Lookahead
           first == Skipped(ev, from)
           limit == IF ev.until < to THEN ev.until ELSE to
<1>0. /\ ev.start \in Nat /\ ev.dur \in Nat \ {0} /\ ev.every \in Nat /\ ev.until \in Nat
      /\ ev.count \in Nat /\ Lookback \in Nat /\ Lookahead \in Nat /\ MaxDay \in Nat
      /\ to \in Nat /\ from \in Int /\ s \in Nat
  BY RotaAssumption, DayFacts DEF StartDays
<1>1. limit \in {to, ev.until}
  BY <1>0
<1>2. PICK k \in 0 .. s :
        /\ s = ev.start + k * ev.every
        /\ ev.every > 0 => s <= ev.until /\ (ev.count > 0 => k < ev.count)
  BY DEF StartDays
<1>3. CASE ev.every = 0
  BY <1>0, <1>2, <1>3 DEF Expand
<1>4. CASE ev.every > 0
  <2>1. first \in Nat /\ (first > 0 => first * ev.every <= from - (ev.start + ev.dur))
    BY <1>0, <1>4 DEF Skipped
  <2>2. first <= k
    <3>1. SUFFICES ASSUME k + 1 <= first PROVE FALSE
      BY <1>0, <1>2, <2>1
    <3>2. (k + 1) * ev.every <= first * ev.every
      BY <1>0, <1>2, <2>1, <3>1
    <3>3. (k + 1) * ev.every = k * ev.every + ev.every
      <4>1. k \in Int /\ ev.every \in Int
        BY <1>0, <1>2
      <4> QED BY <4>1, OneMore
    <3> QED BY <1>0, <1>2, <1>4, <2>1, <3>1, <3>2, <3>3
  <2>3. k \in first .. to /\ s < limit
    <3>1. s < ev.until
      BY <1>0, <1>2, <1>4
    <3> QED BY <1>0, <1>1, <1>2, <1>4, <2>1, <2>2, <3>1
  <2> QED BY <1>0, <1>2, <1>4, <2>3 DEF Expand
<1> QED BY <1>0, <1>3, <1>4

LEMMA ParseFacts ==
    ASSUME RotaInv
    PROVE  /\ ParseICS \subseteq AllShifts
           /\ \A sh \in ParseICS : \E ev \in calendar : \E s \in StartDays(ev) : sh = ShiftOf(ev, s)
<1>1. day \in 0 .. MaxDay /\ calendar \subseteq Events
  BY DEF RotaInv, RotaType
<1>2. \A sh \in ParseICS : \E ev \in calendar : \E s \in StartDays(ev) : sh = ShiftOf(ev, s)
  BY <1>1, ExpandSound DEF ParseICS
<1> QED BY <1>1, <1>2 DEF AllShifts, StartDays

(* The items and what is still to be written are shifts of the calendar, unless an    *)
(* event has been removed.                                                            *)
OfCalendar(sh) == \E ev \in calendar : \E s \in StartDays(ev) : sh = ShiftOf(ev, s)

Honest ==
    good # Spoilt =>
        /\ \A s \in Days : items[s].source = "ical" => OfCalendar(items[s])
        /\ \A sh \in sync.todo : OfCalendar(sh)

(* The occurrences of the calendar that overlap the window of a sync on day d, save   *)
(* those at an UNTIL.                                                                *)
Due(d, sh) ==
    \E ev \in calendar : \E s \in StartDays(ev) :
        /\ sh = ShiftOf(ev, s)
        /\ ev.every > 0 => s # ev.until
        /\ s + ev.dur > d - Lookback /\ s < d + Lookahead

(* A sync that has gone well so far has written what it has no more to write; after a *)
(* good one every occurrence in its window has an item.                              *)
Written ==
    StartsDiffer =>
        /\ sync.busy /\ sync.current /\ sync.whole /\ good # Spoilt =>
              \A sh \in AllShifts : Due(sync.began, sh) => sh \in sync.todo \/ items[sh.start] = sh
        /\ good \notin {Never, Spoilt} => \A sh \in AllShifts : Due(good, sh) => items[sh.start] = sh

WrittenInv == RotaInv /\ Honest /\ Written

LEMMA InitRota == RotaInit => WrittenInv
BY DayFacts, RotaAssumption
   DEF RotaInit, WrittenInv, RotaInv, RotaType, SyncType, ItemsType, Honest, Written, IdleSync, NoShift,
       FallbackUserID, Never, Spoilt, Due

(* Every item, and every shift to write, has its place and its source. *)
LEMMA WriteType ==
    ASSUME RotaInv, NEW done \in SUBSET sync.todo,
           items' = [s \in Days |-> IF \E x \in done : x.start = s
                                    THEN CHOOSE x \in done : x.start = s ELSE items[s]]
    PROVE  /\ ItemsType' /\ \A s \in Days : items'[s] = NoShift \/ items'[s].start = s
           /\ \A s \in Days : items'[s] = items[s] \/ items'[s] \in done
<1>1. \A x \in done : x \in AllShifts
  BY DEF RotaInv, SyncType
<1>2. \A s \in Days : items'[s] = items[s] \/ (items'[s] \in done /\ items'[s].start = s)
  <2> TAKE s \in Days
  <2>1. CASE \E x \in done : x.start = s
    BY <2>1
  <2>2. CASE ~ \E x \in done : x.start = s
    BY <2>2
  <2> QED BY <2>1, <2>2
<1>3. \A x \in done : x.source = "ical"
  BY <1>1, ShiftFacts
<1>4. items' = [s \in Days |-> items'[s]]
  OBVIOUS
<1> QED BY <1>2, <1>3, <1>4 DEF RotaInv, RotaType, ItemsType

LEMMA StepRotaInv ==
    ASSUME RotaInv, [RotaNext]_rotaVars
    PROVE  RotaInv'
<1> USE DEF RotaInv
<1>0. /\ MaxDay \in Nat /\ IdleSync \in [busy : BOOLEAN, todo : SUBSET AllShifts,
                                         current : BOOLEAN, whole : BOOLEAN, began : Nat]
      /\ sync.began \in Nat /\ day \in Nat /\ good \in Int
  BY RotaAssumption DEF IdleSync, RotaType, Never, Spoilt
<1>1. CASE SyncBegins
  <2>1. ParseICS \in SUBSET AllShifts
    BY ParseFacts
  <2>2. sync' = [busy |-> TRUE, todo |-> ParseICS, current |-> TRUE, whole |-> TRUE, began |-> day]
    BY <1>1 DEF SyncBegins
  <2>3. SyncType' /\ sync'.began = day
    BY <1>0, <2>1, <2>2 DEF SyncType
  <2> QED BY <1>0, <1>1, <2>3 DEF SyncBegins, RotaType, ItemsType
<1>2. CASE SyncWrites
  <2>1. PICK b \in Batches : \E done \in SUBSET b :
          /\ items' = [s \in Days |-> IF \E x \in done : x.start = s
                                      THEN CHOOSE x \in done : x.start = s ELSE items[s]]
          /\ sync' = [sync EXCEPT !.todo = @ \ b, !.whole = @ /\ done = b]
    BY <1>2 DEF SyncWrites
  <2>2. PICK done \in SUBSET b :
          /\ items' = [s \in Days |-> IF \E x \in done : x.start = s
                                      THEN CHOOSE x \in done : x.start = s ELSE items[s]]
          /\ sync' = [sync EXCEPT !.todo = @ \ b, !.whole = @ /\ done = b]
    BY <2>1
  <2>3. b \subseteq sync.todo
    BY DEF Batches, kSubset
  <2>4. SyncType' /\ sync'.began = sync.began
    BY <2>2 DEF SyncType
  <2>5. ItemsType' /\ \A s \in Days : items'[s] = NoShift \/ items'[s].start = s
    BY <2>2, <2>3, WriteType
  <2> QED BY <1>2, <2>4, <2>5 DEF SyncWrites, RotaType
<1>3. CASE SyncFails
  BY <1>0, <1>3 DEF SyncFails, SyncType, RotaType, ItemsType, IdleSync
<1>4. CASE SyncEnds
  <2>1. good' \in {Never, Spoilt} \union 0 .. MaxDay /\ good' <= day
    BY <1>0, <1>4 DEF SyncEnds, RotaType
  <2> QED BY <1>0, <1>4, <2>1 DEF SyncEnds, SyncType, RotaType, ItemsType, IdleSync
<1>5. CASE Tomorrow
  BY <1>0, <1>5 DEF Tomorrow, SyncType, RotaType, ItemsType
<1>6. CASE \E ev \in Events : AddEvent(ev) \/ RemoveEvent(ev)
  <2>1. /\ calendar' \subseteq Events /\ good' \in {Never, Spoilt} /\ good' <= day
        /\ sync' = [sync EXCEPT !.current = FALSE] /\ UNCHANGED <<day, items>>
    BY <1>0, <1>6 DEF AddEvent, RemoveEvent, CalendarChanges, RotaType, Never, Spoilt
  <2>2. SyncType' /\ sync'.began = sync.began
    BY <2>1 DEF SyncType
  <2> QED BY <2>1, <2>2 DEF RotaType, ItemsType
<1>7. CASE \E o \in Overrides : AddOverride(o)
  <2>1. PICK o \in Overrides : AddOverride(o)
    BY <1>7
  <2>2. o.start \in Days /\ o.source = "override"
    BY DayFacts, RotaAssumption
  <2>3. /\ items' = [items EXCEPT ![o.start] = o] /\ UNCHANGED <<day, calendar, sync, good>>
    BY <2>1 DEF AddOverride
  <2>4. items' = [s \in Days |-> IF s = o.start THEN o ELSE items[s]]
    BY <2>3 DEF ItemsType
  <2>5. ItemsType'
    BY <2>2, <2>4 DEF ItemsType
  <2> QED BY <2>2, <2>3, <2>4, <2>5 DEF RotaType, SyncType
<1>8. CASE UNCHANGED rotaVars
  BY <1>8 DEF rotaVars, RotaType, SyncType, ItemsType
<1> QED BY <1>1, <1>2, <1>3, <1>4, <1>5, <1>6, <1>7, <1>8 DEF RotaNext

LEMMA StepHonest ==
    ASSUME RotaInv, Honest, [RotaNext]_rotaVars
    PROVE  Honest'
<1>1. CASE SyncBegins
  BY <1>1, ParseFacts DEF SyncBegins, Honest, OfCalendar, StartDays, ShiftOf
<1>2. CASE SyncWrites
  <2>1. PICK b \in Batches : \E done \in SUBSET b :
          /\ items' = [s \in Days |-> IF \E x \in done : x.start = s
                                      THEN CHOOSE x \in done : x.start = s ELSE items[s]]
          /\ sync' = [sync EXCEPT !.todo = @ \ b, !.whole = @ /\ done = b]
    BY <1>2 DEF SyncWrites
  <2>2. PICK done \in SUBSET b :
          /\ items' = [s \in Days |-> IF \E x \in done : x.start = s
                                      THEN CHOOSE x \in done : x.start = s ELSE items[s]]
          /\ sync' = [sync EXCEPT !.todo = @ \ b, !.whole = @ /\ done = b]
    BY <2>1
  <2>3. b \subseteq sync.todo
    BY DEF Batches, kSubset
  <2>4. \A s \in Days : items'[s] = items[s] \/ items'[s] \in sync.todo
    BY <2>2, <2>3, WriteType
  <2>5. sync'.todo \subseteq sync.todo /\ UNCHANGED <<calendar, good>>
    BY <1>2, <2>2 DEF SyncWrites, RotaInv, SyncType
  <2> QED BY <2>4, <2>5 DEF Honest, OfCalendar
<1>3. CASE SyncFails
  BY <1>3 DEF SyncFails, IdleSync, Honest, OfCalendar
<1>4. CASE SyncEnds
  BY <1>4 DEF SyncEnds, IdleSync, Honest, OfCalendar
<1>5. CASE Tomorrow
  BY <1>5 DEF Tomorrow, Honest, OfCalendar
<1>6. CASE \E ev \in Events : AddEvent(ev) \/ RemoveEvent(ev)
  <2>1. good' # Spoilt => good # Spoilt /\ calendar \subseteq calendar'
    BY <1>6 DEF AddEvent, RemoveEvent, CalendarChanges
  <2>2. items' = items /\ sync' = [sync EXCEPT !.current = FALSE]
    BY <1>6 DEF AddEvent, RemoveEvent, CalendarChanges
  <2>3. sync'.todo = sync.todo
    BY <2>2 DEF RotaInv, SyncType
  <2> QED BY <2>1, <2>2, <2>3 DEF Honest, OfCalendar
<1>7. CASE \E o \in Overrides : AddOverride(o)
  <2>1. PICK o \in Overrides : AddOverride(o)
    BY <1>7
  <2>2. o.start \in Days /\ o.source = "override"
    BY DayFacts, RotaAssumption
  <2>3. \A s \in Days : items'[s] = IF s = o.start THEN o ELSE items[s]
    BY <2>1 DEF AddOverride, RotaInv, ItemsType
  <2> QED BY <2>1, <2>2, <2>3 DEF AddOverride, Honest, OfCalendar
<1>8. CASE UNCHANGED rotaVars
  BY <1>8 DEF rotaVars, Honest, OfCalendar
<1> QED BY <1>1, <1>2, <1>3, <1>4, <1>5, <1>6, <1>7, <1>8 DEF RotaNext

(* While no two events start together, a start tells which shift it is. *)
LEMMA OneShiftPerStart ==
    ASSUME StartsDiffer, NEW x, NEW y, OfCalendar(x), OfCalendar(y), x.start = y.start
    PROVE  x = y
<1>1. PICK a \in calendar : \E s \in StartDays(a) : x = ShiftOf(a, s)
  BY DEF OfCalendar
<1>2. PICK b \in calendar : \E s \in StartDays(b) : y = ShiftOf(b, s)
  BY DEF OfCalendar
<1>3. x.start \in StartDays(a) /\ x = ShiftOf(a, x.start)
  BY <1>1 DEF ShiftOf
<1>4. y.start \in StartDays(b) /\ y = ShiftOf(b, y.start)
  BY <1>2 DEF ShiftOf
<1>5. a = b
  BY <1>3, <1>4 DEF StartsDiffer
<1> QED BY <1>3, <1>4, <1>5

LEMMA DueIsOfCalendar ==
    ASSUME NEW d, NEW sh, Due(d, sh)
    PROVE  OfCalendar(sh) /\ \E ev \in calendar : sh.start \in StartDays(ev)
BY DEF Due, OfCalendar, ShiftOf

LEMMA StepWritten ==
    ASSUME WrittenInv, [RotaNext]_rotaVars
    PROVE  Written'
<1> USE DEF WrittenInv
<1>1. CASE SyncBegins
  <2>1. /\ sync' = [busy |-> TRUE, todo |-> ParseICS, current |-> TRUE, whole |-> TRUE, began |-> day]
        /\ UNCHANGED <<day, calendar, items, good>>
    BY <1>1 DEF SyncBegins
  <2>2. sync'.todo = ParseICS /\ sync'.began = day
    BY <2>1
  <2>3. ASSUME NEW sh \in AllShifts, Due(day, sh) PROVE sh \in ParseICS
    <3>1. PICK ev \in calendar :
            \E s \in StartDays(ev) :
                /\ sh = ShiftOf(ev, s) /\ (ev.every > 0 => s # ev.until)
                /\ s + ev.dur > day - Lookback /\ s < day + Lookahead
      BY <2>3 DEF Due
    <3>2. sh \in Expand(ev, day - Lookback, day + Lookahead)
      BY <3>1, ExpandComplete DEF RotaInv, RotaType
    <3> QED BY <3>2 DEF ParseICS
  <2>4. \A sh \in AllShifts : Due(sync.began, sh)' => sh \in sync'.todo
    BY <2>1, <2>2, <2>3 DEF Due
  <2>5. \A sh : Due(good, sh)' => Due(good, sh)
    BY <2>1 DEF Due
  <2> QED BY <2>1, <2>4, <2>5 DEF Written, StartsDiffer
<1>2. CASE SyncWrites
  <2>1. PICK b \in Batches :
          /\ \A x, y \in b : x.start = y.start => x = y
          /\ \E done \in SUBSET b :
                /\ items' = [s \in Days |-> IF \E x \in done : x.start = s
                                            THEN CHOOSE x \in done : x.start = s ELSE items[s]]
                /\ sync' = [sync EXCEPT !.todo = @ \ b, !.whole = @ /\ done = b]
    BY <1>2 DEF SyncWrites
  <2>2. PICK done \in SUBSET b :
          /\ items' = [s \in Days |-> IF \E x \in done : x.start = s
                                      THEN CHOOSE x \in done : x.start = s ELSE items[s]]
          /\ sync' = [sync EXCEPT !.todo = @ \ b, !.whole = @ /\ done = b]
    BY <2>1
  <2>3. b \subseteq sync.todo
    BY DEF Batches, kSubset
  <2>4. /\ sync'.todo = sync.todo \ b /\ sync'.whole = (sync.whole /\ done = b)
        /\ sync'.busy = sync.busy /\ sync'.current = sync.current /\ sync'.began = sync.began
        /\ UNCHANGED <<day, calendar, good>>
    BY <1>2, <2>2 DEF SyncWrites, RotaInv, SyncType
  <2>5. ASSUME good # Spoilt, StartsDiffer, NEW sh \in AllShifts, OfCalendar(sh), items[sh.start] = sh
        PROVE  items'[sh.start] = sh
    <3>1. \A x \in done : x.start = sh.start => x = sh
      BY <2>3, <2>5, OneShiftPerStart DEF Honest
    <3> QED BY <2>2, <2>5, <3>1, ShiftFacts
  <2>6. ASSUME NEW sh \in b, done = b PROVE items'[sh.start] = sh
    <3>1. sh \in AllShifts
      BY <2>3 DEF RotaInv, SyncType
    <3>2. sh.start \in Days
      BY <3>1, ShiftFacts
    <3>3. \A x \in done : x.start = sh.start => x = sh
      BY <2>1
    <3> QED BY <2>2, <2>6, <3>2, <3>3
  <2>7. SUFFICES ASSUME StartsDiffer, good # Spoilt,
                        NEW d, NEW sh \in AllShifts, Due(d, sh)
                 PROVE  /\ items[sh.start] = sh => items'[sh.start] = sh
                        /\ sh \in b /\ done = b => items'[sh.start] = sh
    <3>1. \A d, sh : Due(d, sh)' => Due(d, sh)
      BY <2>4 DEF Due
    <3>2. StartsDiffer' = StartsDiffer
      BY <2>4 DEF StartsDiffer
    <3> QED BY <2>4, <2>7, <3>1, <3>2 DEF Written, Due
  <2> QED BY <2>5, <2>6, <2>7, DueIsOfCalendar
<1>3. CASE SyncFails
  BY <1>3 DEF SyncFails, IdleSync, Written, Due, StartsDiffer
<1>4. CASE SyncEnds
  BY <1>4 DEF SyncEnds, IdleSync, Written, Due, StartsDiffer
<1>5. CASE Tomorrow
  BY <1>5 DEF Tomorrow, Written, Due, StartsDiffer
<1>6. CASE \E ev \in Events : AddEvent(ev) \/ RemoveEvent(ev)
  <2>1. good' \in {Never, Spoilt} /\ sync' = [sync EXCEPT !.current = FALSE]
    BY <1>6 DEF AddEvent, RemoveEvent, CalendarChanges
  <2>2. ~ sync'.current
    BY <2>1 DEF RotaInv, SyncType
  <2> QED BY <2>1, <2>2 DEF Written
<1>7. CASE \E o \in Overrides : AddOverride(o)
  <2>1. PICK o \in Overrides : AddOverride(o)
    BY <1>7
  <2>2. UNCHANGED <<day, calendar, sync, good>>
    BY <2>1 DEF AddOverride
  <2>3. ASSUME StartsDiffer, NEW d, NEW sh \in AllShifts, Due(d, sh)
        PROVE  items'[sh.start] = items[sh.start]
    BY <2>1, <2>3, DueIsOfCalendar, ShiftFacts DEF AddOverride, RotaInv, ItemsType, StartsDiffer
  <2>4. StartsDiffer' = StartsDiffer
    BY <2>2 DEF StartsDiffer
  <2>5. \A d, sh : Due(d, sh)' => Due(d, sh)
    BY <2>2 DEF Due
  <2> QED BY <2>2, <2>3, <2>4, <2>5 DEF Written, Due
<1>8. CASE UNCHANGED rotaVars
  BY <1>8 DEF rotaVars, Written, Due, StartsDiffer
<1> QED BY <1>1, <1>2, <1>3, <1>4, <1>5, <1>6, <1>7, <1>8 DEF RotaNext

THEOREM RotaIsWritten == RotaSpec => []WrittenInv
<1>1. WrittenInv /\ [RotaNext]_rotaVars => WrittenInv'
  BY StepRotaInv, StepHonest, StepWritten DEF WrittenInv
<1> QED BY InitRota, <1>1, PTL DEF RotaSpec

(* A hand-written shift that covers today, with no later start since, is what the     *)
(* notifier is told when its query succeeds; the admin is paged when it does not.     *)
THEOREM OverridesWin == RotaSpec => []OverrideWins
<1>1. ASSUME WrittenInv PROVE OverrideWins
  <2>0. RotaType /\ ItemsType /\ day \in Nat
    BY <1>1, RotaAssumption DEF WrittenInv, RotaInv, RotaType
  <2>1. SUFFICES ASSUME NEW o \in OverrideAt(day),
                        \A s \in o.start + 1 .. day : items[s] = NoShift
                 PROVE  WhoIsOnCall(day) = o
    BY DEF OverrideWins, OnCall
  <2> DEFINE covering == {s \in Shifts(day) : Covers(s, day)}
  <2>2. ASSUME NEW r \in covering PROVE r.start \in 0 .. day /\ r = items[r.start]
    <3>1. PICK s \in Days : r = items[s] /\ s <= day
      BY DEF Shifts
    <3>2. r # NoShift
      BY <2>0, <2>2 DEF Covers, NoShift
    <3> QED BY <2>0, <3>1, <3>2, DayFacts DEF RotaType
  <2>3. o \in covering
    BY DEF OverrideAt
  <2>4. \A r \in covering : r.start <= o.start
    <3>1. SUFFICES ASSUME NEW r \in covering, r.start > o.start PROVE FALSE
      BY <2>2, <2>3
    <3>2. r = NoShift
      BY <2>1, <2>2, <2>3, <3>1
    <3> QED BY <2>0, <3>2 DEF Covers, NoShift
  <2>5. \A r \in covering : o.start <= r.start => r = o
    BY <2>2, <2>3, <2>4
  <2>6. WhoIsOnCall(day) = CHOOSE s \in covering : \A r \in covering : r.start <= s.start
    BY <2>3 DEF WhoIsOnCall
  <2>7. WhoIsOnCall(day) = o
    <3> HIDE DEF covering
    <3> QED BY <2>3, <2>4, <2>5, <2>6
  <2> QED BY <2>7
<1> QED BY <1>1, RotaIsWritten, PTL

(* The notifier's query begins Lookback days ago: it cannot find a shift that started  *)
(* before that and still lasts.                                                       *)
ShiftsFit == \A ev \in Events : ev.dur <= Lookback

THEOREM CalendarIsPaged ==
    ASSUME ShiftsFit PROVE RotaSpec => []PagesWhomTheCalendarNames
<1>1. ASSUME WrittenInv PROVE PagesWhomTheCalendarNames
  <2>0. /\ RotaType /\ ItemsType /\ day \in Nat /\ day \in 0 .. MaxDay /\ MaxDay \in Nat
        /\ Lookback \in Nat /\ Lookahead \in Nat /\ calendar \subseteq Events
        /\ good \in Int /\ good <= day
    BY <1>1, RotaAssumption DEF WrittenInv, RotaInv, RotaType, Never, Spoilt
  <2>1. SUFFICES ASSUME good \notin {Never, Spoilt}, day < good + Lookahead,
                        OverrideAt(day) = {}, StartsDiffer, NoneStartsAtUntil
                 PROVE  WhoIsOnCall(day).user \in CalendarSays(day)
    BY DEF PagesWhomTheCalendarNames, OnCall
  <2> DEFINE covering == {s \in Shifts(day) : Covers(s, day)}
             real == {s \in UNION {{ShiftOf(ev, s) : s \in StartDays(ev)} : ev \in calendar} :
                         s.start <= day /\ day < s.end}
  <2>2. ASSUME NEW r \in covering PROVE r \in real
    <3>1. PICK s \in Days : r = items[s]
      BY DEF Shifts
    <3>2. r.source = "ical"
      <4>1. r # NoShift
        BY <2>0, <2>2 DEF Covers, NoShift
      <4>2. r.source # "override"
        BY <2>1, <2>2 DEF OverrideAt
      <4> QED BY <2>0, <3>1, <4>1, <4>2 DEF ItemsType
    <3>3. OfCalendar(r)
      BY <1>1, <2>1, <3>1, <3>2 DEF WrittenInv, Honest
    <3> QED BY <2>2, <3>3 DEF OfCalendar, Covers
  <2>3. ASSUME NEW r \in real PROVE r \in covering
    <3>1. PICK ev \in calendar : \E s \in StartDays(ev) : r = ShiftOf(ev, s)
      OBVIOUS
    <3>2. PICK s \in StartDays(ev) : r = ShiftOf(ev, s)
      BY <3>1
    <3>3. /\ s \in Days /\ s \in Nat /\ ev \in Events /\ ev.dur \in Nat /\ ev.dur <= Lookback
          /\ s <= day /\ day < s + ev.dur /\ r.start = s
      BY <2>0, <2>3, <3>2, RotaAssumption, DayFacts DEF StartDays, ShiftOf, ShiftsFit
    <3>4. Due(good, r)
      BY <2>0, <2>1, <3>2, <3>3 DEF Due, NoneStartsAtUntil
    <3>5. items[s] = r
      BY <1>1, <2>0, <2>1, <3>2, <3>3, <3>4 DEF WrittenInv, Written, AllShifts
    <3>6. day - Lookback <= s /\ s <= day
      BY <2>0, <3>3
    <3> QED BY <2>3, <3>3, <3>5, <3>6 DEF Shifts, Covers
  <2>4. covering = real
    BY <2>2, <2>3
  <2>5. CASE real = {}
    BY <2>4, <2>5 DEF WhoIsOnCall, CalendarSays, NoShift
  <2>6. CASE real # {}
    <3>1. \A s \in real : s.start \in 0 .. MaxDay + Lookahead
      BY DEF StartDays, ShiftOf, Days
    <3>2. WhoIsOnCall(day) = CHOOSE s \in real : \A r \in real : r.start <= s.start
      BY <2>4, <2>6 DEF WhoIsOnCall
    <3>3. CalendarSays(day) = {s.user : s \in {x \in real : \A y \in real : y.start <= x.start}}
      BY <2>6 DEF CalendarSays
    <3>4. MaxDay + Lookahead \in Nat
      BY <2>0
    <3> HIDE DEF real
    <3>5. \E s \in real : \A r \in real : r.start <= s.start
      BY <2>6, <3>1, <3>4, Latest
    <3>6. WhoIsOnCall(day) \in {x \in real : \A y \in real : y.start <= x.start}
      BY <3>2, <3>5
    <3> QED BY <3>3, <3>6
  <2> QED BY <2>5, <2>6
<1> QED BY <1>1, RotaIsWritten, PTL

-----------------------------------------------------------------------------
(* The Telegram calls of one invocation: how many are over, and how much of its time  *)
(* the pauses can have cost.  Two pauses are the one after the last attempt but one    *)
(* and the one before it, and so on: n * (n - 1) halves.                               *)
Whole == IF caller = "notify" THEN 1 ELSE 2
Over == Whole - Len(calls)
Times(d, x) == IF d = 0 THEN 0 ELSE IF d = 1 THEN x ELSE 2 * x
Pauses(n) == n * (n - 1)

Methods == {"sendMessage", "editMessageText", "answerCallbackQuery"}

Spent(pauses) == 2 * elapsed <= 2 * MaxPrelude + 2 * took + pauses

ClientBounds ==
    /\ ClientType /\ calls \in Seq(Methods) /\ Len(calls) <= Whole
    /\ Pending => Len(calls) >= 1 /\ Spent(Times(Over, Pauses(attempts)) + Pauses(attempt))
    /\ result \in {"ok", "failed"} => Spent(Times(Over, Pauses(attempts)))

LEMMA PauseFacts ==
    ASSUME NEW a \in Nat, NEW b \in Nat, a <= b
    PROVE  /\ Pauses(a) \in Int /\ Pauses(a + 1) = Pauses(a) + 2 * a
           /\ Pauses(1) = 0 /\ (a >= 1 => Pauses(a) <= Pauses(b))
<1>1. /\ Pauses(a) \in Int /\ Pauses(1) = 0
  BY DEF Pauses
<1>2. (a + 1) * a = a * (a - 1) + 2 * a
  OBVIOUS
<1>3. Pauses(a + 1) = Pauses(a) + 2 * a
  BY <1>2 DEF Pauses
<1>4. ASSUME a >= 1 PROVE a * (a - 1) <= b * (b - 1)
  BY <1>4
<1> QED BY <1>1, <1>3, <1>4 DEF Pauses

LEMMA OverFacts ==
    ASSUME ClientBounds, Len(calls) >= 1
    PROVE  /\ Len(calls) \in Nat /\ Len(calls) <= Whole /\ calls # << >>
           /\ Whole \in {1, 2} /\ (caller = "notify" => Whole = 1)
           /\ Over \in {0, 1} /\ (caller = "notify" => Over = 0)
<1>1. Len(calls) \in Nat /\ Len(calls) <= Whole
  BY DEF ClientBounds
<1>2. Whole \in {1, 2} /\ (caller = "notify" => Whole = 1)
  BY DEF Whole
<1> QED BY <1>1, <1>2 DEF Over

LEMMA InitClient == ClientInit => ClientBounds
<1> SUFFICES ASSUME ClientInit PROVE ClientBounds
  OBVIOUS
<1>1. /\ caller \in {"notify", "callback"} /\ attempt = 1 /\ took = 0 /\ result = "pending"
      /\ attempts \in Nat \ {0} /\ HttpTimeout \in Nat /\ elapsed \in Nat /\ MaxPrelude \in Nat
      /\ elapsed <= MaxPrelude
  BY ClientAssumption DEF ClientInit
<1>2. calls = IF caller = "notify" THEN <<"sendMessage">> ELSE <<"editMessageText", "answerCallbackQuery">>
  BY DEF ClientInit, CallsOf
<1>3. calls \in Seq(Methods) /\ Len(calls) = Whole
  <2>1. ASSUME NEW S, NEW x \in S, NEW y \in S PROVE <<x>> \in Seq(S) /\ <<x, y>> \in Seq(S)
    OBVIOUS
  <2>2. /\ "sendMessage" \in Methods /\ "editMessageText" \in Methods
        /\ "answerCallbackQuery" \in Methods
    BY DEF Methods
  <2>3. Len(<<"sendMessage">>) = 1 /\ Len(<<"editMessageText", "answerCallbackQuery">>) = 2
    OBVIOUS
  <2>4. CASE caller = "notify"
    BY <1>2, <2>1, <2>2, <2>3, <2>4 DEF Whole
  <2>5. CASE caller = "callback"
    BY <1>2, <2>1, <2>2, <2>3, <2>5 DEF Whole
  <2> QED BY <1>1, <2>4, <2>5
<1>4. Over = 0 /\ Whole \in {1, 2} /\ Pauses(1) = 0
  BY <1>3 DEF Over, Whole, Pauses
<1> QED BY <1>1, <1>3, <1>4 DEF ClientBounds, ClientType, Spent, Times, Pending

(* An attempt that ends in whatever way: the time and the pause are accounted for. *)
LEMMA StepAttempt ==
    ASSUME ClientBounds, NEW time \in 0 .. HttpTimeout, NEW how \in {"ok", "failed", "pending"},
           how = "pending" => attempt < attempts, AttemptEnds(time, how)
    PROVE  /\ ClientBounds'
           /\ result' = "killed" =>
                 /\ 2 * elapsed' <= 2 * MaxPrelude + 2 * took'
                                     + (Times(Over, Pauses(attempts)) + Pauses(attempts))
                 /\ elapsed' >= Deadline /\ Over \in {0, 1} /\ (caller = "notify" => Over = 0)
<1> DEFINE pause == IF how = "pending" THEN attempt ELSE 0
           all  == Pauses(attempts)
           over == Times(Over, all)
           now  == Pauses(attempt)
<1>0. /\ attempts \in Nat \ {0} /\ HttpTimeout \in Nat /\ MaxPrelude \in Nat /\ time \in Nat
      /\ elapsed \in Nat /\ took \in Nat /\ took <= elapsed /\ attempt \in Nat
      /\ attempt \in 1 .. attempts /\ Pending /\ caller' = caller
  BY ClientAssumption DEF ClientBounds, ClientType, AttemptEnds
<1>1. /\ Len(calls) \in Nat /\ Len(calls) >= 1 /\ Len(calls) <= Whole /\ Whole \in {1, 2}
      /\ (caller = "notify" => Whole = 1) /\ Over \in {0, 1} /\ (caller = "notify" => Over = 0)
  <2>1. Len(calls) >= 1
    BY <1>0 DEF ClientBounds
  <2> QED BY <2>1, OverFacts
<1>2. /\ elapsed' = elapsed + time + pause /\ took' = took + time
      /\ result' = IF elapsed' >= Deadline THEN "killed" ELSE how
      /\ attempt' = IF result' = "pending" THEN attempt + 1 ELSE attempt
      /\ calls' = IF result' \in {"ok", "failed"} THEN Tail(calls) ELSE calls
  BY DEF AttemptEnds, Pause
<1>3. /\ now \in Int /\ all \in Int /\ Pauses(attempt + 1) = now + 2 * attempt /\ now <= all
      /\ (attempt < attempts => Pauses(attempt + 1) <= all)
  <2>1. /\ attempts \in Nat /\ attempt <= attempts /\ attempt >= 1 /\ attempt + 1 \in Nat
        /\ (attempt < attempts => attempt + 1 <= attempts) /\ attempts <= attempts /\ attempt + 1 >= 1
    BY <1>0
  <2>2. now \in Int /\ Pauses(attempt + 1) = now + 2 * attempt /\ now <= all
    BY <1>0, <2>1, PauseFacts
  <2>3. all \in Int
    BY <2>1, PauseFacts
  <2>4. attempt < attempts => Pauses(attempt + 1) <= all
    BY <2>1, PauseFacts
  <2> QED BY <2>2, <2>3, <2>4
<1>4. over \in Int /\ Times(Over + 1, all) = over + all
  <2> HIDE DEF all
  <2> QED BY <1>1, <1>3 DEF Times
<1>5. 2 * elapsed <= 2 * MaxPrelude + 2 * took + (over + now)
  BY <1>0 DEF ClientBounds, Spent
<1>6. pause \in Nat /\ (how # "pending" => pause = 0) /\ (how = "pending" => pause = attempt)
  BY <1>0
<1>7. how = "pending" => 2 * elapsed' <= 2 * MaxPrelude + 2 * took' + (over + Pauses(attempt + 1))
  <2> HIDE DEF over, now, all, pause
  <2> QED BY <1>0, <1>2, <1>3, <1>4, <1>5, <1>6
<1>13. 2 * elapsed' <= 2 * MaxPrelude + 2 * took' + (over + all)
  <2> HIDE DEF over, now, all, pause
  <2> QED BY <1>0, <1>2, <1>3, <1>4, <1>5, <1>6
<1>8. /\ elapsed' \in Nat /\ took' \in 0 .. elapsed' /\ attempt' \in 1 .. attempts
      /\ result' \in {"pending", "ok", "failed", "killed"}
  <2> HIDE DEF pause
  <2> QED BY <1>0, <1>2, <1>6
<1>9. /\ ClientType' /\ calls' \in Seq(Methods) /\ Len(calls') <= Whole /\ Whole' = Whole
  <2>1. calls \in Seq(Methods) /\ calls # << >>
    BY <1>1 DEF ClientBounds
  <2>2. Tail(calls) \in Seq(Methods) /\ Len(Tail(calls)) = Len(calls) - 1
    BY <2>1
  <2> QED BY <1>0, <1>1, <1>2, <1>8, <2>1, <2>2 DEF ClientBounds, ClientType, Whole
<1>10. CASE result' = "pending"
  <2>1. calls' = calls /\ attempt' = attempt + 1 /\ how = "pending" /\ Over' = Over
    BY <1>2, <1>9, <1>10 DEF Over
  <2>2. Spent(Times(Over, Pauses(attempts)) + Pauses(attempt))'
    BY <1>7, <2>1 DEF Spent
  <2>3. ClientBounds'
    BY <1>1, <1>9, <1>10, <2>1, <2>2 DEF ClientBounds, Pending
  <2> QED BY <1>10, <2>3
<1>11. CASE result' \in {"ok", "failed"}
  <2>1. calls \in Seq(Methods) /\ calls # << >>
    BY <1>1 DEF ClientBounds
  <2>2. Len(calls') = Len(calls) - 1
    BY <1>2, <1>11, <2>1
  <2>3. Over' = Over + 1
    BY <1>1, <1>9, <2>2 DEF Over
  <2>4. Spent(Times(Over, Pauses(attempts)))'
    BY <1>4, <1>13, <2>3 DEF Spent
  <2>5. ClientBounds'
    BY <1>9, <1>11, <2>4 DEF ClientBounds, Pending
  <2> QED BY <1>11, <2>5
<1>12. CASE result' = "killed"
  <2>1. ClientBounds' /\ Over' = Over
    BY <1>2, <1>9, <1>12 DEF ClientBounds, Pending, Over
  <2>2. elapsed' >= Deadline
    BY <1>2, <1>12
  <2> QED BY <1>1, <1>13, <2>1, <2>2
<1> QED BY <1>8, <1>10, <1>11, <1>12

(* The ways an attempt can end. *)
LEMMA Outcomes ==
    ASSUME ClientType, NEW time, Succeeds(time) \/ Refused(time) \/ Errs(time)
    PROVE  \E how \in {"ok", "failed", "pending"} :
              AttemptEnds(time, how) /\ (how = "pending" => attempt < attempts)
BY DEF Succeeds, Refused, Errs

LEMMA StepClient ==
    ASSUME ClientBounds, [ClientNext]_clientVars
    PROVE  ClientBounds'
<1>0. /\ attempts \in Nat \ {0} /\ MaxPrelude \in Nat /\ elapsed \in Nat /\ took \in 0 .. elapsed
  BY ClientAssumption DEF ClientBounds, ClientType
<1>1. CASE NextCall
  <2>1. /\ Len(calls) >= 1 /\ attempt' = 1 /\ result' = "pending" /\ result \in {"ok", "failed"}
        /\ UNCHANGED <<caller, calls, elapsed, took>>
    BY <1>1 DEF NextCall, ClientBounds
  <2>2. Over' = Over /\ Whole' = Whole /\ Pauses(1) = 0
    BY <2>1 DEF Over, Whole, Pauses
  <2>3. Spent(Times(Over, Pauses(attempts)))
    BY <2>1 DEF ClientBounds
  <2>4. Over \in {0, 1} /\ Pauses(attempts) \in Int
    BY <1>0, <2>1, OverFacts, PauseFacts
  <2>5. Times(Over, Pauses(attempts)) \in Int
    BY <2>4 DEF Times
  <2>6. Spent(Times(Over, Pauses(attempts)) + Pauses(attempt))'
    BY <1>0, <2>1, <2>2, <2>3, <2>5 DEF Spent
  <2> QED BY <1>0, <2>1, <2>2, <2>6 DEF ClientBounds, ClientType, Pending
<1>2. CASE \E time \in 0 .. HttpTimeout : Succeeds(time) \/ Refused(time) \/ Errs(time)
  BY <1>2, Outcomes, StepAttempt DEF ClientBounds
<1>3. CASE UNCHANGED clientVars
  BY <1>3 DEF clientVars, ClientBounds, ClientType, Pending, Over, Whole, Spent
<1> QED BY <1>1, <1>2, <1>3 DEF ClientNext

THEOREM ClientIsBounded == ClientSpec => []ClientBounds
<1>1. ClientBounds /\ [ClientNext]_clientVars => ClientBounds'
  BY StepClient
<1> QED BY InitClient, <1>1, PTL DEF ClientSpec

(* The time-outs leave room, beside the pauses, for all but the last attempt of the    *)
(* notifier to take their whole time, and for one of the callback's.                  *)
TimeoutsFit ==
    /\ 2 * (MaxPrelude + HttpTimeout * (attempts - 1)) + Pauses(attempts) < 4 * Timeout("notify")
    /\ MaxPrelude + HttpTimeout + Pauses(attempts) < 2 * Timeout("callback")

(* What the bound says when the pauses leave room for most. *)
LEMMA Left ==
    ASSUME NEW e \in Int, NEW p \in Int, NEW t \in Int, NEW x \in Int, NEW limit \in Int,
           NEW most \in Int, 2 * e <= 2 * p + 2 * t + x, e >= limit, 2 * (p + most) + x < 2 * limit
    PROVE  t > most
OBVIOUS

LEMMA StepKilled ==
    ASSUME TimeoutsFit, ClientBounds, KilledOnlyByWaiting, [ClientNext]_clientVars
    PROVE  KilledOnlyByWaiting'
<1>1. ASSUME NEW time \in 0 .. HttpTimeout, NEW how \in {"ok", "failed", "pending"},
             how = "pending" => attempt < attempts, AttemptEnds(time, how)
      PROVE  KilledOnlyByWaiting'
  <2> DEFINE most == HttpTimeout * (attempts - 1)
             all  == Pauses(attempts)
             over == Times(Over, all)
  <2>1. SUFFICES ASSUME result' = "killed"
                 PROVE  took' > HttpTimeout * (IF caller = "notify" THEN attempts - 1 ELSE 1)
    BY <1>1 DEF KilledOnlyByWaiting, AttemptEnds
  <2>2. /\ 2 * elapsed' <= 2 * MaxPrelude + 2 * took' + (over + all)
        /\ elapsed' >= Deadline /\ Over \in {0, 1} /\ (caller = "notify" => Over = 0)
    BY <1>1, <2>1, StepAttempt
  <2>3. elapsed' \in Nat /\ took' \in Nat
    <3>1. ClientType'
      BY <1>1, StepAttempt DEF ClientBounds
    <3> QED BY <3>1 DEF ClientType
  <2>4. /\ attempts \in Nat \ {0} /\ HttpTimeout \in Nat /\ MaxPrelude \in Nat
        /\ caller \in {"notify", "callback"}
    BY ClientAssumption DEF ClientBounds, ClientType
  <2>5. all \in Int /\ all >= 0
    <3>1. attempts \in Nat /\ attempts - 1 \in Nat
      BY <2>4
    <3> QED BY <3>1 DEF Pauses
  <2>6. most \in Nat
    <3>1. attempts - 1 \in Nat /\ HttpTimeout \in Nat
      BY <2>4
    <3> QED BY <3>1
  <2>7. /\ 2 * (MaxPrelude + most) + all < 4 * 20 /\ MaxPrelude + HttpTimeout + all < 2 * 15
        /\ Timeout("notify") = 20 /\ Timeout("callback") = 15
    <3>1. Timeout("notify") = 20 /\ Timeout("callback") = 15
      BY DEF Timeout
    <3> QED BY <3>1 DEF TimeoutsFit
  <2>8. CASE caller = "notify"
    <3>1. over = 0 /\ elapsed' >= 40
      BY <2>2, <2>7, <2>8 DEF Times, Deadline
    <3>2. took' > most
      <4>1. /\ 2 * (MaxPrelude + most) + (over + all) < 2 * 40 /\ over + all \in Int
            /\ elapsed' \in Int /\ took' \in Int /\ MaxPrelude \in Int /\ most \in Int
        BY <2>3, <2>4, <2>5, <2>6, <2>7, <3>1
      <4> HIDE DEF most, all, over
      <4> QED BY <2>2, <3>1, <4>1, Left
    <3> QED BY <2>8, <3>2
  <2>9. CASE caller = "callback"
    <3>1. over \in Int /\ over <= all /\ elapsed' >= 30
      BY <2>2, <2>5, <2>7, <2>9 DEF Times, Deadline
    <3>2. took' > HttpTimeout
      <4>1. /\ 2 * (MaxPrelude + HttpTimeout) + (over + all) < 2 * 30 /\ over + all \in Int
            /\ elapsed' \in Int /\ took' \in Int /\ MaxPrelude \in Int /\ HttpTimeout \in Int
        <5> HIDE DEF most, all, over
        <5> QED BY <2>3, <2>4, <2>5, <2>7, <3>1
      <4> HIDE DEF most, all, over
      <4> QED BY <2>2, <3>1, <4>1, Left
    <3> QED BY <2>4, <2>9, <3>2
  <2> QED BY <2>4, <2>8, <2>9
<1>2. CASE NextCall \/ UNCHANGED clientVars
  BY <1>2 DEF NextCall, clientVars, KilledOnlyByWaiting
<1>3. CASE \E time \in 0 .. HttpTimeout : Succeeds(time) \/ Refused(time) \/ Errs(time)
  BY <1>1, <1>3, Outcomes DEF ClientBounds
<1> QED BY <1>2, <1>3 DEF ClientNext

(* However often it is refused or has to try again, the notifier is killed only when    *)
(* Telegram took more time than all its attempts but one can take, and the callback     *)
(* only when it took more than one attempt can.                                        *)
THEOREM FailuresAreRetried ==
    ASSUME TimeoutsFit PROVE ClientSpec => []KilledOnlyByWaiting
<1>1. ClientInit => KilledOnlyByWaiting
  BY DEF ClientInit, KilledOnlyByWaiting
<1>2. ClientBounds /\ KilledOnlyByWaiting /\ [ClientNext]_clientVars => KilledOnlyByWaiting'
  BY StepKilled
<1> QED BY <1>1, <1>2, ClientIsBounded, PTL DEF ClientSpec

-----------------------------------------------------------------------------
(* The stack: what a function may do, and what its handler does. *)
Allowed(f) == Outside \union Grants(f)

DeployInv ==
    /\ DeployType
    /\ inv \in [fn : Functions \union {"none"}, calls : {inv.calls}, end : Ends]
    /\ inv.end = "busy" => inv.calls \in Seq(Allowed(inv.fn)) /\ inv.calls # << >>
    /\ NeverDenied /\ LocalStarts

LEMMA Tuples ==
    ASSUME NEW S, NEW a \in S, NEW b \in S, NEW c \in S, NEW d \in S, NEW e \in S, NEW f \in S,
           NEW g \in S, NEW h \in S, NEW i \in S
    PROVE  /\ <<a>> \in Seq(S) /\ <<a, b>> \in Seq(S) /\ <<a, b, c, d, e, f>> \in Seq(S)
           /\ <<a, b, c, d, e, f, g>> \in Seq(S) /\ <<a, b, c, d, e, f, g, h>> \in Seq(S)
           /\ <<a, b, c, d, e, f, g, h, i>> \in Seq(S)
OBVIOUS

LEMMA NonEmpty ==
    ASSUME NEW S, NEW s \in Seq(S), Len(s) # 0
    PROVE  s # << >>
OBVIOUS

(* A handler makes no call, on any of its ways, that its role was not granted. *)
LEMMA WaysAllowed ==
    ASSUME NEW f \in Functions, NEW way \in Ways(f)
    PROVE  way \in Seq(Allowed(f)) /\ way # << >>
<1> DEFINE S == Allowed(f)
<1>1. CASE f = "ingest"
  <2>1. "SendMessage" \in S /\ way = <<"SendMessage">>
    BY <1>1 DEF Ways, Allowed, Grants
  <2> QED BY <2>1, Tuples
<1>2. CASE f = "status"
  <2>1. "Query" \in S /\ way = [n \in 1 .. 7 |-> "Query"]
    BY <1>2 DEF Ways, Allowed, Grants, ReadData
  <2>2. way \in Seq(S)
    BY <2>1
  <2>3. Len(way) # 0
    BY <2>1
  <2>4. way # << >>
    BY <2>2, <2>3, NonEmpty
  <2> QED BY <2>2, <2>4
<1>3. CASE f = "notify"
  <2>1. {"GetItem", "Query", "Telegram", "UpdateItem", "PutItem"} \subseteq S
    BY <1>3 DEF Allowed, Grants, Outside, ReadData, ReadWriteData
  <2>2. way = <<"GetItem", "Query", "GetItem", "Query", "GetItem", "Telegram", "UpdateItem", "PutItem">>
    BY <1>3 DEF Ways
  <2> QED BY <2>1, <2>2, Tuples
<1>4. CASE f = "processor"
  <2>1. {"ReceiveMessage", "GetItem", "PutItem", "StartExecution", "StopExecution", "UpdateItem",
         "DeleteItem", "DeleteMessage"} \subseteq S
    BY <1>4 DEF Allowed, Grants, ReadData, ReadWriteData
  <2>2. way \in {<<"ReceiveMessage", "PutItem", "PutItem", "PutItem", "PutItem", "StartExecution",
                   "UpdateItem", "PutItem", "DeleteMessage">>,
                 <<"ReceiveMessage", "PutItem", "GetItem", "UpdateItem", "PutItem", "DeleteMessage">>,
                 <<"ReceiveMessage", "GetItem", "UpdateItem", "DeleteItem", "StopExecution", "PutItem",
                   "DeleteMessage">>}
    BY <1>4 DEF Ways
  <2>3. CASE way = <<"ReceiveMessage", "PutItem", "PutItem", "PutItem", "PutItem", "StartExecution",
                     "UpdateItem", "PutItem", "DeleteMessage">>
    BY <2>1, <2>3, Tuples
  <2>4. CASE way = <<"ReceiveMessage", "PutItem", "GetItem", "UpdateItem", "PutItem", "DeleteMessage">>
    BY <2>1, <2>4, Tuples
  <2>5. CASE way = <<"ReceiveMessage", "GetItem", "UpdateItem", "DeleteItem", "StopExecution", "PutItem",
                     "DeleteMessage">>
    BY <2>1, <2>5, Tuples
  <2> QED BY <2>2, <2>3, <2>4, <2>5
<1>5. CASE f = "callback"
  <2>1. {"GetItem", "PutItem", "UpdateItem", "DeleteItem", "StopExecution", "Telegram"} \subseteq S
    BY <1>5 DEF Allowed, Grants, Outside, ReadData, ReadWriteData
  <2>2. way \in {<<"UpdateItem", "GetItem", "PutItem", "StopExecution", "Telegram", "Telegram">>,
                 <<"UpdateItem", "DeleteItem", "PutItem", "StopExecution", "Telegram", "Telegram">>}
    BY <1>5 DEF Ways
  <2>3. CASE way = <<"UpdateItem", "GetItem", "PutItem", "StopExecution", "Telegram", "Telegram">>
    BY <2>1, <2>3, Tuples
  <2>4. CASE way = <<"UpdateItem", "DeleteItem", "PutItem", "StopExecution", "Telegram", "Telegram">>
    BY <2>1, <2>4, Tuples
  <2> QED BY <2>2, <2>3, <2>4
<1>6. CASE f = "schedule"
  <2>1. {"Calendar", "BatchWriteItem"} \subseteq S /\ way = <<"Calendar", "BatchWriteItem">>
    BY <1>6 DEF Ways, Allowed, Grants, Outside, ReadWriteData
  <2> QED BY <2>1, Tuples
<1> QED BY <1>1, <1>2, <1>3, <1>4, <1>5, <1>6 DEF Functions

(* Every variable that a function insists on has a value in the local environment. *)
LEMMA LocalProvides ==
    ASSUME NEW f \in Functions
    PROVE  Required(f) \subseteq Provided("local", f)
<1>1. ASSUME NEW n, NEW s, <<n, s>> \in Environment(f), s \in EnvConfig("local") \union {"stack"}
      PROVE  n \in Provided("local", f)
  <2>1. <<n, s>>[1] = n /\ <<n, s>>[2] = s
    OBVIOUS
  <2> QED BY <1>1, <2>1 DEF Provided
<1>2. {"stack", "integrationKeys", "telegramApiBaseUrl", "telegramBotToken", "telegramWebhookSecret",
       "icalUrl", "scheduleId"} \subseteq EnvConfig("local") \union {"stack"}
  BY DEF EnvConfig
<1>3. CASE f = "ingest"
  BY <1>1, <1>2, <1>3 DEF Required, Environment
<1>4. CASE f = "status"
  BY <1>1, <1>2, <1>4 DEF Required, Environment
<1>5. CASE f = "notify"
  BY <1>1, <1>2, <1>5 DEF Required, Environment
<1>6. CASE f = "processor"
  BY <1>1, <1>2, <1>6 DEF Required, Environment
<1>7. CASE f = "callback"
  BY <1>1, <1>2, <1>7 DEF Required, Environment
<1>8. CASE f = "schedule"
  BY <1>1, <1>2, <1>8 DEF Required, Environment
<1> QED BY <1>3, <1>4, <1>5, <1>6, <1>7, <1>8 DEF Functions

LEMMA InitDeploy == DeployInit => DeployInv
<1> SUFFICES ASSUME DeployInit PROVE DeployInv
  OBVIOUS
<1>1. DeployType /\ NeverDenied /\ LocalStarts
  <2>1. site = FALSE
    BY DEF DeployInit
  <2>2. site \in BOOLEAN
    BY <2>1, Zenon
  <2> QED BY <2>2, DeploymentAssumption DEF DeployInit, DeployType, NeverDenied, LocalStarts, Idle, Ends
<1>3. inv = Idle
  BY DEF DeployInit
<1>4. inv \in [fn : Functions \union {"none"}, calls : {inv.calls}, end : Ends] /\ inv.end # "busy"
  BY <1>3 DEF Idle, Ends
<1> QED BY <1>1, <1>4 DEF DeployInv

LEMMA StepDeploy ==
    ASSUME DeployInv, [DeployNext]_deployVars
    PROVE  DeployInv'
<1> USE DEF DeployInv
<1>0. MaxDeploys \in Nat /\ deploys \in Nat /\ env \in {"local", "prod"}
  BY DeploymentAssumption DEF DeployType
<1>1. CASE Deploy
  <2>1. /\ stack' = "up" /\ deploys' = deploys + 1 /\ deploys < MaxDeploys
        /\ site' = FALSE /\ UNCHANGED <<env, inv>>
        /\ kept' = kept \union {<<"table", TableName>>, <<"bucket", BucketName>>}
    BY <1>1 DEF Deploy
  <2>2. /\ \A n : <<"table", n>>[1] = "table" /\ <<"table", n>>[2] = n
        /\ \A n : <<"bucket", n>>[1] = "bucket" /\ <<"bucket", n>>[2] = n
    OBVIOUS
  <2>3. \A r \in kept' : r[1] \in {"table", "bucket"}
    BY <2>1, <2>2 DEF DeployType
  <2>8. DeployType' /\ NeverDenied' /\ LocalStarts'
    <3>1. site' = FALSE
      BY <2>1
    <3>2. site' \in BOOLEAN
      BY <3>1, Zenon
    <3> QED BY <1>0, <2>1, <2>3, <3>2 DEF DeployType, NeverDenied, LocalStarts
  <2> QED BY <2>1, <2>8
<1>2. CASE Destroy
  <2>1. /\ inv' = Idle /\ stack' \in {"gone", "stuck"} /\ kept' \subseteq kept
        /\ UNCHANGED <<env, deploys, site>>
    BY <1>2 DEF Destroy
  <2> QED BY <2>1 DEF DeployType, NeverDenied, LocalStarts, Idle, Ends
<1>3. CASE Call
  <2> DEFINE call == Head(inv.calls)
  <2>1. call \in Allowed(inv.fn) /\ inv.calls \in Seq(Allowed(inv.fn)) /\ inv.calls # << >>
    BY <1>3 DEF Call
  <2>2. ~ Denied(call)
    BY <2>1 DEF Denied, Allowed
  <2>3. /\ inv' = IF Len(inv.calls) = 1 THEN [inv EXCEPT !.calls = << >>, !.end = "ok"]
                  ELSE [inv EXCEPT !.calls = Tail(inv.calls)]
        /\ UNCHANGED <<env, stack, deploys, site, kept>> /\ inv.end = "busy"
    BY <1>3, <2>2 DEF Call, Ended
  <2>4. CASE Len(inv.calls) = 1
    BY <2>3, <2>4 DEF DeployType, NeverDenied, LocalStarts, Ends
  <2>5. CASE Len(inv.calls) # 1
    <3>1. Len(inv.calls) \in Nat /\ Len(inv.calls) >= 1
      BY <2>1
    <3>2. Tail(inv.calls) \in Seq(Allowed(inv.fn)) /\ Len(Tail(inv.calls)) = Len(inv.calls) - 1
      BY <2>1
    <3>3. Tail(inv.calls) # << >>
      <4>1. Len(Tail(inv.calls)) # 0
        BY <2>5, <3>1, <3>2
      <4> QED BY <3>2, <4>1, NonEmpty
    <3>4. inv'.fn = inv.fn /\ inv'.calls = Tail(inv.calls) /\ inv'.end = "busy"
      BY <2>3, <2>5
    <3>5. inv' \in [fn : Functions \union {"none"}, calls : {inv'.calls}, end : Ends]
      BY <2>3, <2>5, <3>4
    <3> QED BY <2>3, <3>2, <3>3, <3>4, <3>5 DEF DeployType, NeverDenied, LocalStarts, Ends
  <2> QED BY <2>4, <2>5
<1>4. CASE \E f \in Functions : Invoke(f)
  <2>1. PICK f \in Functions : Invoke(f)
    BY <1>4
  <2>2. PICK way \in Ways(f) :
          inv' = [fn |-> f, calls |-> IF Starts(f) THEN way ELSE << >>,
                  end |-> IF Starts(f) THEN "busy" ELSE "crashed"]
    BY <2>1 DEF Invoke
  <2>3. UNCHANGED <<env, stack, deploys, site, kept>>
    BY <2>1 DEF Invoke
  <2>4. env = "local" => Starts(f)
    BY LocalProvides DEF Starts
  <2>5. inv'.fn = f /\ (inv'.end = "busy" => inv'.calls = way) /\ inv'.end \in {"busy", "crashed"}
    BY <2>2
  <2>6. inv' \in [fn : Functions \union {"none"}, calls : {inv'.calls}, end : Ends]
    BY <2>2, <2>5 DEF Ends
  <2>7. env = "local" => inv'.end = "busy"
    BY <2>2, <2>4
  <2> QED BY <2>3, <2>5, <2>6, <2>7, WaysAllowed DEF DeployType, NeverDenied, LocalStarts, Ends
<1>5. CASE PublishSite
  BY <1>5 DEF PublishSite, DeployType, NeverDenied, LocalStarts
<1>6. CASE Wipe
  BY <1>6 DEF Wipe, DeployType, NeverDenied, LocalStarts, Idle, Ends
<1>7. CASE UNCHANGED deployVars
  BY <1>7 DEF deployVars, DeployType, NeverDenied, LocalStarts
<1> QED BY <1>1, <1>2, <1>3, <1>4, <1>5, <1>6, <1>7 DEF DeployNext

THEOREM DeployIsTyped == DeploySpec => []DeployInv
<1>1. DeployInv /\ [DeployNext]_deployVars => DeployInv'
  BY StepDeploy
<1> QED BY InitDeploy, <1>1, PTL DEF DeploySpec

(* No call of a handler is refused for want of a permission. *)
THEOREM GrantsSuffice == DeploySpec => []NeverDenied
<1>1. DeployInv => NeverDenied
  BY DEF DeployInv
<1> QED BY <1>1, DeployIsTyped, PTL

(* Locally, no function lacks a variable that its main insists on. *)
THEOREM LocalFunctionsStart == DeploySpec => []LocalStarts
<1>1. DeployInv => LocalStarts
  BY DEF DeployInv
<1> QED BY <1>1, DeployIsTyped, PTL

-----------------------------------------------------------------------------
(* A behaviour of the scenes is one of each part, the others standing still: what      *)
(* holds of a part holds of the scenes.                                               *)
THEOREM ScenesAreParts == Spec => RotaSpec /\ ClientSpec /\ DeploySpec
<1>1. Init => RotaInit /\ ClientInit /\ DeployInit
  BY DEF Init
<1>2. [Next]_rungVars => [RotaNext]_rotaVars /\ [ClientNext]_clientVars /\ [DeployNext]_deployVars
  BY DEF Next, rungVars, rotaVars, clientVars, deployVars
<1> QED BY <1>1, <1>2, PTL DEF Spec, RotaSpec, ClientSpec, DeploySpec

(* The three parts keep their types. *)
THEOREM RungIsTyped == Spec => []RungType
<1>1. WrittenInv /\ ClientBounds /\ DeployInv => RungType
  BY DEF WrittenInv, RotaInv, ClientBounds, DeployInv, RungType
<1> QED BY <1>1, ScenesAreParts, RotaIsWritten, ClientIsBounded, DeployIsTyped, PTL
=============================================================================
