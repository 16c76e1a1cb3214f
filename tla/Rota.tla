-------------------------------- MODULE Rota --------------------------------
(***************************************************************************)
(* The on-call rota: cmd/schedule turns the calendar into SCHED#/SHIFT#     *)
(* items every five minutes, batch by batch, and the notifier asks the      *)
(* items, never the calendar, who is on call.  Days are the unit of time.   *)
(***************************************************************************)
EXTENDS Integers, FiniteSets, FiniteSetsExt

CONSTANTS
    Events,      \* the on-call events that somebody may put on the calendar
    Removable,   \* those that may leave it again
    Overrides,   \* the shifts that somebody may write by hand
    MaxDay,      \* bound: the last day of the clock
    Lookback,    \* how far back sync and notifier look
    Lookahead,   \* how far ahead the sync materializes
    BatchSize,   \* items per BatchWriteItem
    Throttled    \* whether DynamoDB leaves items of a batch unprocessed

(* Day 0 is before anything on the calendar.  An event without a duration is a day  *)
(* long, and a hand-written shift is marked as one.                                *)
ASSUME RotaAssumption ==
    /\ MaxDay \in Nat /\ Lookback \in Nat /\ Lookahead \in Nat
    /\ BatchSize \in Nat \ {0} /\ Throttled \in BOOLEAN
    /\ \A ev \in Events :
          /\ ev.start \in Nat /\ ev.dur \in Nat \ {0} /\ ev.every \in Nat
          /\ ev.until \in Nat /\ ev.count \in Nat
    /\ \A o \in Overrides :
          /\ o.start \in 0 .. MaxDay + Lookahead /\ o.end \in Nat
          /\ o.source = "override"

VARIABLES
    day,        \* the clock
    calendar,   \* the events on the calendar now
    items,      \* per start: the SHIFT# item, or NoShift
    sync,       \* shifts the running sync still has to write, and for what
    good        \* history: day of the last sync that wrote all of this calendar, Never,
                \* or Spoilt from when an event is removed, which no sync makes up for

rotaVars == <<day, calendar, items, sync, good>>

Never == -1
Spoilt == -2
Days == 0 .. MaxDay + Lookahead
FallbackUserID == "admin"
NoShift == [user |-> FallbackUserID, start |-> 0, end |-> 0, source |-> "none"]
IdleSync == [busy |-> FALSE, todo |-> {}, current |-> FALSE, whole |-> FALSE, began |-> 0]

RotaInit ==
    /\ day = 0 /\ calendar = {} /\ good = Never
    /\ items = [s \in Days |-> NoShift]
    /\ sync = IdleSync

-----------------------------------------------------------------------------
(* An event: its user, start and duration, the days between its occurrences (0:  *)
(* it does not recur), UNTIL, and COUNT (0: none).                               *)

ShiftOf(ev, s) == [user |-> ev.user, start |-> s, end |-> s + ev.dur, source |-> "ical"]

(* The first occurrence that could still be in range: how many to jump over.      *)
Skipped(ev, from) ==
    IF ev.start + ev.dur < from THEN (from - (ev.start + ev.dur)) \div ev.every ELSE 0

(* The occurrences of ev that overlap [from, to). *)
Expand(ev, from, to) ==
    LET InRange(s) == s + ev.dur > from /\ s < to
        limit == IF ev.until < to THEN ev.until ELSE to
        first == Skipped(ev, from)
        ks == IF ev.every = 0 THEN {0}
              ELSE {k \in first .. to :
                        /\ ev.start + k * ev.every < limit
                        /\ ev.count > 0 => k < ev.count}
    IN {ShiftOf(ev, s) : s \in {x \in {ev.start + k * ev.every : k \in ks} : InRange(x)}}

(* ParseICS: every occurrence in the window.                                     *)
ParseICS == UNION {Expand(ev, day - Lookback, day + Lookahead) : ev \in calendar}

(* fetch and parse; an error of either leaves the items as they are.             *)
SyncBegins ==
    /\ ~ sync.busy
    /\ sync' = [busy |-> TRUE, todo |-> ParseICS, current |-> TRUE, whole |-> TRUE, began |-> day]
    /\ UNCHANGED <<day, calendar, items, good>>

(* The next batches SortShifts may have put first: the earliest shifts.           *)
Batches ==
    {b \in kSubset(Min({BatchSize, Cardinality(sync.todo)}), sync.todo) :
        \A x \in b, y \in sync.todo \ b : x.start <= y.start}

(* One BatchWriteItem.  DynamoDB refuses a batch that names a key twice, and may  *)
(* leave items unprocessed, which PutShifts does not look at.                    *)
SyncWrites ==
    /\ sync.busy /\ sync.todo # {}
    /\ \E b \in Batches :
          /\ \A x, y \in b : x.start = y.start => x = y
          /\ \E done \in SUBSET b :
                /\ Throttled \/ done = b
                /\ items' = [s \in Days |->
                      IF \E x \in done : x.start = s THEN CHOOSE x \in done : x.start = s
                      ELSE items[s]]
                /\ sync' = [sync EXCEPT !.todo = @ \ b, !.whole = @ /\ done = b]
    /\ UNCHANGED <<day, calendar, good>>

(* A call fails, or the batch is refused: the rest is not written. *)
SyncFails ==
    /\ sync.busy
    /\ sync' = IdleSync
    /\ UNCHANGED <<day, calendar, items, good>>

SyncEnds ==
    /\ sync.busy /\ sync.todo = {}
    /\ good' = IF good # Spoilt /\ sync.current /\ sync.whole THEN sync.began ELSE good
    /\ sync' = IdleSync
    /\ UNCHANGED <<day, calendar, items>>

-----------------------------------------------------------------------------
(* People. *)

CalendarChanges(cal) ==
    /\ calendar' = cal
    /\ sync' = [sync EXCEPT !.current = FALSE]
    /\ UNCHANGED <<day, items>>

AddEvent(ev) ==
    /\ ev \notin calendar /\ CalendarChanges(calendar \union {ev})
    /\ good' = IF good = Spoilt THEN Spoilt ELSE Never

RemoveEvent(ev) ==
    /\ ev \in calendar \intersect Removable /\ CalendarChanges(calendar \ {ev})
    /\ good' = Spoilt

(* Mutant of AddOverride: the sort key is the end of the shift. *)
AddOverrideByEnd(o) ==
    /\ items' = [items EXCEPT ![o.end] = o]
    /\ UNCHANGED <<day, calendar, sync, good>>

(* An override is written on top of the synced shifts, by hand. *)
AddOverride(o) ==
    /\ items' = [items EXCEPT ![o.start] = o]
    /\ UNCHANGED <<day, calendar, sync, good>>

Tomorrow ==
    /\ day < MaxDay
    /\ day' = day + 1
    /\ UNCHANGED <<calendar, items, sync, good>>

-----------------------------------------------------------------------------
(* The notifier's question. *)

(* Mutant of Covers: both ends belong to the shift. *)
CoversClosed(s, t) == s.start <= t /\ t <= s.end

Covers(s, t) == s.start <= t /\ t < s.end

(* The Query of Shifts: by start, from the look-back to t. *)
Shifts(t) == {items[s] : s \in {x \in Days : t - Lookback <= x /\ x <= t}}

(* Mutant of WhoIsOnCall: the earliest-starting shift wins. *)
WhoIsOnCallEarliest(t) ==
    LET covering == {s \in Shifts(t) : Covers(s, t)} IN
    IF covering = {} THEN NoShift
    ELSE CHOOSE s \in covering : \A r \in covering : s.start <= r.start

(* The latest-starting shift in force.  Items differ in their starts, so the      *)
(* code's tie-break for overrides never decides.                                  *)
WhoIsOnCall(t) ==
    LET covering == {s \in Shifts(t) : Covers(s, t)} IN
    IF covering = {} THEN NoShift
    ELSE CHOOSE s \in covering : \A r \in covering : r.start <= s.start

(* Whom the notifier pages: a Query that fails is not an error, it names the admin. *)
OnCall(t, readable) == IF readable THEN WhoIsOnCall(t).user ELSE FallbackUserID

-----------------------------------------------------------------------------
RotaNext ==
    \/ SyncBegins \/ SyncWrites \/ SyncFails \/ SyncEnds \/ Tomorrow
    \/ \E ev \in Events : AddEvent(ev) \/ RemoveEvent(ev)
    \/ \E o \in Overrides : AddOverride(o)

RotaSpec == RotaInit /\ [][RotaNext]_rotaVars

-----------------------------------------------------------------------------
RotaType ==
    /\ day \in 0 .. MaxDay /\ calendar \subseteq Events /\ good \in {Never, Spoilt} \union 0 .. MaxDay
    /\ \A s \in Days : items[s] = NoShift \/ items[s].start = s
    /\ sync.began \in 0 .. day

(* The days an event starts on, read off its rule without a window.  As in RFC    *)
(* 5545, UNTIL may itself be one of them: Expand leaves that one out.            *)
StartDays(ev) ==
    {s \in Days : \E k \in 0 .. s :
        /\ s = ev.start + k * ev.every
        /\ ev.every > 0 => s <= ev.until /\ (ev.count > 0 => k < ev.count)}

NoneStartsAtUntil == \A ev \in calendar : ev.every > 0 => ev.until \notin StartDays(ev)

(* Whom the calendar itself puts on call on day t: the occurrence in force that   *)
(* starts last, and the admin when there is none.                                *)
CalendarSays(t) ==
    LET real == {s \in UNION {{ShiftOf(ev, s) : s \in StartDays(ev)} : ev \in calendar} :
                    s.start <= t /\ t < s.end}
    IN IF real = {} THEN {FallbackUserID}
       ELSE {s.user : s \in {x \in real : \A y \in real : y.start <= x.start}}

(* A start is the key of a shift: two events must not start together.             *)
StartsDiffer ==
    /\ \A a, b \in calendar : a # b => StartDays(a) \intersect StartDays(b) = {}
    /\ \A ev \in calendar, o \in Overrides : o.start \notin StartDays(ev)

OverrideAt(t) == {s \in Shifts(t) : s.source = "override" /\ Covers(s, t)}

(* The page goes to whom the calendar names, up to Lookahead days after the last *)
(* good sync, however many syncs failed since, and wherever (FR-4.1, FR-4.4); only *)
(* when the notifier's own query fails may it go to the admin instead (FR-4.6).   *)
PagesWhomTheCalendarNames ==
    /\ good \notin {Never, Spoilt} /\ day < good + Lookahead
    /\ OverrideAt(day) = {} /\ StartsDiffer /\ NoneStartsAtUntil
    => \A readable \in BOOLEAN :
          \/ OnCall(day, readable) \in CalendarSays(day)
          \/ ~ readable /\ OnCall(day, readable) = FallbackUserID

(* An override that is still there wins over the shift it was written on top of,   *)
(* until the next shift starts (FR-4.5), unless the query fails (FR-4.6).         *)
OverrideWins ==
    \A o \in OverrideAt(day), readable \in BOOLEAN :
        (\A s \in o.start + 1 .. day : items[s] = NoShift) =>
            OnCall(day, readable) = IF readable THEN o.user ELSE FallbackUserID

=============================================================================
