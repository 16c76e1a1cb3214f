------------------------------- MODULE Status -------------------------------
(***************************************************************************)
(* The status endpoint (cmd/status): what it reads of the table through     *)
(* GSI1 and the SLO rollups, query by query, while incidents move on, and    *)
(* what it makes of it.  Rates are counts, targets are per mille.           *)
(***************************************************************************)
EXTENDS Integers, SequencesExt

CONSTANTS
    Incidents,     \* the incidents there may be, as naturals
    Severity,      \* the severity of each
    Standing,      \* the sets of them that may be open from before
    Loads,         \* requests that may be under way at once
    Rollups,       \* what the SLO#/DAY# items may hold: per SLI and day the counts
    Today,         \* the day this is, days counted from some day before the window
    SLIWindowDays, \* length of the rolling window
    Limit,         \* recentIncidentLimit
    MaxTime        \* bound: how often incidents move, once a second

ASSUME StatusAssumption ==
    /\ Incidents \subseteq Nat /\ IsFiniteSet(Incidents)
    /\ Standing \subseteq SUBSET Incidents /\ Today \in Nat /\ MaxTime \in Nat
    /\ SLIWindowDays \in Nat \ {0} /\ Limit \in Nat \ {0}

VARIABLES
    time,      \* the wall clock, as far as stamps go
    index,     \* index[i]: the item of incident i, as GSI1 comes to show it
    past,      \* past[i]: the items it had before that a query may still find
    rollups,   \* the counts of each SLI and day
    request    \* request[l]: the invocation that serves load l

statusVars == <<time, index, past, rollups, request>>

None == -1

(* SLIDefinitions: targets in per mille, in the order of the board. *)
SLIDefinitions ==
    <<[key |-> "ingest_availability",    target |-> 999],
      [key |-> "notification_latency",   target |-> 990],
      [key |-> "delivery_success",       target |-> 995],
      [key |-> "escalation_correctness", target |-> 990]>>

(* Every indicator has its two counts for every day of the window. *)
ASSUME CountsAssumption ==
    \A r \in Rollups, n \in DOMAIN SLIDefinitions, date \in Today - SLIWindowDays .. Today :
        LET day == r[SLIDefinitions[n].key][date]
        IN day.good \in Nat /\ day.total \in Nat

-----------------------------------------------------------------------------
(* internal/domain/status.go. *)

Round(a, b) == (2 * a + b) \div (2 * b)

(* The sum of a count over the days, and the sums on the way to it. *)
Sums(counts) ==
    LET sum[n \in 0 .. Len(counts)] == IF n = 0 THEN 0 ELSE sum[n - 1] + counts[n] IN sum
Total(counts) == Sums(counts)[Len(counts)]

WindowSeconds == SLIWindowDays * 24 * 60 * 60
Smaller(a, b) == IF a <= b THEN a ELSE b

(* The time the failures have eaten, clamped to the budget. *)
Consumed(bad, total, budget) ==
    IF total = 0 THEN 0 ELSE Smaller(budget, Round(WindowSeconds * bad, total))

BuildSLIStatus(def, days) ==
    LET good  == Total([n \in DOMAIN days |-> days[n].good])
        total == Total([n \in DOMAIN days |-> days[n].total])
        budget == Round(WindowSeconds * (1000 - def.target), 1000)
        consumed == Consumed(total - good, total, budget)
    IN [key |-> def.key, target |-> def.target, days |-> days,
        meeting |-> total = 0 \/ good * 1000 >= def.target * total,
        budget |-> [total |-> budget, remaining |-> budget - consumed,
                    percent |-> Round(consumed * 1000, budget)]]

(* "down", when a critical incident is open, whatever the averages say. *)
OverallHealth(active, slis) ==
    IF \E i \in DOMAIN active : active[i].severity = "critical" THEN "down"
    ELSE IF active # << >> \/ \E s \in DOMAIN slis : ~ slis[s].meeting THEN "degraded"
    ELSE "operational"

(* meanOver: over the incidents that have the time asked for. *)
MeanTimeTo(at(_), incidents) ==
    LET timed == {n \in DOMAIN incidents : at(incidents[n]) # None}
        took(n) == at(incidents[n]) - incidents[n].started
    IN [size |-> Cardinality(timed),
        seconds |-> IF timed = {} THEN 0 ELSE MapThenSumSet(took, timed) \div Cardinality(timed)]

-----------------------------------------------------------------------------
(* internal/adapter/dynamox/board.go. *)

(* Both bounds belong to the window. *)
DailyCounts(key) ==
    [n \in 1 .. SLIWindowDays + 1 |->
        LET date == Today - SLIWindowDays + n - 1 IN
        [date |-> date, good |-> rollups[key][date].good, total |-> rollups[key][date].total]]

(* Mutant of SortKey: an incident is sorted by its start for good. *)
SortKeyStarted(i) == i.started

(* gsi1sk: when it closed if it closed, when it started if not. *)
SortKey(i) == IF i.state = "resolved" THEN i.resolved ELSE i.started

Newer(a, b) == SortKey(a) > SortKey(b) \/ (SortKey(a) = SortKey(b) /\ a.id < b.id)

(* The first of a set, the newest ahead. *)
IsNewest(s, found) ==
    /\ \A m, n \in DOMAIN s : m < n => Newer(s[m], s[n])
    /\ \A x \in found \ Range(s), n \in DOMAIN s : Newer(s[n], x)

(* GSI1 lags behind the table: what one query may find of each incident. *)
Seen(i) == {index[i]} \cup past[i]
Views == {view \in [Incidents -> UNION {Seen(i) : i \in Incidents}] :
             \A i \in Incidents : view[i] \in Seen(i)}

(* The newest of a state, at most Limit of them. *)
IncidentsByState(state, view) ==
    LET found == {view[i] : i \in {j \in Incidents : view[j].state = state}}
    IN CHOOSE s \in [1 .. Smaller(Limit, Cardinality(found)) -> found] : IsNewest(s, found)

(* The indicators of the board. *)
SLIs == [n \in DOMAIN SLIDefinitions |->
            BuildSLIStatus(SLIDefinitions[n], DailyCounts(SLIDefinitions[n].key))]

-----------------------------------------------------------------------------
(* The table, written by the processor and the callback. *)

NoIncident(i) == [id |-> i, state |-> "none", severity |-> Severity[i],
                  started |-> None, acked |-> None, resolved |-> None]

(* What a request has in hand; throughout: the incidents that GSI1 showed as open  *)
(* when it was first asked, and that have not been resolved since.                *)
NoAnswer == [status |-> 0]
Idle == [query |-> 0, active |-> << >>, throughout |-> {}, answer |-> NoAnswer]

IsOpen(i) == index[i].state \in {"firing", "acked"}
OpenNow == {i \in Incidents : IsOpen(i)}
Settled(i) == past[i] = {}

StatusInit ==
    /\ time = 0
    /\ \E open \in Standing :
          index = [i \in Incidents |->
                     IF i \in open THEN [NoIncident(i) EXCEPT !.state = "firing", !.started = 0]
                     ELSE NoIncident(i)]
    /\ past = [i \in Incidents |-> {}]
    /\ rollups \in Rollups
    /\ request = [l \in Loads |-> Idle]

Moves(i) ==
    /\ time < MaxTime /\ time' = time + 1
    /\ past' = [past EXCEPT ![i] = @ \cup {index[i]}]
    /\ UNCHANGED rollups

Opens(i) ==
    /\ index[i].state = "none" /\ Moves(i)
    /\ index' = [index EXCEPT ![i].state = "firing", ![i].started = time']
    /\ UNCHANGED request

Acks(i) ==
    /\ index[i].state = "firing" /\ Moves(i)
    /\ index' = [index EXCEPT ![i].state = "acked", ![i].acked = time']
    /\ UNCHANGED request

Resolves(i) ==
    /\ IsOpen(i) /\ Moves(i)
    /\ index' = [index EXCEPT ![i].state = "resolved", ![i].resolved = time']
    /\ request' = [l \in Loads |-> [request[l] EXCEPT !.throughout = @ \ {i}]]

(* GSI1 has caught up with an incident. *)
Propagates(i) ==
    /\ ~ Settled(i)
    /\ past' = [past EXCEPT ![i] = {}]
    /\ UNCHANGED <<time, index, rollups, request>>

-----------------------------------------------------------------------------
(* handler.handle.  The queries of the SLIs read what no step of a run changes:  *)
(* they are part of the first step.                                             *)

Begin == [Idle EXCEPT !.query = 1]

(* Mutant of OpenStates: acked before firing. *)
OpenStatesBackwards == <<"acked", "firing">>

(* The states of an open incident, in the order they are asked for. *)
OpenStates == <<"firing", "acked">>

Watched(l) ==
    IF request[l].query = 1 THEN {i \in OpenNow : Settled(i)} ELSE request[l].throughout

QueryOpen(l) ==
    /\ request[l].query \in DOMAIN OpenStates
    /\ \E view \in Views :
          request' = [request EXCEPT
              ![l].active = @ \o IncidentsByState(OpenStates[request[l].query], view),
              ![l].throughout = Watched(l), ![l].query = @ + 1]
    /\ UNCHANGED <<time, index, past, rollups>>

LastQuery == Len(OpenStates) + 1

(* The query of the closed ones, and the body of the 200. *)
QueryResolved(l) ==
    /\ request[l].query = LastQuery
    /\ \E view \in Views :
          request' = [request EXCEPT ![l] =
              [Idle EXCEPT !.throughout = request[l].throughout,
                           !.answer = [status |-> 200,
                                       active |-> request[l].active,
                                       recent |-> IncidentsByState("resolved", view),
                                       health |-> OverallHealth(request[l].active, SLIs)]]]
    /\ UNCHANGED <<time, index, past, rollups>>

(* The means, taken over what the answer calls recent. *)
Mtta(answer) == MeanTimeTo(LAMBDA i : i.acked, answer.recent)
Mttr(answer) == MeanTimeTo(LAMBDA i : i.resolved, answer.recent)

(* A query fails: the board says that it is the thing that is broken. *)
QueryFails(l) ==
    /\ request[l].query > 0
    /\ request' = [request EXCEPT ![l] = [Idle EXCEPT !.answer = [status |-> 500]]]
    /\ UNCHANGED <<time, index, past, rollups>>

Serves(l) == QueryOpen(l) \/ QueryResolved(l)

TableNext == \E i \in Incidents : Opens(i) \/ Acks(i) \/ Resolves(i) \/ Propagates(i)

-----------------------------------------------------------------------------
(* An incident that GSI1 shows as open when the first query is made, and that is   *)
(* not resolved since, is in the answer: it never says operational, nor less than  *)
(* down for a critical one, whatever is acked between the queries and however late *)
(* GSI1 shows it, as long as no list is cut off.                                  *)
HeadlineIsHonest ==
    Cardinality(Incidents) <= Limit =>
        \A l \in Loads : request[l].answer.status = 200 =>
            LET health == request[l].answer.health
                open == request[l].throughout
            IN /\ open # {} => health # "operational"
               /\ (\E i \in open : index[i].severity = "critical") => health = "down"

=============================================================================
