-------------------------------- MODULE Demo --------------------------------
(***************************************************************************)
(* The simulation of the documentation site: the reducer of                *)
(* docs/src/demo/engine.ts and the component that feeds it, AlertDemo.tsx.   *)
(* Time is in hundredths of a simulated second.                             *)
(***************************************************************************)
EXTENDS Integers, Sequences, SequencesExt

CONSTANTS
    BEATS,         \* when the rungs are due
    REPEAT_EVERY,  \* and how often the last one again
    MAX_REPEATS,   \* at most
    Speeds,        \* how many times faster than the clock
    StartSpeed,    \* the one it starts with
    MaxElapsed     \* bound: no ticks after that

ASSUME DemoAssumption ==
    /\ BEATS \in Seq(Nat) /\ BEATS # << >> /\ BEATS[1] = 0
    /\ \A m, n \in DOMAIN BEATS : m < n => BEATS[m] < BEATS[n]
    /\ REPEAT_EVERY \in Nat \ {0} /\ MAX_REPEATS \in Nat
    /\ Speeds \subseteq Nat \ {0} /\ IsFiniteSet(Speeds) /\ StartSpeed \in Speeds /\ MaxElapsed \in Nat

VARIABLES
    demo,   \* the state of the reducer
    timer   \* the speed of the interval that is set, or 0

demoVars == <<demo, timer>>

Rungs == Len(BEATS)
Highest == Rungs + MAX_REPEATS
Payloads == {"firing", "resolved", "flood"}

(* What the lines of the log say, in either language. *)
Kinds == {"evAccepted", "evQueued", "evFlood", "evClosed", "evAcked", "evResolved", "page"}

initial ==
    [phase |-> "idle", payload |-> "firing", elapsed |-> 0, speed |-> StartSpeed,
     paused |-> FALSE, stage |-> 0, level |-> 0, events |-> << >>]

DemoInit == demo = initial /\ timer = 0

(* A line of the log; the pages are numbered as the rungs are. *)
Ev(t, kind) == [t |-> t, kind |-> kind, rung |-> 0]
PageEv(t, n) == [t |-> t, kind |-> "page", rung |-> n]

log(kind) == Append(demo.events, Ev(demo.elapsed, kind))

Least(a, b) == IF a <= b THEN a ELSE b
-----------------------------------------------------------------------------
(* The cases of the reducer, each behind the button that dispatches it. *)

live == demo.phase = "running"

(* Back to the start; payload and speed are kept. *)
Reset ==
    /\ demo' = [initial EXCEPT !.payload = demo.payload, !.speed = demo.speed]
    /\ UNCHANGED timer

Payload(p) ==
    /\ demo.phase = "idle"
    /\ demo' = [demo EXCEPT !.payload = p]
    /\ UNCHANGED timer

Speed(speed) ==
    /\ demo' = [demo EXCEPT !.speed = speed]
    /\ UNCHANGED timer

Pause ==
    /\ live
    /\ demo' = [demo EXCEPT !.paused = ~ @]
    /\ UNCHANGED timer

(* A resolved payload closes at once; the others page the first rung. *)
Fire ==
    /\ ~ live
    /\ LET queued == <<Ev(4, "evAccepted"),
                       Ev(31, IF demo.payload = "flood" THEN "evFlood" ELSE "evQueued")>>
           fresh == [initial EXCEPT !.payload = demo.payload, !.speed = demo.speed]
       IN demo' = IF demo.payload = "resolved"
                  THEN [fresh EXCEPT !.phase = "resolved", !.stage = 4,
                                     !.events = Append(queued, Ev(62, "evClosed"))]
                  ELSE [fresh EXCEPT !.phase = "running", !.level = 1,
                                     !.events = Append(queued, PageEv(100, 1))]
    /\ UNCHANGED timer

(* When rung n is due, counting the repeats. *)
BeatAt(n) == IF n <= Rungs THEN BEATS[n] ELSE BEATS[Rungs] + (n - Rungs) * REPEAT_EVERY

(* Mutant of Due: the repeats have no cap. *)
DueForEver(elapsed) ==
    IF elapsed >= BEATS[Rungs] THEN Rungs + (elapsed - BEATS[Rungs]) \div REPEAT_EVERY
    ELSE Cardinality({n \in DOMAIN BEATS : elapsed >= BEATS[n]})

(* How many rungs should have been paged by now. *)
Due(elapsed) ==
    IF elapsed >= BEATS[Rungs]
    THEN Rungs + Least(MAX_REPEATS, (elapsed - BEATS[Rungs]) \div REPEAT_EVERY)
    ELSE Cardinality({n \in DOMAIN BEATS : elapsed >= BEATS[n]})

Missed(due) == [i \in 1 .. due - demo.level |-> PageEv(BeatAt(demo.level + i), demo.level + i)]

(* Mutant of Ticks: a tick that comes late is taken for one in time. *)
TicksAlways == demo.phase # "idle" /\ ~ demo.paused

(* The interval is cleared after the state has changed: the reducer looks again. *)
Ticks == live /\ ~ demo.paused

(* The stages light up over the first second and a half: every 37.5 hundredths.   *)
Stage(elapsed) == Least(4, (2 * elapsed) \div 75 + 1)

Tick ==
    /\ timer # 0 /\ demo.elapsed < MaxElapsed
    /\ LET elapsed == demo.elapsed + 10 * timer
           due == Due(elapsed)
       IN demo' = IF ~ Ticks THEN demo
                  ELSE IF due > demo.level
                  THEN [demo EXCEPT !.elapsed = elapsed, !.stage = Stage(elapsed),
                                    !.events = @ \o Missed(due), !.level = due]
                  ELSE [demo EXCEPT !.elapsed = elapsed, !.stage = Stage(elapsed)]
    /\ UNCHANGED timer

Ack ==
    /\ live
    /\ demo' = [demo EXCEPT !.phase = "acked", !.events = log("evAcked")]
    /\ UNCHANGED timer

Resolve ==
    /\ demo.phase \notin {"idle", "resolved"}
    /\ demo' = [demo EXCEPT !.phase = "resolved", !.events = log("evResolved")]
    /\ UNCHANGED timer

-----------------------------------------------------------------------------
(* The component around it. *)

(* Mutant of Wanted: the interval that a pause has cleared is not set again. *)
WantedUntilPause ==
    IF live /\ ~ demo.paused /\ (timer # 0 \/ demo.elapsed = 0) THEN demo.speed ELSE 0

(* The interval the effect asks for. *)
Wanted == IF live /\ ~ demo.paused THEN demo.speed ELSE 0

(* The effect runs some time after the state has changed. *)
Effect ==
    /\ timer # Wanted
    /\ timer' = Wanted
    /\ UNCHANGED demo

(* Another page of the site: the component is unmounted. *)
Leave == demo' = initial /\ timer' = 0

DemoNext ==
    \/ Reset \/ (\E p \in Payloads : Payload(p)) \/ (\E s \in Speeds : Speed(s)) \/ Pause
    \/ Fire \/ Tick \/ Ack \/ Resolve \/ Effect \/ Leave

(* The browser runs effects and intervals. *)
DemoFairness == WF_demoVars(Tick) /\ WF_demoVars(Effect)

DemoSpec == DemoInit /\ [][DemoNext]_demoVars /\ DemoFairness
-----------------------------------------------------------------------------
(* What it shows. *)

(* The rung that has the pager, one of the roster. *)
OnCall == IF demo.phase = "idle" THEN 0 ELSE Least(Rungs, demo.level)

(* The rungs that have been reached, the repeats as one more. *)
Reached == {i \in 1 .. Rungs + 1 : demo.phase # "idle" /\ demo.level >= i}

(* The bar, per cent. *)
Bar == Least(100, (demo.elapsed * 100) \div REPEAT_EVERY)

(* The lines that are pages, and the rungs they name. *)
Pages == {n \in DOMAIN demo.events : demo.events[n].kind = "page"}
Paged == {demo.events[n].rung : n \in Pages}
-----------------------------------------------------------------------------
DemoType ==
    /\ demo.phase \in {"idle", "running", "acked", "resolved"}
    /\ demo.payload \in Payloads /\ demo.speed \in Speeds /\ demo.paused \in BOOLEAN
    /\ demo.elapsed \in 0 .. MaxElapsed + 10 * Max(Speeds)
    /\ demo.stage \in 0 .. 4 /\ demo.level \in 0 .. Highest
    /\ \A n \in DOMAIN demo.events : demo.events[n].kind \in Kinds
    /\ timer \in {0} \cup Speeds

(* The ladder of the demo is the one of the product (engine.ts: "the beat           *)
(* schedule, the repeat cap"): while an alert runs every rung that is due has been   *)
(* paged, once, in order, under the time it was due and never before it, whatever    *)
(* was done to speed and pause in between; and the rungs, the roster and the full bar *)
(* tell what the log tells.                                                         *)
EachBeatOnce ==
    /\ Paged = 1 .. demo.level
    /\ \A m, n \in Pages : m < n => demo.events[m].rung < demo.events[n].rung
    /\ \A n \in Pages : LET line == demo.events[n] IN
          line.rung > 1 => line.t = BeatAt(line.rung) /\ line.t <= demo.elapsed
    /\ live => \A n \in 1 .. Highest : demo.elapsed >= BeatAt(n) => n \in Paged
    /\ Reached = Paged \intersect 1 .. Rungs + 1
    /\ OnCall \in {0} \union Paged /\ \A r \in Paged : r <= OnCall \/ r > Rungs
    /\ live /\ Bar = 100 => Rungs \in Reached
    /\ Len(demo.events) <= Highest + 4

(* The demo "runs the same SHAPE as internal/domain" (AlertDemo.tsx): its alert is one  *)
(* incident after another, each with the promise the incidents of the product keep:   *)
(* after the ack or the close not even a tick that was under way pages any more.      *)
Promise == INSTANCE Incident
    WITH Top <- Highest, Replaceable <- TRUE,
         state <- IF demo.phase = "idle" THEN "none"
                  ELSE IF live THEN "firing" ELSE demo.phase,
         rung <- demo.level,
         late <- 0,
         excuses <- 0
SameShape == Promise!Spec

(* An alert nobody handles runs up to the last repeat, once nobody pauses it or changes *)
(* its speed any more, whatever the interval has been through before.                *)
LadderRuns ==
    (\E speed \in Speeds : <>[](Ticks /\ demo.speed = speed)) => <>(demo.level = Highest)
=============================================================================
