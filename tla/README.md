# BananaOnCall in TLA+

BananaOnCall takes Alertmanager webhooks, groups them into incidents, pages
whoever is on call over Telegram, keeps paging up an escalation ladder until
somebody answers, and closes the incident when the alert resolves. A status page
shows the incidents and four indicators; a documentation site explains the
system and simulates it.

This directory holds TLA+ models of all of that, the TLC configurations that
check them on small instances, and theorems that TLAPS proves for every value of
the constants. Paths are relative to the repository root; `PROJECT.json` maps
every definition to the lines it stands for.

## 1. Inventory

| Part | State it keeps | Operations | Talks to |
|---|---|---|---|
| ingest (`cmd/ingest`, `internal/domain/ingest.go`) | none | check the key, normalise, publish, answer | SQS, by `sqsx.Publisher` |
| alert queue (`lib/constructs/queue.ts`) | a FIFO per routing key, deduplication window, visibility timeout, receive counts, dead-letter queue | take, absorb, deliver, redeliver, delete, park | the processor's event source, batch size 1 |
| group store (`internal/adapter/dynamox/groups.go`) | `FP#fp/OPEN` pointer, `AG#id/META`, `AG#id/LOG#t` | OpenOrJoin, Ack, Resolve, Silence, SetExecution, RecordNotification, Timeline, Get, OpenGroupID | DynamoDB |
| state machine of a group (`internal/domain/group.go`) | firing, acked, resolved | Transition | everyone who moves a group |
| processor (`cmd/processor`) | none: one envelope in hand | handle, apply, close | store, escalator |
| escalator and ladder (`internal/adapter/sfnx`, `lib/constructs/escalation.ts`) | an execution per group | Start, Stop, the Notify task, Wait | notifier |
| notifier (`cmd/notify`, `internal/domain/policy.go`) | none: one rung | handle | store, rota, Telegram |
| callback (`cmd/callback`) | none: one callback query | handle, act, rewrite, answer | store, Telegram, escalator |
| Telegram client (`internal/adapter/telegramx`) | none | Send, Edit, Answer, each up to three attempts | the Bot API |
| rota (`cmd/schedule`, `internal/domain/ical.go`, `schedule.go`, `dynamox/roster.go`) | `SCHED#/SHIFT#` items | sync every five minutes, WhoIsOnCall | calendar, DynamoDB |
| status endpoint (`cmd/status`, `domain/status.go`, `dynamox/board.go`) | reads only | lists by state, indicators, headline, means | DynamoDB through GSI1 |
| status page (`src/web`) | figures, last error, loads under way | load, refresh, abort, render | status endpoint |
| documentation site (`src/docs`) | address, highlighted section, card, the simulation's reducer | navigate, scroll, copy; fire, tick, ack, resolve | the browser |
| preferences (`env.tsx`, `lang.tsx`, `theme.ts`) | React state, `<html>`, localStorage | choose, read at mount | other tabs, through the storage |
| infrastructure (`lib/cdk-stack.ts`, `lib/config.ts`, `lib/constructs`) | the stack and what it leaves behind | deploy, destroy, invoke | all functions |

How they interact. Ingest publishes envelopes; the processor turns each into
store calls and starts or stops an execution; the execution invokes the notifier
once per rung; the notifier and the callback read and write the same items as
the processor. Nothing but single-item DynamoDB conditions synchronises them.
The sync writes the shifts the notifier reads; the status endpoint reads, through
an index, what processor and callback write, and the page polls the endpoint.

What is hard. Every handler is a sequence of remote calls that can fail or die
between any two; SQS, Step Functions and Telegram redeliver; an abandoned ingest
handler may publish late; two routing keys may be about one fingerprint
(`SplitByFingerprint` groups by other labels than Alertmanager); `Store.Get` is
not a consistent read, nor is a query of GSI1; an answer of Telegram may take as
long as the HTTP time-out; stopping an execution does not stop an invocation that
is running. In the browser loads overlap, effects run after the state they react to
has changed, and observers and timers outlive what they were set for. The
`hazards` of `PROJECT.json` list each at its line, with the properties that
would catch it going wrong, or why none could.

What makes the parts correct:

- queue: what was accepted is processed or parked, in order, once, and never by
  two runs at a time;
- store and processor: one open incident per problem; the table follows the
  sender; a group only moves forward; every opened incident is paged;
- ladder: bounded, skips nothing, ends, is stopped only for a reason, sends at
  most the page in flight after somebody answered;
- callback: what a presser is told is true, one winner, every change logged,
  every press answered;
- rota: the page goes to whom the calendar names, an override wins;
- client and stack: retries do not use an invocation up by themselves; functions
  start and are allowed what they do;
- status: the headline says no less than what was on fire all along, the same
  indicator reads the same everywhere, the page converges;
- documentation site: the simulation keeps the promise of the product, the site
  marks where the reader is, preferences follow the reader.

Where the code falls short of that, a premise says so (section 3) or a run shows
it (section 4).

## 2. Modules

    GroupState          the state machine of a group
      GroupStore        DynamoDB items, one operator per call; clock, faults, lagging reads
        Escalation      Step Functions execution + notifier, per group
          Processor     FIFO queue + processor, per routing key
          Callback      Telegram webhook, per press
            OnCall          the composition, its fairness and properties
              OnCallPromise   OnCall as an implementation of Incident
                MCOnCall        instances
    Incident            abstract: what one incident promises
    Channel             abstract: an ordered channel, at most once
    Intake              Alertmanager, ingest, queue and processor runs with all their timers
    Rota                calendar, sync, shifts, who is on call
    Stack               what the CDK application declares beside what handlers need
      TelegramClient    the attempts of a call within its invocation
      Deployment        deploy, destroy, invoke
        MCRung            Rota, TelegramClient, Deployment in one run
    Status              the endpoint over a table that moves on
      Board             the page over the endpoint
    Demo                the simulation
    Site                the documentation shell
    Preferences         theme, language, environment in several tabs
      MCPages           Board, Demo, Site, Preferences in one run
    OnCallProofs > OnCallSafety > OnCallHandled > OnCallPointer, OnCallPromiseProofs
    IntakeProofs, RungProofs, PagesProofs                  theorems (section 5)

Each module declares the constants and variables it owns. An action of the
modules under OnCall is one remote call of a handler with the local work up to
the next one; the `pc` of an execution, a worker or a press names the call it
makes next. Calls that only read and whose answers no property tells apart are
merged into the next one: a failure of theirs is the same failure of the handler
(`HandlerFails`). `Rota`, `TelegramClient` and `Deployment` share no variable,
nor do `Board`, `Demo`, `Site` and `Preferences`; `MCRung` and `MCPages` check
each of them in a scene of its own, so nothing is multiplied. The board has two
scenes, `lists` (two incidents, one load that nothing disturbs) and `board` (one
incident, everything that can happen to loads), and so has the documentation
shell, `site` without its card and `card` without scrolling.

| Model | Code |
|---|---|
| `pointer[fp]`, `meta[g]`, `log[g]` | items `FP#fp/OPEN`, `AG#g/META`, `AG#g/LOG#...` |
| `past[g]` | the items META has had: any of them may answer a `Get`, which is not a consistent read |
| a group `<<t, fp>>` | `NewGroupID`: the Unix second and a slice of the fingerprint |
| `exec[g]` | the execution named after the group, and its notifier invocation; `misled`: history, state checks that a lagging read answered |
| `chat[g]` | the messages that paged for g; `shown`: their buttons now; `firing`: history |
| `queue`, `receives`, `parked` (`Processor`) | a message group, its receive count, the dead-letter queue |
| `worker[k]`, `press[p]` | the processor invocation that has the head of k; a callback query and its handler; `misled`: history, as above |
| `applied[fp]` | history: what became of the last batch that is not retried: firing, resolved, or dropped because its lookup failed |
| `sender`, `flights`, `memory`, `head`, `holders` (`Intake`) | Alertmanager's notification and its retries; requests in ingest; deduplication ids; the first message's receive count and visibility; processor runs that were handed it |
| `calendar`, `items`, `sync` (`Rota`) | the `.ics`; `SHIFT#` items by start; the running `cmd/schedule` |
| `caller`, `calls`, `attempt`, `elapsed`, `took` (`TelegramClient`) | an invocation, the methods it still calls, the loop of `Client.call`, half seconds used, and how many of them waiting for the provider |
| `env`, `stack`, `deploys`, `site`, `kept`, `inv` (`Deployment`) | context of `cdk synth`, the stack, how often it was deployed, whether its bucket has the site in it, the tables and buckets there are, a running function |
| `index`, `past`, `rollups`, `request` (`Status`) | the incidents, what GSI1 may still show of each, `SLO#` items, an invocation of `cmd/status` |
| `page`, `load` (`Board`) | the component's state, its fetches and their `AbortController`s |
| `demo`, `timer` (`Demo`) | the state of `engine.ts`, the interval `AlertDemo.tsx` has set |
| `band`, `toc`, `card` (`Site`) | the sections in the observer's band, `Toc.tsx` with its `IntersectionObserver`, `EndpointCard.tsx` |

Abstractions. Messages, prose and layout have no text. `alertCount`, the stored
alert and time stamps of META are left out. A fingerprint is a model value, and
the eight characters of it in a group id are taken to tell two problems apart.
An envelope is the sequence of its batches, ordered as `SplitByFingerprint`
orders them. A timeline is the set of its state-change entries. In OnCall the
attempts of the Telegram client are `Send`, `SendUnanswered` (delivered, answer
lost, sent again) and `SendFails` (given up); the loop itself is
`TelegramClient`. The rota counts days, the client half seconds, the simulation
hundredths of a simulated second, `Intake` abstract ticks. Rates are counts and
per mille, rounded as the code rounds them, with the code's floating-point
arithmetic taken as exact, in the indicators as in the simulation's clock.

## 3. Runs

Deadlock is unchecked everywhere: nobody has to send an alert, press a button or
stay on a page, so the system may stop.

| Run | Instance | Properties |
|---|---|---|
| `crashes` | 1 key, 3 envelopes (one of them closes one problem and opens another), 2 failed calls, parked at 2 receives | OneOpenGroup, TableFollowsSender, ClosedMeansResolved |
| `ladder` | 1 step, 2 repeats, 2 failed calls, an ack | TypeOK, LadderBounded, EveryLevelIsPaged, StoppedOnlyWhenHandled, EachIncidentKeepsItsPromise |
| `presses` | 2 presses of ack or resolve, 2 envelopes, no failure | OneWinner, AnswersAreTrue, EveryChangeLogged, ForwardOnly |
| `progress` | fair; 2 envelopes, an ack, 1 failed call, not paced | LadderEnds, QueueDrains, PressAnswered, FiringIsPaged |
| `paging` | 2 keys about 1 problem that only fires, 2 envelopes, an ack or a resolve, no failure | OpenedIsPaged |
| `intake` | fair; 2 notifications of any content, 3 failures, timers in the code's proportions | IntakeType, NoOverlap, CarriesOnceInOrder, AcceptedIsHandled |
| `rung` | three rotations (endless, with COUNT, with UNTIL), a single shift that may be removed, an override, 8 days, batches of 2; 3 attempts of up to 16 half seconds; 2 environments, 3 deployments | RungType, PagesWhomTheCalendarNames, OverrideWins, KilledOnlyByWaiting, NeverDenied, LocalStarts |
| `pages` | fair; 3 days of counts; 2 incidents, 2 moves and 1 load, or 1 incident and 2 overlapping loads, 1 failure; 3 rungs and 2 repeats at 2 speeds; 4 addresses, any neighbouring sections in the band, 2 copies; 2 tabs, 2 choices | PagesType, HeadlineIsHonest, IndicatorsAgree, ErrorIsReal, HistoryIsOfTheClosed, EachBeatOnce, MarksTheReader, CopiedIsTimed, SameShape, ChoiceFollows, NoFlash, PageConverges, LadderRuns |
| four `v_` runs | the smallest that shows it | one each, violated (section 4) |

Reads that may lag do so in every run: a `Get` is answered by any item the group
has had, a query of GSI1 by any an incident has had since GSI1 caught up with it.

What they show.

- `OneOpenGroup`, `TableFollowsSender`: wherever a delivery fails, and however
  often it is retried, a problem has at most one open incident, and once nothing
  of it is half done the pointer and META say what the sender said last. A
  resolving delivery that is dropped because its lookup failed leaves the incident
  open (`v_lookup`), but still named by the pointer, so that the next delivery
  finds it. One key and no Resolve press; both are needed (premises, below).
- `ClosedMeansResolved`: the processor releases, stops and reports only what is
  closed; with one key, see `v_closed`.
- `LadderBounded`, `EveryLevelIsPaged`, `StoppedOnlyWhenHandled`: a ladder pages
  once per level and repeat and once more per failed call; one that comes to its
  end has skipped none, but for one per failed call; and none is stopped, or
  considers itself done before its last repeat, while its incident is firing. A
  ladder whose execution fails is another matter: nothing starts it again, and no
  property speaks of it (premises, below).
- `EachIncidentKeepsItsPromise`: for every group, `OnCall` implements `Incident`
  under the mapping state = META's state, rung = level of the last page, late =
  how many pages went out after it was handled, excuses = failed calls and state
  checks that a lagging read answered. So after an ack, even if `Stop` failed or
  had no ARN, the one rung in flight pages, once, and once more for each answer
  of Telegram's that was lost and each check that was misled, and no more.
- `OneWinner`, `AnswersAreTrue`: of racing presses one is told it did it, unless
  the reread of another was answered by a replica that was behind; and what anybody is told is true: that the incident is as they asked, or that
  it is resolved. `EveryChangeLogged`, `ForwardOnly`: the state an incident ends
  in is on its timeline, and no group moves backwards.
- `OpenedIsPaged`, `FiringIsPaged`: a firing incident is in the hands of the
  worker that opened it or has a ladder, and is paged, unless a lagging read told
  its notifier that there is no such incident, which ends the ladder.
- `LadderEnds`, `QueueDrains`, `PressAnswered`: nothing goes on for ever.
- `CarriesOnceInOrder`: from Alertmanager's request to the queue the code
  implements `Channel`: notifications of a subject arrive in order and once
  each, and a 202 is never a lie, with lost requests, lost answers, handlers of
  abandoned requests that still publish, and killed ones. `NoOverlap`: a
  redelivery never runs beside the invocation it replaces. `AcceptedIsHandled`:
  what was accepted is finished or parked.
- `PagesWhomTheCalendarNames`: up to the lookahead after the last good sync, the
  page goes to somebody whose event is in force, however many syncs failed, and
  wherever in a batch; only a notifier that cannot read the rota pages the admin
  instead. The oracle reads the calendar as iCalendar means it, an occurrence at
  UNTIL included; the code leaves that one out, which a premise says.
  `OverrideWins`: one that is there, until the next shift starts, with the same
  exception; it may be overwritten.
- `KilledOnlyByWaiting`: pauses and the handler's own time never use an invocation
  up by themselves. The notifier dies only if Telegram kept it waiting for longer
  than two time-outs of the HTTP client, the callback for longer than one; slow
  errors and slow answers count as well as attempts that hang.
- `NeverDenied`, `LocalStarts`: what the Go handlers call and require is what the
  TypeScript stack grants and provides.
- `HeadlineIsHonest`: queries run one after the other while incidents move, and
  GSI1 shows each move late; an incident that it showed as open at the first query
  is in the answer. `OpenStates` asks for firing before acked, which is why: the
  reverse order is the mutant. One that was acked between the queries, or opened
  just before them, may be missed.
- `IndicatorsAgree`: endpoint and page compute an indicator from the same counts
  with different arithmetic; a breached one has no budget left, a full bar and a
  day below target.
- `HistoryIsOfTheClosed`, `ErrorIsReal`, `PageConverges`: the history is of
  closed incidents, newest first; an abort by the page itself is not an error;
  a page kept open ends up showing what is open.
- `EachBeatOnce`, `SameShape`, `LadderRuns`: whatever is done to speed, pause and
  reset, the simulation pages each due rung once and in order, implements
  `Incident` with handled incidents replaceable, and runs up to its last repeat.
- `MarksTheReader`, `CopiedIsTimed`: each address marks its entry of the sidebar;
  the rail stays mounted from page to page with reports of the old observer on
  their way, and still ends at an entry of its own when a section is in the band
  (not always that section's). Whenever a card says
  "Copied" a timer will take it away, though perhaps an earlier copy's.
- `ChoiceFollows`, `NoFlash`: a tab loaded later starts with the last choice that
  could be stored; mounting changes the palette only if another tab chose since.

Why the bounds are enough. Three envelopes are the shortest history in which a
problem opens, closes and reopens; two faults are a failure and a failure of its
retry; one step and two repeats take every branch of `Policy.Resolve` but the
empty policy, which `LadderBound` covers; two keys, presses, loads, tabs or
problems are what a race needs. In `intake` a retry may start up to `Patience`
ticks after the first request and outlive a whole handler time-out, and
the deduplication window covers just that (`Window = Patience + HandlerTime`); a
window two ticks shorter, a visibility timeout one tick below `PollDelay +
WorkerTime` or a gap one tick below `HandlerTime` breaks a property.
Eight days see every rotation recur beyond the lookback, its
last occurrence and both handovers, and batches of two of up to five shifts leave
partly written syncs. The presses of `presses` and the keys of `paging` are
interchangeable, hence their symmetry; no run with liveness uses symmetry. Two
presses, a resolving delivery and a failed call together are too large for
`presses`; the theorems about its four properties have them all (of
`EveryChangeLogged` no failure is a premise), and `progress` has one press that
fails and is delivered again.

### Premises

The properties hold where the runs say, and the premise matters: with one
constant changed, or the premise struck from the formula, TLC finds a
counterexample, which the table tells. Most are lessons about the code as much
as about the model.

| Property | Premise | Without it |
|---|---|---|
| OneOpenGroup, TableFollowsSender | one routing key per problem | "the loser joins the group the winner made" (`groups.go`): while the winner has put only the pointer, the loser takes the missing META for a closed group, reclaims the pointer and opens a second incident |
| OneOpenGroup, TableFollowsSender | no Resolve press | Resolve deletes the pointer, without a condition, after it has closed META: an occurrence in between has reclaimed it for its own incident, and the one after that opens another |
| TableFollowsSender | no delivery was dropped because its lookup failed (in the formula) | `v_lookup` |
| OpenedIsPaged, FiringIsPaged | no call fails | a crash before `Start` is not made up for (`v_joined`) |
| OpenedIsPaged, FiringIsPaged | no state check was misled (in the formula) | a replica that has no META yet answers "not found", an error of the notifier, and the execution fails |
| OpenedIsPaged | one key, or nothing resolves but presses | `v_closed` stops the ladder of a firing group |
| ClosedMeansResolved, StoppedOnlyWhenHandled | one routing key per problem | `v_closed` |
| StoppedOnlyWhenHandled, EveryLevelIsPaged | the execution has not failed (in the formula) | an error or the death of a notifier invocation ends the ladder, and nothing starts it again |
| OneWinner | neither press was misled (in the formula) | two acks at once, no failure: `Get` after the failed condition still has the group firing, `Transition` answers nil, and the second press, too, is told that it acked the incident |
| EachIncidentKeepsItsPromise | a page more per failed call and misled check (in the formula) | a state check that begins after the ack is answered by a replica that is behind it, and the rung pages, although "an ack that lands one second before the wait expires still stops the page" (`cmd/notify`) |
| ForwardOnly | `Paced`: a second opens at most one group per fingerprint | a problem fires, resolves and fires within a second: the second group has the id of the first, `putMeta` writes firing over resolved, and the execution name is taken, so no ladder starts |
| EveryChangeLogged | no call fails (in the formula) | a callback that dies before `Timeline` never writes the entry; its redelivery is "already acked" |
| CarriesOnceInOrder | `HandlerTime <= Gap`, `HandlerTime + Patience <= Window` | a handler of the notification before publishes after the next one; a retry after the window is taken again |
| NoOverlap | `PollDelay + WorkerTime <= Visibility` | the message is shown again while a run has it |
| PagesWhomTheCalendarNames | no two events start together; nothing was removed; a lookahead since the last good sync (in the formula) | the item is overwritten, or the batch refused; `PutShifts` never deletes; the shifts run out |
| PagesWhomTheCalendarNames | no event has an occurrence at its UNTIL (in the formula) | UNTIL is the exclusive limit of the loop of `ParseICS`: the occurrence at UNTIL, which iCalendar counts among the rule's, has no shift, and somebody else or the fallback is paged |
| PagesWhomTheCalendarNames, OverrideWins | the notifier can read the rota (in the formula: otherwise the admin) | the admin is paged though somebody is on call, which is what FR-4.6 asks for |
| PagesWhomTheCalendarNames | `ShiftsFit`: no shift is longer than the look-back of 30 days | the notifier's query begins after the shift in force has started, and finds the fallback or somebody else |
| KilledOnlyByWaiting | `TimeoutsFit`: all attempts of the notifier but one, or one of the callback's, may take the HTTP time-out with every pause and still leave time | `v_hung` shows how little is left: the last attempt has no room |
| EachBeatOnce | `BarFits`: the bar fills no earlier than the last rung is due (600 s each) | a full bar beside a rung that is not reached |
| OverrideWins | until the next shift starts | `WhoIsOnCall` takes the latest start: the override loses at the next handover |
| OverrideWins | the override is still there (in the formula) | a shift's key is its start alone: an override with the start of a shift replaces it, and the next sync replaces the override |
| HeadlineIsHonest | no list is cut at 20 | an incident beyond the limit is not seen |
| HeadlineIsHonest | GSI1 had caught up with the incident at the first query (in the formula) | an incident is acked between the two queries and is not in the second one's state yet, or is opened just before them: the board is green, though "anything not yet resolved counts as open" (`cmd/status`) |
| MarksTheReader | the rail highlights an entry of its own, not the section in the band | of two sections in the band one leaves: the observer has no change to report for the one that stays, and the one that left stays marked; a language switch makes a new observer, which reports both, and the highlight moves to the lower one, though "the highlight survives" it (`Toc.tsx`) |

`Paced` is a constant of OnCall and TRUE in every run but `progress`; the theorems about OnCall that assume it build on the invariant
that `ForwardOnly` rests on. `HandlerTime <= Gap` is a matter of Alertmanager's
`group_interval`, which somebody else configures: the one in the repository
equals ingest's time-out, with nothing to spare. `OneKey`, `NoResolve` (a press
may be anything but Resolve), `NothingFails`, the timer inequalities,
`ShiftsFit`, `TimeoutsFit` and `BarFits` are premises of theorems, which the
instances of the runs meet.

Other things the models show and no property claims, because the code makes no
attempt at them: the two entries `apply` writes for a new incident have the key
of the one time it has read, so "escalation_started" replaces "opened" (FR-6.5
asks for both); an error or the death of a notifier invocation ends the whole
ladder (only failures of the Lambda service are retried); what a callback that
dies after its state change had left to do, the entry, the edit and the stop, is
never done; the remembered first message is edited, so a press on a later page
leaves that page's Ack button; edits of concurrent presses are not ordered, so
an ack can give a resolved message its Resolve button back; `domain.DedupeKey`,
meant to stop a retried send from paging twice, is used by neither client nor
notifier, which is why `LadderBounded` allows a page per failed call;
`UnprocessedItems` of a batch are not looked at; an overlapping load may briefly
put an older board over a newer one; the rail keeps an old highlight until the
observer reports; a last section on a short page may never come into the band,
however often it is chosen; a local stack whose bucket has the site in it cannot
be deleted, only wiped with the whole account; an address below a page that
exists marks that page's entry beside the "not found" page; the production
environment has neither integration keys nor Telegram token, and a production
stack deployed again gets a new table beside the retained one.

### Fairness

There is weak fairness only of what the platform does unasked, and each such
step stays enabled until it is taken or overtaken. OnCall: the clock, the next
call of a running handler, the poll, the expiry of a wait, the redelivery of an
unanswered query (Telegram gives up in the end; with at most `MaxFaults`
failures one more delivery than failures is enough). There is strong fairness of
one step, `RereadFresh`: of the reads of one press, made again on each
redelivery, one is answered by an up-to-date replica in the end, which eventual
consistency promises and `PressAnswered` needs. `Intake`: time, polls, the start
of a polled run and parking; a run need not finish, Lambda's time-out ends it.
`Board`: the effect and its timer, each load (browser and handler answer in the
end), and, for each incident, that GSI1 catches up with it. `Demo`: intervals
and effects.
Nothing makes anybody send, press, choose, fail, or open a page.

## 4. Findings

Each `v_` run checks one sentence of the repository, and TLC finds it violated;
`PROJECT.json` quotes it.

| Run | What the code does |
|---|---|
| `v_joined` | a processor that dies between `putMeta` and `Start` joins its own incident on redelivery, "already open and somebody is already being paged": nobody ever is |
| `v_closed` | `transition` "reports what actually blocked it", but reads later: a group that has come into being meanwhile is firing, `Transition(firing, resolved)` is nil, and `close` cleans up an incident it has not closed |
| `v_lookup` | `close` "handles a delivery whose alerts have all resolved"; a read of the pointer that fails is taken for "no pointer", the delivery is deleted, the incident stays open |
| `v_hung` | an HTTP time-out "comfortably under" Lambda's: three attempts of 8 s are not under 20 s, a hung provider kills the invocation |

## 5. Proofs

TLAPS proves these for all values of the constants that satisfy the named
assumptions of the modules (`StoreAssumption`, `LadderAssumption`,
`QueueAssumption`, `PressAssumption`, `IntakeAssumption`, `RotaAssumption`,
`ClientAssumption`, `DeploymentAssumption`, `StatusAssumption`,
`CountsAssumption`, `DemoAssumption`, `SiteAssumption`, `PreferencesAssumption`)
and the premises given. Reads lag in all of them. The assumptions say what kind
of thing a constant is (a number, a finite set, due times that increase); a
premise is there only where the table above shows that it is needed, or where the
proof rests on an invariant that needs it (`Paced`).

| Theorem | Statement | Premises |
|---|---|---|
| `TypeCorrect` | `Spec => []TypeOK` | none |
| `LadderBound` | `Spec => []LadderBounded` | none |
| `ChangesAreLogged` | `Spec => []EveryChangeLogged` | none |
| `NeverBack` | `Spec => ForwardOnly` | paced |
| `OnePersonWins`, `NobodyIsToldTooMuch` | `Spec => []OneWinner`, `[]AnswersAreTrue` | paced |
| `ClosesWhatIsResolved` | `Spec => []ClosedMeansResolved` | paced, one key |
| `SilenceIsEarned` | `Spec => []StoppedOnlyWhenHandled` | paced, one key |
| `NobodyIsSkipped` | `Spec => []EveryLevelIsPaged` | paced |
| `PointerIsALock` | `Spec => []OneOpenGroup` | paced, one key, no Resolve press |
| `TableAgrees` | `Spec => []TableFollowsSender` | paced, one key, no Resolve press |
| `EveryIncidentIsPaged` | `Spec => []OpenedIsPaged` | paced, no failure; one key, or envelopes only fire |
| `PromiseKept` | `Spec => EachIncidentKeepsItsPromise` | paced |
| `IntakeTypeCorrect` | `IntakeSpec => []IntakeType` | both timer premises |
| `NeverTwice` | `IntakeSpec => []NoOverlap` | both timer premises |
| `CarriedOnceInOrder` | `IntakeSpec => CarriesOnceInOrder` | sender's timer premise |
| `CalendarIsPaged` | `RotaSpec => []PagesWhomTheCalendarNames` | `ShiftsFit` |
| `OverridesWin` | `RotaSpec => []OverrideWins` | none |
| `FailuresAreRetried` | `ClientSpec => []KilledOnlyByWaiting` | `TimeoutsFit` |
| `GrantsSuffice`, `LocalFunctionsStart` | `DeploySpec => []NeverDenied`, `[]LocalStarts` | none |
| `HeadlineIsTrue` | `BoardSpec => []HeadlineIsHonest` | none (its limit and what GSI1 showed are in the formula) |
| `HistoryIsClosed`, `ErrorsAreReal` | `BoardSpec => []HistoryIsOfTheClosed`, `[]ErrorIsReal` | none |
| `IndicatorsMatch` | `BoardSpec => []IndicatorsAgree` | none |
| `PagesAsTheyAreDue` | `DemoSpec => []EachBeatOnce` | `BarFits` |
| `DemoImplementsIncident` | `DemoSpec => SameShape` | none |
| `ReaderIsMarked`, `CopiedHasItsTimer` | `SiteSpec => []MarksTheReader`, `[]CopiedIsTimed` | none |
| `ChoicesFollow`, `MountingDoesNotFlash` | `PrefSpec => ChoiceFollows`, `NoFlash` | none |
| `RungIsTyped`, `PagesAreTyped` | `Spec => []RungType`, `[]PagesType` of `MCRung`, `MCPages` | none |

The argument, module by module. Every proof that an invariant is preserved has a
case per component and, below it, a case per action.

- `OnCallProofs`. `TypeOK` is not inductive: a worker's type does not say that
  its batch exists in the head of its queue. `IInv` adds such facts per
  component: `RungOK` (an invocation that sends has a policy step), `WorkerOK` (a
  busy worker has an envelope and a batch in it, and the group its `pc` needs)
  and `PressOK` (a press has an action, a group and a message to edit).
  `BoundInv` then counts: a chat is at most one page per earlier level and one
  per failed call, and every repeated page is paid for by the fault behind it.
- `OnCallSafety`. `TableInv`: at a sane pace a candidate id is nobody else's and
  no group has it yet, so the unconditional `putMeta` writes a new item; and no
  item a lagging read may answer is ahead of the table. From it every step is
  `Ahead`, which is `ForwardOnly`. `LogInv`: with no failure, a change without
  its entry is in the hands of the press or worker that made it, and that one
  entry written over ("opened") is none of a handled state.
- `OnCallHandled`. `ReachedInv`: a press that has won has its target reached by
  the table, for good; `SoleInv`: of two that won the same thing the second
  would have had to move a group already there, or been misled. `AnswerInv`: an
  answer once given stays true, since the table only moves on and what a lagging
  read answers it has reached before. `ClosedInv`, for one key: between a
  worker's failed condition and its reread nobody opens the group it looks at. A
  ladder is then cut only by a stop whose group is handled or a check that saw
  so, and a lagging read is behind, never ahead. `ClimbInv`: a ladder at some
  level has as many pages and faults behind it as there are levels below, and
  one more once the page of its own is out (`Climbed`); and one that has ended
  before its last repeat was handled (`Quit`).
- `OnCallPointer`. `PointerInv`: every open group is the one its pointer names,
  and what a worker knows of the pointer at each `pc` (`Knows`), in particular
  that at "reclaim" nothing about its problem is open. `FollowInv` then says
  that a problem is as the last batch about it left it (`Agrees`) whenever no
  envelope in hand or parked mentions it, and also when the one in hand is done
  with it and at work on another (`Steady`). So an envelope that fails on its
  second problem, and is delivered again, finds the first as it left it. A batch
  that was dropped leaves everything as it was. `Sees` is what the worker has
  made of the table of its own problem at each `pc`.
- `OnCallPromiseProofs`. The step simulation: with `PageInv` (the level is never
  behind the last page; no more pages are late than failed calls, misled checks
  and the page in flight account for) each action maps to an action of
  `Incident` or a stutter. For `OpenedIsPaged`, `Begun`: nobody else starts the
  ladder of a group a worker is about to open, and only groups that exist have
  one; `PagedInv`: a firing group has its opener still owing the ladder, or a
  ladder that runs or is used up. `StopsHandled` comes from `ClosedInv` with one
  key, and from `OpeningOnly` when envelopes only fire.
- `IntakeProofs`. `HolderInv`: what is left of a poll and of a run fits in what
  the head stays hidden, and there is one holder at most. `TimerInv`, `CarryInv`,
  `Remembered`: all flights carry the sender's current notification, because the
  ones before had time to end, and a body that may still arrive is remembered;
  so `Publish` appends a notification once, and only the current one.
- `RungProofs`. Rota: `Honest`, every item of the sync and all it still has to
  write are occurrences of events in the calendar; `Written`, what a good sync
  has no more to write is written, and stays while its window lasts. The
  expansion of a rule is shown complete first (`ExpandComplete`: of any
  occurrence that overlaps the window, whatever FREQ, COUNT and UNTIL, there is a
  shift), then that the shift the notifier's query answers is one in force. The
  client: `ClientBounds` accounts for the time an invocation has used by prelude,
  waiting and pauses, as twice the sum, so that the pauses of n attempts are
  n (n - 1). `DeployInv`: what a running invocation still calls is within what its
  function is allowed.
- `PagesProofs`. `BoardInv`: the lists of the index exist, at every length up to
  the limit (by well-founded minima of finite sets, `Newest`, `ListExists`), so
  what `IncidentsByState` answers is known by what it promises; `Collects` says
  of each incident that GSI1 showed as open at the first query and that is not
  resolved since that the answer in the making lists it or that the second query
  will, whichever of its later items it sees. `DemoInv`: `Tells`, the log has the
  pages 1 to `level`, and `DueFacts`, how many rungs are due grows with the clock;
  a tick appends just the missing ones (`CatchesUp`). `SiteInv`: `RailKnows`, with a
  section in the band the rail highlights an entry of its own or a report of one is
  under way.
  `PrefInv`: the last choice that could be stored is the storage. The indicators
  need no invariant but that counts stay counts: a window that falls short has a
  day that does (`ShortWindow`), and has used up its budget, both rounded
  (`BudgetUsedUp`).

Every invariant and every action property of the passing runs is proved. `MCRung`
and `MCPages` let one part move while the others stand still: `ScenesAreParts` and
`PagesAreParts` prove that a behaviour of the run's `Spec` is one of each part (of
`Board` and `Demo` without their fairness, which no safety proof uses), so what
the theorems state of `RotaSpec`, `BoardSpec` and the like holds there too.

Induction over data is done without the library's induction theorems, which take
an operator as a parameter and cannot be instantiated here: a set of naturals
that had a counterexample would have a least one (`Minimum`, from the
well-foundedness of <). In this way the sums of an indicator's counts exist and
add up (`SumsExist`, `ShortWindow`), lists exist at every length (`ListExists`),
and a finite set has a greatest element (`GreatestExists`). No module declares a
RECURSIVE operator.

Only model-checked: all liveness, `LadderEnds`, `QueueDrains`, `PressAnswered`,
`FiringIsPaged`, `AcceptedIsHandled`, `PageConverges`, `LadderRuns` (no installed
prover handles `ENABLED` and fairness).

## 6. Not modelled

- TTL expiry (30 and 90 days) and the 12-hour limit of an execution: time on that
  scale is nowhere in the model; both are hazards without a property.
- Parsing and formatting as string work: webhook bodies, `.ics` text with EXDATE
  and zones, message and log wording, dates and percentages of the pages. What
  they decide (accepted or refused, who covers an instant, which grade a day has)
  is modelled.
- The order of edits in a chat and the text of later pages: the code does not
  order or rewrite them (section 3).
- Contacts: data; a missing one is an error of the notifier (`HandlerFails`).
- CORS, outputs and log settings of the stack; prose and diagrams of the sites;
  the strip's table view; the page of a console that is not built yet.
- Seed data and the Telegram test double: development tools.

## 7. What could come next

1. What still holds of `OneOpenGroup` with Resolve presses, or with two keys:
   the weakest premise under which a second incident cannot open.
2. That `Rota`, between good syncs, is a function of the calendar alone: a
   refinement of an abstract "who is on call".
3. The 12-hour limit beside a policy's waits, with time in `Escalation`.
