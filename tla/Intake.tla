------------------------------- MODULE Intake -------------------------------
(***************************************************************************)
(* From Alertmanager to the processor, for one subject: the sender and its  *)
(* retries, the ingest invocations its requests start, the FIFO queue with  *)
(* its deduplication window, visibility timeout and redrive policy, and the *)
(* processor invocations that event source polling starts.  Time is counted *)
(* in ticks, each timer by the ticks it has left.                           *)
(***************************************************************************)
EXTENDS Naturals, Sequences, FiniteSets

CONSTANTS
    MaxNotes,      \* bound: notifications the sender makes
    MaxFailures,   \* bound: requests, publishes and processor runs that fail
    HandlerTime,   \* timeout of ingest
    Patience,      \* how long Alertmanager retries one notification
    Gap,           \* from its last request to the next notification
    Window,        \* deduplication window of the queue
    WorkerTime,    \* timeout of the processor
    PollDelay,     \* from a poll to the start of the invocation, at most
    Visibility,    \* visibility timeout of the queue
    MaxReceive     \* maxReceiveCount

ASSUME IntakeAssumption ==
    /\ {MaxNotes, MaxFailures, Patience, Gap, PollDelay} \subseteq Nat
    /\ {HandlerTime, Window, WorkerTime, Visibility, MaxReceive} \subseteq Nat \ {0}

VARIABLES
    sender,     \* the notification it is at, and what has become of it
    flights,    \* requests being handled by ingest
    memory,     \* per body: ticks left for which the queue absorbs it
    queue,      \* notifications not yet deleted
    head,       \* the first one: times received, ticks it stays hidden
    holders,    \* processor invocations that were handed the head
    parked,     \* the dead-letter queue
    accepted,   \* history: everything the queue ever took, in order
    told,       \* history: notifications Alertmanager got a 202 for
    handled,    \* history: notifications a processor run finished
    failures

senderVars == <<sender, told>>
queueVars == <<memory, queue, head, holders, parked, accepted, handled>>
intakeVars == <<senderVars, flights, queueVars, failures>>

Notes == 1 .. MaxNotes

(* What ingest finds when it looks at a request: a key it knows and a body with  *)
(* alerts, or one of the three requests it refuses.                              *)
Contents == {"alerts", "unknown key", "empty", "malformed"}

Verdict(content) ==
    CASE content = "alerts"      -> 202
      [] content = "unknown key" -> 401
      [] OTHER                   -> 400

NewHead == [receives |-> 0, hidden |-> 0]
Least(a, b) == IF a < b THEN a ELSE b

(* Mutant of Less: a timer runs on below zero. *)
LessOn(n) == n - 1

Less(n) == IF n = 0 THEN 0 ELSE n - 1

IntakeInit ==
    /\ sender = [note |-> 0, content |-> "alerts", st |-> "done", budget |-> 0, quiet |-> Gap]
    /\ flights = {} /\ told = {}
    /\ memory = [n \in Notes |-> 0]
    /\ queue = << >> /\ head = NewHead /\ holders = {} /\ parked = {}
    /\ accepted = << >> /\ handled = {}
    /\ failures = 0

Fails == failures < MaxFailures /\ failures' = failures + 1

-----------------------------------------------------------------------------
(* Alertmanager. *)

(* Mutant of NewFlight: ingest answers without waiting for the queue. *)
NewFlightUnqueued(n) == [note |-> n, pc |-> "answer", left |-> HandlerTime, awaited |-> TRUE]

(* A flight is one request: what it carries, the next step of its handler, the    *)
(* ticks until Lambda kills it, and whether the sender still waits for it.        *)
NewFlight(n) == [note |-> n, pc |-> "publish", left |-> HandlerTime, awaited |-> TRUE]

Unawaited == {[f EXCEPT !.awaited = FALSE] : f \in flights}

(* The next notification of the subject; with a body ingest refuses it is over.   *)
Notify(content) ==
    /\ sender.st = "done" /\ sender.quiet = Gap /\ sender.note < MaxNotes
    /\ LET n == sender.note + 1 IN
       /\ sender' = [note |-> n, content |-> content, budget |-> Patience, quiet |-> 0,
                     st |-> IF Verdict(content) = 202 THEN "waiting" ELSE "done"]
       /\ flights' = IF Verdict(content) = 202 THEN Unawaited \union {NewFlight(n)} ELSE Unawaited
    /\ UNCHANGED <<told, queueVars, failures>>

(* A 5xx, or no answer in time: the same body is sent again.                      *)
Retry ==
    /\ sender.st = "retry"
    /\ sender.budget > 0
    /\ sender' = [sender EXCEPT !.st = "waiting", !.quiet = 0]
    /\ flights' = Unawaited \union {NewFlight(sender.note)}
    /\ UNCHANGED <<told, queueVars, failures>>

GiveUp ==
    /\ sender.st = "retry" /\ sender.budget = 0
    /\ sender' = [sender EXCEPT !.st = "done"]
    /\ UNCHANGED <<told, flights, queueVars, failures>>

(* The request, or its answer, is lost on the way. *)
NoAnswer ==
    /\ sender.st = "waiting" /\ Fails
    /\ sender' = [sender EXCEPT !.st = "retry"]
    /\ flights' = Unawaited
    /\ UNCHANGED <<told, queueVars>>

-----------------------------------------------------------------------------
(* ingest.handle: publish, then answer. *)

Answer(f, ok) ==
    IF f.awaited /\ sender.st = "waiting"
    THEN /\ sender' = [sender EXCEPT !.st = IF ok THEN "done" ELSE "retry"]
         /\ told' = IF ok THEN told \union {f.note} ELSE told
    ELSE UNCHANGED senderVars

(* Mutant of Publish: without a deduplication id. *)
PublishAgain(f) ==
    /\ f.pc = "publish"
    /\ flights' = (flights \ {f}) \union {[f EXCEPT !.pc = "answer"]}
    /\ queue' = Append(queue, f.note) /\ accepted' = Append(accepted, f.note)
    /\ UNCHANGED <<senderVars, memory, head, holders, parked, handled, failures>>

Publish(f) ==
    /\ f.pc = "publish"
    /\ flights' = (flights \ {f}) \union {[f EXCEPT !.pc = "answer"]}
    /\ IF memory[f.note] > 0
       THEN UNCHANGED <<memory, queue, accepted>>
       ELSE /\ memory' = [memory EXCEPT ![f.note] = Window]
            /\ queue' = Append(queue, f.note)
            /\ accepted' = Append(accepted, f.note)
    /\ UNCHANGED <<senderVars, head, holders, parked, handled, failures>>

Accept(f) ==
    /\ f.pc = "answer"
    /\ flights' = flights \ {f}
    /\ Answer(f, TRUE)
    /\ UNCHANGED <<queueVars, failures>>

(* SQS refuses: 503, so that Alertmanager tries again. *)
PublishFails(f) ==
    /\ f.pc = "publish" /\ Fails
    /\ flights' = flights \ {f}
    /\ Answer(f, FALSE)
    /\ UNCHANGED queueVars

-----------------------------------------------------------------------------
(* The queue and its event source; batchSize is 1, and nothing of a message      *)
(* group is delivered while its head is hidden.                                  *)

Delivered(hidden) ==
    /\ queue # << >> /\ head.hidden = 0 /\ head.receives < MaxReceive
    /\ head' = [receives |-> head.receives + 1, hidden |-> hidden]
    /\ holders' = holders \union
          {[nr |-> head.receives + 1, st |-> "polled", left |-> PollDelay]}
    /\ UNCHANGED <<senderVars, flights, memory, queue, parked, accepted, handled, failures>>

(* Mutant of Poll: hidden for as long as the processor may run. *)
PollShort == Delivered(WorkerTime)

Poll == Delivered(Visibility)

Begin(h) ==
    /\ h.st = "polled"
    /\ holders' = (holders \ {h}) \union {[h EXCEPT !.st = "running", !.left = WorkerTime]}
    /\ UNCHANGED <<senderVars, flights, memory, queue, head, parked, accepted, handled, failures>>

(* Success deletes the message. *)
Finish(h) ==
    /\ h.st = "running"
    /\ queue' = Tail(queue) /\ head' = NewHead /\ holders' = {}
    /\ handled' = handled \union {Head(queue)}
    /\ UNCHANGED <<senderVars, flights, memory, parked, accepted, failures>>

(* An error leaves it to the visibility timeout. *)
Errs(h) ==
    /\ h.st = "running" /\ Fails
    /\ holders' = holders \ {h}
    /\ UNCHANGED <<senderVars, flights, memory, queue, head, parked, accepted, handled>>

(* Received often enough, it moves to the dead-letter queue.                      *)
Park ==
    /\ queue # << >> /\ head.hidden = 0 /\ head.receives = MaxReceive
    /\ parked' = parked \union {Head(queue)}
    /\ queue' = Tail(queue) /\ head' = NewHead
    /\ UNCHANGED <<senderVars, flights, memory, holders, accepted, handled, failures>>

-----------------------------------------------------------------------------
(* A tick: timers run down.  Lambda kills what has used its time up, and a sender *)
(* whose request was killed or has not come back by then tries again.            *)
Tick ==
    LET Outlives(s) == {x \in s : x.left > 1}
        Aged(s) == {[x EXCEPT !.left = @ - 1] : x \in Outlives(s)}
        lost == sender.st = "waiting" /\ ~ \E f \in Outlives(flights) : f.awaited
    IN
    /\ \A h \in holders : h.st = "polled" => h.left > 0
    /\ sender' = [sender EXCEPT !.budget = Less(@), !.quiet = Least(@ + 1, Gap),
                                !.st = IF lost THEN "retry" ELSE @]
    /\ flights' = Aged(flights)
    /\ memory' = [n \in Notes |-> Less(memory[n])]
    /\ head' = [head EXCEPT !.hidden = Less(@)]
    /\ holders' = {[h EXCEPT !.left = @ - 1] : h \in
                      {x \in holders : x.st = "polled" \/ x.left > 1}}
    /\ UNCHANGED <<told, queue, parked, accepted, handled, failures>>

-----------------------------------------------------------------------------
SenderNext == (\E c \in Contents : Notify(c)) \/ Retry \/ GiveUp \/ NoAnswer
IngestNext == \E f \in flights : Publish(f) \/ Accept(f) \/ PublishFails(f)
QueueNext  == Poll \/ Park \/ \E h \in holders : Begin(h) \/ Finish(h) \/ Errs(h)

IntakeNext == SenderNext \/ IngestNext \/ QueueNext \/ Tick

(* The platform polls, starts, times out and parks unasked, and a handler that    *)
(* runs goes on; nothing makes the sender send.                                  *)
IntakeSpec ==
    /\ IntakeInit /\ [][IntakeNext]_intakeVars
    /\ WF_intakeVars(Tick) /\ WF_intakeVars(Poll) /\ WF_intakeVars(Park)
    /\ WF_intakeVars(\E h \in holders : Begin(h))
-----------------------------------------------------------------------------
IntakeType ==
    /\ sender \in [note : Nat, content : Contents, st : {"waiting", "retry", "done"},
                   budget : 0 .. Patience, quiet : 0 .. Gap]
    /\ flights \subseteq [note : Notes, pc : {"publish", "answer"}, left : 1 .. HandlerTime,
                          awaited : BOOLEAN]
    /\ memory \in [Notes -> 0 .. Window]
    /\ queue \in Seq(Notes) /\ accepted \in Seq(Notes)
    /\ head \in [receives : 0 .. MaxReceive, hidden : 0 .. Visibility]
    /\ parked \subseteq Notes /\ handled \subseteq Notes /\ told \subseteq Notes

(* FIFO keeps firing ahead of resolved for one subject, a retried body is taken   *)
(* once, and a 202 is never a lie (D4, FR-1.5, FR-1.6), however requests, answers *)
(* and the handlers of abandoned requests straggle.                              *)
C == INSTANCE Channel WITH offered <- sender.note, carried <- accepted
CarriesOnceInOrder == C!Spec

(* A redelivery never overlaps an invocation that still has the message           *)
(* (visibilityTimeout, six times the processor's).                               *)
NoOverlap == Cardinality(holders) <= 1

(* What was accepted is processed, or ends on the dead-letter queue (FR-1.5).     *)
AcceptedIsHandled == \A n \in Notes : n \in told ~> n \in handled \union parked
=============================================================================
