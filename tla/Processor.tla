------------------------------ MODULE Processor ------------------------------
(***************************************************************************)
(* The processor (cmd/processor/main.go) behind the FIFO queue              *)
(* (lib/constructs/queue.ts).  Envelopes with one routing key are delivered *)
(* one at a time and in order; different routing keys are processed in      *)
(* parallel, and two of them may be about one fingerprint.  Each call of    *)
(* apply, close, OpenOrJoin and Resolve is a step; a call that fails ends   *)
(* the invocation and the whole envelope is delivered again, up to          *)
(* MaxReceive times, after which it is parked on the dead-letter queue.     *)
(***************************************************************************)
EXTENDS Escalation

CONSTANTS
    Keys,         \* routing keys: the FIFO message groups
    Envelopes,    \* what ingest may publish: sequences of batches, ordered by fingerprint
    MaxSent,      \* bound: how many envelopes are published in all
    MaxReceive,   \* maxReceiveCount of the queue (3 in the code)
    Paced         \* whether a second opens at most one group per fingerprint

Batches == [fp : Fps, firing : BOOLEAN]

ASSUME QueueAssumption ==
    /\ Envelopes \subseteq Seq(Batches) \ {<< >>}
    /\ MaxSent \in Nat
    /\ MaxReceive \in Nat \ {0}
    /\ Paced \in BOOLEAN

VARIABLES
    sent,      \* envelopes published so far
    queue,     \* queue[k]: envelopes of routing key k, the one being processed first
    receives,  \* receives[k]: times the first of them has been received
    parked,    \* parked[k]: envelopes of k on the dead-letter queue
    worker,    \* worker[k]: the invocation processing the first envelope of k
    applied    \* applied[fp]: what became of the last batch that is not to be retried

procVars == <<sent, queue, receives, parked, worker, applied>>

(* What a worker does next.  The two halves are apply and close. *)
Opening == {"claim", "target", "increment", "joined", "reclaim", "put",
            "opened", "start", "setExecution", "started"}
Closing == {"lookup", "resolve", "reread", "release", "stop", "closed"}

(* The batch in hand, the candidate group, the group found, the ARN read back. *)
Workers == [pc    : Opening \cup Closing \cup {"idle"},
            batch : Nat,
            id    : Groups \cup {NoGroup},
            group : Groups \cup {NoGroup},
            arn   : BOOLEAN]

(* "dropped": close took a lookup that failed for "nothing open". *)
Outcomes == {"none", "firing", "resolved", "dropped"}

ProcType ==
    /\ sent \in 0 .. MaxSent
    /\ queue \in [Keys -> Seq(Envelopes)]
    /\ receives \in [Keys -> 0 .. MaxReceive]
    /\ parked \in [Keys -> Seq(Envelopes)]
    /\ worker \in [Keys -> Workers]
    /\ applied \in [Fps -> Outcomes]

IdleWorker == [pc |-> "idle", batch |-> 0, id |-> NoGroup, group |-> NoGroup, arn |-> FALSE]

ProcInit ==
    /\ sent = 0
    /\ queue = [k \in Keys |-> << >>]
    /\ receives = [k \in Keys |-> 0]
    /\ parked = [k \in Keys |-> << >>]
    /\ worker = [k \in Keys |-> IdleWorker]
    /\ applied = [fp \in Fps |-> "none"]

Batch(k) == Head(queue[k])[worker[k].batch]
At(k, pc) == worker[k].pc = pc
Step(k, pc) == worker' = [worker EXCEPT ![k].pc = pc]

-----------------------------------------------------------------------------
(* The queue. *)

(* cmd/ingest and internal/adapter/sqsx: an accepted webhook is one envelope. *)
Publish(k, e) ==
    /\ sent < MaxSent
    /\ sent' = sent + 1
    /\ queue' = [queue EXCEPT ![k] = Append(@, e)]
    /\ UNCHANGED <<now, storeVars, faults, escVars, receives, parked, worker, applied>>

(* apply takes its candidate id from the clock when it begins; close needs none. *)
BatchStart(e, i) ==
    [pc    |-> IF e[i].firing THEN "claim" ELSE "lookup",
     batch |-> i,
     id    |-> IF e[i].firing THEN NewGroupID(now, e[i].fp) ELSE NoGroup,
     group |-> NoGroup,
     arn   |-> FALSE]

(* The pace of the senders, when it is assumed: no group has the candidate id *)
(* yet, and no other worker is about to give it to one.                       *)
MayStart(b) ==
    Paced /\ b.firing =>
        LET id == NewGroupID(now, b.fp)
        IN  meta[id].state = Absent /\ \A k \in Keys : worker[k].id # id

Receive(k) ==
    /\ At(k, "idle")
    /\ queue[k] # << >>
    /\ MayStart(Head(queue[k])[1])
    /\ receives' = [receives EXCEPT ![k] = @ + 1]
    /\ worker' = [worker EXCEPT ![k] = BatchStart(Head(queue[k]), 1)]
    /\ UNCHANGED <<now, storeVars, faults, escVars, sent, queue, parked, applied>>

(* apply or close returned nil: the next batch begins, or the envelope is deleted. *)
BatchDoneAs(k, outcome) ==
    LET e == Head(queue[k])
        i == worker[k].batch
    IN  /\ applied' = [applied EXCEPT ![e[i].fp] = outcome]
        /\ \/ /\ i < Len(e)
              /\ MayStart(e[i + 1])
              /\ worker' = [worker EXCEPT ![k] = BatchStart(e, i + 1)]
              /\ UNCHANGED <<queue, receives>>
           \/ /\ i = Len(e)
              /\ worker' = [worker EXCEPT ![k] = IdleWorker]
              /\ queue' = [queue EXCEPT ![k] = Tail(@)]
              /\ receives' = [receives EXCEPT ![k] = 0]
        /\ UNCHANGED <<sent, parked>>

BatchDone(k) == BatchDoneAs(k, IF Batch(k).firing THEN "firing" ELSE "resolved")

(* Mutant of Abandon: an envelope is delivered for ever. *)
AbandonNeverParks(k) ==
    /\ worker' = [worker EXCEPT ![k] = IdleWorker]
    /\ UNCHANGED <<sent, queue, receives, parked, applied>>

(* handle returned an error, or its Lambda died. *)
Abandon(k) ==
    /\ worker' = [worker EXCEPT ![k] = IdleWorker]
    /\ IF receives[k] = MaxReceive
       THEN /\ parked' = [parked EXCEPT ![k] = Append(@, Head(queue[k]))]
            /\ queue' = [queue EXCEPT ![k] = Tail(@)]
            /\ receives' = [receives EXCEPT ![k] = 0]
       ELSE UNCHANGED <<parked, queue, receives>>
    /\ UNCHANGED <<sent, applied>>

WorkerFails(k) ==
    /\ ~ At(k, "idle")
    /\ Fault
    /\ Abandon(k)
    /\ UNCHANGED <<now, storeVars, escVars>>

envelopeVars == <<sent, queue, receives, parked, applied>>

-----------------------------------------------------------------------------
(* apply: OpenOrJoin, then the work of whoever opened the group. *)

(* Mutant of Claim: the put on the pointer has no condition. *)
ClaimAlways(k) ==
    /\ At(k, "claim")
    /\ PutPointer(Batch(k).fp, worker[k].id)
    /\ Step(k, "put")
    /\ UNCHANGED <<now, meta, past, log, faults, escVars, envelopeVars>>

Claim(k) ==
    LET fp == Batch(k).fp
    IN  /\ At(k, "claim")
        /\ \/ PointerAbsent(fp) /\ PutPointer(fp, worker[k].id) /\ Step(k, "put")
           \/ ~ PointerAbsent(fp) /\ Step(k, "target") /\ UNCHANGED pointer
        /\ UNCHANGED <<now, meta, past, log, faults, escVars, envelopeVars>>

(* A pointer that has gone meanwhile is an error. *)
PointerTarget(k) ==
    LET fp == Batch(k).fp
    IN  /\ At(k, "target")
        /\ \/ PointerAbsent(fp) /\ Abandon(k)
           \/ /\ ~ PointerAbsent(fp)
              /\ worker' = [worker EXCEPT ![k].pc = "increment", ![k].group = pointer[fp]]
              /\ UNCHANGED envelopeVars
        /\ UNCHANGED <<now, storeVars, faults, escVars>>

(* alertCount is not part of the model: what matters here is the condition. *)
Increment(k) ==
    /\ At(k, "increment")
    /\ Step(k, IF CanJoin(worker[k].group) THEN "joined" ELSE "reclaim")
    /\ UNCHANGED <<now, storeVars, faults, escVars, envelopeVars>>

Reclaim(k) ==
    /\ At(k, "reclaim")
    /\ PutPointer(Batch(k).fp, worker[k].id)
    /\ Step(k, "put")
    /\ UNCHANGED <<now, meta, past, log, faults, escVars, envelopeVars>>

Put(k) ==
    /\ At(k, "put")
    /\ PutMeta(worker[k].id)
    /\ Step(k, "opened")
    /\ UNCHANGED <<now, pointer, log, faults, escVars, envelopeVars>>

(* Mutant of LogOpened: nobody starts the ladder. *)
LogOpenedOnly(k) ==
    /\ At(k, "opened")
    /\ Timeline(worker[k].id, "opened")
    /\ Step(k, "started")
    /\ UNCHANGED <<now, pointer, meta, past, faults, escVars, envelopeVars>>

(* StoreAlert keeps data no property reads; the timeline entry follows it. *)
LogOpened(k) ==
    /\ At(k, "opened")
    /\ Timeline(worker[k].id, "opened")
    /\ Step(k, "start")
    /\ UNCHANGED <<now, pointer, meta, past, faults, escVars, envelopeVars>>

Start(k) ==
    /\ At(k, "start")
    /\ StartExecution(worker[k].id)
    /\ Step(k, "setExecution")
    /\ UNCHANGED <<now, storeVars, faults, chat, envelopeVars>>

KeepExecution(k) ==
    /\ At(k, "setExecution")
    /\ SetExecution(worker[k].id)
    /\ Step(k, "started")
    /\ UNCHANGED <<now, pointer, log, faults, escVars, envelopeVars>>

(* The last timeline entry; if it fails, the envelope is delivered again after  *)
(* all its work was done.  Entries are keyed by their time, and apply reads the *)
(* clock once: escalation_started takes the place of opened.                    *)
ApplyDone(k) ==
    /\ \/ At(k, "joined") /\ UNCHANGED log
       \/ At(k, "started") /\ TimelineInstead(worker[k].id, "opened", "escalation_started")
    /\ BatchDone(k)
    /\ UNCHANGED <<now, pointer, meta, past, faults, escVars>>

-----------------------------------------------------------------------------
(* close. *)

(* OpenGroupID: nothing open is not an error. *)
Lookup(k) ==
    LET fp == Batch(k).fp
    IN  /\ At(k, "lookup")
        /\ \/ PointerAbsent(fp) /\ BatchDone(k)
           \/ /\ ~ PointerAbsent(fp)
              /\ worker' = [worker EXCEPT ![k].pc = "resolve", ![k].group = pointer[fp]]
              /\ UNCHANGED envelopeVars
        /\ UNCHANGED <<now, storeVars, faults, escVars>>

(* OpenGroupID answers "nothing open" to a read that failed, too: close returns *)
(* nil and the delivery is deleted.                                             *)
LookupFails(k) ==
    /\ At(k, "lookup")
    /\ Fault
    /\ BatchDoneAs(k, "dropped")
    /\ UNCHANGED <<now, storeVars, escVars>>

(* Mutant of CloseUpdate: a condition that fails is taken for a group closed already. *)
CloseUpdateAnyway(k) ==
    LET g == worker[k].group
    IN  /\ At(k, "resolve")
        /\ worker' = [worker EXCEPT ![k].pc = "release", ![k].arn = meta[g].arn]
        /\ IF CanMove(g, Resolved) THEN Move(g, Resolved) ELSE UNCHANGED <<meta, past>>
        /\ UNCHANGED <<now, pointer, log, faults, escVars, envelopeVars>>

(* The conditional update of Resolve; it returns the item as it now is. *)
CloseUpdate(k) ==
    LET g == worker[k].group
    IN  /\ At(k, "resolve")
        /\ \/ /\ CanMove(g, Resolved)
              /\ Move(g, Resolved)
              /\ worker' = [worker EXCEPT ![k].pc = "release", ![k].arn = meta[g].arn]
           \/ /\ ~ CanMove(g, Resolved)
              /\ Step(k, "reread")
              /\ UNCHANGED <<meta, past>>
        /\ UNCHANGED <<now, pointer, log, faults, escVars, envelopeVars>>

(* Mutant of CloseReread: an incident that is closed already is closed again. *)
CloseRereadRetries(k) ==
    /\ At(k, "reread")
    /\ Step(k, "resolve")
    /\ UNCHANGED <<now, storeVars, faults, escVars, envelopeVars>>

(* The condition failed: Get, and Transition from what Get answered.  A group *)
(* not found is an error; one read as not yet resolved counts as moved.       *)
CloseReread(k) ==
    LET g == worker[k].group
    IN  /\ At(k, "reread")
        /\ \E item \in Get(g) :
              \/ item.state = Absent /\ Abandon(k)
              \/ Transition(item.state, Resolved) = "already" /\ BatchDone(k)
              \/ /\ item.state # Absent
                 /\ Transition(item.state, Resolved) = "nil"
                 /\ worker' = [worker EXCEPT ![k].pc = "release", ![k].arn = item.arn]
                 /\ UNCHANGED envelopeVars
        /\ UNCHANGED <<now, storeVars, faults, escVars>>

CloseRelease(k) ==
    /\ At(k, "release")
    /\ DeletePointer(FpOf(worker[k].group))
    /\ Step(k, "stop")
    /\ UNCHANGED <<now, meta, past, log, faults, escVars, envelopeVars>>

CloseStop(k) ==
    /\ At(k, "stop")
    /\ StopExecution(worker[k].group, worker[k].arn)
    /\ Step(k, "closed")
    /\ UNCHANGED <<now, storeVars, faults, chat, envelopeVars>>

CloseDone(k) ==
    /\ At(k, "closed")
    /\ Timeline(worker[k].group, "resolved")
    /\ BatchDone(k)
    /\ UNCHANGED <<now, pointer, meta, past, faults, escVars>>

-----------------------------------------------------------------------------
ApplySteps(k) ==
    \/ Claim(k) \/ PointerTarget(k) \/ Increment(k) \/ Reclaim(k) \/ Put(k)
    \/ LogOpened(k) \/ Start(k) \/ KeepExecution(k) \/ ApplyDone(k)

CloseSteps(k) ==
    \/ Lookup(k) \/ CloseUpdate(k) \/ CloseReread(k)
    \/ CloseRelease(k) \/ CloseStop(k) \/ CloseDone(k)

ProcSteps(k) == Receive(k) \/ ApplySteps(k) \/ CloseSteps(k)

ProcNext ==
    \E k \in Keys :
        \/ \E e \in Envelopes : Publish(k, e)
        \/ ProcSteps(k)
        \/ WorkerFails(k)
        \/ LookupFails(k)
=============================================================================
