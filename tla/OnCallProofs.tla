---------------------------- MODULE OnCallProofs ----------------------------
(***************************************************************************)
(* Invariance proofs for OnCall, for every value of its constants: any      *)
(* number of problems, routing keys, presses, envelopes and policy steps,   *)
(* with fresh or lagging reads, at any pace and with any number of failed   *)
(* calls.                                                                   *)
(***************************************************************************)
EXTENDS OnCall, TLAPS

(* A level past the state check has a step in the policy. *)
RungOK ==
    \A g \in Groups :
        exec[g].pc \in {"send", "record", "notified", "notify_failed"}
            => HasStep(exec[g].level)

(* A worker that is not idle has an envelope and a batch of it in hand; what it *)
(* read before is there when a later step uses it.                              *)
WorkerOK ==
    \A k \in Keys :
        /\ worker[k].pc = "idle" => receives[k] < MaxReceive
        /\ worker[k].pc # "idle" =>
              queue[k] # << >> /\ worker[k].batch \in 1 .. Len(Head(queue[k]))
        /\ worker[k].pc \in Opening => worker[k].id \in Groups
        /\ worker[k].pc \in {"increment", "joined", "resolve", "reread", "release", "stop", "closed"}
              => worker[k].group \in Groups

(* A press that was made names a button and a group. *)
Buttons == {"ack", "resolve", "silence"}

PressOK ==
    \A p \in Presses : press[p].pc # "idle" =>
        press[p].group \in Groups /\ press[p].action \in Buttons

LadderInv == EscType /\ RungOK
WorkInv   == ProcType /\ WorkerOK
PressInv  == CallbackType /\ PressOK

IInv == StoreType /\ LadderInv /\ WorkInv /\ PressInv

-----------------------------------------------------------------------------
(* Group ids: made of a second and a fingerprint, and none of them is NoGroup. *)
LEMMA GroupFacts ==
    ASSUME StoreType
    PROVE  /\ \A fp \in Fps : NewGroupID(now, fp) \in Groups
           /\ \A g \in Groups : FpOf(g) \in Fps
           /\ NoGroup \notin Groups
BY StoreAssumption DEF StoreType, Groups, NewGroupID, FpOf

LEMMA ItemFacts ==
    /\ NoItem \in Items /\ NewItem \in Items
    /\ \A item \in Items :
          /\ item.state \in States \cup {Absent}
          /\ item.arn \in BOOLEAN
          /\ item.messageID \in Nat
BY DEF NoItem, NewItem, Items, States, Absent, Firing, Acked, Resolved

(* A write of a well-formed item keeps the table well formed. *)
LEMMA WriteMetaType ==
    ASSUME StoreType, NEW g \in Groups, NEW item \in Items, WriteMeta(g, item)
    PROVE  meta' \in [Groups -> Items] /\ past' \in [Groups -> SUBSET Items]
BY DEF StoreType, WriteMeta

LEMMA GetType ==
    ASSUME StoreType, NEW g \in Groups
    PROVE  Get(g) \subseteq Items
BY DEF StoreType, Get

LEMMA FaultType ==
    ASSUME StoreType, Fault
    PROVE  faults' \in 0 .. MaxFaults
BY StoreAssumption DEF StoreType, Fault

(* The execution that Start begins. *)
LEMMA NewExecFacts ==
    /\ NewExec \in Executions
    /\ NewExec.status = "running" /\ NewExec.pc = "get"
    /\ NewExec.level = 1 /\ NewExec.misled = 0
<1>2. 1 \in 0 .. Top + 1
  BY LadderAssumption DEF Top
<1>3. "running" \in ExecStatus /\ "get" \in Invocation
  BY DEF ExecStatus, Invocation
<1> QED BY <1>2, <1>3 DEF NewExec, Executions

(* Start and Stop keep the ladders well formed. *)
LEMMA StartType ==
    ASSUME LadderInv, NEW g \in Groups, StartExecution(g), UNCHANGED chat
    PROVE  LadderInv'
<1>1. exec' \in [Groups -> Executions]
  BY NewExecFacts DEF LadderInv, EscType, StartExecution
<1>2. RungOK'
  BY NewExecFacts DEF LadderInv, EscType, RungOK, StartExecution, HasStep, Top
<1> QED BY <1>1, <1>2 DEF LadderInv, EscType

LEMMA StopType ==
    ASSUME LadderInv, NEW g \in Groups, NEW arn \in BOOLEAN,
           StopExecution(g, arn), UNCHANGED chat
    PROVE  LadderInv'
<1>1. exec' \in [Groups -> Executions]
  <2> DEFINE pc == IF exec[g].pc = "wait" THEN "none" ELSE exec[g].pc
             e  == [exec[g] EXCEPT !.status = "aborted", !.pc = pc]
  <2>1. exec[g] \in Executions /\ pc \in Invocation \cup {"none", "wait"} /\ "aborted" \in ExecStatus
    BY DEF LadderInv, EscType, Executions, ExecStatus
  <2>2. \/ exec' = [exec EXCEPT ![g] = [exec[g] EXCEPT !.status = "aborted", !.pc = pc]]
        \/ exec' = exec
    BY <2>1 DEF LadderInv, EscType, StopExecution, Executions
  <2> HIDE DEF pc
  <2>3. e \in Executions
    BY <2>1 DEF Executions
  <2> QED BY <2>2, <2>3 DEF LadderInv, EscType
<1>2. RungOK'
  BY DEF LadderInv, EscType, RungOK, StopExecution, HasStep, Top, Executions
<1> QED BY <1>1, <1>2 DEF LadderInv, EscType

-----------------------------------------------------------------------------
THEOREM InitIInv == Init => IInv
<1> SUFFICES ASSUME Init PROVE IInv
  OBVIOUS
<1> USE DEF Init
<1>1. StoreType
  BY StoreAssumption, ItemFacts DEF StoreInit, StoreType
<1>2. LadderInv
  BY LadderAssumption
  DEF EscInit, LadderInv, EscType, RungOK, NoExec, Executions, ExecStatus, Invocation, Top
<1>3. WorkInv
  BY QueueAssumption
  DEF ProcInit, WorkInv, ProcType, WorkerOK, IdleWorker, Workers, Opening, Closing, Outcomes
<1>4. PressInv
  BY DEF CallbackInit, PressInv, CallbackType, PressOK, PressRecords, Handler, Replies
<1> QED BY <1>1, <1>2, <1>3, <1>4 DEF IInv

-----------------------------------------------------------------------------
(* The clock touches nothing but itself. *)
LEMMA StoreStep ==
    ASSUME IInv, StoreNext
    PROVE  IInv'
<1> USE DEF IInv
<1>1. StoreType'
  BY StoreAssumption DEF StoreNext, Tick, StoreType, storeVars
<1>2. UNCHANGED <<escVars, procVars, press>>
  BY DEF StoreNext
<1>3. LadderInv'
  BY <1>2 DEF LadderInv, EscType, RungOK, escVars
<1>4. WorkInv'
  BY <1>2 DEF WorkInv, ProcType, WorkerOK, procVars
<1>5. PressInv'
  BY <1>2 DEF PressInv, CallbackType, PressOK
<1> QED BY <1>1, <1>3, <1>4, <1>5

-----------------------------------------------------------------------------
(* The rungs of the ladder. *)
LEMMA FinishType ==
    ASSUME LadderInv, NEW g \in Groups, NEW status \in ExecStatus,
           Finish(g, status), UNCHANGED chat
    PROVE  LadderInv'
<1>1. exec' \in [Groups -> Executions]
  BY DEF LadderInv, EscType, Finish, Executions, Invocation
<1>2. RungOK'
  BY DEF LadderInv, EscType, RungOK, Finish, HasStep, Top, Executions
<1> QED BY <1>1, <1>2 DEF LadderInv, EscType

(* What Checked does to the execution whose group was read. *)
LEMMA CheckedFacts ==
    ASSUME LadderInv, NEW g \in Groups, NEW item, NEW pc, NEW status,
           Checked(g, item, pc, status)
    PROVE  /\ \A h \in Groups \ {g} : exec'[h] = exec[h]
           /\ exec'[g].pc = pc /\ exec'[g].level = exec[g].level
           /\ exec'[g].status = IF exec[g].status = "running" THEN status ELSE exec[g].status
           /\ exec'[g].misled = IF item.state = meta[g].state
                                 THEN exec[g].misled ELSE exec[g].misled + 1
BY DEF LadderInv, EscType, Checked, Executions

LEMMA CheckedType ==
    ASSUME LadderInv, NEW g \in Groups, NEW item,
           NEW pc \in {"none", "send"}, NEW status \in ExecStatus,
           pc = "send" => HasStep(exec[g].level),
           Checked(g, item, pc, status), UNCHANGED chat
    PROVE  LadderInv'
<1> DEFINE s == IF exec[g].status = "running" THEN status ELSE exec[g].status
           m == IF item.state = meta[g].state THEN exec[g].misled ELSE exec[g].misled + 1
           e == [exec[g] EXCEPT !.pc = pc, !.status = s, !.misled = m]
<1>1. exec[g] \in Executions /\ s \in ExecStatus /\ m \in Nat /\ pc \in Invocation \cup {"none", "wait"}
  BY DEF LadderInv, EscType, Executions, Invocation
<1>2. exec' = [exec EXCEPT ![g] = [exec[g] EXCEPT !.pc = pc, !.status = s, !.misled = m]]
  BY DEF LadderInv, EscType, Checked, Executions
<1> HIDE DEF s, m
<1>3. e \in Executions
  BY <1>1 DEF Executions
<1>4. exec' \in [Groups -> Executions]
  BY <1>2, <1>3 DEF LadderInv, EscType
<1>5. RungOK'
  BY CheckedFacts DEF LadderInv, RungOK, HasStep, Top, Groups
<1> QED BY <1>4, <1>5 DEF LadderInv, EscType

(* CheckGroup reads some item and goes on to page, or ends. *)
LEMMA CheckGroupReads ==
    ASSUME NEW g \in Groups, CheckGroup(g)
    PROVE  /\ exec[g].pc = "get" /\ UNCHANGED <<now, storeVars, faults, chat>>
           /\ \E item \in Get(g) :
                \/ \E status \in {"failed", "succeeded"} : Checked(g, item, "none", status)
                \/ item.state = Firing /\ HasStep(exec[g].level) /\ Checked(g, item, "send", "running")
BY DEF CheckGroup

LEMMA GotoType ==
    ASSUME LadderInv, NEW g \in Groups, NEW pc \in Invocation \cup {"wait"},
           pc \in {"get", "wait"} \/ HasStep(exec[g].level),
           Goto(g, pc)
    PROVE  exec' \in [Groups -> Executions] /\ RungOK'
<1>1. exec' \in [Groups -> Executions]
  BY DEF LadderInv, EscType, Goto, Executions, Invocation
<1>2. RungOK'
  BY DEF LadderInv, EscType, RungOK, Goto, HasStep, Top, Executions
<1> QED BY <1>1, <1>2

LEMMA PageType ==
    ASSUME LadderInv, NEW g \in Groups, HasStep(exec[g].level)
    PROVE  Page(g) \in Messages
BY LadderAssumption
DEF LadderInv, EscType, Page, Messages, Shown, HasStep, Top, Executions

LEMMA LadderStep ==
    ASSUME IInv, NEW g \in Groups, EscSteps(g) \/ EscFaults(g)
    PROVE  StoreType' /\ LadderInv'
<1> USE DEF IInv
<1>0. exec[g] \in Executions /\ chat[g] \in Seq(Messages)
  BY DEF LadderInv, EscType
<1>1. CASE CheckGroup(g)
  <2>1. StoreType'
    BY <1>1 DEF CheckGroup, StoreType, storeVars
  <2>2. UNCHANGED chat
    BY <1>1 DEF CheckGroup
  <2>3. PICK item \in Get(g) :
            \/ \E status \in {"failed", "succeeded"} : Checked(g, item, "none", status)
            \/ item.state = Firing /\ HasStep(exec[g].level) /\ Checked(g, item, "send", "running")
    BY <1>1, CheckGroupReads
  <2> QED BY <2>1, <2>2, <2>3, CheckedType DEF ExecStatus
<1>2. CASE Send(g) \/ SendUnanswered(g)
  <2>1. HasStep(exec[g].level)
    BY <1>2 DEF Send, SendUnanswered, LadderInv, RungOK
  <2>2. StoreType'
    BY <1>2, FaultType DEF Send, SendUnanswered, StoreType, storeVars
  <2>3. chat' \in [Groups -> Seq(Messages)]
    <3>1. Append(chat[g], Page(g)) \in Seq(Messages)
      BY <1>0, <2>1, PageType
    <3>2. chat' = [chat EXCEPT ![g] = Append(chat[g], Page(g))]
      BY <1>2 DEF Send, SendUnanswered
    <3> QED BY <3>1, <3>2 DEF LadderInv, EscType
  <2>4. exec' \in [Groups -> Executions] /\ RungOK'
    <3>1. CASE Goto(g, "record")
      BY <3>1, <2>1, GotoType DEF Invocation
    <3>2. CASE UNCHANGED exec
      BY <3>2 DEF LadderInv, EscType, RungOK
    <3> QED BY <1>2, <3>1, <3>2 DEF Send, SendUnanswered
  <2> QED BY <2>2, <2>3, <2>4 DEF LadderInv, EscType
<1>3. CASE SendFails(g)
  <2>1. HasStep(exec[g].level)
    BY <1>3 DEF SendFails, LadderInv, RungOK
  <2>2. StoreType'
    BY <1>3, FaultType DEF SendFails, StoreType, storeVars
  <2> QED BY <1>3, <2>1, <2>2, GotoType DEF SendFails, Invocation, LadderInv, EscType
<1>4. CASE Record(g)
  <2>1. HasStep(exec[g].level)
    BY <1>4 DEF Record, LadderInv, RungOK
  <2>2. StoreType'
    <3>1. meta[g] \in Items /\ Len(chat[g]) \in Nat
      BY <1>0 DEF StoreType
    <3>2. [meta[g] EXCEPT !.messageID = IF @ = 0 THEN Len(chat[g]) ELSE @] \in Items
      BY <3>1 DEF Items
    <3>3. meta' \in [Groups -> Items] /\ past' \in [Groups -> SUBSET Items]
      BY <1>4, <3>2, WriteMetaType DEF Record, RecordNotification
    <3> QED BY <1>4, <3>3 DEF Record, StoreType
  <2> QED BY <1>4, <2>1, <2>2, GotoType DEF Record, Invocation, LadderInv, EscType
<1>5. CASE EndRung(g)
  <2>1. HasStep(exec[g].level)
    BY <1>5 DEF EndRung, LadderInv, RungOK
  <2>2. StoreType'
    BY <1>5 DEF EndRung, StoreType, storeVars
  <2>3. exec' \in [Groups -> Executions]
    <3>1. exec[g].level + 1 \in 0 .. Top + 1
      BY <1>0, <2>1, LadderAssumption DEF HasStep, Top, Executions
    <3>2. [exec[g] EXCEPT !.pc = "wait", !.level = exec[g].level + 1] \in Executions
      BY <1>0, <3>1 DEF Executions
    <3>3. [exec[g] EXCEPT !.pc = "none"] \in Executions
      BY <1>0 DEF Executions
    <3>4. exec' = [exec EXCEPT ![g] = [exec[g] EXCEPT !.pc = "wait", !.level = exec[g].level + 1]]
            \/ exec' = [exec EXCEPT ![g] = [exec[g] EXCEPT !.pc = "none"]]
      BY <1>0, <1>5 DEF EndRung, NextRung, LadderInv, EscType, Executions
    <3> QED BY <3>2, <3>3, <3>4 DEF LadderInv, EscType
  <2>4. RungOK'
    BY <1>5 DEF EndRung, NextRung, LadderInv, EscType, RungOK, HasStep, Top, Executions
  <2> QED BY <1>5, <2>2, <2>3, <2>4 DEF EndRung, LadderInv, EscType
<1>6. CASE WaitExpires(g)
  <2>1. StoreType'
    BY <1>6 DEF WaitExpires, StoreType, storeVars
  <2> QED BY <1>6, <2>1, GotoType DEF WaitExpires, Invocation, LadderInv, EscType
<1>7. CASE HandlerFails(g)
  <2>1. StoreType'
    BY <1>7, FaultType DEF HandlerFails, StoreType, storeVars
  <2> QED BY <1>7, <2>1, FinishType DEF HandlerFails, ExecStatus
<1>8. CASE Reinvoke(g)
  <2>1. StoreType'
    BY <1>8, FaultType DEF Reinvoke, StoreType, storeVars
  <2> QED BY <1>8, <2>1, GotoType DEF Reinvoke, Invocation, LadderInv, EscType
<1> QED BY <1>1, <1>2, <1>3, <1>4, <1>5, <1>6, <1>7, <1>8 DEF EscSteps, EscFaults

-----------------------------------------------------------------------------
(* The worker. *)

(* The envelope in hand, and the batch of it. *)
LEMMA BatchFacts ==
    ASSUME WorkInv, NEW k \in Keys, worker[k].pc # "idle"
    PROVE  /\ Head(queue[k]) \in Envelopes
           /\ Head(queue[k]) \in Seq(Batches)
           /\ worker[k].batch \in 1 .. Len(Head(queue[k]))
           /\ Batch(k) \in Batches
           /\ Batch(k).fp \in Fps
           /\ Tail(queue[k]) \in Seq(Envelopes)
<1>1. queue[k] \in Seq(Envelopes) /\ queue[k] # << >>
  BY DEF WorkInv, ProcType, WorkerOK
<1>2. Head(queue[k]) \in Envelopes /\ Tail(queue[k]) \in Seq(Envelopes)
  BY <1>1
<1>3. Head(queue[k]) \in Seq(Batches)
  BY <1>2, QueueAssumption
<1>4. worker[k].batch \in 1 .. Len(Head(queue[k]))
  BY DEF WorkInv, WorkerOK
<1>5. Batch(k) \in Batches
  BY <1>3, <1>4 DEF Batch
<1> QED BY <1>2, <1>3, <1>4, <1>5 DEF Batches

(* The parts of the inductive invariant a worker step has to keep. *)
WorkerFits(k) ==
    /\ worker[k] \in Workers
    /\ worker[k].pc = "idle" => receives[k] < MaxReceive
    /\ worker[k].pc # "idle" =>
          queue[k] # << >> /\ worker[k].batch \in 1 .. Len(Head(queue[k]))
    /\ worker[k].pc \in Opening => worker[k].id \in Groups
    /\ worker[k].pc \in {"increment", "joined", "resolve", "reread", "release", "stop", "closed"}
          => worker[k].group \in Groups

(* A step that rewrites one worker and leaves the queue alone. *)
LEMMA WorkerMove ==
    ASSUME WorkInv, NEW k \in Keys, worker[k].pc # "idle", UNCHANGED envelopeVars,
           NEW w \in Workers, worker' = [worker EXCEPT ![k] = w],
           w.pc # "idle", w.batch = worker[k].batch,
           w.pc \in Opening => w.id \in Groups,
           w.pc \in {"increment", "joined", "resolve", "reread", "release", "stop", "closed"}
              => w.group \in Groups
    PROVE  WorkInv'
<1>1. ProcType'
  BY DEF WorkInv, ProcType, envelopeVars
<1>2. ASSUME NEW j \in Keys PROVE WorkerFits(j)'
  <2>1. CASE j = k
    <3>1. worker'[k] = w
      BY DEF WorkInv, ProcType
    <3>2. queue[k] # << >> /\ worker[k].batch \in 1 .. Len(Head(queue[k]))
      BY DEF WorkInv, WorkerOK
    <3> QED BY <2>1, <3>1, <3>2 DEF WorkerFits, envelopeVars, Groups
  <2>2. CASE j # k
    <3>1. worker'[j] = worker[j]
      BY <2>2 DEF WorkInv, ProcType
    <3> QED BY <3>1 DEF WorkInv, ProcType, WorkerOK, WorkerFits, envelopeVars, Groups
  <2> QED BY <2>1, <2>2
<1> QED BY <1>1, <1>2 DEF WorkInv, WorkerOK, WorkerFits, Groups

LEMMA StepMove ==
    ASSUME WorkInv, NEW k \in Keys, worker[k].pc # "idle", UNCHANGED envelopeVars,
           NEW pc \in (Opening \cup Closing) \ {"increment"}, Step(k, pc),
           pc \in Opening => worker[k].pc \in Opening,
           pc \in {"joined", "resolve", "reread", "release", "stop", "closed"}
              => worker[k].group \in Groups
    PROVE  WorkInv'
<1> DEFINE w == [worker[k] EXCEPT !.pc = pc]
<1>1. worker[k] \in Workers
  BY DEF WorkInv, ProcType
<1>2. w \in Workers /\ w.pc = pc /\ w.batch = worker[k].batch
      /\ w.id = worker[k].id /\ w.group = worker[k].group
  BY <1>1 DEF Workers
<1>3. worker' = [worker EXCEPT ![k] = w]
  BY DEF Step
<1>4. pc # "idle"
  BY DEF Opening, Closing
<1>5. worker[k].pc \in Opening => worker[k].id \in Groups
  BY DEF WorkInv, WorkerOK
<1> HIDE DEF w
<1> QED BY <1>2, <1>3, <1>4, <1>5, WorkerMove

LEMMA IdleFacts == IdleWorker \in Workers /\ IdleWorker.pc = "idle"
BY DEF IdleWorker, Workers

(* The beginning of a batch. *)
LEMMA StartFacts ==
    ASSUME StoreType, NEW e \in Seq(Batches), NEW i \in 1 .. Len(e)
    PROVE  /\ BatchStart(e, i) \in Workers
           /\ BatchStart(e, i).batch = i
           /\ BatchStart(e, i).pc \in {"claim", "lookup"}
           /\ BatchStart(e, i).pc = "claim" => BatchStart(e, i).id \in Groups
<1>1. e[i] \in Batches
  OBVIOUS
<1>2. NewGroupID(now, e[i].fp) \in Groups
  BY <1>1, GroupFacts DEF Batches
<1>3. i \in Nat /\ e[i].firing \in BOOLEAN
  BY <1>1 DEF Batches
<1>5. CASE e[i].firing
  BY <1>2, <1>3, <1>5 DEF BatchStart, Workers, Opening
<1>6. CASE ~ e[i].firing
  BY <1>3, <1>6 DEF BatchStart, Workers, Closing
<1> QED BY <1>5, <1>6

(* Queues whose workers stay well formed keep the invariant, one worker at a time. *)
LEMMA WorkerAlone ==
    ASSUME WorkInv, NEW k \in Keys, ProcType',
           \A j \in Keys \ {k} :
              worker'[j] = worker[j] /\ queue'[j] = queue[j] /\ receives'[j] = receives[j],
           WorkerFits(k)'
    PROVE  WorkInv'
<1>1. ASSUME NEW j \in Keys PROVE WorkerFits(j)'
  <2>1. CASE j = k
    BY <2>1
  <2>2. CASE j # k
    BY <2>2 DEF WorkInv, ProcType, WorkerOK, WorkerFits, Groups
  <2> QED BY <2>1, <2>2
<1> QED BY <1>1 DEF WorkInv, WorkerOK, WorkerFits, Groups

LEMMA AbandonType ==
    ASSUME WorkInv, NEW k \in Keys, worker[k].pc # "idle", Abandon(k)
    PROVE  WorkInv'
<1>0. /\ queue \in [Keys -> Seq(Envelopes)] /\ receives \in [Keys -> 0 .. MaxReceive]
      /\ parked \in [Keys -> Seq(Envelopes)] /\ worker \in [Keys -> Workers]
  BY DEF WorkInv, ProcType
<1>1. Head(queue[k]) \in Envelopes /\ Tail(queue[k]) \in Seq(Envelopes)
  BY BatchFacts
<1>2. worker' = [worker EXCEPT ![k] = IdleWorker]
  BY DEF Abandon
<1>3. CASE receives[k] = MaxReceive
  <2>1. Append(parked[k], Head(queue[k])) \in Seq(Envelopes)
    BY <1>0, <1>1
  <2>2. /\ parked' = [parked EXCEPT ![k] = Append(parked[k], Head(queue[k]))]
        /\ queue' = [queue EXCEPT ![k] = Tail(queue[k])]
        /\ receives' = [receives EXCEPT ![k] = 0]
        /\ UNCHANGED <<sent, applied>>
    BY <1>3 DEF Abandon
  <2>3. ProcType'
    BY <1>0, <1>1, <1>2, <2>1, <2>2, IdleFacts, QueueAssumption DEF WorkInv, ProcType
  <2>4. WorkerFits(k)'
    BY <1>0, <1>2, <2>2, IdleFacts, QueueAssumption
    DEF WorkerFits, IdleWorker, Opening
  <2> QED BY <1>0, <1>2, <2>2, <2>3, <2>4, WorkerAlone
<1>4. CASE receives[k] # MaxReceive
  <2>1. UNCHANGED <<parked, queue, receives, sent, applied>>
    BY <1>4 DEF Abandon
  <2>2. ProcType'
    BY <1>0, <1>2, <2>1, IdleFacts DEF WorkInv, ProcType
  <2>3. WorkerFits(k)'
    BY <1>0, <1>2, <1>4, <2>1, IdleFacts, QueueAssumption
    DEF WorkerFits, IdleWorker, Opening
  <2> QED BY <1>0, <1>2, <2>1, <2>2, <2>3, WorkerAlone
<1> QED BY <1>3, <1>4

LEMMA BatchDoneType ==
    ASSUME StoreType, WorkInv, NEW k \in Keys, worker[k].pc # "idle",
           NEW outcome \in Outcomes, BatchDoneAs(k, outcome)
    PROVE  WorkInv'
<1> DEFINE e == Head(queue[k])
           i == worker[k].batch
<1>0. /\ queue \in [Keys -> Seq(Envelopes)] /\ receives \in [Keys -> 0 .. MaxReceive]
      /\ parked \in [Keys -> Seq(Envelopes)] /\ worker \in [Keys -> Workers]
      /\ applied \in [Fps -> Outcomes] /\ queue[k] # << >>
  BY DEF WorkInv, ProcType, WorkerOK
<1>1. e \in Seq(Batches) /\ i \in 1 .. Len(e) /\ Tail(queue[k]) \in Seq(Envelopes)
  BY BatchFacts
<1>2. applied' \in [Fps -> Outcomes] /\ UNCHANGED <<sent, parked>>
  BY <1>0 DEF BatchDoneAs
<1>3. CASE i < Len(e) /\ worker' = [worker EXCEPT ![k] = BatchStart(e, i + 1)]
           /\ UNCHANGED <<queue, receives>>
  <2>1. i + 1 \in 1 .. Len(e)
    BY <1>1, <1>3
  <2>2. BatchStart(e, i + 1) \in Workers /\ BatchStart(e, i + 1).batch = i + 1
        /\ BatchStart(e, i + 1).pc \in {"claim", "lookup"}
        /\ (BatchStart(e, i + 1).pc = "claim" => BatchStart(e, i + 1).id \in Groups)
    BY <1>1, <2>1, StartFacts
  <2>3. ProcType'
    BY <1>0, <1>2, <1>3, <2>2 DEF WorkInv, ProcType
  <2>4. worker'[k] = BatchStart(e, i + 1) /\ queue'[k] = queue[k]
    BY <1>0, <1>3
  <2> HIDE DEF i
  <2>5. WorkerFits(k)'
    BY <1>0, <2>1, <2>2, <2>4 DEF WorkerFits, Opening, Groups
  <2> QED BY <1>0, <1>3, <2>3, <2>5, WorkerAlone
<1>4. CASE worker' = [worker EXCEPT ![k] = IdleWorker]
           /\ queue' = [queue EXCEPT ![k] = Tail(queue[k])]
           /\ receives' = [receives EXCEPT ![k] = 0]
  <2>1. ProcType'
    BY <1>0, <1>1, <1>2, <1>4, IdleFacts, QueueAssumption DEF WorkInv, ProcType
  <2>2. WorkerFits(k)'
    BY <1>0, <1>4, IdleFacts, QueueAssumption DEF WorkerFits, IdleWorker, Opening
  <2> QED BY <1>0, <1>4, <2>1, <2>2, WorkerAlone
<1> QED BY <1>3, <1>4 DEF BatchDoneAs

LEMMA BatchAppliedType ==
    ASSUME StoreType, WorkInv, NEW k \in Keys, worker[k].pc # "idle", BatchDone(k)
    PROVE  WorkInv'
BY BatchDoneType DEF BatchDone, Outcomes

LEMMA QueueStep ==
    ASSUME IInv, NEW k \in Keys,
           Receive(k) \/ WorkerFails(k) \/ LookupFails(k) \/ \E e \in Envelopes : Publish(k, e)
    PROVE  StoreType' /\ LadderInv' /\ WorkInv'
<1> USE DEF IInv
<1>0. /\ queue \in [Keys -> Seq(Envelopes)] /\ receives \in [Keys -> 0 .. MaxReceive]
      /\ parked \in [Keys -> Seq(Envelopes)] /\ worker \in [Keys -> Workers]
      /\ sent \in 0 .. MaxSent
  BY DEF WorkInv, ProcType
<1>1. LadderInv'
  BY DEF Receive, WorkerFails, LookupFails, Publish, LadderInv, EscType, RungOK, escVars
<1>2. CASE Receive(k)
  <2>1. StoreType'
    BY <1>2 DEF Receive, StoreType, storeVars
  <2>2. Head(queue[k]) \in Seq(Batches) \ {<< >>}
    BY <1>0, <1>2, QueueAssumption DEF Receive
  <2>3. 1 \in 1 .. Len(Head(queue[k]))
    BY <2>2
  <2>4. BatchStart(Head(queue[k]), 1) \in Workers
        /\ BatchStart(Head(queue[k]), 1).batch = 1
        /\ BatchStart(Head(queue[k]), 1).pc \in {"claim", "lookup"}
        /\ (BatchStart(Head(queue[k]), 1).pc = "claim"
              => BatchStart(Head(queue[k]), 1).id \in Groups)
    BY <2>2, <2>3, StartFacts
  <2>5. receives[k] + 1 \in 0 .. MaxReceive
    BY <1>0, <1>2, QueueAssumption DEF Receive, At, WorkInv, WorkerOK
  <2>6. /\ worker' = [worker EXCEPT ![k] = BatchStart(Head(queue[k]), 1)]
        /\ receives' = [receives EXCEPT ![k] = receives[k] + 1]
        /\ UNCHANGED <<sent, queue, parked, applied>> /\ queue[k] # << >>
    BY <1>2 DEF Receive
  <2>7. ProcType'
    BY <1>0, <2>4, <2>5, <2>6 DEF WorkInv, ProcType
  <2>8. WorkerFits(k)'
    BY <1>0, <2>3, <2>4, <2>6 DEF WorkerFits, Opening, Groups
  <2> QED BY <1>0, <1>1, <2>1, <2>6, <2>7, <2>8, WorkerAlone
<1>3. CASE WorkerFails(k)
  <2>1. StoreType'
    BY <1>3, FaultType DEF WorkerFails, StoreType, storeVars
  <2> QED BY <1>1, <1>3, <2>1, AbandonType DEF WorkerFails, At
<1>4. CASE \E e \in Envelopes : Publish(k, e)
  <2> PICK e \in Envelopes : Publish(k, e)
    BY <1>4
  <2>1. StoreType'
    BY DEF Publish, StoreType, storeVars
  <2>2. sent' \in 0 .. MaxSent
    BY <1>0, QueueAssumption DEF Publish
  <2>3. Append(queue[k], e) \in Seq(Envelopes)
    BY <1>0
  <2>4. queue' = [queue EXCEPT ![k] = Append(queue[k], e)]
        /\ UNCHANGED <<receives, parked, worker, applied>>
    BY DEF Publish
  <2>5. ProcType'
    BY <1>0, <2>2, <2>3, <2>4 DEF WorkInv, ProcType
  <2>6. queue[k] # << >> => queue'[k] # << >> /\ Head(queue'[k]) = Head(queue[k])
    <3>1. queue'[k] = Append(queue[k], e) /\ queue[k] \in Seq(Envelopes)
      BY <1>0, <2>4
    <3>2. ASSUME NEW q \in Seq(Envelopes), q # << >>
          PROVE  Append(q, e) # << >> /\ Head(Append(q, e)) = Head(q)
      BY <3>2
    <3> QED BY <3>1, <3>2
  <2>7. WorkerFits(k)'
    BY <1>0, <2>4, <2>6 DEF WorkerFits, WorkInv, WorkerOK, Groups
  <2> QED BY <1>0, <1>1, <2>1, <2>4, <2>5, <2>7, WorkerAlone
<1>5. CASE LookupFails(k)
  <2>1. StoreType'
    BY <1>5, FaultType DEF LookupFails, StoreType, storeVars
  <2> QED BY <1>1, <1>5, <2>1, BatchDoneType DEF LookupFails, At, Outcomes
<1> QED BY <1>2, <1>3, <1>4, <1>5

LEMMA ApplyStep ==
    ASSUME IInv, NEW k \in Keys, ApplySteps(k)
    PROVE  StoreType' /\ LadderInv' /\ WorkInv'
<1> USE DEF IInv
<1>0. worker[k] \in Workers /\ worker[k].pc # "idle" /\ Batch(k).fp \in Fps
      /\ (worker[k].pc \in Opening => worker[k].id \in Groups)
  <2>1. worker[k].pc # "idle"
    BY DEF ApplySteps, Claim, PointerTarget, Increment, Reclaim, Put, LogOpened, Start,
           KeepExecution, ApplyDone, At
  <2> QED BY <2>1, BatchFacts DEF WorkInv, ProcType, WorkerOK
<1>1. (UNCHANGED escVars) => LadderInv'
  BY DEF LadderInv, EscType, RungOK, escVars
<1>2. CASE Claim(k)
  <2>1. StoreType'
    BY <1>0, <1>2 DEF Claim, At, Opening, StoreType, PutPointer
  <2>2. \E pc \in {"put", "target"} : Step(k, pc)
    BY <1>2 DEF Claim
  <2>3. UNCHANGED envelopeVars /\ worker[k].pc \in Opening
    BY <1>2 DEF Claim, At, Opening
  <2> QED BY <1>0, <1>1, <1>2, <2>1, <2>2, <2>3, StepMove DEF Claim, Opening, Closing
<1>3. CASE PointerTarget(k)
  <2>1. StoreType' /\ LadderInv'
    BY <1>1, <1>3 DEF PointerTarget, StoreType, storeVars
  <2>2. CASE Abandon(k)
    BY <1>0, <2>1, <2>2, AbandonType
  <2>3. CASE ~ PointerAbsent(Batch(k).fp) /\ UNCHANGED envelopeVars
             /\ worker' = [worker EXCEPT ![k].pc = "increment", ![k].group = pointer[Batch(k).fp]]
    <3> DEFINE w == [worker[k] EXCEPT !.pc = "increment", !.group = pointer[Batch(k).fp]]
    <3>1. pointer[Batch(k).fp] \in Groups
      BY <1>0, <2>3 DEF PointerAbsent, StoreType
    <3>2. w \in Workers /\ w.pc = "increment" /\ w.batch = worker[k].batch
          /\ w.id = worker[k].id /\ w.group = pointer[Batch(k).fp]
      BY <1>0, <3>1 DEF Workers, Opening
    <3>3. worker' = [worker EXCEPT ![k] = w]
      BY <1>0, <2>3 DEF WorkInv, ProcType
    <3>4. worker[k].id \in Groups
      BY <1>0, <1>3 DEF PointerTarget, At, Opening
    <3> HIDE DEF w
    <3> QED BY <1>0, <2>1, <2>3, <3>1, <3>2, <3>3, <3>4, WorkerMove
  <2> QED BY <1>3, <2>2, <2>3 DEF PointerTarget
<1>4. CASE Increment(k)
  <2>1. StoreType'
    BY <1>4 DEF Increment, StoreType, storeVars
  <2>2. \E pc \in {"joined", "reclaim"} : Step(k, pc)
    BY <1>4 DEF Increment
  <2>3. UNCHANGED envelopeVars /\ worker[k].pc \in Opening /\ worker[k].group \in Groups
    BY <1>4 DEF Increment, At, Opening, WorkInv, WorkerOK
  <2> QED BY <1>0, <1>1, <1>4, <2>1, <2>2, <2>3, StepMove DEF Increment, Opening, Closing
<1>5. CASE Reclaim(k)
  <2>1. StoreType'
    BY <1>0, <1>5 DEF Reclaim, At, Opening, StoreType, PutPointer
  <2> QED BY <1>0, <1>1, <1>5, <2>1, StepMove DEF Reclaim, At, Opening, Closing
<1>6. CASE Put(k)
  <2>1. worker[k].id \in Groups
    BY <1>0, <1>6 DEF Put, At, Opening
  <2>2. StoreType'
    BY <1>6, <2>1, WriteMetaType, ItemFacts DEF Put, PutMeta, StoreType
  <2> QED BY <1>0, <1>1, <1>6, <2>2, StepMove DEF Put, At, Opening, Closing
<1>7. CASE LogOpened(k)
  <2>1. StoreType'
    BY <1>7 DEF LogOpened, StoreType, Timeline, Entries
  <2> QED BY <1>0, <1>1, <1>7, <2>1, StepMove DEF LogOpened, At, Opening, Closing
<1>8. CASE Start(k)
  <2>1. StoreType' /\ LadderInv'
    BY <1>0, <1>8, StartType DEF Start, At, Opening, StoreType, storeVars
  <2> QED BY <1>0, <1>8, <2>1, StepMove DEF Start, At, Opening, Closing
<1>9. CASE KeepExecution(k)
  <2>1. worker[k].id \in Groups
    BY <1>0, <1>9 DEF KeepExecution, At, Opening
  <2>2. [meta[worker[k].id] EXCEPT !.arn = TRUE] \in Items
    <3>1. meta[worker[k].id] \in Items
      BY <2>1 DEF StoreType
    <3> QED BY <3>1 DEF Items
  <2>3. StoreType'
    BY <1>9, <2>1, <2>2, WriteMetaType DEF KeepExecution, SetExecution, StoreType
  <2> QED BY <1>0, <1>1, <1>9, <2>3, StepMove DEF KeepExecution, At, Opening, Closing
<1>10. CASE ApplyDone(k)
  <2>1. log' \in [Groups -> SUBSET Entries]
    BY <1>10 DEF ApplyDone, StoreType, TimelineInstead, Entries
  <2>2. StoreType'
    BY <1>10, <2>1 DEF ApplyDone, StoreType
  <2> QED BY <1>0, <1>1, <1>10, <2>2, BatchAppliedType DEF ApplyDone
<1> QED BY <1>2, <1>3, <1>4, <1>5, <1>6, <1>7, <1>8, <1>9, <1>10 DEF ApplySteps

LEMMA CloseStep ==
    ASSUME IInv, NEW k \in Keys, CloseSteps(k)
    PROVE  StoreType' /\ LadderInv' /\ WorkInv'
<1> USE DEF IInv
<1>0. worker[k] \in Workers /\ worker[k].pc # "idle" /\ Batch(k).fp \in Fps
      /\ (worker[k].pc \in {"resolve", "reread", "release", "stop", "closed"}
            => worker[k].group \in Groups)
  <2>1. worker[k].pc # "idle"
    BY DEF CloseSteps, Lookup, CloseUpdate, CloseReread, CloseRelease, CloseStop, CloseDone, At
  <2> QED BY <2>1, BatchFacts DEF WorkInv, ProcType, WorkerOK
<1>1. (UNCHANGED escVars) => LadderInv'
  BY DEF LadderInv, EscType, RungOK, escVars
<1>a. ASSUME NEW arn \in BOOLEAN, worker[k].group \in Groups, UNCHANGED envelopeVars,
             worker' = [worker EXCEPT ![k].pc = "release", ![k].arn = arn]
      PROVE  WorkInv'
  <2> DEFINE w == [worker[k] EXCEPT !.pc = "release", !.arn = arn]
  <2>1. w \in Workers /\ w.pc = "release" /\ w.batch = worker[k].batch /\ w.group = worker[k].group
    BY <1>0, <1>a DEF Workers, Closing
  <2>2. worker' = [worker EXCEPT ![k] = w]
    BY <1>0, <1>a DEF WorkInv, ProcType
  <2>3. "release" \notin Opening
    BY DEF Opening
  <2> HIDE DEF w
  <2> QED BY <1>0, <1>a, <2>1, <2>2, <2>3, WorkerMove
<1>2. CASE Lookup(k)
  <2>1. StoreType' /\ LadderInv'
    BY <1>1, <1>2 DEF Lookup, StoreType, storeVars
  <2>2. CASE BatchDone(k)
    BY <1>0, <2>1, <2>2, BatchAppliedType
  <2>3. CASE ~ PointerAbsent(Batch(k).fp) /\ UNCHANGED envelopeVars
             /\ worker' = [worker EXCEPT ![k].pc = "resolve", ![k].group = pointer[Batch(k).fp]]
    <3> DEFINE w == [worker[k] EXCEPT !.pc = "resolve", !.group = pointer[Batch(k).fp]]
    <3>1. pointer[Batch(k).fp] \in Groups
      BY <1>0, <2>3 DEF PointerAbsent, StoreType
    <3>2. w \in Workers /\ w.pc = "resolve" /\ w.batch = worker[k].batch
          /\ w.group = pointer[Batch(k).fp]
      BY <1>0, <3>1 DEF Workers, Closing
    <3>3. worker' = [worker EXCEPT ![k] = w]
      BY <1>0, <2>3 DEF WorkInv, ProcType
    <3>4. "resolve" \notin Opening
      BY DEF Opening
    <3> HIDE DEF w
    <3> QED BY <1>0, <2>1, <2>3, <3>1, <3>2, <3>3, <3>4, WorkerMove
  <2> QED BY <1>2, <2>2, <2>3 DEF Lookup
<1>3. CASE CloseUpdate(k)
  <2>1. worker[k].group \in Groups /\ UNCHANGED envelopeVars
    BY <1>0, <1>3 DEF CloseUpdate, At
  <2>2. meta[worker[k].group] \in Items /\ meta[worker[k].group].arn \in BOOLEAN
    BY <2>1 DEF StoreType, Items
  <2>3. [meta[worker[k].group] EXCEPT !.state = Resolved] \in Items
    BY <2>2 DEF Items, States
  <2>4. StoreType'
    <3>1. CASE Move(worker[k].group, Resolved)
      BY <1>3, <2>1, <2>3, <3>1, WriteMetaType DEF CloseUpdate, Move, StoreType
    <3>2. CASE UNCHANGED <<meta, past>>
      BY <1>3, <3>2 DEF CloseUpdate, StoreType
    <3> QED BY <1>3, <3>1, <3>2 DEF CloseUpdate
  <2>5. WorkInv'
    <3>1. CASE worker' = [worker EXCEPT ![k].pc = "release", ![k].arn = meta[worker[k].group].arn]
      BY <1>a, <2>1, <2>2, <3>1
    <3>2. CASE Step(k, "reread")
      BY <1>0, <2>1, <3>2, StepMove DEF Opening, Closing
    <3> QED BY <1>3, <3>1, <3>2 DEF CloseUpdate
  <2> QED BY <1>1, <1>3, <2>4, <2>5 DEF CloseUpdate
<1>4. CASE CloseReread(k)
  <2>1. StoreType' /\ LadderInv'
    BY <1>1, <1>4 DEF CloseReread, StoreType, storeVars
  <2>2. worker[k].group \in Groups
    BY <1>0, <1>4 DEF CloseReread, At
  <2>3. PICK item \in Get(worker[k].group) :
          \/ Abandon(k)
          \/ BatchDone(k)
          \/ /\ worker' = [worker EXCEPT ![k].pc = "release", ![k].arn = item.arn]
             /\ UNCHANGED envelopeVars
    BY <1>4 DEF CloseReread
  <2>4. item.arn \in BOOLEAN
    BY <2>2, GetType, ItemFacts
  <2> QED BY <1>0, <1>a, <2>1, <2>2, <2>3, <2>4, AbandonType, BatchAppliedType
<1>5. CASE CloseRelease(k)
  <2>1. StoreType'
    BY <1>5 DEF CloseRelease, StoreType, DeletePointer
  <2> QED BY <1>0, <1>1, <1>5, <2>1, StepMove DEF CloseRelease, At, Opening, Closing
<1>6. CASE CloseStop(k)
  <2>1. worker[k].arn \in BOOLEAN
    BY <1>0 DEF Workers
  <2>2. StoreType' /\ LadderInv'
    BY <1>0, <1>6, <2>1, StopType DEF CloseStop, At, StoreType, storeVars
  <2> QED BY <1>0, <1>6, <2>2, StepMove DEF CloseStop, At, Opening, Closing
<1>7. CASE CloseDone(k)
  <2>1. StoreType'
    BY <1>7 DEF CloseDone, StoreType, Timeline, Entries
  <2> QED BY <1>0, <1>1, <1>7, <2>1, BatchAppliedType DEF CloseDone
<1> QED BY <1>2, <1>3, <1>4, <1>5, <1>6, <1>7 DEF CloseSteps

-----------------------------------------------------------------------------
(* The callback. *)

LEMMA ActionType ==
    ASSUME PressInv, NEW p \in Presses
    PROVE  Target(press[p].action) \in {Acked, Resolved}
BY DEF Target

(* A step that rewrites one press record. *)
LEMMA PressMove ==
    ASSUME PressInv, NEW p \in Presses, NEW r \in PressRecords,
           r.pc # "idle" => r.group \in Groups /\ r.action \in Buttons,
           press' = [press EXCEPT ![p] = r]
    PROVE  PressInv'
BY DEF PressInv, CallbackType, PressOK, Groups, Buttons

LEMMA PressStepType ==
    ASSUME PressInv, NEW p \in Presses, press[p].pc # "idle",
           NEW pc \in Handler \cup {"done"}, PressStep(p, pc)
    PROVE  PressInv'
<1> DEFINE r == [press[p] EXCEPT !.pc = pc]
<1>1. press[p] \in PressRecords /\ press[p].group \in Groups /\ press[p].action \in Buttons
  BY DEF PressInv, CallbackType, PressOK
<1>2. r \in PressRecords /\ r.group = press[p].group /\ r.action = press[p].action
  BY <1>1 DEF PressRecords
<1>3. press' = [press EXCEPT ![p] = r]
  BY DEF PressStep, PressInv, CallbackType
<1> HIDE DEF r
<1> QED BY <1>1, <1>2, <1>3, PressMove

LEMMA ReplyType ==
    ASSUME PressInv, NEW p \in Presses, press[p].pc # "idle",
           NEW reply \in Replies, Reply(p, reply)
    PROVE  PressInv'
<1> DEFINE r == [press[p] EXCEPT !.pc = "done", !.reply = reply]
<1>1. press[p] \in PressRecords /\ press[p].group \in Groups /\ press[p].action \in Buttons
  BY DEF PressInv, CallbackType, PressOK
<1>2. r \in PressRecords /\ r.group = press[p].group /\ r.action = press[p].action
  BY <1>1 DEF PressRecords
<1>3. press' = [press EXCEPT ![p] = r]
  BY <1>1 DEF Reply, PressInv, CallbackType, PressRecords
<1> HIDE DEF r
<1> QED BY <1>1, <1>2, <1>3, PressMove

LEMMA MovedType ==
    ASSUME PressInv, NEW p \in Presses, press[p].pc # "idle",
           NEW item \in Items, Moved(p, item)
    PROVE  PressInv'
<1> DEFINE pc == IF press[p].action = "resolve" THEN "release" ELSE "timeline"
           edit == IF item.messageID # 0 THEN item.messageID ELSE press[p].message
           misled == item.state # meta[press[p].group].state
           r == [press[p] EXCEPT !.pc = pc, !.arn = item.arn, !.misled = misled, !.edit = edit]
<1>1. press[p] \in PressRecords /\ press[p].group \in Groups /\ press[p].action \in Buttons
  BY DEF PressInv, CallbackType, PressOK
<1>2. pc \in Handler /\ edit \in Nat /\ item.arn \in BOOLEAN /\ misled \in BOOLEAN
  BY <1>1, ItemFacts DEF Handler, PressRecords
<1>3. press' = [press EXCEPT ![p].pc = pc, ![p].arn = item.arn, ![p].misled = misled, ![p].edit = edit]
  BY <1>1 DEF Moved, PressInv, CallbackType, PressRecords
<1> HIDE DEF pc, edit, misled
<1>4. r \in PressRecords /\ r.group = press[p].group /\ r.action = press[p].action
  BY <1>1, <1>2 DEF PressRecords
<1>5. press' = [press EXCEPT ![p] = r]
  BY <1>1, <1>3 DEF PressInv, CallbackType, PressRecords
<1> HIDE DEF r
<1> QED BY <1>1, <1>4, <1>5, PressMove

(* An edit changes what one message shows, if the group has that message. *)
LEMMA EditType ==
    ASSUME NEW q \in Seq(Messages), NEW m \in Nat, NEW s \in Shown
    PROVE  [q EXCEPT ![m].shown = s] \in Seq(Messages)
<1> DEFINE e == [q EXCEPT ![m].shown = s]
<1>1. DOMAIN e = 1 .. Len(q)
  OBVIOUS
<1>2. ASSUME NEW i \in 1 .. Len(q) PROVE e[i] \in Messages
  <2>1. q[i] \in Messages
    OBVIOUS
  <2>2. CASE i = m
    <3>1. e[i] = [q[i] EXCEPT !.shown = s]
      BY <2>2
    <3> QED BY <2>1, <3>1 DEF Messages
  <2>3. CASE i # m
    BY <2>1, <2>3
  <2> QED BY <2>2, <2>3
<1>3. e = [i \in 1 .. Len(q) |-> e[i]]
  OBVIOUS
<1>4. Len(q) \in Nat
  OBVIOUS
<1> HIDE DEF e
<1>5. e \in [1 .. Len(q) -> Messages]
  BY <1>2, <1>3
<1>6. e \in Seq(Messages)
  BY <1>4, <1>5
<1> QED BY <1>6 DEF e

LEMMA CallbackStep ==
    ASSUME IInv, NEW p \in Presses,
           \/ \E action \in Actions, g \in Groups : \E m \in DOMAIN chat[g] : Press(p, action, g, m)
           \/ CallbackSteps(p) \/ BestEffortFails(p) \/ CallbackFails(p)
    PROVE  StoreType' /\ LadderInv' /\ PressInv'
<1> USE DEF IInv
<1>0. press[p] \in PressRecords /\ (press[p].pc # "idle" => press[p].group \in Groups /\ press[p].action \in Buttons)
  BY DEF PressInv, CallbackType, PressOK
<1>1. (UNCHANGED escVars) => LadderInv'
  BY DEF LadderInv, EscType, RungOK, escVars
<1>2. CASE \E action \in Actions, g \in Groups : \E m \in DOMAIN chat[g] : Press(p, action, g, m)
  <2> PICK action \in Actions, g \in Groups : \E m \in DOMAIN chat[g] : Press(p, action, g, m)
    BY <1>2
  <2> PICK m \in DOMAIN chat[g] : Press(p, action, g, m)
    OBVIOUS
  <2> DEFINE r == [press[p] EXCEPT !.pc = "update", !.action = action, !.group = g, !.message = m]
  <2>1. StoreType'
    BY DEF Press, StoreType, storeVars
  <2>2. action \in {"ack", "resolve", "silence"} /\ m \in Nat
    BY PressAssumption DEF LadderInv, EscType
  <2>3. r \in PressRecords /\ r.group = g /\ r.action = action
    BY <1>0, <2>2 DEF PressRecords, Handler
  <2>4. press' = [press EXCEPT ![p] = r]
    BY <1>0 DEF Press, PressInv, CallbackType, PressRecords
  <2> HIDE DEF r
  <2>5. PressInv'
    BY <2>2, <2>3, <2>4, PressMove DEF Buttons
  <2> QED BY <1>1, <2>1, <2>5 DEF Press
<1>3. CASE Update(p)
  <2> DEFINE g == press[p].group
             to == Target(press[p].action)
  <2>1. g \in Groups /\ to \in States /\ press[p].pc # "idle"
    BY <1>0, <1>3, ActionType DEF Update, PressAt, States
  <2>2. meta[g] \in Items
    BY <2>1 DEF StoreType
  <2>3. [meta[g] EXCEPT !.state = to] \in Items
    BY <2>1, <2>2 DEF Items
  <2>4. StoreType'
    <3>1. CASE Move(g, to)
      BY <1>3, <2>1, <2>3, <3>1, WriteMetaType DEF Update, Move, StoreType
    <3>2. CASE UNCHANGED <<meta, past>>
      BY <1>3, <3>2 DEF Update, StoreType
    <3> QED BY <1>3, <3>1, <3>2 DEF Update
  <2>5. PressInv'
    <3>1. CASE Moved(p, meta[g])
      BY <2>1, <2>2, <3>1, MovedType
    <3>2. CASE PressStep(p, "reread")
      BY <2>1, <3>2, PressStepType DEF Handler
    <3> QED BY <1>3, <3>1, <3>2 DEF Update
  <2> QED BY <1>1, <1>3, <2>4, <2>5 DEF Update
<1>4. CASE Reread(p)
  <2>1. StoreType' /\ LadderInv'
    BY <1>1, <1>4 DEF Reread, RereadAs, StoreType, storeVars
  <2>2. press[p].group \in Groups /\ press[p].pc # "idle"
    BY <1>0, <1>4 DEF Reread, PressAt
  <2>3. PICK item \in Get(press[p].group) :
          \/ \E reply \in {"error", "repeat", "conflict"} : Reply(p, reply)
          \/ Moved(p, item)
    <3>1. PICK item \in Get(press[p].group) :
            Reply(p, "error") \/ Reply(p, "repeat") \/ Reply(p, "conflict") \/ Moved(p, item)
      BY <1>4 DEF Reread, RereadAs
    <3> QED BY <3>1
  <2>4. item \in Items
    BY <2>2, GetType
  <2> QED BY <2>1, <2>2, <2>3, <2>4, ReplyType, MovedType DEF Replies
<1>5. CASE Release(p)
  <2>1. StoreType'
    BY <1>5 DEF Release, StoreType, DeletePointer
  <2> QED BY <1>1, <1>5, <2>1, PressStepType DEF Release, PressAt, Handler
<1>6. CASE LogPress(p)
  <2>1. StoreType'
    BY <1>0, <1>6 DEF LogPress, StoreType, Timeline, PressAt, Buttons, Entries
  <2> QED BY <1>1, <1>6, <2>1, PressStepType DEF LogPress, PressAt, Handler
<1>7. CASE Rewrite(p)
  <2>1. StoreType'
    BY <1>7 DEF Rewrite, StoreType, storeVars
  <2>2. PICK s \in Shown :
          chat' = [chat EXCEPT ![press[p].group][press[p].edit].shown = s]
    BY <1>7 DEF Rewrite, Shown
  <2>3. press[p].group \in Groups /\ press[p].edit \in Nat
    BY <1>0, <1>7 DEF Rewrite, PressAt, PressRecords
  <2>4. chat[press[p].group] \in Seq(Messages)
    BY <2>3 DEF LadderInv, EscType
  <2>5. [chat[press[p].group] EXCEPT ![press[p].edit].shown = s] \in Seq(Messages)
    BY <2>3, <2>4, EditType
  <2>6. LadderInv'
    BY <1>7, <2>2, <2>5 DEF Rewrite, LadderInv, EscType, RungOK
  <2> QED BY <1>7, <2>1, <2>6, PressStepType DEF Rewrite, PressAt, Handler
<1>8. CASE StopLadder(p)
  <2>1. press[p].group \in Groups /\ press[p].arn \in BOOLEAN
    BY <1>0, <1>8 DEF StopLadder, PressAt, PressRecords
  <2>2. StoreType' /\ LadderInv'
    BY <1>8, <2>1, StopType DEF StopLadder, StoreType, storeVars
  <2> QED BY <1>8, <2>2, PressStepType DEF StopLadder, PressAt, Handler
<1>9. CASE Answer(p)
  <2>1. StoreType'
    BY <1>9 DEF Answer, StoreType, storeVars
  <2> QED BY <1>1, <1>9, <2>1, ReplyType DEF Answer, PressAt, Replies
<1>10. CASE BestEffortFails(p)
  <2>1. StoreType'
    BY <1>10, FaultType DEF BestEffortFails, StoreType, storeVars
  <2>2. press[p].pc # "idle" /\ \E pc \in {"stop", "answer"} : PressStep(p, pc)
    BY <1>10 DEF BestEffortFails, PressAt
  <2> QED BY <1>1, <1>10, <2>1, <2>2, PressStepType DEF BestEffortFails, Handler
<1>11. CASE CallbackFails(p)
  <2>1. StoreType'
    BY <1>11, FaultType DEF CallbackFails, StoreType, storeVars
  <2> QED BY <1>1, <1>11, <2>1, ReplyType DEF CallbackFails, Handler, Replies
<1>12. CASE Redeliver(p)
  <2>1. StoreType'
    BY <1>12 DEF Redeliver, StoreType, storeVars
  <2> QED BY <1>1, <1>12, <2>1, PressStepType DEF Redeliver, PressAt, Handler
<1> QED BY <1>2, <1>3, <1>4, <1>5, <1>6, <1>7, <1>8, <1>9, <1>10, <1>11, <1>12
        DEF CallbackSteps, HandlerSteps

-----------------------------------------------------------------------------
(* The invariant is inductive. *)
THEOREM StepIInv == IInv /\ [Next]_vars => IInv'
<1> SUFFICES ASSUME IInv, [Next]_vars PROVE IInv'
  OBVIOUS
<1>1. CASE StoreNext
  BY <1>1, StoreStep
<1>2. CASE LadderNext
  <2> PICK g \in Groups : EscSteps(g) \/ EscFaults(g)
    BY <1>2 DEF LadderNext, EscNext
  <2>1. StoreType' /\ LadderInv'
    BY LadderStep
  <2>2. WorkInv'
    BY <1>2 DEF LadderNext, IInv, WorkInv, ProcType, WorkerOK, procVars, Groups
  <2>3. PressInv'
    BY <1>2 DEF LadderNext, IInv, PressInv, CallbackType, PressOK, Groups
  <2> QED BY <2>1, <2>2, <2>3 DEF IInv
<1>3. CASE WorkerNext
  <2>1. StoreType' /\ LadderInv' /\ WorkInv'
    BY <1>3, QueueStep, ApplyStep, CloseStep DEF WorkerNext, ProcNext, ProcSteps
  <2>2. PressInv'
    BY <1>3 DEF WorkerNext, IInv, PressInv, CallbackType, PressOK, Groups
  <2> QED BY <2>1, <2>2 DEF IInv
<1>4. CASE PressNext
  <2>1. StoreType' /\ LadderInv' /\ PressInv'
    BY <1>4, CallbackStep DEF PressNext, CallbackNext
  <2>2. WorkInv'
    BY <1>4 DEF PressNext, IInv, WorkInv, ProcType, WorkerOK, procVars, Groups
  <2> QED BY <2>1, <2>2 DEF IInv
<1>5. CASE UNCHANGED vars
  BY <1>5 DEF vars, storeVars, escVars, procVars, IInv, StoreType, LadderInv, EscType, RungOK,
              WorkInv, ProcType, WorkerOK, PressInv, CallbackType, PressOK, Groups
<1> QED BY <1>1, <1>2, <1>3, <1>4, <1>5 DEF Next

(* Every value stays in its type, for every instance of the system: in           *)
(* particular no envelope is received more than MaxReceive times, no level runs   *)
(* past the last repeat by more than one, and no step reads a batch, a group or   *)
(* a policy step that is not there.                                               *)
THEOREM TypeCorrect == Spec => []TypeOK
<1>1. IInv => TypeOK
  BY DEF IInv, LadderInv, WorkInv, PressInv, TypeOK
<1> QED BY InitIInv, StepIInv, <1>1, PTL DEF Spec

-----------------------------------------------------------------------------
(* The bound of the ladder.  An invocation that has paged for the level of its    *)
(* payload has used that level up; before it pages, only the earlier ones are.    *)
(* Every page beyond one per used-up level was paid for by a failed call.  An     *)
(* execution that does not exist has used none.                                   *)
Unused(pc) == pc \in {"get", "send", "notify_failed", "wait"}

Paid(g) ==
    /\ Unused(exec[g].pc) => Len(chat[g]) + 1 <= exec[g].level + faults
    /\ ~ Unused(exec[g].pc) => Len(chat[g]) <= exec[g].level + faults
    /\ Len(chat[g]) <= Top + faults
    /\ exec[g].status = "absent" => exec[g].level = 0 /\ exec[g].pc = "none"

BoundInv == \A g \in Groups : Paid(g)

THEOREM InitBound == Init => BoundInv
BY LadderAssumption
DEF Init, StoreInit, EscInit, BoundInv, Paid, Unused, NoExec, Top

(* What the arithmetic below relies on. *)
LEMMA LadderFacts ==
    ASSUME IInv, [Next]_vars, NEW g \in Groups
    PROVE  /\ exec[g] \in Executions /\ exec'[g] \in Executions
           /\ exec[g].level \in Nat /\ Len(chat[g]) \in Nat
           /\ chat[g] \in Seq(Messages) /\ faults \in Nat /\ Top \in Nat
<1>1. IInv'
  BY StepIInv
<1>2. exec[g] \in Executions /\ exec'[g] \in Executions /\ chat[g] \in Seq(Messages)
  BY <1>1 DEF IInv, LadderInv, EscType, Groups
<1>3. faults \in Nat
  BY StoreAssumption DEF IInv, StoreType
<1> QED BY <1>2, <1>3, LadderAssumption DEF Executions, Top

(* The rungs keep the bound of their group. *)
LEMMA RungBound ==
    ASSUME IInv, BoundInv, [Next]_vars, NEW g \in Groups, EscSteps(g) \/ EscFaults(g)
    PROVE  Paid(g)'
<1>0. /\ exec[g] \in Executions /\ exec'[g] \in Executions
      /\ exec[g].level \in Nat /\ Len(chat[g]) \in Nat
      /\ chat[g] \in Seq(Messages) /\ faults \in Nat /\ Top \in Nat
  BY LadderFacts
<1>1. Paid(g) /\ exec \in [Groups -> Executions] /\ chat \in [Groups -> Seq(Messages)]
  BY DEF BoundInv, IInv, LadderInv, EscType
<1>2. exec[g].pc \in {"send", "record", "notified", "notify_failed"} => exec[g].level <= Top
  BY DEF IInv, LadderInv, RungOK, HasStep
<1>3. exec[g].pc # "none" => exec[g].status # "absent"
  BY <1>1 DEF Paid
<1>a. ASSUME NEW status \in {"failed", "succeeded"}, Finish(g, status), UNCHANGED chat,
             faults' \in {faults, faults + 1}, exec[g].pc # "none"
      PROVE  Paid(g)'
  <2>1. exec'[g].pc = "none" /\ exec'[g].level = exec[g].level /\ exec'[g].status # "absent"
    BY <1>0, <1>1, <1>3, <1>a DEF Finish, Executions
  <2> QED BY <1>0, <1>1, <1>a, <2>1 DEF Paid, Unused, Top
<1>b. ASSUME NEW pc \in Invocation \cup {"wait"}, Goto(g, pc), exec[g].pc # "none"
      PROVE  exec'[g].pc = pc /\ exec'[g].level = exec[g].level /\ exec'[g].status # "absent"
  BY <1>0, <1>1, <1>3, <1>b DEF Goto, Executions
<1>4. CASE CheckGroup(g)
  <2>1. UNCHANGED <<chat, faults>> /\ exec[g].pc = "get"
    BY <1>4 DEF CheckGroup
  <2>2. /\ exec'[g].level = exec[g].level /\ exec'[g].status # "absent"
        /\ exec'[g].pc = "none" \/ exec'[g].pc = "send"
    <3>1. PICK item \in Get(g) :
              \/ \E status \in {"failed", "succeeded"} : Checked(g, item, "none", status)
              \/ item.state = Firing /\ HasStep(exec[g].level) /\ Checked(g, item, "send", "running")
      BY <1>4, CheckGroupReads
    <3> QED BY <1>3, <2>1, <3>1, CheckedFacts DEF IInv
  <2> QED BY <1>0, <1>1, <2>1, <2>2 DEF Paid, Unused, Top
<1>5. CASE Send(g)
  <2>1. chat'[g] = Append(chat[g], Page(g)) /\ UNCHANGED faults /\ exec[g].pc = "send"
    BY <1>1, <1>5 DEF Send
  <2>2. Len(chat'[g]) = Len(chat[g]) + 1
    BY <1>0, <2>1
  <2>3. exec'[g].pc = "record" /\ exec'[g].level = exec[g].level /\ exec'[g].status # "absent"
    BY <1>b, <1>5, <2>1 DEF Send, Invocation
  <2> QED BY <1>0, <1>1, <1>2, <2>1, <2>2, <2>3 DEF Paid, Unused, Top
<1>6. CASE SendUnanswered(g)
  <2>1. chat'[g] = Append(chat[g], Page(g)) /\ faults' = faults + 1 /\ UNCHANGED exec
    BY <1>1, <1>6 DEF SendUnanswered, Fault
  <2>2. Len(chat'[g]) = Len(chat[g]) + 1
    BY <1>0, <2>1
  <2> QED BY <1>0, <1>1, <2>1, <2>2 DEF Paid, Unused, Top
<1>7. CASE SendFails(g)
  <2>1. UNCHANGED chat /\ faults' = faults + 1 /\ exec[g].pc = "send"
    BY <1>7 DEF SendFails, Fault
  <2>2. exec'[g].pc = "notify_failed" /\ exec'[g].level = exec[g].level /\ exec'[g].status # "absent"
    BY <1>b, <1>7, <2>1 DEF SendFails, Invocation
  <2> QED BY <1>0, <1>1, <2>1, <2>2 DEF Paid, Unused, Top
<1>8. CASE Record(g)
  <2>1. UNCHANGED <<chat, faults>> /\ exec[g].pc = "record"
    BY <1>8 DEF Record
  <2>2. exec'[g].pc = "notified" /\ exec'[g].level = exec[g].level /\ exec'[g].status # "absent"
    BY <1>b, <1>8, <2>1 DEF Record, Invocation
  <2> QED BY <1>0, <1>1, <2>1, <2>2 DEF Paid, Unused, Top
<1>9. CASE EndRung(g)
  <2>1. UNCHANGED <<chat, faults>> /\ exec[g].pc \in {"notified", "notify_failed"}
    BY <1>9 DEF EndRung
  <2>2. exec'[g].status # "absent"
        /\ \/ exec'[g].pc = "wait" /\ exec'[g].level = exec[g].level + 1
           \/ exec'[g].pc = "none" /\ exec'[g].level = exec[g].level
    BY <1>0, <1>1, <1>3, <1>9, <2>1 DEF EndRung, NextRung, Executions
  <2> QED BY <1>0, <1>1, <2>1, <2>2 DEF Paid, Unused, Top
<1>10. CASE WaitExpires(g)
  <2>1. UNCHANGED <<chat, faults>> /\ exec[g].pc = "wait"
    BY <1>10 DEF WaitExpires
  <2>2. exec'[g].pc = "get" /\ exec'[g].level = exec[g].level /\ exec'[g].status # "absent"
    BY <1>b, <1>10, <2>1 DEF WaitExpires, Invocation
  <2> QED BY <1>0, <1>1, <2>1, <2>2 DEF Paid, Unused, Top
<1>11. CASE HandlerFails(g)
  BY <1>a, <1>11 DEF HandlerFails, Fault, Invocation
<1>12. CASE Reinvoke(g)
  <2>1. UNCHANGED chat /\ faults' = faults + 1 /\ exec[g].pc # "none"
    BY <1>12 DEF Reinvoke, Fault, Invocation
  <2>2. exec'[g].pc = "get" /\ exec'[g].level = exec[g].level /\ exec'[g].status # "absent"
    BY <1>b, <1>12, <2>1 DEF Reinvoke, Invocation
  <2> QED BY <1>0, <1>1, <2>1, <2>2 DEF Paid, Unused, Top
<1> QED BY <1>4, <1>5, <1>6, <1>7, <1>8, <1>9, <1>10, <1>11, <1>12 DEF EscSteps, EscFaults

(* Everything that is not a rung of g: it sends no page, and what it does to the  *)
(* execution of g does not give back a level.                                     *)
LEMMA QuietBound ==
    ASSUME IInv, BoundInv, [Next]_vars, NEW g \in Groups,
           Len(chat'[g]) = Len(chat[g]), faults' \in {faults, faults + 1},
           \/ exec'[g] = exec[g]
           \/ \E h \in Groups : StartExecution(h)
           \/ \E h \in Groups : \E arn \in BOOLEAN : StopExecution(h, arn)
    PROVE  Paid(g)'
<1>0. /\ exec[g] \in Executions /\ exec'[g] \in Executions
      /\ exec[g].level \in Nat /\ Len(chat[g]) \in Nat
      /\ faults \in Nat /\ Top \in Nat
  BY LadderFacts
<1>1. Paid(g) /\ exec \in [Groups -> Executions]
  BY DEF BoundInv, IInv, LadderInv, EscType
<1>2. CASE exec'[g] = exec[g]
  BY <1>0, <1>1, <1>2 DEF Paid, Unused, Top
<1>3. CASE \E h \in Groups : StartExecution(h)
  <2>1. \/ exec'[g] = exec[g]
        \/ exec[g].status = "absent" /\ exec'[g] = NewExec
    BY <1>1, <1>3 DEF StartExecution
  <2>2. CASE /\ exec[g].status = "absent"
             /\ exec'[g] = NewExec
    <3>1. exec'[g].level = 1 /\ exec'[g].pc = "get" /\ exec'[g].status = "running"
      BY <2>2, NewExecFacts
    <3>2. exec[g].level = 0 /\ exec[g].pc = "none"
      BY <1>1, <2>2 DEF Paid
    <3>3. Len(chat[g]) <= faults
      BY <1>0, <1>1, <3>2 DEF Paid, Unused
    <3> QED BY <1>0, <1>1, <3>1, <3>3 DEF Paid, Unused, Top
  <2> QED BY <1>2, <2>1, <2>2
<1>4. CASE \E h \in Groups : \E arn \in BOOLEAN : StopExecution(h, arn)
  <2>1. \/ exec'[g] = exec[g]
        \/ /\ exec'[g].status = "aborted" /\ exec'[g].level = exec[g].level
           /\ exec'[g].pc = IF exec[g].pc = "wait" THEN "none" ELSE exec[g].pc
    BY <1>0, <1>1, <1>4 DEF StopExecution, Executions
  <2>2. CASE /\ exec'[g].status = "aborted" /\ exec'[g].level = exec[g].level
             /\ exec'[g].pc = IF exec[g].pc = "wait" THEN "none" ELSE exec[g].pc
    BY <1>0, <1>1, <2>2 DEF Paid, Unused, Top
  <2> QED BY <1>2, <2>1, <2>2
<1> QED BY <1>2, <1>3, <1>4

(* An edit keeps the number of messages. *)
LEMMA EditLength ==
    ASSUME NEW q \in Seq(Messages), NEW m \in Nat, NEW s \in Shown
    PROVE  Len([q EXCEPT ![m].shown = s]) = Len(q)
<1>1. [q EXCEPT ![m].shown = s] \in Seq(Messages)
  BY EditType
<1>2. DOMAIN [q EXCEPT ![m].shown = s] = DOMAIN q
  OBVIOUS
<1> QED BY <1>1, <1>2

(* Whose pages a rung of h sends: only its own group's. *)
LEMMA OtherRungs ==
    ASSUME IInv, NEW g \in Groups, NEW h \in Groups, g # h, EscSteps(h) \/ EscFaults(h)
    PROVE  exec'[g] = exec[g] /\ chat'[g] = chat[g] /\ faults' \in {faults, faults + 1}
<1>1. exec \in [Groups -> Executions] /\ chat \in [Groups -> Seq(Messages)]
  BY DEF IInv, LadderInv, EscType
<1>2. CASE EscSteps(h)
  BY <1>1, <1>2 DEF EscSteps, CheckGroup, Checked, Send, Record, EndRung, WaitExpires, Goto, NextRung
<1>3. CASE EscFaults(h)
  BY <1>1, <1>3 DEF EscFaults, SendUnanswered, SendFails, HandlerFails, Reinvoke, Finish, Goto, Fault
<1> QED BY <1>2, <1>3

(* What is not a rung sends no page, and starts or stops executions at most. *)
LEMMA OtherSteps ==
    ASSUME IInv, StoreNext \/ WorkerNext \/ PressNext \/ UNCHANGED vars, NEW g \in Groups
    PROVE  /\ Len(chat'[g]) = Len(chat[g]) /\ faults' \in {faults, faults + 1}
           /\ \/ exec'[g] = exec[g]
              \/ \E h \in Groups : StartExecution(h)
              \/ \E h \in Groups : \E arn \in BOOLEAN : StopExecution(h, arn)
<1>1. CASE StoreNext \/ UNCHANGED vars
  BY <1>1 DEF StoreNext, Tick, escVars, vars
<1>2. CASE WorkerNext
  <2>1. UNCHANGED chat /\ faults' \in {faults, faults + 1}
    BY <1>2 DEF WorkerNext, ProcNext, Publish, WorkerFails, LookupFails, Fault, ProcSteps, Receive,
                ApplySteps, Claim, PointerTarget, Increment, Reclaim, Put, LogOpened, Start,
                KeepExecution, ApplyDone, CloseSteps, Lookup, CloseUpdate, CloseReread,
                CloseRelease, CloseStop, CloseDone, escVars
  <2>2. \/ UNCHANGED exec
        \/ \E k \in Keys : Start(k) \/ CloseStop(k)
    BY <1>2 DEF WorkerNext, ProcNext, Publish, WorkerFails, LookupFails, ProcSteps, Receive,
                ApplySteps, Claim, PointerTarget, Increment, Reclaim, Put, LogOpened,
                KeepExecution, ApplyDone, CloseSteps, Lookup, CloseUpdate, CloseReread,
                CloseRelease, CloseDone, escVars
  <2>3. ASSUME NEW k \in Keys, Start(k) \/ CloseStop(k)
        PROVE  \/ \E h \in Groups : StartExecution(h)
               \/ \E h \in Groups : \E arn \in BOOLEAN : StopExecution(h, arn)
    <3>1. worker[k] \in Workers
      BY DEF IInv, WorkInv, ProcType
    <3>2. /\ Start(k) => worker[k].id \in Groups
          /\ CloseStop(k) => worker[k].group \in Groups /\ worker[k].arn \in BOOLEAN
      BY <3>1 DEF IInv, WorkInv, WorkerOK, Workers, Start, CloseStop, At, Opening, Closing
    <3> QED BY <2>3, <3>2 DEF Start, CloseStop
  <2> QED BY <2>1, <2>2, <2>3
<1>3. CASE PressNext
  <2>a. PICK p \in Presses :
            \/ \E action \in Actions, h \in Groups : \E m \in DOMAIN chat[h] : Press(p, action, h, m)
            \/ CallbackSteps(p)
            \/ BestEffortFails(p) \/ CallbackFails(p)
    BY <1>3 DEF PressNext, CallbackNext
  <2>b. CASE \E action \in Actions, h \in Groups : \E m \in DOMAIN chat[h] : Press(p, action, h, m)
    BY <2>b DEF Press, escVars
  <2>c. CASE Update(p) \/ Reread(p) \/ Release(p) \/ LogPress(p) \/ Answer(p) \/ Redeliver(p)
    BY <2>c DEF Update, Reread, RereadAs, Release, LogPress, Answer, Redeliver, escVars
  <2>d. CASE BestEffortFails(p) \/ CallbackFails(p)
    BY <2>d DEF BestEffortFails, CallbackFails, Fault, escVars
  <2>e. CASE Rewrite(p)
    <3> DEFINE h == press[p].group
               s == IF press[p].action = "resolve" THEN "resolved" ELSE "acked"
    <3>1. press[p] \in PressRecords /\ chat \in [Groups -> Seq(Messages)]
      BY DEF IInv, PressInv, CallbackType, LadderInv, EscType
    <3>2. UNCHANGED <<exec, faults>> /\ chat' = [chat EXCEPT ![h] = [@ EXCEPT ![press[p].edit].shown = s]]
      BY <2>e DEF Rewrite
    <3>3. s \in Shown /\ press[p].edit \in Nat
      BY <3>1 DEF PressRecords, Shown
    <3>4. CASE g = h
      <4>1. chat'[g] = [chat[g] EXCEPT ![press[p].edit].shown = s]
        BY <3>1, <3>2, <3>4
      <4>2. Len(chat'[g]) = Len(chat[g])
        BY <3>1, <3>3, <4>1, EditLength
      <4> QED BY <3>2, <4>2
    <3>5. CASE g # h
      BY <3>1, <3>2, <3>5
    <3> QED BY <3>4, <3>5
  <2>f. CASE StopLadder(p)
    <3>1. press[p].group \in Groups /\ press[p].arn \in BOOLEAN
      BY <2>f DEF IInv, PressInv, CallbackType, PressOK, PressRecords, StopLadder, PressAt, Handler
    <3> QED BY <2>f, <3>1 DEF StopLadder
  <2> QED BY <2>a, <2>b, <2>c, <2>d, <2>e, <2>f DEF CallbackSteps, HandlerSteps
<1> QED BY <1>1, <1>2, <1>3

LEMMA StepBound ==
    ASSUME IInv, BoundInv, [Next]_vars
    PROVE  BoundInv'
<1> SUFFICES ASSUME NEW g \in Groups PROVE Paid(g)'
  BY DEF BoundInv, Groups
<1>1. CASE LadderNext
  <2>1. PICK h \in Groups : EscSteps(h) \/ EscFaults(h)
    BY <1>1 DEF LadderNext, EscNext
  <2>2. CASE g = h
    BY <2>1, <2>2, RungBound
  <2>3. CASE g # h
    BY <2>1, <2>3, OtherRungs, QuietBound
  <2> QED BY <2>2, <2>3
<1>2. CASE StoreNext \/ WorkerNext \/ PressNext \/ UNCHANGED vars
  BY <1>2, OtherSteps, QuietBound
<1> QED BY <1>1, <1>2 DEF Next

(* However long nobody answers, and whatever crashes, is retried or is pressed in *)
(* between, no group is ever paged more often than once per level of its policy   *)
(* and repeats, plus once per failed call: the ladder cannot run away.            *)
THEOREM LadderBound == Spec => []LadderBounded
<1>1. IInv /\ BoundInv => LadderBounded
  BY DEF BoundInv, Paid, LadderBounded
<1> QED BY InitIInv, StepIInv, InitBound, StepBound, <1>1, PTL DEF Spec
=============================================================================
