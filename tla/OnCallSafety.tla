---------------------------- MODULE OnCallSafety ----------------------------
(***************************************************************************)
(* What the races of OnCall cannot do, for every value of its constants:    *)
(* take an incident back, leave a change out of its timeline or tell two    *)
(* people that they did the same thing.                                     *)
(***************************************************************************)
EXTENDS OnCallProofs

(* A worker that has a candidate id and has not written its META yet. *)
Unput == {"claim", "target", "increment", "reclaim", "put"}

(* At a sane pace a candidate id is nobody else's, and no group has it yet: this *)
(* is what makes putMeta, which has no condition, harmless.                      *)
FreshIds ==
    /\ \A k \in Keys : worker[k].pc \in Unput => meta[worker[k].id].state = Absent
    /\ \A j, k \in Keys : j # k /\ worker[k].id # NoGroup => worker[j].id # worker[k].id

(* A replica is never ahead of the table. *)
ReplicaBehind ==
    \A g \in Groups : \A item \in past[g] : Rank(item.state) <= Rank(meta[g].state)

TableInv == FreshIds /\ ReplicaBehind

(* What every step does to the table: no group goes back, and only the worker *)
(* that writes its META brings a group into being.                            *)
Ahead == \A g \in Groups : Rank(meta[g].state) <= Rank(meta'[g].state)

OpensOnly(k) == \A g \in Groups : meta[g].state = Absent /\ g # worker[k].id => meta'[g].state = Absent
OpensNone    == \A g \in Groups : meta[g].state = Absent => meta'[g].state = Absent

-----------------------------------------------------------------------------
(* The state machine. *)
LEMMA RankFacts ==
    /\ Rank(Absent) = 0 /\ Rank(Firing) = 1 /\ Rank(Acked) = 2 /\ Rank(Resolved) = 3
    /\ \A s \in States \cup {Absent} : Rank(s) \in 0 .. 3 /\ (Rank(s) = 0 <=> s = Absent)
BY DEF Rank, States, Absent, Firing, Acked, Resolved

LEMMA MoveFacts ==
    ASSUME NEW s \in States \cup {Absent}, NEW to \in {Acked, Resolved}
    PROVE  /\ s \in Allowed(to) <=> s # Absent /\ Rank(s) < Rank(to)
           /\ Transition(s, to) = "nil" <=> s \in Allowed(to)
           /\ Transition(s, to) = "already" <=> s = to
BY RankFacts DEF Allowed, Transition, Moves, States, Absent, Firing, Acked, Resolved

(* A write that does not take a group back. *)
LEMMA WriteAhead ==
    ASSUME StoreType, ReplicaBehind, NEW g \in Groups, NEW item \in Items,
           Rank(meta[g].state) <= Rank(item.state), WriteMeta(g, item)
    PROVE  /\ Ahead /\ ReplicaBehind'
           /\ \A h \in Groups : h # g => meta'[h] = meta[h]
           /\ meta'[g] = item
<1>1. /\ meta \in [Groups -> Items] /\ past \in [Groups -> SUBSET Items]
      /\ meta' = [meta EXCEPT ![g] = item]
      /\ past' = [past EXCEPT ![g] = past[g] \cup {meta[g]}]
  BY DEF StoreType, WriteMeta
<1>2. /\ \A h \in Groups : Rank(meta[h].state) \in 0 .. 3
      /\ \A h \in Groups : \A old \in past[h] : Rank(old.state) \in 0 .. 3
  BY <1>1, RankFacts, ItemFacts
<1>3. Rank(item.state) \in 0 .. 3
  BY RankFacts, ItemFacts
<1>4. Ahead
  BY <1>1, <1>2 DEF Ahead
<1>5. ReplicaBehind'
  BY <1>1, <1>2, <1>3 DEF ReplicaBehind, Groups
<1> QED BY <1>1, <1>4, <1>5

LEMMA QuietAhead ==
    ASSUME StoreType, ReplicaBehind, UNCHANGED <<meta, past>>
    PROVE  Ahead /\ OpensNone /\ ReplicaBehind'
<1>1. \A h \in Groups : Rank(meta[h].state) \in 0 .. 3
  BY RankFacts, ItemFacts DEF StoreType
<1> QED BY <1>1 DEF Ahead, OpensNone, ReplicaBehind, Groups

(* A conditional update to a later state opens nothing. *)
LEMMA MoveAhead ==
    ASSUME StoreType, ReplicaBehind, NEW g \in Groups, NEW to \in {Acked, Resolved},
           CanMove(g, to), Move(g, to)
    PROVE  /\ Ahead /\ OpensNone /\ ReplicaBehind'
           /\ \A h \in Groups : h # g => meta'[h] = meta[h]
           /\ meta'[g] = [meta[g] EXCEPT !.state = to]
<1>1. meta[g] \in Items /\ meta[g].state \in States \cup {Absent}
  BY ItemFacts DEF StoreType
<1>2. meta[g].state # Absent /\ Rank(meta[g].state) < Rank(to)
  BY <1>1, MoveFacts DEF CanMove
<1>3. [meta[g] EXCEPT !.state = to] \in Items /\ [meta[g] EXCEPT !.state = to].state = to
  BY <1>1 DEF Items, States
<1>4. Rank(meta[g].state) <= Rank(to)
  <2>1. Rank(meta[g].state) \in 0 .. 3 /\ Rank(to) \in 0 .. 3
    BY <1>1, RankFacts
  <2> QED BY <1>2, <2>1
<1>5. WriteMeta(g, [meta[g] EXCEPT !.state = to])
  BY DEF Move
<1>6. /\ Ahead /\ ReplicaBehind'
      /\ \A h \in Groups : h # g => meta'[h] = meta[h]
      /\ meta'[g] = [meta[g] EXCEPT !.state = to]
  BY <1>3, <1>4, <1>5, WriteAhead
<1> QED BY <1>2, <1>6 DEF OpensNone

(* A write that leaves the state alone. *)
LEMMA SameAhead ==
    ASSUME StoreType, ReplicaBehind, NEW g \in Groups, NEW item \in Items,
           item.state = meta[g].state, WriteMeta(g, item)
    PROVE  /\ Ahead /\ OpensNone /\ ReplicaBehind'
           /\ \A h \in Groups : meta'[h].state = meta[h].state
<1>1. Rank(meta[g].state) \in 0 .. 3
  BY RankFacts, ItemFacts DEF StoreType
<1>2. Rank(meta[g].state) <= Rank(item.state)
  BY <1>1
<1>3. /\ Ahead /\ ReplicaBehind'
      /\ \A h \in Groups : h # g => meta'[h] = meta[h]
      /\ meta'[g] = item
  BY <1>2, WriteAhead
<1> QED BY <1>3 DEF OpensNone

-----------------------------------------------------------------------------
(* What each step does to the table. *)
LEMMA LadderTable ==
    ASSUME IInv, ReplicaBehind, NEW g \in Groups, EscSteps(g) \/ EscFaults(g)
    PROVE  Ahead /\ OpensNone /\ ReplicaBehind'
<1> USE DEF IInv
<1>1. CASE Record(g)
  <2> DEFINE item == [meta[g] EXCEPT !.messageID = IF @ = 0 THEN Len(chat[g]) ELSE @]
  <2>1. meta[g] \in Items /\ chat[g] \in Seq(Messages)
    BY DEF StoreType, LadderInv, EscType
  <2>2. item \in Items /\ item.state = meta[g].state
    BY <2>1 DEF Items
  <2>3. WriteMeta(g, item)
    BY <1>1 DEF Record, RecordNotification
  <2> HIDE DEF item
  <2> QED BY <2>2, <2>3, SameAhead
<1>2. CASE ~ Record(g)
  <2>1. UNCHANGED <<meta, past>>
    BY <1>2 DEF EscSteps, EscFaults, CheckGroup, Send, EndRung, WaitExpires, SendUnanswered,
                SendFails, HandlerFails, Reinvoke, storeVars
  <2> QED BY <2>1, QuietAhead
<1> QED BY <1>1, <1>2

LEMMA WorkerTable ==
    ASSUME IInv, TableInv, NEW k \in Keys,
           \/ \E e \in Envelopes : Publish(k, e)
           \/ ProcSteps(k) \/ WorkerFails(k) \/ LookupFails(k)
    PROVE  Ahead /\ ReplicaBehind' /\ (OpensNone \/ (Put(k) /\ OpensOnly(k)))
<1> USE DEF IInv, TableInv
<1>0. meta \in [Groups -> Items]
  BY DEF StoreType
<1>1. CASE Put(k)
  <2>1. worker[k].id \in Groups /\ meta[worker[k].id].state = Absent
    BY <1>1 DEF Put, At, WorkInv, WorkerOK, Opening, FreshIds, Unput
  <2>2. Rank(meta[worker[k].id].state) <= Rank(NewItem.state)
    BY <2>1, RankFacts, ItemFacts DEF NewItem, NoItem
  <2>3. WriteMeta(worker[k].id, NewItem)
    BY <1>1 DEF Put, PutMeta
  <2>4. /\ Ahead /\ ReplicaBehind'
        /\ \A h \in Groups : h # worker[k].id => meta'[h] = meta[h]
    BY <2>1, <2>2, <2>3, ItemFacts, WriteAhead
  <2> QED BY <1>1, <2>4 DEF OpensOnly
<1>2. CASE KeepExecution(k)
  <2> DEFINE g == worker[k].id
             item == [meta[g] EXCEPT !.arn = TRUE]
  <2>1. g \in Groups
    BY <1>2 DEF KeepExecution, At, WorkInv, WorkerOK, Opening
  <2>2. item \in Items /\ item.state = meta[g].state
    <3>1. meta[g] \in Items
      BY <1>0, <2>1
    <3> QED BY <3>1 DEF Items
  <2>3. WriteMeta(g, item)
    BY <1>2 DEF KeepExecution, SetExecution
  <2> HIDE DEF g, item
  <2> QED BY <2>1, <2>2, <2>3, SameAhead
<1>3. CASE CloseUpdate(k)
  <2>1. worker[k].group \in Groups
    BY <1>3 DEF CloseUpdate, At, WorkInv, WorkerOK
  <2>2. CASE CanMove(worker[k].group, Resolved) /\ Move(worker[k].group, Resolved)
    BY <2>1, <2>2, MoveAhead
  <2>3. CASE UNCHANGED <<meta, past>>
    BY <2>3, QuietAhead
  <2> QED BY <1>3, <2>2, <2>3 DEF CloseUpdate
<1>4. CASE UNCHANGED <<meta, past>>
  BY <1>4, QuietAhead
<1>5. Put(k) \/ KeepExecution(k) \/ CloseUpdate(k) \/ UNCHANGED <<meta, past>>
  BY DEF Publish, WorkerFails, LookupFails, ProcSteps, Receive, ApplySteps, Claim, PointerTarget, Increment,
         Reclaim, LogOpened, Start, ApplyDone, CloseSteps, Lookup, CloseReread, CloseRelease,
         CloseStop, CloseDone, storeVars
<1> QED BY <1>1, <1>2, <1>3, <1>4, <1>5

LEMMA PressTable ==
    ASSUME IInv, ReplicaBehind, NEW p \in Presses,
           \/ \E action \in Actions, g \in Groups : \E m \in DOMAIN chat[g] : Press(p, action, g, m)
           \/ CallbackSteps(p) \/ BestEffortFails(p) \/ CallbackFails(p)
    PROVE  Ahead /\ OpensNone /\ ReplicaBehind'
<1> USE DEF IInv
<1>1. CASE Update(p)
  <2> DEFINE g == press[p].group
             to == Target(press[p].action)
  <2>1. g \in Groups /\ to \in {Acked, Resolved}
    BY <1>1 DEF Update, PressAt, PressInv, PressOK, Target
  <2>2. CASE CanMove(g, to) /\ Move(g, to)
    BY <2>1, <2>2, MoveAhead
  <2>3. CASE UNCHANGED <<meta, past>>
    BY <2>3, QuietAhead
  <2> QED BY <1>1, <2>2, <2>3 DEF Update
<1>2. CASE ~ Update(p)
  <2>1. UNCHANGED <<meta, past>>
    BY <1>2 DEF Press, CallbackSteps, HandlerSteps, Reread, RereadAs, Release, LogPress, Rewrite, StopLadder,
                Answer, Redeliver, BestEffortFails, CallbackFails, storeVars
  <2> QED BY <2>1, QuietAhead
<1> QED BY <1>1, <1>2

LEMMA StoreTable ==
    ASSUME IInv, ReplicaBehind, StoreNext
    PROVE  Ahead /\ OpensNone /\ ReplicaBehind'
BY QuietAhead DEF StoreNext, Tick, storeVars, IInv

-----------------------------------------------------------------------------
(* What each step does to the candidate ids: one worker at most takes a new one, *)
(* gives its own up, or goes on with it.                                         *)
TakesNone(k) ==
    /\ worker'[k].id = NoGroup
    /\ worker'[k].pc \notin Unput

Keeps(k) ==
    /\ worker'[k].id = worker[k].id
    /\ worker'[k].pc \in Unput => worker[k].pc \in Unput

Takes(k) ==
    /\ meta[worker'[k].id].state = Absent
    /\ \A j \in Keys : worker[j].id # worker'[k].id

LEMMA StartTakes ==
    ASSUME Paced, NEW k \in Keys, NEW e \in Seq(Batches), NEW i \in 1 .. Len(e),
           MayStart(e[i]), worker'[k] = BatchStart(e, i)
    PROVE  TakesNone(k) \/ Takes(k)
<1>1. e[i] \in Batches
  OBVIOUS
<1>2. CASE e[i].firing
  BY <1>2 DEF MayStart, BatchStart, Takes
<1>3. CASE ~ e[i].firing
  BY <1>3 DEF BatchStart, TakesNone, Unput
<1> QED BY <1>1, <1>2, <1>3

LEMMA AbandonTakes ==
    ASSUME WorkInv, NEW k \in Keys, Abandon(k)
    PROVE  TakesNone(k) /\ \A j \in Keys \ {k} : worker'[j] = worker[j]
BY DEF Abandon, TakesNone, IdleWorker, Unput, WorkInv, ProcType

LEMMA DoneTakes ==
    ASSUME Paced, WorkInv, NEW k \in Keys, worker[k].pc # "idle", NEW outcome, BatchDoneAs(k, outcome)
    PROVE  (TakesNone(k) \/ Takes(k)) /\ \A j \in Keys \ {k} : worker'[j] = worker[j]
<1> DEFINE e == Head(queue[k])
           i == worker[k].batch
<1>0. worker \in [Keys -> Workers]
  BY DEF WorkInv, ProcType
<1>1. e \in Seq(Batches) /\ i \in 1 .. Len(e)
  BY BatchFacts
<1>2. CASE i < Len(e) /\ MayStart(e[i + 1]) /\ worker' = [worker EXCEPT ![k] = BatchStart(e, i + 1)]
  <2>1. i + 1 \in 1 .. Len(e)
    BY <1>1, <1>2
  <2>2. worker'[k] = BatchStart(e, i + 1) /\ \A j \in Keys \ {k} : worker'[j] = worker[j]
    BY <1>0, <1>2
  <2> QED BY <1>1, <1>2, <2>1, <2>2, StartTakes
<1>3. CASE worker' = [worker EXCEPT ![k] = IdleWorker]
  BY <1>0, <1>3 DEF TakesNone, IdleWorker, Unput
<1> QED BY <1>2, <1>3 DEF BatchDoneAs

LEMMA WorkerTakes ==
    ASSUME IInv, Paced, NEW k \in Keys,
           \/ \E e \in Envelopes : Publish(k, e)
           \/ ProcSteps(k) \/ WorkerFails(k) \/ LookupFails(k)
    PROVE  /\ TakesNone(k) \/ Takes(k) \/ Keeps(k)
           /\ \A j \in Keys \ {k} : worker'[j] = worker[j]
<1> USE DEF IInv
<1>0. worker \in [Keys -> Workers]
  BY DEF WorkInv, ProcType
<1>1. CASE Receive(k)
  <2>1. queue[k] \in Seq(Envelopes) /\ queue[k] # << >>
    BY <1>1 DEF Receive, WorkInv, ProcType
  <2>2. Head(queue[k]) \in Seq(Batches) \ {<< >>}
    BY <2>1, QueueAssumption
  <2>3. 1 \in 1 .. Len(Head(queue[k]))
    BY <2>2
  <2>4. MayStart(Head(queue[k])[1]) /\ worker' = [worker EXCEPT ![k] = BatchStart(Head(queue[k]), 1)]
    BY <1>1 DEF Receive
  <2>5. worker'[k] = BatchStart(Head(queue[k]), 1) /\ \A j \in Keys \ {k} : worker'[j] = worker[j]
    BY <1>0, <2>4
  <2> QED BY <2>2, <2>3, <2>4, <2>5, StartTakes
<1>2. CASE worker[k].pc # "idle" /\ (BatchDone(k) \/ BatchDoneAs(k, "dropped"))
  BY <1>2, DoneTakes DEF BatchDone
<1>3. CASE Abandon(k)
  BY <1>3, AbandonTakes
<1>4. CASE PointerTarget(k) \/ Lookup(k)
  <2>1. CASE worker' = [worker EXCEPT ![k].pc = "increment", ![k].group = pointer[Batch(k).fp]]
                /\ worker[k].pc = "target"
    BY <1>0, <2>1 DEF Keeps, Unput, Workers
  <2>2. CASE worker' = [worker EXCEPT ![k].pc = "resolve", ![k].group = pointer[Batch(k).fp]]
    BY <1>0, <2>2 DEF Keeps, Unput, Workers
  <2>3. worker[k].pc # "idle"
    BY <1>4 DEF PointerTarget, Lookup, At
  <2> QED BY <1>2, <1>3, <1>4, <2>1, <2>2, <2>3 DEF PointerTarget, Lookup, At
<1>5. CASE CloseUpdate(k) \/ CloseReread(k)
  <2>1. CASE \E b \in BOOLEAN : worker' = [worker EXCEPT ![k].pc = "release", ![k].arn = b]
    BY <1>0, <2>1 DEF Keeps, Unput, Workers
  <2>2. CASE Step(k, "reread")
    BY <1>0, <2>2 DEF Step, Keeps, Unput, Workers
  <2>3. worker[k].pc # "idle" /\ worker[k].group \in Groups
    BY <1>5 DEF CloseUpdate, CloseReread, At, WorkInv, WorkerOK
  <2>4. CASE CloseUpdate(k)
    <3>1. meta[worker[k].group].arn \in BOOLEAN
      BY <2>3, ItemFacts DEF StoreType
    <3> QED BY <2>1, <2>2, <2>4, <3>1 DEF CloseUpdate
  <2>5. CASE CloseReread(k)
    <3>1. \A item \in Get(worker[k].group) : item.arn \in BOOLEAN
      BY <2>3, GetType, ItemFacts
    <3> QED BY <1>2, <1>3, <2>1, <2>3, <2>5, <3>1 DEF CloseReread
  <2> QED BY <1>5, <2>4, <2>5
<1>6. CASE Claim(k) \/ Increment(k) \/ Reclaim(k) \/ Put(k) \/ LogOpened(k) \/ Start(k)
           \/ KeepExecution(k) \/ CloseRelease(k) \/ CloseStop(k)
  BY <1>0, <1>6 DEF Claim, Increment, Reclaim, Put, LogOpened, Start, KeepExecution, CloseRelease,
                    CloseStop, At, Step, Keeps, Unput, Workers
<1>7. CASE ApplyDone(k) \/ CloseDone(k) \/ LookupFails(k)
  BY <1>2, <1>7 DEF ApplyDone, CloseDone, LookupFails, At
<1>8. CASE UNCHANGED worker
  BY <1>8 DEF Keeps
<1> QED BY <1>1, <1>3, <1>4, <1>5, <1>6, <1>7, <1>8
        DEF Publish, WorkerFails, ProcSteps, ApplySteps, CloseSteps

-----------------------------------------------------------------------------
(* The pace of the senders keeps candidate ids apart. *)
LEMMA IdleTable ==
    ASSUME FreshIds, OpensNone, UNCHANGED worker, IInv
    PROVE  FreshIds'
<1>1. \A k \in Keys : worker[k].pc \in Unput => worker[k].id \in Groups
  BY DEF IInv, WorkInv, WorkerOK, Unput, Opening
<1> QED BY <1>1 DEF FreshIds, OpensNone, Unput

LEMMA WorkerFresh ==
    ASSUME IInv, IInv', Paced, TableInv, NEW k \in Keys,
           \/ \E e \in Envelopes : Publish(k, e)
           \/ ProcSteps(k) \/ WorkerFails(k) \/ LookupFails(k)
    PROVE  FreshIds'
<1>1. \A j \in Keys : /\ worker[j].pc \in Unput => worker[j].id \in Groups
                      /\ worker'[j].pc \in Unput => worker'[j].id \in Groups
  BY DEF IInv, WorkInv, WorkerOK, Unput, Opening, Groups
<1>2. NoGroup \notin Groups
  BY GroupFacts DEF IInv
<1>3. /\ TakesNone(k) \/ Takes(k) \/ Keeps(k)
      /\ \A j \in Keys \ {k} : worker'[j] = worker[j]
  BY WorkerTakes
<1>4. ASSUME NEW j \in Keys, NEW h \in Keys, j # h, worker'[h].id # NoGroup
      PROVE  worker'[j].id # worker'[h].id
  BY <1>3, <1>4 DEF TableInv, FreshIds, TakesNone, Takes, Keeps
<1>5. ASSUME NEW j \in Keys, worker'[j].pc \in Unput
      PROVE  meta'[worker'[j].id].state = Absent
  <2>1. worker'[j].id \in Groups
    BY <1>1, <1>5
  <2>2. OpensNone \/ (Put(k) /\ OpensOnly(k))
    BY WorkerTable
  <2>3. CASE j # k
    <3>1. worker[j].pc \in Unput /\ worker'[j].id = worker[j].id
      BY <1>3, <1>5, <2>3
    <3>2. worker[k].id # worker[j].id
      BY <1>1, <1>2, <2>3, <3>1 DEF TableInv, FreshIds
    <3> QED BY <2>1, <2>2, <3>1, <3>2 DEF TableInv, FreshIds, OpensNone, OpensOnly
  <2>4. CASE j = k /\ Takes(k)
    BY <2>1, <2>2, <2>4 DEF Takes, OpensNone, OpensOnly
  <2>5. CASE j = k /\ Keeps(k)
    <3>1. worker[k].pc \in Unput /\ worker'[k].id = worker[k].id
      BY <1>5, <2>5 DEF Keeps
    <3>2. ~ Put(k)
      <4> SUFFICES ASSUME Put(k) PROVE FALSE
        OBVIOUS
      <4>1. worker'[k].pc = "opened"
        BY DEF Put, Step, IInv, WorkInv, ProcType, Workers
      <4> QED BY <1>5, <2>5, <4>1 DEF Unput
    <3> QED BY <2>1, <2>2, <2>5, <3>1, <3>2 DEF TableInv, FreshIds, OpensNone
  <2>6. ~ (j = k /\ TakesNone(k))
    BY <1>5 DEF TakesNone
  <2> QED BY <1>3, <2>3, <2>4, <2>5, <2>6
<1> QED BY <1>4, <1>5 DEF FreshIds

LEMMA InitTable == Init => TableInv
<1> SUFFICES ASSUME Init PROVE TableInv
  OBVIOUS
<1>1. \A g \in Groups : meta[g] = NoItem /\ past[g] = {}
  BY DEF Init, StoreInit
<1>2. ReplicaBehind
  BY <1>1 DEF ReplicaBehind
<1>3. \A k \in Keys : worker[k].pc = "idle" /\ worker[k].id = NoGroup
  BY DEF Init, ProcInit, IdleWorker
<1> QED BY <1>2, <1>3 DEF TableInv, FreshIds, Unput

LEMMA StepTable ==
    ASSUME IInv, Paced, TableInv, [Next]_vars
    PROVE  TableInv' /\ Ahead
<1>0. IInv'
  BY StepIInv
<1>1. CASE StoreNext
  BY <1>1, StoreTable, IdleTable DEF StoreNext, procVars, TableInv
<1>2. CASE LadderNext
  BY <1>2, LadderTable, IdleTable DEF LadderNext, EscNext, procVars, TableInv
<1>3. CASE WorkerNext
  BY <1>0, <1>3, WorkerTable, WorkerFresh DEF WorkerNext, ProcNext, TableInv
<1>4. CASE PressNext
  BY <1>4, PressTable, IdleTable DEF PressNext, CallbackNext, procVars, TableInv
<1>5. CASE UNCHANGED vars
  BY <1>5, QuietAhead, IdleTable DEF vars, storeVars, procVars, TableInv, IInv
<1> QED BY <1>1, <1>2, <1>3, <1>4, <1>5 DEF Next

(* Whatever deliveries, retries and presses race, an incident never un-resolves    *)
(* nor un-acks, provided a second opens at most one group per fingerprint: the    *)
(* put of META has no condition, and only that pace keeps it off a group that      *)
(* exists already.                                                                 *)
THEOREM NeverBack ==
    ASSUME Paced
    PROVE  Spec => ForwardOnly
<1> DEFINE Forward == \A g \in Groups : Rank(meta[g].state) <= Rank(meta'[g].state)
<1>1. IInv /\ TableInv /\ [Next]_vars => TableInv' /\ [Forward]_vars
  BY StepTable DEF Ahead
<1> QED BY InitIInv, StepIInv, InitTable, <1>1, PTL DEF Spec, ForwardOnly

-----------------------------------------------------------------------------
(* As long as no call has failed, a change that is not on the timeline yet is in  *)
(* the hands of the press or of the worker that made it.                          *)
HasEntry(g, kinds) == log[g] \cap kinds # {}

AckOwed(g) ==
    \E p \in Presses :
        press[p].pc = "timeline" /\ press[p].group = g /\ press[p].action \in {"ack", "silence"}

ResolveOwed(g) ==
    \/ \E p \in Presses :
          press[p].pc \in {"release", "timeline"} /\ press[p].group = g /\ press[p].action = "resolve"
    \/ \E k \in Keys : Closes(k) /\ worker[k].group = g

Accounted(g) ==
    /\ meta[g].state = Acked => HasEntry(g, {"ack", "silence"}) \/ AckOwed(g)
    /\ meta[g].state = Resolved => HasEntry(g, {"resolve", "resolved"}) \/ ResolveOwed(g)

LogInv == faults = 0 => \A g \in Groups : Accounted(g)

(* An entry of a state change is never lost. *)
LEMMA EntriesStay ==
    ASSUME NEW g, log[g] \ {"opened"} \subseteq log'[g]
    PROVE  /\ HasEntry(g, {"ack", "silence"}) => HasEntry(g, {"ack", "silence"})'
           /\ HasEntry(g, {"resolve", "resolved"}) => HasEntry(g, {"resolve", "resolved"})'
BY DEF HasEntry

LEMMA QuietLog ==
    ASSUME LogInv, UNCHANGED <<log, press, worker>>, faults' = 0 => faults = 0,
           \A g \in Groups : meta'[g].state \in {meta[g].state, Firing}
    PROVE  LogInv'
BY DEF LogInv, Accounted, HasEntry, AckOwed, ResolveOwed, Closes, Groups, Firing, Acked, Resolved

LEMMA FaultCounts ==
    ASSUME StoreType, Fault
    PROVE  faults' # 0
BY DEF StoreType, Fault

LEMMA LadderLog ==
    ASSUME IInv, LogInv, NEW g \in Groups, EscSteps(g) \/ EscFaults(g), UNCHANGED <<press, worker>>
    PROVE  LogInv'
<1> USE DEF IInv
<1>1. CASE Record(g)
  <2> DEFINE item == [meta[g] EXCEPT !.messageID = IF @ = 0 THEN Len(chat[g]) ELSE @]
  <2>1. meta[g] \in Items /\ meta \in [Groups -> Items]
    BY DEF StoreType
  <2>2. item.state = meta[g].state
    BY <2>1 DEF Items
  <2>3. meta' = [meta EXCEPT ![g] = item] /\ UNCHANGED <<log, faults>>
    BY <1>1 DEF Record, RecordNotification, WriteMeta
  <2> HIDE DEF item
  <2> QED BY <2>1, <2>2, <2>3, QuietLog
<1>2. CASE ~ Record(g)
  <2>1. UNCHANGED <<meta, log>>
    BY <1>2 DEF EscSteps, EscFaults, CheckGroup, Send, EndRung, WaitExpires, SendUnanswered,
                SendFails, HandlerFails, Reinvoke, storeVars
  <2>2. faults' = 0 => faults = 0
    BY <1>2, FaultCounts
    DEF EscSteps, EscFaults, CheckGroup, Send, EndRung, WaitExpires, SendUnanswered,
        SendFails, HandlerFails, Reinvoke
  <2> QED BY <2>1, <2>2, QuietLog
<1> QED BY <1>1, <1>2

(* A worker that owes the entry of a close keeps owing it until it writes it. *)
LEMMA WorkerLog ==
    ASSUME IInv, LogInv, NEW k \in Keys, UNCHANGED press,
           \/ \E e \in Envelopes : Publish(k, e)
           \/ ProcSteps(k) \/ WorkerFails(k) \/ LookupFails(k)
    PROVE  LogInv'
<1> USE DEF IInv
<1>0. /\ worker \in [Keys -> Workers] /\ meta \in [Groups -> Items]
      /\ log \in [Groups -> SUBSET Entries]
  BY DEF WorkInv, ProcType, StoreType
<1>1. CASE WorkerFails(k) \/ LookupFails(k)
  BY <1>1, FaultCounts DEF WorkerFails, LookupFails, LogInv
<1>2. CASE Put(k)
  <2>1. /\ meta' = [meta EXCEPT ![worker[k].id] = NewItem]
        /\ worker' = [worker EXCEPT ![k].pc = "opened"] /\ worker[k].pc = "put"
        /\ UNCHANGED <<log, faults>>
    BY <1>2 DEF Put, PutMeta, WriteMeta, Step, At
  <2>2. \A g \in Groups : meta'[g].state \in {meta[g].state, Firing}
    BY <1>0, <2>1 DEF NewItem, NoItem
  <2>3. \A j \in Keys : Closes(j) => Closes(j)' /\ worker'[j].group = worker[j].group
    BY <1>0, <2>1 DEF Closes, Workers
  <2> QED BY <2>1, <2>2, <2>3
          DEF LogInv, Accounted, HasEntry, AckOwed, ResolveOwed, Groups, Firing, Acked, Resolved
<1>3. CASE KeepExecution(k)
  <2> DEFINE g == worker[k].id
             item == [meta[g] EXCEPT !.arn = TRUE]
  <2>1. g \in Groups
    BY <1>3 DEF KeepExecution, At, WorkInv, WorkerOK, Opening
  <2>2. meta[g] \in Items
    BY <1>0, <2>1
  <2>3. item.state = meta[g].state
    BY <2>2 DEF Items
  <2>4. /\ meta' = [meta EXCEPT ![g] = item] /\ UNCHANGED <<log, faults>>
        /\ worker' = [worker EXCEPT ![k].pc = "started"] /\ worker[k].pc = "setExecution"
    BY <1>3 DEF KeepExecution, SetExecution, WriteMeta, Step, At
  <2> HIDE DEF g, item
  <2>5. \A h \in Groups : meta'[h].state = meta[h].state
    BY <1>0, <2>1, <2>3, <2>4
  <2>6. \A j \in Keys : Closes(j) => Closes(j)' /\ worker'[j].group = worker[j].group
    BY <1>0, <2>4 DEF Closes, Workers
  <2> QED BY <2>4, <2>5, <2>6
          DEF LogInv, Accounted, HasEntry, AckOwed, ResolveOwed, Groups
<1>4. CASE CloseUpdate(k)
  <2> DEFINE g == worker[k].group
  <2>1. g \in Groups /\ worker[k].pc = "resolve" /\ UNCHANGED <<log, faults>>
    BY <1>4 DEF CloseUpdate, At, WorkInv, WorkerOK
  <2>2. CASE /\ Move(g, Resolved)
             /\ worker' = [worker EXCEPT ![k].pc = "release", ![k].arn = meta[g].arn]
    <3>1. \A h \in Groups : h # g => meta'[h] = meta[h]
      BY <1>0, <2>1, <2>2 DEF Move, WriteMeta
    <3>2. Closes(k)' /\ worker'[k].group = g
      BY <1>0, <2>2 DEF Closes, Workers
    <3>3. meta'[g].state = Resolved
      <4>1. meta[g] \in Items
        BY <1>0, <2>1
      <4> QED BY <1>0, <2>1, <2>2, <4>1 DEF Move, WriteMeta, Items
    <3>4. \A j \in Keys : Closes(j) => Closes(j)' /\ worker'[j].group = worker[j].group
      BY <1>0, <2>1, <2>2 DEF Closes, Workers
    <3>5. ASSUME NEW h \in Groups, h = g PROVE ResolveOwed(h)'
      BY <3>2, <3>5 DEF ResolveOwed
    <3> HIDE DEF g
    <3>6. ASSUME NEW h \in Groups, faults = 0 PROVE Accounted(h)'
      <4>1. CASE h = g
        BY <3>3, <3>5, <4>1 DEF Accounted, Resolved, Acked
      <4>2. CASE h # g
        <5>1. Accounted(h) /\ meta'[h] = meta[h]
          BY <3>1, <3>6, <4>2 DEF LogInv
        <5>2. ResolveOwed(h) => ResolveOwed(h)'
          BY <3>4 DEF ResolveOwed
        <5>3. AckOwed(h) => AckOwed(h)'
          BY DEF AckOwed
        <5> QED BY <2>1, <5>1, <5>2, <5>3 DEF Accounted, HasEntry
      <4> QED BY <4>1, <4>2
    <3> QED BY <2>1, <3>6 DEF LogInv, Groups
  <2>3. CASE Step(k, "reread") /\ UNCHANGED <<meta, past>>
    <3>1. \A j \in Keys : Closes(j) => Closes(j)' /\ worker'[j].group = worker[j].group
      BY <1>0, <2>1, <2>3 DEF Closes, Step, Workers
    <3> QED BY <2>1, <2>3, <3>1
            DEF LogInv, Accounted, HasEntry, AckOwed, ResolveOwed, Groups
  <2> QED BY <1>4, <2>2, <2>3 DEF CloseUpdate
<1>5. CASE CloseDone(k)
  <2> DEFINE g == worker[k].group
  <2>1. g \in Groups /\ UNCHANGED <<meta, faults>>
        /\ log' = [log EXCEPT ![g] = @ \cup {"resolved"}]
    BY <1>5 DEF CloseDone, At, WorkInv, WorkerOK, Timeline
  <2>2. \A j \in Keys \ {k} : worker'[j] = worker[j]
    BY <1>0, <1>5 DEF CloseDone, BatchDone, BatchDoneAs
  <2> HIDE DEF g
  <2>3. ASSUME NEW h \in Groups, faults = 0 PROVE Accounted(h)'
    <3>1. Accounted(h) /\ AckOwed(h) = AckOwed(h)'
      BY <2>3 DEF LogInv, AckOwed
    <3>2. log[h] \subseteq log'[h] /\ (h = g => "resolved" \in log'[h])
      BY <1>0, <2>1
    <3>3. ResolveOwed(h) => ResolveOwed(h)' \/ h = g
      BY <2>2 DEF ResolveOwed, Closes, g
    <3>4. HasEntry(h, {"ack", "silence"}) => HasEntry(h, {"ack", "silence"})'
      BY <3>2 DEF HasEntry
    <3>5. /\ HasEntry(h, {"resolve", "resolved"}) => HasEntry(h, {"resolve", "resolved"})'
          /\ h = g => HasEntry(h, {"resolve", "resolved"})'
      BY <3>2 DEF HasEntry
    <3> QED BY <2>1, <3>1, <3>3, <3>4, <3>5 DEF Accounted
  <2> QED BY <2>1, <2>3 DEF LogInv, Groups
<1>6. CASE \/ \E e \in Envelopes : Publish(k, e)
           \/ Receive(k) \/ Claim(k) \/ PointerTarget(k) \/ Increment(k) \/ Reclaim(k)
           \/ LogOpened(k) \/ Start(k) \/ ApplyDone(k) \/ Lookup(k)
           \/ CloseReread(k) \/ CloseRelease(k) \/ CloseStop(k)
  <2>1. UNCHANGED <<meta, faults>>
    BY <1>6 DEF Publish, Receive, Claim, PointerTarget, Increment, Reclaim, LogOpened, Start,
                ApplyDone, Lookup, CloseReread, CloseRelease, CloseStop, storeVars
  <2>2. \A h \in Groups : log[h] \ {"opened"} \subseteq log'[h]
    BY <1>0, <1>6 DEF Publish, Receive, Claim, PointerTarget, Increment, Reclaim, LogOpened, Start,
                ApplyDone, Lookup, CloseReread, CloseRelease, CloseStop, storeVars,
                Timeline, TimelineInstead
  <2>3. \A j \in Keys \ {k} : worker'[j] = worker[j]
    BY <1>0, <1>6 DEF Publish, Receive, Claim, PointerTarget, Increment, Reclaim, LogOpened, Start,
                ApplyDone, Lookup, CloseReread, CloseRelease, CloseStop, Step, BatchDone, BatchDoneAs, Abandon
  <2>4. Closes(k) => Closes(k)' /\ worker'[k].group = worker[k].group
    <3>1. Closes(k) => \/ UNCHANGED worker
                       \/ Step(k, "stop") \/ Step(k, "closed")
      BY <1>6 DEF Closes, At, Publish, Receive, Claim, PointerTarget, Increment, Reclaim, LogOpened,
                  Start, ApplyDone, Lookup, CloseReread, CloseRelease, CloseStop
    <3> QED BY <1>0, <3>1 DEF Step, Closes, Workers
  <2>5. \A h \in Groups : ResolveOwed(h) => ResolveOwed(h)'
    BY <2>3, <2>4 DEF ResolveOwed, Closes
  <2>6. \A h \in Groups : AckOwed(h) => AckOwed(h)'
    BY DEF AckOwed
  <2>7. ASSUME NEW h \in Groups, Accounted(h) PROVE Accounted(h)'
    BY <2>1, <2>2, <2>5, <2>6, <2>7, EntriesStay DEF Accounted
  <2> QED BY <2>1, <2>7 DEF LogInv, Groups
<1> QED BY <1>1, <1>2, <1>3, <1>4, <1>5, <1>6 DEF ProcSteps, ApplySteps, CloseSteps

(* A press that owes an entry keeps owing it until it writes it. *)
LEMMA PressLog ==
    ASSUME IInv, LogInv, NEW p \in Presses, UNCHANGED worker,
           \/ \E action \in Actions, g \in Groups : \E m \in DOMAIN chat[g] : Press(p, action, g, m)
           \/ CallbackSteps(p) \/ BestEffortFails(p) \/ CallbackFails(p)
    PROVE  LogInv'
<1> USE DEF IInv
<1>0. /\ press \in [Presses -> PressRecords] /\ meta \in [Groups -> Items]
      /\ log \in [Groups -> SUBSET Entries]
      /\ press[p].pc # "idle" => press[p].group \in Groups /\ press[p].action \in Buttons
  BY DEF PressInv, CallbackType, PressOK, StoreType
<1>1. CASE BestEffortFails(p) \/ CallbackFails(p)
  BY <1>1, FaultCounts DEF BestEffortFails, CallbackFails, LogInv
<1>2. CASE Update(p)
  <2> DEFINE g == press[p].group
             to == Target(press[p].action)
  <2>1. g \in Groups /\ press[p].pc = "update" /\ press[p].action \in Buttons /\ UNCHANGED <<log, faults>>
    BY <1>0, <1>2 DEF Update, PressAt
  <2>2. CASE Move(g, to) /\ Moved(p, meta[g])
    <3>1. meta[g] \in Items
      BY <1>0, <2>1
    <3>2. \A h \in Groups : h # g => meta'[h] = meta[h]
      BY <1>0, <2>1, <2>2 DEF Move, WriteMeta
    <3>3. meta'[g].state = to
      BY <1>0, <2>1, <2>2, <3>1 DEF Move, WriteMeta, Items
    <3>4. /\ press'[p].pc = IF press[p].action = "resolve" THEN "release" ELSE "timeline"
          /\ press'[p].group = press[p].group /\ press'[p].action = press[p].action
          /\ \A q \in Presses \ {p} : press'[q] = press[q]
      BY <1>0, <2>2 DEF Moved, PressRecords
    <3>5. ASSUME NEW h \in Groups, faults = 0 PROVE Accounted(h)'
      <4>1. CASE h = g
        <5>1. CASE press[p].action = "resolve"
          <6>1. ResolveOwed(h)'
            BY <3>4, <4>1, <5>1 DEF ResolveOwed
          <6> QED BY <3>3, <4>1, <5>1, <6>1 DEF Accounted, Target, Resolved, Acked
        <5>2. CASE press[p].action # "resolve"
          <6>1. AckOwed(h)'
            BY <2>1, <3>4, <4>1, <5>2 DEF AckOwed, Buttons
          <6> QED BY <3>3, <4>1, <5>2, <6>1 DEF Accounted, Target, Resolved, Acked
        <5> QED BY <5>1, <5>2
      <4>2. CASE h # g
        <5>1. Accounted(h) /\ meta'[h] = meta[h]
          BY <3>2, <3>5, <4>2 DEF LogInv
        <5>2. ResolveOwed(h) => ResolveOwed(h)'
          BY <2>1, <3>4 DEF ResolveOwed, Closes
        <5>3. AckOwed(h) => AckOwed(h)'
          BY <2>1, <3>4 DEF AckOwed
        <5> QED BY <2>1, <5>1, <5>2, <5>3 DEF Accounted, HasEntry
      <4> QED BY <4>1, <4>2
    <3> QED BY <2>1, <3>5 DEF LogInv, Groups
  <2>3. CASE PressStep(p, "reread") /\ UNCHANGED <<meta, past>>
    <3>1. \A q \in Presses \ {p} : press'[q] = press[q]
      BY <1>0, <2>3 DEF PressStep
    <3>2. \A h \in Groups : ResolveOwed(h) => ResolveOwed(h)'
      BY <2>1, <3>1 DEF ResolveOwed, Closes
    <3>3. \A h \in Groups : AckOwed(h) => AckOwed(h)'
      BY <2>1, <3>1 DEF AckOwed
    <3> QED BY <2>1, <2>3, <3>2, <3>3 DEF LogInv, Accounted, HasEntry, Groups
  <2> QED BY <1>2, <2>2, <2>3 DEF Update
<1>3. CASE LogPress(p)
  <2> DEFINE g == press[p].group
  <2>1. /\ g \in Groups /\ press[p].pc = "timeline" /\ press[p].action \in Buttons
        /\ UNCHANGED <<meta, faults>>
        /\ log' = [log EXCEPT ![g] = @ \cup {press[p].action}]
        /\ \A q \in Presses \ {p} : press'[q] = press[q]
    BY <1>0, <1>3 DEF LogPress, PressAt, Timeline, PressStep
  <2>2. ASSUME NEW h \in Groups, Accounted(h) PROVE Accounted(h)'
    <3>1. log[h] \subseteq log'[h] /\ (h = g => press[p].action \in log'[h])
      BY <1>0, <2>1
    <3>2. AckOwed(h) => AckOwed(h)' \/ HasEntry(h, {"ack", "silence"})'
      BY <2>1, <3>1 DEF AckOwed, HasEntry
    <3>3. ResolveOwed(h) => ResolveOwed(h)' \/ HasEntry(h, {"resolve", "resolved"})'
      BY <2>1, <3>1 DEF ResolveOwed, HasEntry, Closes
    <3>4. /\ HasEntry(h, {"ack", "silence"}) => HasEntry(h, {"ack", "silence"})'
          /\ HasEntry(h, {"resolve", "resolved"}) => HasEntry(h, {"resolve", "resolved"})'
      BY <3>1 DEF HasEntry
    <3> QED BY <2>1, <2>2, <3>2, <3>3, <3>4 DEF Accounted
  <2> QED BY <2>1, <2>2 DEF LogInv, Groups
<1>4. CASE \/ \E action \in Actions, g \in Groups : \E m \in DOMAIN chat[g] : Press(p, action, g, m)
           \/ Reread(p) \/ Release(p) \/ Rewrite(p) \/ StopLadder(p) \/ Answer(p) \/ Redeliver(p)
  <2>1. UNCHANGED <<meta, faults, log>>
    BY <1>4 DEF Press, Reread, RereadAs, Release, Rewrite, StopLadder, Answer, Redeliver, storeVars
  <2>2. \A q \in Presses \ {p} : press'[q] = press[q]
    BY <1>0, <1>4 DEF Press, Reread, RereadAs, Release, Rewrite, StopLadder, Answer, Redeliver, PressStep, Reply, Moved
  <2>3. press[p].pc = "release" =>
           press'[p].pc = "timeline" /\ press'[p].group = press[p].group /\ press'[p].action = press[p].action
    BY <1>0, <1>4 DEF Press, Reread, RereadAs, Release, Rewrite, StopLadder, Answer, Redeliver, PressAt, PressStep,
                      PressRecords
  <2>4. press[p].pc # "timeline"
    BY <1>4 DEF Press, Reread, RereadAs, Release, Rewrite, StopLadder, Answer, Redeliver, PressAt
  <2>5. ASSUME NEW h \in Groups, Accounted(h) PROVE Accounted(h)'
    <3>1. AckOwed(h) => AckOwed(h)'
      BY <2>2, <2>4 DEF AckOwed
    <3>2. ResolveOwed(h) => ResolveOwed(h)'
      BY <2>2, <2>3, <2>4 DEF ResolveOwed, Closes
    <3> QED BY <2>1, <2>5, <3>1, <3>2 DEF Accounted, HasEntry
  <2> QED BY <2>1, <2>5 DEF LogInv, Groups
<1> QED BY <1>1, <1>2, <1>3, <1>4 DEF CallbackSteps, HandlerSteps

LEMMA InitLog == Init => LogInv
BY DEF Init, StoreInit, LogInv, Accounted, NoItem, Absent, Acked, Resolved

LEMMA StepLog ==
    ASSUME IInv, LogInv, [Next]_vars
    PROVE  LogInv'
<1>1. CASE StoreNext
  <2>1. UNCHANGED <<meta, log, press, worker, faults>>
    BY <1>1 DEF StoreNext, Tick, storeVars, procVars
  <2> QED BY <2>1, QuietLog
<1>2. CASE LadderNext
  BY <1>2, LadderLog DEF LadderNext, EscNext, procVars
<1>3. CASE WorkerNext
  BY <1>3, WorkerLog DEF WorkerNext, ProcNext
<1>4. CASE PressNext
  BY <1>4, PressLog DEF PressNext, CallbackNext, procVars
<1>5. CASE UNCHANGED vars
  <2>1. UNCHANGED <<meta, log, press, worker, faults>>
    BY <1>5 DEF vars, storeVars, procVars
  <2> QED BY <2>1, QuietLog
<1> QED BY <1>1, <1>2, <1>3, <1>4, <1>5 DEF Next

(* As long as no call fails, whoever of several presses and deliveries handles an *)
(* incident, once nobody is at work on it its state is on its timeline: the entry  *)
(* is a second write, and no other write takes its place.                          *)
THEOREM ChangesAreLogged == Spec => []EveryChangeLogged
<1>1. LogInv => EveryChangeLogged
  BY DEF LogInv, EveryChangeLogged, Accounted, HasEntry, AckOwed, ResolveOwed, PressesDone
<1> QED BY InitIInv, StepIInv, InitLog, StepLog, <1>1, PTL DEF Spec
=============================================================================
