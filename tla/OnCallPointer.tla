---------------------------- MODULE OnCallPointer ----------------------------
(***************************************************************************)
(* Proof that the pointer FP#<fingerprint>/OPEN is a lock, for every value  *)
(* of OnCall's constants with one routing key and no Resolve press: that at *)
(* most one incident is open about one problem and that, between deliveries, *)
(* the table agrees with the sender, whatever crashes.                      *)
(***************************************************************************)
EXTENDS OnCallHandled

NothingOpen(fp) == \A g \in Groups : FpOf(g) = fp => ~ Open(g)

(* The pointer of a fingerprint names a group of that fingerprint, and every open *)
(* group is the one its pointer names.                                            *)
LockInv ==
    /\ \A fp \in Fps : pointer[fp] # NoGroup => FpOf(pointer[fp]) = fp
    /\ \A g \in Groups : Open(g) => pointer[FpOf(g)] = g

(* What a worker knows of the pointer at each point. *)
Knows(k) ==
    /\ worker[k].pc \in Unput => FpOf(worker[k].id) = Batch(k).fp
    /\ worker[k].pc = "increment" => pointer[Batch(k).fp] = worker[k].group
    /\ worker[k].pc = "reclaim" => NothingOpen(Batch(k).fp)
    /\ worker[k].pc = "put" => pointer[Batch(k).fp] = worker[k].id
    /\ worker[k].pc \in {"resolve", "reread", "release"} =>
          pointer[FpOf(worker[k].group)] = worker[k].group

PointerInv == LockInv /\ \A k \in Keys : Knows(k)

(* Nobody resolves an incident by hand: Resolve is pressed at no message. *)
NoResolve == "resolve" \notin Actions

NobodyReleases == \A p \in Presses : press[p].action # "resolve" /\ press[p].pc # "release"

-----------------------------------------------------------------------------
(* Writes to the pointer of a fingerprint about which nothing is open. *)
LEMMA PutLock ==
    ASSUME StoreType, LockInv, NEW fp \in Fps, NothingOpen(fp), UNCHANGED meta,
           NEW g \in Groups \cup {NoGroup}, g # NoGroup => FpOf(g) = fp,
           pointer' = [pointer EXCEPT ![fp] = g]
    PROVE  LockInv'
<1>1. pointer \in [Fps -> Groups \cup {NoGroup}] /\ \A h \in Groups : FpOf(h) \in Fps
  BY GroupFacts DEF StoreType
<1>2. \A h \in Groups : Open(h)' <=> Open(h)
  BY DEF Open
<1>3. ASSUME NEW f \in Fps, pointer'[f] # NoGroup PROVE FpOf(pointer'[f]) = f
  BY <1>1, <1>3 DEF LockInv
<1>4. ASSUME NEW h \in Groups, Open(h)' PROVE pointer'[FpOf(h)] = h
  BY <1>1, <1>2, <1>4 DEF LockInv, NothingOpen
<1> QED BY <1>3, <1>4 DEF LockInv, Groups, FpOf

(* A step that opens nothing. *)
LEMMA OpenBack ==
    ASSUME IInv, IInv', Ahead, OpensNone, NEW g \in Groups, Open(g)'
    PROVE  Open(g)
<1>1. meta[g].state \in {Firing, Acked, Resolved, Absent}
  BY ItemFacts DEF IInv, StoreType, States
<1>2. meta'[g].state # Resolved /\ meta'[g].state # Absent
  BY DEF Open, Firing, Acked, Resolved, Absent
<1>3. meta[g].state # Resolved
  BY <1>2, EndStays
<1> QED BY <1>1, <1>2, <1>3 DEF Open, OpensNone

LEMMA QuietLock ==
    ASSUME IInv, IInv', Ahead, OpensNone, LockInv, UNCHANGED pointer
    PROVE  LockInv' /\ \A fp \in Fps : NothingOpen(fp) => NothingOpen(fp)'
BY OpenBack DEF LockInv, NothingOpen, Groups, FpOf

(* The batch in hand stays the same while its envelope is in front. *)
LEMMA BatchStays ==
    ASSUME WorkInv, NEW k \in Keys, worker[k].pc # "idle", worker'[k].batch = worker[k].batch,
           queue'[k] = queue[k] \/ \E e \in Envelopes : queue'[k] = Append(queue[k], e)
    PROVE  Batch(k)' = Batch(k)
<1>1. queue[k] \in Seq(Envelopes) /\ queue[k] # << >>
  BY DEF WorkInv, ProcType, WorkerOK
<1>2. ASSUME NEW q \in Seq(Envelopes), q # << >>, NEW e \in Envelopes
      PROVE  Head(Append(q, e)) = Head(q)
  BY <1>2
<1>3. Head(queue'[k]) = Head(queue[k])
  BY <1>1, <1>2
<1> QED BY <1>3 DEF Batch

LEMMA BeginKnows ==
    ASSUME IInv, NEW k \in Keys, NEW e \in Seq(Batches), NEW i \in 1 .. Len(e),
           worker'[k] = BatchStart(e, i), Head(queue'[k]) = e
    PROVE  Knows(k)'
<1>1. Batch(k)' = e[i]
  BY DEF Batch, BatchStart
<1>2. worker'[k].pc \in {"claim", "lookup"}
  BY DEF BatchStart
<1>3. worker'[k].pc = "claim" => FpOf(worker'[k].id) = e[i].fp
  BY DEF BatchStart, NewGroupID, FpOf
<1> QED BY <1>1, <1>2, <1>3 DEF Knows, Unput

LEMMA IdleKnows ==
    ASSUME NEW k \in Keys,
           worker'[k].pc \in {"idle", "joined", "opened", "start", "setExecution", "started",
                              "lookup", "stop", "closed"}
    PROVE  Knows(k)'
BY DEF Knows, Unput

LEMMA EndKnows ==
    ASSUME IInv, NEW k \in Keys, worker[k].pc # "idle",
           BatchDone(k) \/ BatchDoneAs(k, "dropped") \/ Abandon(k)
    PROVE  Knows(k)'
<1> DEFINE e == Head(queue[k])
           i == worker[k].batch
<1>0. worker \in [Keys -> Workers]
  BY DEF IInv, WorkInv, ProcType
<1>1. e \in Seq(Batches) /\ i \in 1 .. Len(e)
  BY BatchFacts DEF IInv
<1>2. CASE i < Len(e) /\ worker' = [worker EXCEPT ![k] = BatchStart(e, i + 1)] /\ UNCHANGED queue
  <2>1. i + 1 \in 1 .. Len(e)
    BY <1>1, <1>2
  <2>2. worker'[k] = BatchStart(e, i + 1) /\ Head(queue'[k]) = e
    BY <1>0, <1>2
  <2> QED BY <1>1, <2>1, <2>2, BeginKnows
<1>3. CASE worker' = [worker EXCEPT ![k] = IdleWorker]
  BY <1>0, <1>3, IdleKnows DEF IdleWorker
<1> QED BY <1>2, <1>3 DEF BatchDone, BatchDoneAs, Abandon

-----------------------------------------------------------------------------
(* The worker's own steps. *)
LEMMA ApplyPointer ==
    ASSUME IInv, IInv', TableInv, PointerInv, NEW k \in Keys, ApplySteps(k)
    PROVE  LockInv' /\ Knows(k)'
<1> DEFINE fp == Batch(k).fp
<1>0. /\ worker \in [Keys -> Workers] /\ worker[k] \in Workers /\ worker[k].pc # "idle" /\ fp \in Fps
      /\ (worker[k].pc \in Opening => worker[k].id \in Groups)
      /\ meta \in [Groups -> Items] /\ pointer \in [Fps -> Groups \cup {NoGroup}] /\ StoreType
  <2>1. worker[k].pc # "idle"
    BY DEF ApplySteps, Claim, PointerTarget, Increment, Reclaim, Put, LogOpened, Start,
           KeepExecution, ApplyDone, At
  <2> QED BY <2>1, BatchFacts DEF IInv, WorkInv, ProcType, WorkerOK, StoreType
<1>a. ASSUME NEW pc, Step(k, pc), UNCHANGED envelopeVars
      PROVE  /\ worker'[k].pc = pc /\ worker'[k].id = worker[k].id /\ worker'[k].group = worker[k].group
             /\ Batch(k)' = Batch(k)
  <2>1. /\ worker'[k].pc = pc /\ worker'[k].id = worker[k].id /\ worker'[k].group = worker[k].group
        /\ worker'[k].batch = worker[k].batch
    BY <1>0, <1>a DEF Step, Workers
  <2> QED BY <1>0, <1>a, <2>1, BatchStays DEF envelopeVars, IInv
<1>b. NoGroup \notin Groups
  BY GroupFacts DEF IInv
<1>1. CASE Claim(k)
  <2>1. worker[k].id \in Groups /\ FpOf(worker[k].id) = fp
    BY <1>0, <1>1 DEF Claim, At, Opening, PointerInv, Knows, Unput
  <2>2. CASE PointerAbsent(fp) /\ PutPointer(fp, worker[k].id) /\ Step(k, "put")
    <3>1. NothingOpen(fp)
      BY <1>b, <2>2 DEF PointerAbsent, PointerInv, LockInv, NothingOpen
    <3>2. pointer' = [pointer EXCEPT ![fp] = worker[k].id] /\ UNCHANGED meta
      BY <1>1, <2>2 DEF Claim, PutPointer
    <3>3. LockInv'
      BY <1>0, <2>1, <3>1, <3>2, PutLock DEF PointerInv
    <3>4. pointer'[fp] = worker[k].id
      BY <1>0, <3>2
    <3>5. worker'[k].pc = "put" /\ worker'[k].id = worker[k].id /\ Batch(k)' = Batch(k)
      BY <1>1, <1>a, <2>2 DEF Claim
    <3> HIDE DEF fp
    <3>6. Batch(k)'.fp = fp
      BY <3>5 DEF fp
    <3> QED BY <2>1, <3>3, <3>4, <3>5, <3>6 DEF Knows
  <2>3. CASE Step(k, "target") /\ UNCHANGED pointer
    <3>1. worker'[k].pc = "target" /\ worker'[k].id = worker[k].id /\ Batch(k)' = Batch(k)
      BY <1>1, <1>a, <2>3 DEF Claim
    <3>2. LockInv'
      BY <1>1, <2>3 DEF Claim, PointerInv, LockInv, Open
    <3> QED BY <2>1, <3>1, <3>2 DEF Knows
  <2> QED BY <1>1, <2>2, <2>3 DEF Claim
<1>2. CASE PointerTarget(k)
  <2>1. LockInv'
    BY <1>2 DEF PointerTarget, storeVars, PointerInv, LockInv, Open
  <2>2. CASE Abandon(k)
    BY <1>0, <2>1, <2>2, EndKnows
  <2>3. CASE /\ worker' = [worker EXCEPT ![k].pc = "increment", ![k].group = pointer[fp]]
             /\ UNCHANGED envelopeVars
    <3>1. /\ worker'[k].pc = "increment" /\ worker'[k].group = pointer[fp]
          /\ worker'[k].id = worker[k].id /\ worker'[k].batch = worker[k].batch
      BY <1>0, <2>3 DEF Workers
    <3>2. Batch(k)' = Batch(k)
      BY <1>0, <2>3, <3>1, BatchStays DEF envelopeVars, IInv
    <3>3. FpOf(worker[k].id) = fp /\ UNCHANGED pointer
      BY <1>2 DEF PointerTarget, At, storeVars, PointerInv, Knows, Unput
    <3> QED BY <2>1, <3>1, <3>2, <3>3 DEF Knows
  <2> QED BY <1>2, <2>2, <2>3 DEF PointerTarget
<1>3. CASE Increment(k)
  <2>1. LockInv' /\ UNCHANGED pointer /\ UNCHANGED meta
    BY <1>3 DEF Increment, storeVars, PointerInv, LockInv, Open
  <2>2. CASE CanJoin(worker[k].group) /\ Step(k, "joined")
    BY <1>3, <1>a, <2>1, <2>2, IdleKnows DEF Increment
  <2>3. CASE ~ CanJoin(worker[k].group) /\ Step(k, "reclaim")
    <3>1. worker'[k].pc = "reclaim" /\ worker'[k].id = worker[k].id /\ Batch(k)' = Batch(k)
      BY <1>3, <1>a, <2>3 DEF Increment
    <3>2. FpOf(worker[k].id) = fp /\ pointer[fp] = worker[k].group
      BY <1>3 DEF Increment, At, PointerInv, Knows, Unput
    <3>3. ~ Open(worker[k].group)
      BY <2>3 DEF CanJoin, Open, Firing, Acked, Resolved, Absent
    <3>4. NothingOpen(fp)
      BY <3>2, <3>3 DEF NothingOpen, PointerInv, LockInv
    <3>5. NothingOpen(fp)'
      <4>1. \A g \in Groups : Open(g)' <=> Open(g)
        BY <2>1 DEF Open
      <4>2. Batch(k)'.fp = Batch(k).fp
        BY <3>1
      <4> QED BY <3>4, <4>1, <4>2 DEF NothingOpen, Groups, FpOf
    <3> QED BY <2>1, <3>1, <3>2, <3>5 DEF Knows
  <2> QED BY <1>3, <2>2, <2>3 DEF Increment
<1>4. CASE Reclaim(k)
  <2>1. worker[k].id \in Groups /\ FpOf(worker[k].id) = fp /\ NothingOpen(fp)
    BY <1>0, <1>4 DEF Reclaim, At, Opening, PointerInv, Knows, Unput
  <2>2. pointer' = [pointer EXCEPT ![fp] = worker[k].id] /\ UNCHANGED meta
    BY <1>4 DEF Reclaim, PutPointer
  <2>3. LockInv'
    BY <1>0, <2>1, <2>2, PutLock DEF PointerInv
  <2>4. pointer'[fp] = worker[k].id
    BY <1>0, <2>2
  <2>5. worker'[k].pc = "put" /\ worker'[k].id = worker[k].id /\ Batch(k)' = Batch(k)
    BY <1>4, <1>a DEF Reclaim
  <2> HIDE DEF fp
  <2>6. Batch(k)'.fp = fp
    BY <2>5 DEF fp
  <2> QED BY <2>1, <2>3, <2>4, <2>5, <2>6 DEF Knows
<1>5. CASE Put(k)
  <2>1. /\ worker[k].id \in Groups /\ FpOf(worker[k].id) = fp /\ pointer[fp] = worker[k].id
        /\ UNCHANGED pointer /\ meta' = [meta EXCEPT ![worker[k].id] = NewItem]
    BY <1>0, <1>5 DEF Put, PutMeta, WriteMeta, At, Opening, PointerInv, Knows, Unput
  <2>2. LockInv'
    <3>1. ASSUME NEW g \in Groups, Open(g)' PROVE pointer'[FpOf(g)] = g
      <4>1. CASE g = worker[k].id
        BY <2>1, <4>1
      <4>2. CASE g # worker[k].id
        BY <1>0, <2>1, <3>1, <4>2 DEF Open, PointerInv, LockInv
      <4> QED BY <4>1, <4>2
    <3> QED BY <2>1, <3>1 DEF PointerInv, LockInv, Groups, FpOf
  <2>3. worker'[k].pc = "opened"
    BY <1>5, <1>a DEF Put
  <2> QED BY <2>2, <2>3, IdleKnows
<1>6. CASE LogOpened(k) \/ Start(k) \/ KeepExecution(k)
  <2>1. UNCHANGED pointer /\ OpensNone /\ Ahead
    BY <1>6, WorkerTable DEF LogOpened, Start, KeepExecution, Put, At, storeVars, ProcSteps, ApplySteps
  <2>2. LockInv'
    BY <2>1, QuietLock DEF PointerInv
  <2>3. \E pc \in {"start", "setExecution", "started"} : worker'[k].pc = pc
    BY <1>6, <1>a DEF LogOpened, Start, KeepExecution
  <2> QED BY <2>2, <2>3, IdleKnows
<1>7. CASE ApplyDone(k)
  <2>1. LockInv'
    BY <1>7 DEF ApplyDone, PointerInv, LockInv, Open
  <2> QED BY <1>0, <1>7, <2>1, EndKnows DEF ApplyDone
<1> QED BY <1>1, <1>2, <1>3, <1>4, <1>5, <1>6, <1>7 DEF ApplySteps

LEMMA ClosePointer ==
    ASSUME IInv, IInv', TableInv, ClosedInv, PointerInv, NEW k \in Keys, CloseSteps(k)
    PROVE  LockInv' /\ Knows(k)'
<1> DEFINE fp == Batch(k).fp
           g == worker[k].group
<1>0. /\ worker \in [Keys -> Workers] /\ worker[k] \in Workers /\ worker[k].pc # "idle" /\ fp \in Fps
      /\ (worker[k].pc \in {"resolve", "reread", "release", "stop", "closed"} => g \in Groups)
      /\ meta \in [Groups -> Items] /\ pointer \in [Fps -> Groups \cup {NoGroup}] /\ StoreType
  <2>1. worker[k].pc # "idle"
    BY DEF CloseSteps, Lookup, CloseUpdate, CloseReread, CloseRelease, CloseStop, CloseDone, At
  <2> QED BY <2>1, BatchFacts DEF IInv, WorkInv, ProcType, WorkerOK, StoreType
<1>b. NoGroup \notin Groups /\ \A h \in Groups : FpOf(h) \in Fps
  BY GroupFacts DEF IInv
<1>1. CASE Lookup(k)
  <2>1. LockInv' /\ UNCHANGED pointer
    BY <1>1 DEF Lookup, storeVars, PointerInv, LockInv, Open
  <2>2. CASE BatchDone(k)
    BY <1>0, <2>1, <2>2, EndKnows
  <2>3. CASE ~ PointerAbsent(fp)
             /\ worker' = [worker EXCEPT ![k].pc = "resolve", ![k].group = pointer[fp]]
    <3>1. worker'[k].pc = "resolve" /\ worker'[k].group = pointer[fp]
      BY <1>0, <2>3 DEF Workers
    <3>2. FpOf(pointer[fp]) = fp
      BY <1>0, <2>3 DEF PointerAbsent, PointerInv, LockInv
    <3> QED BY <2>1, <3>1, <3>2 DEF Knows, Unput
  <2> QED BY <1>1, <2>2, <2>3 DEF Lookup
<1>2. CASE CloseUpdate(k)
  <2>1. UNCHANGED pointer /\ OpensNone /\ Ahead
    BY <1>2, WorkerTable DEF CloseUpdate, Put, At, ProcSteps, CloseSteps
  <2>2. LockInv'
    BY <2>1, QuietLock DEF PointerInv
  <2>3. \E pc \in {"release", "reread"} : worker'[k].pc = pc /\ worker'[k].group = g
    BY <1>0, <1>2 DEF CloseUpdate, Step, Workers
  <2>4. pointer[FpOf(g)] = g
    BY <1>2 DEF CloseUpdate, At, PointerInv, Knows
  <2> QED BY <2>1, <2>2, <2>3, <2>4 DEF Knows, Unput
<1>3. CASE CloseReread(k)
  <2>1. LockInv' /\ UNCHANGED pointer
    BY <1>3 DEF CloseReread, storeVars, PointerInv, LockInv, Open
  <2>2. CASE Abandon(k) \/ BatchDone(k)
    BY <1>0, <2>1, <2>2, EndKnows
  <2>3. CASE \E b : worker' = [worker EXCEPT ![k].pc = "release", ![k].arn = b]
    <3>1. worker'[k].pc = "release" /\ worker'[k].group = g
      BY <1>0, <2>3 DEF Workers
    <3>2. pointer[FpOf(g)] = g
      BY <1>3 DEF CloseReread, At, PointerInv, Knows
    <3> QED BY <2>1, <3>1, <3>2 DEF Knows, Unput
  <2>4. PICK item \in Get(g) :
          \/ Abandon(k) \/ BatchDone(k)
          \/ worker' = [worker EXCEPT ![k].pc = "release", ![k].arn = item.arn]
    BY <1>3 DEF CloseReread
  <2> QED BY <2>2, <2>3, <2>4
<1>4. CASE CloseRelease(k)
  <2>1. g \in Groups /\ pointer[FpOf(g)] = g /\ meta[g].state = Resolved
    BY <1>0, <1>4 DEF CloseRelease, At, PointerInv, Knows, ClosedInv, Closes
  <2>2. NothingOpen(FpOf(g))
    BY <2>1 DEF NothingOpen, PointerInv, LockInv, Open, Firing, Acked, Resolved
  <2>3. pointer' = [pointer EXCEPT ![FpOf(g)] = NoGroup] /\ UNCHANGED meta
    BY <1>4 DEF CloseRelease, DeletePointer
  <2>4. LockInv'
    BY <1>0, <1>b, <2>1, <2>2, <2>3, PutLock DEF PointerInv
  <2>5. worker'[k].pc = "stop"
    BY <1>0, <1>4 DEF CloseRelease, Step, Workers
  <2> QED BY <2>4, <2>5, IdleKnows
<1>5. CASE CloseStop(k)
  <2>1. LockInv'
    BY <1>5 DEF CloseStop, storeVars, PointerInv, LockInv, Open
  <2>2. worker'[k].pc = "closed"
    BY <1>0, <1>5 DEF CloseStop, Step, Workers
  <2> QED BY <2>1, <2>2, IdleKnows
<1>6. CASE CloseDone(k)
  <2>1. LockInv'
    BY <1>6 DEF CloseDone, PointerInv, LockInv, Open
  <2> QED BY <1>0, <1>6, <2>1, EndKnows DEF CloseDone
<1> QED BY <1>1, <1>2, <1>3, <1>4, <1>5, <1>6 DEF CloseSteps

LEMMA QueuePointer ==
    ASSUME IInv, IInv', PointerInv, NEW k \in Keys,
           Receive(k) \/ WorkerFails(k) \/ LookupFails(k) \/ \E e \in Envelopes : Publish(k, e)
    PROVE  LockInv' /\ Knows(k)'
<1>0. /\ queue \in [Keys -> Seq(Envelopes)] /\ worker \in [Keys -> Workers]
      /\ \A fp \in Fps : NothingOpen(fp) => NothingOpen(fp)'
      /\ UNCHANGED pointer /\ LockInv'
  <2>1. UNCHANGED <<meta, pointer>>
    BY DEF Receive, WorkerFails, LookupFails, Publish, storeVars
  <2> QED BY <2>1 DEF IInv, WorkInv, ProcType, PointerInv, LockInv, NothingOpen, Open, Groups, FpOf
<1>1. CASE Receive(k)
  <2>1. Head(queue[k]) \in Seq(Batches) \ {<< >>}
    BY <1>0, <1>1, QueueAssumption DEF Receive
  <2>2. 1 \in 1 .. Len(Head(queue[k]))
    BY <2>1
  <2>3. worker'[k] = BatchStart(Head(queue[k]), 1) /\ UNCHANGED queue
    BY <1>0, <1>1 DEF Receive
  <2> QED BY <1>0, <2>1, <2>2, <2>3, BeginKnows
<1>2. CASE WorkerFails(k)
  BY <1>0, <1>2, EndKnows DEF WorkerFails, At
<1>4. CASE LookupFails(k)
  BY <1>0, <1>4, EndKnows DEF LookupFails, At
<1>3. CASE \E e \in Envelopes : Publish(k, e)
  <2>1. PICK e \in Envelopes : Publish(k, e)
    BY <1>3
  <2>2. UNCHANGED worker /\ queue'[k] = Append(queue[k], e)
    BY <1>0, <2>1 DEF Publish
  <2>3. CASE worker[k].pc = "idle"
    BY <1>0, <2>2, <2>3, IdleKnows
  <2>4. CASE worker[k].pc # "idle"
    <3>1. Batch(k)' = Batch(k)
      BY <2>2, <2>4, BatchStays DEF IInv
    <3>2. worker[k].pc = "reclaim" => NothingOpen(Batch(k).fp)'
      <4>1. worker[k].pc = "reclaim" => NothingOpen(Batch(k).fp) /\ Batch(k).fp \in Fps
        BY <2>4, BatchFacts DEF PointerInv, Knows, IInv
      <4> QED BY <1>0, <3>1, <4>1 DEF NothingOpen
    <3> QED BY <1>0, <2>2, <3>1, <3>2 DEF PointerInv, Knows
  <2> QED BY <2>3, <2>4
<1> QED BY <1>1, <1>2, <1>3, <1>4

(* Steps of others, with the Resolve button out of the picture. *)
LEMMA QuietKnows ==
    ASSUME IInv, IInv', Ahead, OpensNone, PointerInv, UNCHANGED <<pointer, worker, queue>>
    PROVE  PointerInv'
<1>1. LockInv' /\ \A fp \in Fps : NothingOpen(fp) => NothingOpen(fp)'
  BY QuietLock DEF PointerInv
<1>2. ASSUME NEW k \in Keys PROVE Knows(k)'
  <2>1. Batch(k)' = Batch(k)
    BY DEF Batch
  <2>2. worker[k].pc # "idle" => Batch(k).fp \in Fps
    BY BatchFacts DEF IInv
  <2>3. worker[k].pc = "reclaim" => NothingOpen(Batch(k).fp)'
    <3>1. worker[k].pc = "reclaim" => NothingOpen(Batch(k).fp) /\ Batch(k).fp \in Fps
      BY <2>2 DEF PointerInv, Knows
    <3> QED BY <1>1, <2>1, <3>1 DEF NothingOpen
  <2> QED BY <2>1, <2>3 DEF PointerInv, Knows
<1> QED BY <1>1, <1>2 DEF PointerInv

LEMMA InitReleases == Init => NobodyReleases
BY DEF Init, CallbackInit, NobodyReleases

LEMMA PressReleases ==
    ASSUME IInv, NoResolve, NobodyReleases, NEW p \in Presses, PressStepOf(p)
    PROVE  NobodyReleases'
<1>0. press \in [Presses -> PressRecords]
  BY DEF IInv, PressInv, CallbackType
<1>1. \A q \in Presses \ {p} : press'[q] = press[q]
  BY OnePress
<1>2. press'[p].action # "resolve"
  <2>1. CASE press[p].pc = "idle"
    <3>1. PICK action \in Actions : \E g \in Groups : \E m \in DOMAIN chat[g] : Press(p, action, g, m)
      BY <2>1 DEF PressStepOf, PressAt, CallbackSteps, HandlerSteps, Update, Reread, Release,
                  LogPress, Rewrite, StopLadder, Answer, Redeliver, BestEffortFails, CallbackFails,
                  Handler
    <3>2. press'[p].action = action
      BY <1>0, <3>1 DEF Press, PressRecords
    <3> QED BY <3>2 DEF NoResolve
  <2>2. CASE press[p].pc # "idle"
    BY <2>2, OnePress DEF NobodyReleases
  <2> QED BY <2>1, <2>2
<1>3. press'[p].pc # "release"
  <2>1. CASE \E action \in Actions, g \in Groups : \E m \in DOMAIN chat[g] : Press(p, action, g, m)
    BY <1>0, <2>1 DEF Press, PressRecords
  <2>2. CASE \E pc \in {"reread", "timeline", "edit", "stop", "answer", "update"} : PressStep(p, pc)
    BY <1>0, <2>2 DEF PressStep, PressRecords
  <2>3. CASE \E reply : Reply(p, reply)
    BY <1>0, <2>3 DEF Reply, PressRecords
  <2>4. CASE \E item : Moved(p, item)
    BY <1>0, <2>4 DEF Moved, PressRecords, NobodyReleases
  <2> QED BY <2>1, <2>2, <2>3, <2>4
          DEF PressStepOf, CallbackSteps, HandlerSteps, Update, Reread, RereadAs, Release, LogPress, Rewrite,
              StopLadder, Answer, Redeliver, BestEffortFails, CallbackFails
<1> QED BY <1>1, <1>2, <1>3 DEF NobodyReleases

LEMMA StepReleases ==
    ASSUME IInv, NoResolve, NobodyReleases, [Next]_vars
    PROVE  NobodyReleases'
<1>1. CASE PressNext
  <2>1. PICK p \in Presses : PressStepOf(p)
    BY <1>1 DEF PressNext, CallbackNext, PressStepOf
  <2> QED BY <2>1, PressReleases
<1>2. CASE UNCHANGED press
  BY <1>2 DEF NobodyReleases
<1>3. StoreNext \/ LadderNext \/ WorkerNext \/ UNCHANGED vars => UNCHANGED press
  BY DEF StoreNext, LadderNext, WorkerNext, vars
<1> QED BY <1>1, <1>2, <1>3 DEF Next

LEMMA StepPointer ==
    ASSUME IInv, Paced, OneKey, NobodyReleases, TableInv, ClosedInv, PointerInv, [Next]_vars
    PROVE  PointerInv'
<1>0. IInv'
  BY StepIInv
<1>1. CASE StoreNext
  <2>1. UNCHANGED <<pointer, worker, queue>>
    BY <1>1 DEF StoreNext, Tick, storeVars, procVars
  <2> QED BY <1>0, <1>1, <2>1, StoreTable, QuietKnows DEF TableInv
<1>2. CASE LadderNext
  <2>1. PICK g \in Groups : EscSteps(g) \/ EscFaults(g)
    BY <1>2 DEF LadderNext, EscNext
  <2>2. UNCHANGED <<pointer, worker, queue>>
    BY <1>2, <2>1 DEF LadderNext, procVars, EscSteps, EscFaults, CheckGroup, Send, Record, EndRung,
                      WaitExpires, SendUnanswered, SendFails, HandlerFails, Reinvoke, storeVars
  <2> QED BY <1>0, <2>1, <2>2, LadderTable, QuietKnows DEF TableInv
<1>3. CASE WorkerNext
  <2>1. PICK k \in Keys :
           \/ \E e \in Envelopes : Publish(k, e)
           \/ ProcSteps(k) \/ WorkerFails(k) \/ LookupFails(k)
    BY <1>3 DEF WorkerNext, ProcNext
  <2>2. LockInv' /\ Knows(k)'
    BY <1>0, <2>1, ApplyPointer, ClosePointer, QueuePointer DEF ProcSteps
  <2>3. \A j \in Keys : j = k
    BY DEF OneKey
  <2> QED BY <2>2, <2>3 DEF PointerInv
<1>4. CASE PressNext
  <2>1. PICK p \in Presses : PressStepOf(p)
    BY <1>4 DEF PressNext, CallbackNext, PressStepOf
  <2>2. UNCHANGED pointer
    BY <2>1 DEF PressStepOf, NobodyReleases, PressAt, Press, CallbackSteps, HandlerSteps, Update,
                Reread, RereadAs, Release, LogPress, Rewrite, StopLadder, Answer, Redeliver,
                BestEffortFails, CallbackFails, storeVars
  <2>3. UNCHANGED <<worker, queue>>
    BY <1>4 DEF PressNext, procVars
  <2>4. Ahead /\ OpensNone
    BY <2>1, PressTable DEF PressStepOf, TableInv
  <2> QED BY <1>0, <2>2, <2>3, <2>4, QuietKnows
<1>5. CASE UNCHANGED vars
  BY <1>0, <1>5, QuietAhead, QuietKnows DEF vars, storeVars, procVars, TableInv, IInv
<1> QED BY <1>1, <1>2, <1>3, <1>4, <1>5 DEF Next

LEMMA InitPointer == Init => PointerInv
BY DEF Init, StoreInit, ProcInit, IdleWorker, NoItem, PointerInv, LockInv, Knows, Unput, Open,
       Absent, Firing, Acked

(* At most one incident is open about one problem, wherever a worker crashed before,  *)
(* between or after its writes: as long as deliveries about the problem come under    *)
(* one routing key, at a sane pace, and nobody resolves an incident by hand: both a    *)
(* second key and a Resolve press let a second incident open.                          *)
THEOREM PointerIsALock ==
    ASSUME Paced, OneKey, NoResolve
    PROVE  Spec => []OneOpenGroup
<1>1. Init => ClosedInv
  BY DEF Init, ProcInit, IdleWorker, ClosedInv, Closes
<1>2. IInv /\ TableInv /\ ClosedInv /\ PointerInv /\ NobodyReleases /\ [Next]_vars
         => TableInv' /\ ClosedInv' /\ PointerInv' /\ NobodyReleases'
  BY StepTable, StepClosed, StepPointer, StepReleases
<1>3. PointerInv => OneOpenGroup
  BY DEF PointerInv, LockInv, OneOpenGroup
<1> QED BY InitIInv, StepIInv, InitTable, InitPointer, InitReleases, <1>1, <1>2, <1>3, PTL DEF Spec

-----------------------------------------------------------------------------
(* The table follows the sender.  The order of the batches of one envelope matters *)
(* here: a batch that has been applied stays so while the later ones are at work.   *)
Agrees(fp) ==
    /\ applied[fp] = "firing" => pointer[fp] # NoGroup /\ Open(pointer[fp])
    /\ applied[fp] = "resolved" => NothingOpen(fp)

(* The envelope in hand has applied fp already, and goes on with another problem. *)
Applies(k, fp) ==
    /\ worker[k].pc # "idle"
    /\ fp # Batch(k).fp
    /\ \E i \in 1 .. worker[k].batch - 1 : Head(queue[k])[i].fp = fp

Steady(fp) == Settled(fp) \/ \E k \in Keys : Applies(k, fp)

(* What a worker has made of the table at each point. *)
Sees(k) ==
    LET fp == Batch(k).fp
        g  == worker[k].group
        id == worker[k].id
    IN  /\ worker[k].pc \in Opening => Batch(k).firing
        /\ worker[k].pc \in Closing => ~ Batch(k).firing
        /\ worker[k].pc \in {"opened", "start", "setExecution", "started"} =>
              id \in Groups /\ pointer[fp] = id /\ Open(id)
        /\ worker[k].pc = "joined" => g \in Groups /\ pointer[fp] = g /\ Open(g)
        /\ worker[k].pc \in {"resolve", "reread", "release", "stop", "closed"} => FpOf(g) = fp
        /\ worker[k].pc \in {"stop", "closed"} => NothingOpen(fp)

Held(k) ==
    /\ worker[k].pc # "idle" => receives[k] > 0 /\ Sees(k)
    /\ receives[k] > 0 => queue[k] # << >>

FollowInv ==
    /\ \A k \in Keys : Held(k)
    /\ \A fp \in Fps : Steady(fp) => Agrees(fp)

(* What leaves a problem alone: its pointer, its direction and whether its groups are open. *)
LeavesAlone(fp) ==
    /\ pointer'[fp] = pointer[fp] /\ applied'[fp] = applied[fp]
    /\ \A g \in Groups : FpOf(g) = fp => (Open(g)' <=> Open(g))

LEMMA AgreesStays ==
    ASSUME IInv, LockInv, NEW fp \in Fps, LeavesAlone(fp), Agrees(fp)
    PROVE  Agrees(fp)'
<1>1. pointer[fp] # NoGroup => pointer[fp] \in Groups /\ FpOf(pointer[fp]) = fp
  BY DEF IInv, StoreType, LockInv
<1>2. pointer[fp] # NoGroup /\ Open(pointer[fp]) => meta'[pointer'[fp]].state \in {Firing, Acked}
  BY <1>1 DEF LeavesAlone, Open
<1>3. NothingOpen(fp) => NothingOpen(fp)'
  BY DEF NothingOpen, LeavesAlone, Groups, FpOf
<1> QED BY <1>2, <1>3 DEF Agrees, LeavesAlone, Open

(* Steps of others: they neither open an incident nor, without the Resolve button,    *)
(* close one.                                                                        *)
OpenStays == \A g \in Groups : Open(g) => Open(g)'

LEMMA LadderOpen ==
    ASSUME IInv, ReplicaBehind, NEW g \in Groups, EscSteps(g) \/ EscFaults(g)
    PROVE  OpenStays
<1>1. CASE Record(g)
  <2> DEFINE item == [meta[g] EXCEPT !.messageID = IF @ = 0 THEN Len(chat[g]) ELSE @]
  <2>1. meta[g] \in Items /\ chat[g] \in Seq(Messages)
    BY DEF IInv, StoreType, LadderInv, EscType
  <2>2. item \in Items /\ item.state = meta[g].state
    BY <2>1 DEF Items
  <2>3. WriteMeta(g, item)
    BY <1>1 DEF Record, RecordNotification
  <2> HIDE DEF item
  <2>4. \A h \in Groups : meta'[h].state = meta[h].state
    BY <2>2, <2>3, SameAhead DEF IInv
  <2> QED BY <2>4 DEF OpenStays, Open
<1>2. CASE ~ Record(g)
  <2>1. UNCHANGED meta
    BY <1>2 DEF EscSteps, EscFaults, CheckGroup, Send, EndRung, WaitExpires, SendUnanswered,
                SendFails, HandlerFails, Reinvoke, storeVars
  <2> QED BY <2>1 DEF OpenStays, Open
<1> QED BY <1>1, <1>2

LEMMA PressOpen ==
    ASSUME IInv, ReplicaBehind, NobodyReleases, NEW p \in Presses, PressStepOf(p)
    PROVE  OpenStays
<1>1. CASE Update(p)
  <2> DEFINE g == press[p].group
  <2>1. g \in Groups /\ Target(press[p].action) = Acked
    BY <1>1 DEF Update, PressAt, IInv, PressInv, PressOK, Target, NobodyReleases
  <2>2. CASE CanMove(g, Acked) /\ Move(g, Acked)
    <3>1. /\ \A h \in Groups : h # g => meta'[h] = meta[h]
          /\ meta'[g] = [meta[g] EXCEPT !.state = Acked]
      BY <2>1, <2>2, MoveAhead DEF IInv
    <3>2. meta[g] \in Items
      BY <2>1 DEF IInv, StoreType
    <3> QED BY <3>1, <3>2 DEF OpenStays, Open, Items
  <2>3. CASE UNCHANGED meta
    BY <2>3 DEF OpenStays, Open
  <2> QED BY <1>1, <2>1, <2>2, <2>3 DEF Update
<1>2. CASE ~ Update(p)
  <2>1. UNCHANGED meta
    BY <1>2 DEF PressStepOf, Press, CallbackSteps, HandlerSteps, Reread, RereadAs, Release, LogPress, Rewrite,
                StopLadder, Answer, Redeliver, BestEffortFails, CallbackFails, storeVars
  <2> QED BY <2>1 DEF OpenStays, Open
<1> QED BY <1>1, <1>2

LEMMA QuietFollow ==
    ASSUME IInv, IInv', Ahead, OpensNone, OpenStays, LockInv, FollowInv,
           UNCHANGED <<pointer, procVars>>
    PROVE  FollowInv'
<1>1. \A g \in Groups : Open(g)' <=> Open(g)
  BY OpenBack DEF OpenStays
<1>2. ASSUME NEW fp \in Fps, Steady(fp)' PROVE Agrees(fp)'
  <2>1. Steady(fp)
    BY <1>2 DEF Steady, Settled, Applies, Batch, procVars
  <2>2. LeavesAlone(fp)
    BY <1>1 DEF LeavesAlone, procVars
  <2> QED BY <2>1, <2>2, AgreesStays DEF FollowInv
<1>3. ASSUME NEW k \in Keys PROVE Held(k)'
  <2>1. UNCHANGED <<worker, queue, receives, pointer>> /\ Held(k)
    BY DEF procVars, FollowInv
  <2>2. Batch(k)' = Batch(k)
    BY <2>1 DEF Batch
  <2>3. CASE worker[k].pc = "idle"
    BY <2>1, <2>3 DEF Held
  <2>4. CASE worker[k].pc # "idle"
    <3>1. Sees(k) /\ Batch(k).fp \in Fps
      BY <2>1, <2>4, BatchFacts DEF Held, IInv
    <3>2. \A fp \in Fps : NothingOpen(fp) => NothingOpen(fp)'
      BY <1>1 DEF NothingOpen, Groups, FpOf
    <3>3. worker[k].id \in Groups /\ Open(worker[k].id) => Open(worker[k].id)'
      BY <1>1, <2>1 DEF Open
    <3>4. worker[k].group \in Groups /\ Open(worker[k].group) => Open(worker[k].group)'
      BY <1>1, <2>1 DEF Open
    <3>5. Sees(k)'
      BY <2>1, <2>2, <3>1, <3>2, <3>3, <3>4 DEF Sees, Open, NothingOpen
    <3> QED BY <2>1, <3>5 DEF Held
  <2> QED BY <2>3, <2>4
<1> QED BY <1>2, <1>3 DEF FollowInv

(* Steps of the worker.  It goes on with the batch in hand ... *)
GoesOn(k) ==
    /\ worker[k].pc # "idle" /\ worker'[k].pc # "idle"
    /\ worker'[k].batch = worker[k].batch /\ Batch(k)' = Batch(k)
    /\ UNCHANGED envelopeVars

LEMMA OnFollow ==
    ASSUME IInv, OneKey, LockInv, FollowInv, NEW k \in Keys, GoesOn(k), Sees(k)',
           \A fp \in Fps \ {Batch(k).fp} : LeavesAlone(fp)
    PROVE  FollowInv'
<1>0. \A j \in Keys : j = k
  BY DEF OneKey
<1>1. worker[k].pc # "idle" /\ worker'[k].pc # "idle" /\ receives[k] > 0 /\ queue[k] # << >>
  BY DEF GoesOn, FollowInv, Held
<1>2. Held(k)'
  BY <1>1 DEF GoesOn, envelopeVars, Held
<1>3. ASSUME NEW fp \in Fps, Steady(fp)' PROVE Agrees(fp)'
  <2>1. CASE Settled(fp)'
    <3>1. Settled(fp)
      BY <2>1 DEF Settled, GoesOn, envelopeVars
    <3>2. ~ Mentions(Head(queue[k]), fp)
      BY <1>1, <3>1 DEF Settled
    <3>3. fp # Batch(k).fp
      BY <1>1, <3>2, BatchFacts DEF Mentions, Batch, IInv
    <3> QED BY <3>1, <3>3, AgreesStays DEF Steady, FollowInv
  <2>2. CASE Applies(k, fp)'
    <3>1. Applies(k, fp) /\ fp # Batch(k).fp
      BY <1>1, <2>2 DEF Applies, GoesOn, envelopeVars
    <3> QED BY <3>1, AgreesStays DEF Steady, FollowInv
  <2> QED BY <1>0, <1>3, <2>1, <2>2 DEF Steady
<1> QED BY <1>0, <1>2, <1>3 DEF FollowInv

(* ... or is done with it, and the table agrees about it ... *)
LEMMA DoneAlone ==
    ASSUME IInv, NEW k \in Keys, worker[k].pc # "idle", NEW o \in Outcomes, BatchDoneAs(k, o),
           UNCHANGED <<pointer, meta>>, NEW b \in Fps, b = Batch(k).fp
    PROVE  /\ \A fp \in Fps \ {b} : LeavesAlone(fp)
           /\ applied'[b] = o
<1>1. applied \in [Fps -> Outcomes]
  BY DEF IInv, WorkInv, ProcType
<1>2. applied' = [applied EXCEPT ![b] = o]
  BY DEF BatchDoneAs, Batch
<1> QED BY <1>1, <1>2 DEF LeavesAlone, Open

LEMMA DoneFollow ==
    ASSUME IInv, IInv', OneKey, LockInv, FollowInv, NEW k \in Keys, worker[k].pc # "idle",
           NEW o \in Outcomes, BatchDoneAs(k, o), NEW b \in Fps, b = Batch(k).fp, Agrees(b)',
           \A fp \in Fps \ {Batch(k).fp} : LeavesAlone(fp)
    PROVE  FollowInv'
<1> DEFINE e == Head(queue[k])
           i == worker[k].batch
<1>0. \A j \in Keys : j = k
  BY DEF OneKey
<1>1. /\ e \in Seq(Batches) /\ i \in 1 .. Len(e) /\ receives[k] > 0
      /\ worker \in [Keys -> Workers] /\ receives \in [Keys -> 0 .. MaxReceive]
      /\ queue \in [Keys -> Seq(Envelopes)]
  BY BatchFacts DEF IInv, WorkInv, ProcType, FollowInv, Held
<1>2. ASSUME NEW fp \in Fps, fp = Batch(k).fp \/ Steady(fp) PROVE Agrees(fp)'
  <2>1. CASE fp = Batch(k).fp
    BY <2>1
  <2>2. CASE fp # Batch(k).fp
    BY <1>2, <2>2, AgreesStays DEF FollowInv
  <2> QED BY <2>1, <2>2
<1>3. ASSUME NEW fp \in Fps, NEW j \in 1 .. i, e[j].fp = fp PROVE fp = Batch(k).fp \/ Steady(fp)
  BY <1>1, <1>3 DEF Batch, Steady, Applies
<1>4. ASSUME NEW fp \in Fps, ~ Mentions(e, fp), \A j \in DOMAIN parked[k] : ~ Mentions(parked[k][j], fp)
      PROVE  Steady(fp)
  BY <1>0, <1>4 DEF Steady, Settled
<1>5. UNCHANGED parked
  BY DEF BatchDoneAs
<1>6. CASE i < Len(e) /\ worker' = [worker EXCEPT ![k] = BatchStart(e, i + 1)] /\ UNCHANGED <<queue, receives>>
  <2>1. worker'[k].pc \in {"claim", "lookup"} /\ worker'[k].batch = i + 1
    BY <1>1, <1>6 DEF BatchStart
  <2>2. Batch(k)' = e[i + 1] /\ (worker'[k].pc = "claim" <=> e[i + 1].firing)
    BY <1>1, <1>6, <2>1 DEF Batch, BatchStart
  <2>3. i + 1 \in 1 .. Len(e) /\ e[i + 1] \in Batches
    BY <1>1, <1>6
  <2>4. Held(k)'
    BY <1>1, <1>6, <2>1, <2>2, <2>3 DEF Held, Sees, Opening, Closing, FollowInv
  <2>5. ASSUME NEW fp \in Fps, Steady(fp)' PROVE Agrees(fp)'
    <3>1. CASE Settled(fp)'
      BY <1>1, <1>2, <1>4, <1>5, <1>6, <3>1 DEF Settled
    <3>2. CASE Applies(k, fp)'
      <4>1. PICK j \in 1 .. i : e[j].fp = fp
        BY <1>1, <1>6, <2>1, <3>2 DEF Applies
      <4> QED BY <1>2, <1>3, <4>1
    <3> QED BY <1>0, <2>5, <3>1, <3>2 DEF Steady
  <2> QED BY <1>0, <2>4, <2>5 DEF FollowInv
<1>7. CASE i = Len(e) /\ worker' = [worker EXCEPT ![k] = IdleWorker] /\ receives' = [receives EXCEPT ![k] = 0]
  <2>1. worker'[k].pc = "idle" /\ receives'[k] = 0
    BY <1>1, <1>7 DEF IdleWorker
  <2>2. Held(k)'
    BY <2>1 DEF Held
  <2>3. ASSUME NEW fp \in Fps, Steady(fp)' PROVE Agrees(fp)'
    <3>1. Settled(fp)'
      BY <1>0, <2>1, <2>3 DEF Steady, Applies
    <3>2. \A j \in DOMAIN parked[k] : ~ Mentions(parked[k][j], fp)
      BY <1>5, <3>1 DEF Settled
    <3>3. CASE Mentions(e, fp)
      <4>1. PICK j \in 1 .. i : e[j].fp = fp
        BY <1>1, <1>7, <3>3 DEF Mentions
      <4> QED BY <1>2, <1>3, <4>1
    <3> QED BY <1>2, <1>4, <3>2, <3>3
  <2> QED BY <1>0, <2>2, <2>3 DEF FollowInv
<1> QED BY <1>6, <1>7 DEF BatchDoneAs

(* ... or gives it up, and nothing is said of its problems any more. *)
LEMMA AbandonFollow ==
    ASSUME IInv, IInv', OneKey, LockInv, FollowInv, NEW k \in Keys, worker[k].pc # "idle",
           Abandon(k), UNCHANGED <<pointer, meta>>
    PROVE  FollowInv'
<1>0. \A j \in Keys : j = k
  BY DEF OneKey
<1>1. /\ worker \in [Keys -> Workers] /\ receives \in [Keys -> 0 .. MaxReceive]
      /\ queue \in [Keys -> Seq(Envelopes)] /\ parked \in [Keys -> Seq(Envelopes)]
      /\ receives[k] > 0 /\ queue[k] # << >>
  BY DEF IInv, WorkInv, ProcType, FollowInv, Held
<1>2. worker'[k].pc = "idle" /\ UNCHANGED applied
  BY <1>1 DEF Abandon, IdleWorker
<1>3. CASE receives[k] = MaxReceive
  <2>1. /\ parked'[k] = Append(parked[k], Head(queue[k])) /\ receives'[k] = 0
    BY <1>1, <1>3 DEF Abandon
  <2>2. ASSUME NEW fp \in Fps, Settled(fp)' PROVE Settled(fp)
    <3>1. \A j \in DOMAIN parked'[k] : ~ Mentions(parked'[k][j], fp)
      BY <2>2 DEF Settled
    <3>2. \A j \in DOMAIN parked[k] : j \in DOMAIN parked'[k] /\ parked'[k][j] = parked[k][j]
      BY <1>1, <2>1
    <3>3. Len(parked[k]) + 1 \in DOMAIN parked'[k] /\ parked'[k][Len(parked[k]) + 1] = Head(queue[k])
      BY <1>1, <2>1
    <3> QED BY <1>0, <3>1, <3>2, <3>3 DEF Settled
  <2>3. Held(k)'
    BY <1>2, <2>1 DEF Held
  <2> QED BY <1>0, <1>2, <2>2, <2>3, AgreesStays DEF FollowInv, Steady, Applies, LeavesAlone, Open
<1>4. CASE receives[k] # MaxReceive
  <2>1. UNCHANGED <<parked, queue, receives>>
    BY <1>4 DEF Abandon
  <2>2. \A fp \in Fps : Settled(fp)' => Settled(fp)
    BY <2>1 DEF Settled
  <2>3. Held(k)'
    BY <1>1, <1>2, <2>1 DEF Held
  <2> QED BY <1>0, <1>2, <2>2, <2>3, AgreesStays DEF FollowInv, Steady, Applies, LeavesAlone, Open
<1> QED BY <1>3, <1>4

LEMMA QueueFollow ==
    ASSUME IInv, IInv', OneKey, LockInv, FollowInv, NEW k \in Keys,
           Receive(k) \/ WorkerFails(k) \/ LookupFails(k) \/ \E e \in Envelopes : Publish(k, e)
    PROVE  FollowInv'
<1>0. /\ \A j \in Keys : j = k
      /\ queue \in [Keys -> Seq(Envelopes)] /\ worker \in [Keys -> Workers]
      /\ receives \in [Keys -> 0 .. MaxReceive] /\ receives'[k] \in 0 .. MaxReceive
      /\ UNCHANGED <<pointer, meta>> /\ Held(k)
  BY DEF OneKey, IInv, WorkInv, ProcType, FollowInv, Receive, WorkerFails, LookupFails, Publish, storeVars
<1>1. CASE Receive(k)
  <2> DEFINE e == Head(queue[k])
  <2>1. e \in Seq(Batches) \ {<< >>}
    BY <1>0, <1>1, QueueAssumption DEF Receive
  <2>2. 1 \in 1 .. Len(e) /\ e[1] \in Batches
    BY <2>1
  <2>3. worker'[k] = BatchStart(e, 1) /\ UNCHANGED <<queue, parked, applied>> /\ receives'[k] = receives[k] + 1
    BY <1>0, <1>1 DEF Receive
  <2>4. Batch(k)' = e[1] /\ worker'[k].batch = 1
    BY <2>3 DEF Batch, BatchStart
  <2>5. Held(k)'
    BY <1>0, <1>1, <2>2, <2>3, <2>4 DEF Held, Sees, BatchStart, Opening, Closing, Receive
  <2>6. ASSUME NEW fp \in Fps, Steady(fp)' PROVE Agrees(fp)'
    <3>1. Settled(fp)'
      BY <1>0, <2>4, <2>6 DEF Steady, Applies
    <3>2. Settled(fp)
      BY <1>0, <2>3, <3>1 DEF Settled
    <3> QED BY <1>0, <2>3, <3>2, AgreesStays DEF Steady, FollowInv, LeavesAlone, Open
  <2> QED BY <1>0, <2>5, <2>6 DEF FollowInv
<1>2. CASE WorkerFails(k)
  BY <1>0, <1>2, AbandonFollow DEF WorkerFails, At
<1>4. CASE LookupFails(k)
  <2>1. worker[k].pc # "idle" /\ BatchDoneAs(k, "dropped") /\ "dropped" \in Outcomes
    BY <1>4 DEF LookupFails, At, Outcomes
  <2>2. PICK b \in Fps : b = Batch(k).fp
    BY <2>1, BatchFacts DEF IInv
  <2>3. (\A fp \in Fps \ {b} : LeavesAlone(fp)) /\ applied'[b] = "dropped"
    BY <1>0, <2>1, <2>2, DoneAlone
  <2>4. Agrees(b)'
    BY <2>3 DEF Agrees
  <2> QED BY <2>1, <2>2, <2>3, <2>4, DoneFollow
<1>3. CASE \E e \in Envelopes : Publish(k, e)
  <2>1. PICK e \in Envelopes : Publish(k, e)
    BY <1>3
  <2>2. UNCHANGED <<worker, receives, parked, applied>> /\ queue'[k] = Append(queue[k], e)
    BY <1>0, <2>1 DEF Publish
  <2>3. receives[k] > 0 => queue'[k] # << >> /\ Head(queue'[k]) = Head(queue[k])
    BY <1>0, <2>2 DEF Held
  <2>4. worker[k].pc # "idle" => Batch(k)' = Batch(k)
    BY <2>2, BatchStays DEF IInv
  <2>5. Held(k)'
    BY <1>0, <2>2, <2>3, <2>4 DEF Held, Sees, Open, NothingOpen, Groups, FpOf
  <2>6. ASSUME NEW fp \in Fps, Steady(fp)' PROVE Agrees(fp)'
    <3>1. Steady(fp)
      BY <1>0, <2>2, <2>3, <2>4, <2>6 DEF Steady, Settled, Applies, Held
    <3> QED BY <1>0, <2>2, <3>1, AgreesStays DEF FollowInv, LeavesAlone, Open
  <2> QED BY <1>0, <2>5, <2>6 DEF FollowInv
<1> QED BY <1>1, <1>2, <1>3, <1>4

(* A step that only moves the worker on within its batch. *)
LEMMA MovesOn ==
    ASSUME IInv, NEW k \in Keys, worker[k].pc # "idle",
           NEW w \in Workers, w.pc # "idle", w.batch = worker[k].batch,
           worker' = [worker EXCEPT ![k] = w], UNCHANGED envelopeVars
    PROVE  GoesOn(k) /\ worker'[k] = w
<1>1. worker'[k] = w
  BY DEF IInv, WorkInv, ProcType
<1>2. Batch(k)' = Batch(k)
  BY <1>1, BatchStays DEF envelopeVars, IInv
<1> QED BY <1>1, <1>2 DEF GoesOn

LEMMA StepsOn ==
    ASSUME IInv, NEW k \in Keys, worker[k].pc # "idle", NEW pc \in Opening \cup Closing,
           Step(k, pc), UNCHANGED envelopeVars
    PROVE  /\ GoesOn(k) /\ worker'[k].pc = pc
           /\ worker'[k].id = worker[k].id /\ worker'[k].group = worker[k].group
<1> DEFINE w == [worker[k] EXCEPT !.pc = pc]
<1>1. worker[k] \in Workers
  BY DEF IInv, WorkInv, ProcType
<1>2. w \in Workers /\ w.pc # "idle" /\ w.batch = worker[k].batch
  BY <1>1 DEF Workers, Opening, Closing
<1>3. worker' = [worker EXCEPT ![k] = w]
  BY DEF Step
<1>4. GoesOn(k) /\ worker'[k] = w
  <2> HIDE DEF w
  <2> QED BY <1>2, <1>3, MovesOn
<1> QED BY <1>1, <1>4 DEF Workers

(* A write about the problem in hand leaves every other one alone. *)
LEMMA OthersAlone ==
    ASSUME IInv, NEW b \in Fps, applied' = applied,
           \A f \in Fps \ {b} : pointer'[f] = pointer[f],
           \A g \in Groups : FpOf(g) # b => meta'[g].state = meta[g].state
    PROVE  \A fp \in Fps \ {b} : LeavesAlone(fp)
BY DEF LeavesAlone, Open

LEMMA ApplyFollow ==
    ASSUME IInv, IInv', OneKey, TableInv, PointerInv, FollowInv, NEW k \in Keys, ApplySteps(k)
    PROVE  FollowInv'
<1> DEFINE fp == Batch(k).fp
           id == worker[k].id
<1>0. /\ worker \in [Keys -> Workers] /\ worker[k] \in Workers /\ worker[k].pc \in Opening
      /\ worker[k].pc # "idle" /\ fp \in Fps /\ id \in Groups
      /\ meta \in [Groups -> Items] /\ pointer \in [Fps -> Groups \cup {NoGroup}] /\ LockInv
  <2>1. worker[k].pc \in Opening
    BY DEF ApplySteps, Claim, PointerTarget, Increment, Reclaim, Put, LogOpened, Start,
           KeepExecution, ApplyDone, At, Opening
  <2> QED BY <2>1, BatchFacts DEF Opening, IInv, WorkInv, ProcType, WorkerOK, StoreType, PointerInv
<1>a. Sees(k) /\ Batch(k).firing
  BY <1>0 DEF FollowInv, Held, Sees
<1>b. ASSUME NEW pc \in Opening, Step(k, pc), UNCHANGED envelopeVars
      PROVE  /\ GoesOn(k) /\ worker'[k].pc = pc /\ pc \notin Closing /\ Batch(k)' = Batch(k)
             /\ worker'[k].id = worker[k].id /\ worker'[k].group = worker[k].group
  <2>1. pc \in Opening \cup Closing /\ pc \notin Closing
    BY DEF Opening, Closing
  <2> QED BY <1>0, <1>b, <2>1, StepsOn DEF GoesOn
<1>c. UNCHANGED <<pointer, meta>> /\ UNCHANGED envelopeVars => \A f \in Fps \ {fp} : LeavesAlone(f)
  BY <1>0, OthersAlone DEF envelopeVars
<1>1. CASE Claim(k) \/ Reclaim(k)
  <2>1. PICK pc \in {"put", "target"} : Step(k, pc)
    BY <1>1 DEF Claim, Reclaim
  <2>2. /\ UNCHANGED meta /\ UNCHANGED envelopeVars
        /\ pointer' = pointer \/ pointer' = [pointer EXCEPT ![fp] = id]
    BY <1>1 DEF Claim, Reclaim, PutPointer
  <2>3. \A f \in Fps \ {fp} : LeavesAlone(f)
    BY <1>0, <2>2, OthersAlone DEF envelopeVars
  <2>4. Sees(k)' /\ GoesOn(k)
    BY <1>a, <1>b, <2>1, <2>2 DEF Sees, Opening, Closing
  <2> QED BY <1>0, <2>3, <2>4, OnFollow
<1>2. CASE PointerTarget(k)
  <2>1. CASE Abandon(k)
    BY <1>0, <1>2, <2>1, AbandonFollow DEF PointerTarget, storeVars
  <2>2. CASE /\ ~ PointerAbsent(fp)
             /\ worker' = [worker EXCEPT ![k].pc = "increment", ![k].group = pointer[fp]]
             /\ UNCHANGED envelopeVars
    <3> DEFINE w == [worker[k] EXCEPT !.pc = "increment", !.group = pointer[fp]]
    <3>1. w \in Workers /\ w.pc = "increment" /\ w.batch = worker[k].batch
      BY <1>0 DEF Workers, Opening
    <3>2. worker' = [worker EXCEPT ![k] = w]
      BY <2>2
    <3> HIDE DEF w
    <3>3. GoesOn(k) /\ worker'[k] = w
      BY <1>0, <2>2, <3>1, <3>2, MovesOn
    <3>4. Sees(k)'
      BY <1>a, <3>1, <3>3 DEF Sees, Opening, Closing, GoesOn
    <3> QED BY <1>0, <1>2, <1>c, <2>2, <3>3, <3>4, OnFollow DEF PointerTarget, storeVars
  <2> QED BY <1>2, <2>1, <2>2 DEF PointerTarget
<1>3. CASE Increment(k)
  <2>1. UNCHANGED <<pointer, meta>> /\ UNCHANGED envelopeVars
    BY <1>3 DEF Increment, storeVars
  <2>2. CASE CanJoin(worker[k].group) /\ Step(k, "joined")
    <3>1. worker[k].group \in Groups /\ pointer[fp] = worker[k].group
      BY <1>3 DEF Increment, At, IInv, WorkInv, WorkerOK, PointerInv, Knows
    <3>2. Open(worker[k].group)
      BY <1>0, <2>2, <3>1 DEF CanJoin, Open, Items, States
    <3>3. /\ GoesOn(k) /\ worker'[k].pc = "joined" /\ worker'[k].group = worker[k].group
          /\ Batch(k)' = Batch(k)
      BY <1>b, <2>1, <2>2 DEF Opening
    <3>4. Sees(k)'
      BY <1>a, <2>1, <3>1, <3>2, <3>3 DEF Sees, Open, Opening, Closing
    <3> QED BY <1>0, <1>c, <2>1, <3>3, <3>4, OnFollow
  <2>3. CASE Step(k, "reclaim")
    <3>1. Sees(k)' /\ GoesOn(k)
      BY <1>a, <1>b, <2>1, <2>3 DEF Sees, Opening, Closing
    <3> QED BY <1>0, <1>c, <2>1, <3>1, OnFollow
  <2> QED BY <1>3, <2>2, <2>3 DEF Increment
<1>4. CASE Put(k)
  <2>1. /\ FpOf(id) = fp /\ pointer[fp] = id /\ UNCHANGED pointer
        /\ meta' = [meta EXCEPT ![id] = NewItem] /\ UNCHANGED envelopeVars
    BY <1>4 DEF Put, PutMeta, WriteMeta, At, PointerInv, Knows, Unput
  <2>2. \A f \in Fps \ {fp} : LeavesAlone(f)
    <3>1. \A g \in Groups : FpOf(g) # fp => meta'[g].state = meta[g].state
      BY <1>0, <2>1
    <3> QED BY <1>0, <2>1, <3>1, OthersAlone DEF envelopeVars
  <2>3. /\ GoesOn(k) /\ worker'[k].pc = "opened" /\ worker'[k].id = id /\ Batch(k)' = Batch(k)
    BY <1>4, <1>b, <2>1 DEF Put, Opening
  <2>4. meta'[id].state = Firing
    BY <1>0, <2>1 DEF NewItem, NoItem
  <2>5. Sees(k)'
    BY <1>0, <1>a, <2>1, <2>3, <2>4 DEF Sees, Open, Opening, Closing
  <2> QED BY <1>0, <2>2, <2>3, <2>5, OnFollow
<1>5. CASE LogOpened(k) \/ Start(k) \/ KeepExecution(k)
  <2>1. pointer[fp] = id /\ Open(id) /\ UNCHANGED pointer /\ UNCHANGED envelopeVars
    BY <1>5, <1>a DEF LogOpened, Start, KeepExecution, At, Sees, storeVars
  <2>2. \A g \in Groups : meta'[g].state = meta[g].state
    <3>1. CASE KeepExecution(k)
      <4> DEFINE item == [meta[id] EXCEPT !.arn = TRUE]
      <4>1. item \in Items /\ item.state = meta[id].state
        <5>1. meta[id] \in Items
          BY <1>0
        <5> QED BY <5>1 DEF Items
      <4>2. WriteMeta(id, item)
        BY <3>1 DEF KeepExecution, SetExecution
      <4> HIDE DEF item, id
      <4> QED BY <1>0, <4>1, <4>2, SameAhead DEF IInv, TableInv
    <3>2. CASE LogOpened(k) \/ Start(k)
      BY <3>2 DEF LogOpened, Start, storeVars
    <3> QED BY <1>5, <3>1, <3>2
  <2>3. PICK pc \in {"start", "setExecution", "started"} : Step(k, pc)
    BY <1>5 DEF LogOpened, Start, KeepExecution
  <2>4. GoesOn(k) /\ worker'[k].pc = pc /\ worker'[k].id = id /\ Batch(k)' = Batch(k)
    BY <1>b, <2>1, <2>3 DEF Opening
  <2>5. Sees(k)'
    BY <1>0, <1>a, <2>1, <2>2, <2>4 DEF Sees, Open, Opening, Closing
  <2>6. \A f \in Fps \ {fp} : LeavesAlone(f)
    BY <1>0, <2>1, <2>2, OthersAlone DEF envelopeVars
  <2> QED BY <1>0, <2>4, <2>5, <2>6, OnFollow
<1>6. CASE ApplyDone(k)
  <2>1. UNCHANGED <<pointer, meta>> /\ BatchDoneAs(k, "firing") /\ "firing" \in Outcomes
    BY <1>6, <1>a DEF ApplyDone, BatchDone, Outcomes
  <2>2. PICK b \in Fps : b = fp
    BY <1>0
  <2>3. /\ \A f \in Fps \ {b} : LeavesAlone(f)
        /\ applied'[b] = "firing"
    BY <1>0, <1>a, <2>1, <2>2, DoneAlone
  <2>4. pointer[b] \in Groups /\ Open(pointer[b])
    BY <1>0, <1>6, <1>a, <2>2 DEF ApplyDone, At, Sees
  <2>5. Agrees(b)'
    BY <1>0, <2>1, <2>3, <2>4, GroupFacts DEF Agrees, Open, IInv
  <2> QED BY <1>0, <2>1, <2>2, <2>3, <2>5, DoneFollow
<1> QED BY <1>1, <1>2, <1>3, <1>4, <1>5, <1>6 DEF ApplySteps

LEMMA CloseFollow ==
    ASSUME IInv, IInv', OneKey, TableInv, ClosedInv, PointerInv, FollowInv,
           NEW k \in Keys, CloseSteps(k)
    PROVE  FollowInv'
<1> DEFINE fp == Batch(k).fp
           g == worker[k].group
<1>0. /\ worker \in [Keys -> Workers] /\ worker[k] \in Workers /\ worker[k].pc \in Closing
      /\ worker[k].pc # "idle" /\ fp \in Fps
      /\ (worker[k].pc \in {"resolve", "reread", "release", "stop", "closed"} => g \in Groups)
      /\ meta \in [Groups -> Items] /\ pointer \in [Fps -> Groups \cup {NoGroup}] /\ LockInv
  <2>1. worker[k].pc \in Closing
    BY DEF CloseSteps, Lookup, CloseUpdate, CloseReread, CloseRelease, CloseStop, CloseDone, At,
           Closing
  <2> QED BY <2>1, BatchFacts DEF Closing, IInv, WorkInv, ProcType, WorkerOK, StoreType, PointerInv
<1>a. Sees(k) /\ ~ Batch(k).firing
  BY <1>0 DEF FollowInv, Held, Sees
<1>b. ASSUME NEW pc \in Closing, Step(k, pc), UNCHANGED envelopeVars
      PROVE  /\ GoesOn(k) /\ worker'[k].pc = pc /\ pc \notin Opening /\ Batch(k)' = Batch(k)
             /\ worker'[k].group = g
  <2>1. pc \in Opening \cup Closing /\ pc \notin Opening
    BY DEF Opening, Closing
  <2> QED BY <1>0, <1>b, <2>1, StepsOn DEF GoesOn
<1>c. UNCHANGED <<pointer, meta>> /\ UNCHANGED envelopeVars => \A f \in Fps \ {fp} : LeavesAlone(f)
  BY <1>0, OthersAlone DEF envelopeVars
<1>d. ASSUME NEW w \in Workers, w.pc \in {"resolve", "release"}, w.batch = worker[k].batch,
             FpOf(w.group) = fp, worker' = [worker EXCEPT ![k] = w], UNCHANGED envelopeVars
      PROVE  Sees(k)' /\ GoesOn(k)
  <2>1. GoesOn(k) /\ worker'[k] = w
    BY <1>0, <1>d, MovesOn
  <2> QED BY <1>a, <1>d, <2>1 DEF Sees, Opening, Closing, GoesOn
<1>e. ASSUME BatchDone(k), UNCHANGED <<pointer, meta>>, NothingOpen(fp)
      PROVE  FollowInv'
  <2>0. BatchDoneAs(k, "resolved") /\ "resolved" \in Outcomes
    BY <1>a, <1>e DEF BatchDone, Outcomes
  <2>1. PICK b \in Fps : b = fp
    BY <1>0
  <2>2. /\ \A f \in Fps \ {b} : LeavesAlone(f)
        /\ applied'[b] = "resolved"
    BY <1>0, <1>e, <2>0, <2>1, DoneAlone
  <2>3. Agrees(b)'
    BY <1>e, <2>1, <2>2 DEF Agrees, NothingOpen, Open, Groups, FpOf
  <2> QED BY <1>0, <2>0, <2>1, <2>2, <2>3, DoneFollow
<1>f. ASSUME g \in Groups, pointer[fp] = g, meta[g].state = Resolved
      PROVE  NothingOpen(fp)
  BY <1>0, <1>f DEF NothingOpen, LockInv, Open, Firing, Acked, Resolved
<1>1. CASE Lookup(k)
  <2>1. CASE PointerAbsent(fp) /\ BatchDone(k)
    <3>1. NothingOpen(fp)
      BY <1>0, <2>1, GroupFacts DEF PointerAbsent, LockInv, NothingOpen, IInv
    <3> QED BY <1>1, <1>e, <2>1, <3>1 DEF Lookup, storeVars
  <2>2. CASE /\ ~ PointerAbsent(fp)
             /\ worker' = [worker EXCEPT ![k].pc = "resolve", ![k].group = pointer[fp]]
             /\ UNCHANGED envelopeVars
    <3> DEFINE w == [worker[k] EXCEPT !.pc = "resolve", !.group = pointer[fp]]
    <3>1. /\ w \in Workers /\ w.pc = "resolve" /\ w.batch = worker[k].batch
          /\ w.group = pointer[fp]
      BY <1>0 DEF Workers, Closing
    <3>2. FpOf(pointer[fp]) = fp
      BY <1>0, <2>2 DEF PointerAbsent, LockInv
    <3>3. worker' = [worker EXCEPT ![k] = w]
      BY <2>2
    <3>4. Sees(k)' /\ GoesOn(k)
      <4> HIDE DEF w
      <4> QED BY <1>d, <2>2, <3>1, <3>2, <3>3
    <3> QED BY <1>0, <1>1, <1>c, <2>2, <3>4, OnFollow DEF Lookup, storeVars
  <2> QED BY <1>1, <2>1, <2>2 DEF Lookup
<1>2. CASE CloseUpdate(k)
  <2>1. FpOf(g) = fp /\ g \in Groups /\ UNCHANGED pointer /\ UNCHANGED envelopeVars
    BY <1>0, <1>2, <1>a DEF CloseUpdate, At, Sees
  <2>2. CASE /\ CanMove(g, Resolved) /\ Move(g, Resolved)
             /\ worker' = [worker EXCEPT ![k].pc = "release", ![k].arn = meta[g].arn]
    <3>1. \A h \in Groups : FpOf(h) # fp => meta'[h].state = meta[h].state
      BY <2>1, <2>2, MoveAhead DEF IInv, TableInv
    <3>2. \A f \in Fps \ {fp} : LeavesAlone(f)
      BY <1>0, <2>1, <3>1, OthersAlone DEF envelopeVars
    <3> DEFINE w == [worker[k] EXCEPT !.pc = "release", !.arn = meta[g].arn]
    <3>3. meta[g].arn \in BOOLEAN
      BY <1>0, <2>1 DEF Items
    <3>4. w \in Workers /\ w.pc = "release" /\ w.batch = worker[k].batch /\ w.group = g
      BY <1>0, <3>3 DEF Workers, Closing
    <3>5. worker' = [worker EXCEPT ![k] = w]
      BY <2>2
    <3>6. Sees(k)' /\ GoesOn(k)
      <4> HIDE DEF w
      <4> QED BY <1>d, <2>1, <3>4, <3>5
    <3> QED BY <1>0, <3>2, <3>6, OnFollow
  <2>3. CASE Step(k, "reread") /\ UNCHANGED meta
    <3>1. /\ GoesOn(k) /\ worker'[k].pc = "reread" /\ Batch(k)' = Batch(k) /\ worker'[k].group = g
      BY <1>b, <2>1, <2>3 DEF Closing
    <3>2. Sees(k)'
      BY <1>a, <2>1, <3>1 DEF Sees, Opening, Closing
    <3> QED BY <1>0, <1>c, <2>1, <2>3, <3>1, <3>2, OnFollow
  <2> QED BY <1>2, <2>2, <2>3 DEF CloseUpdate
<1>3. CASE CloseReread(k)
  <2>1. /\ FpOf(g) = fp /\ g \in Groups /\ UNCHANGED <<pointer, meta>> /\ pointer[fp] = g
    BY <1>0, <1>3, <1>a DEF CloseReread, At, Sees, storeVars, PointerInv, Knows
  <2>2. PICK item \in Get(g) :
          \/ item.state = Absent /\ Abandon(k)
          \/ Transition(item.state, Resolved) = "already" /\ BatchDone(k)
          \/ /\ worker' = [worker EXCEPT ![k].pc = "release", ![k].arn = item.arn]
             /\ UNCHANGED envelopeVars
    BY <1>3 DEF CloseReread
  <2>3. item \in Items
    BY <2>1, <2>2, GetType DEF IInv
  <2>4. CASE Abandon(k)
    BY <1>0, <2>1, <2>4, AbandonFollow
  <2>5. CASE Transition(item.state, Resolved) = "already" /\ BatchDone(k)
    <3>1. item.state = Resolved
      BY <2>5 DEF Transition
    <3>2. meta[g].state = Resolved
      <4>1. meta[g].state \in {Absent, Resolved}
        BY <1>3 DEF CloseReread, At, ClosedInv
      <4>2. Rank(item.state) <= Rank(meta[g].state)
        BY <2>1, <2>2, GetBehind DEF IInv, TableInv
      <4> QED BY <3>1, <4>1, <4>2, RankFacts
    <3> QED BY <1>e, <1>f, <2>1, <2>5, <3>2
  <2>6. CASE /\ worker' = [worker EXCEPT ![k].pc = "release", ![k].arn = item.arn]
             /\ UNCHANGED envelopeVars
    <3> DEFINE w == [worker[k] EXCEPT !.pc = "release", !.arn = item.arn]
    <3>1. item.arn \in BOOLEAN
      BY <2>3 DEF Items
    <3>2. w \in Workers /\ w.pc = "release" /\ w.batch = worker[k].batch /\ w.group = g
      BY <1>0, <3>1 DEF Workers, Closing
    <3>3. worker' = [worker EXCEPT ![k] = w]
      BY <2>6
    <3>4. Sees(k)' /\ GoesOn(k)
      <4> HIDE DEF w
      <4> QED BY <1>d, <2>1, <2>6, <3>2, <3>3
    <3> QED BY <1>0, <1>c, <2>1, <2>6, <3>4, OnFollow
  <2> QED BY <2>2, <2>4, <2>5, <2>6
<1>4. CASE CloseRelease(k)
  <2>1. /\ FpOf(g) = fp /\ g \in Groups /\ pointer[fp] = g /\ meta[g].state = Resolved
    BY <1>0, <1>4, <1>a DEF CloseRelease, At, Sees, PointerInv, Knows, ClosedInv, Closes
  <2>2. NothingOpen(fp)
    BY <1>f, <2>1
  <2>3. pointer' = [pointer EXCEPT ![fp] = NoGroup] /\ UNCHANGED meta /\ UNCHANGED envelopeVars
    BY <1>4, <2>1 DEF CloseRelease, DeletePointer
  <2>4. \A f \in Fps \ {fp} : LeavesAlone(f)
    BY <1>0, <2>3, OthersAlone DEF envelopeVars
  <2>5. /\ GoesOn(k) /\ worker'[k].pc = "stop" /\ Batch(k)' = Batch(k) /\ worker'[k].group = g
    BY <1>4, <1>b, <2>3 DEF CloseRelease, Closing
  <2>6. Sees(k)'
    BY <1>a, <2>1, <2>2, <2>3, <2>5 DEF Sees, Opening, Closing, NothingOpen, Open, Groups, FpOf
  <2> QED BY <1>0, <2>4, <2>5, <2>6, OnFollow
<1>5. CASE CloseStop(k)
  <2>1. FpOf(g) = fp /\ NothingOpen(fp) /\ UNCHANGED <<pointer, meta>> /\ UNCHANGED envelopeVars
    BY <1>5, <1>a DEF CloseStop, At, Sees, storeVars
  <2>2. /\ GoesOn(k) /\ worker'[k].pc = "closed" /\ Batch(k)' = Batch(k) /\ worker'[k].group = g
    BY <1>5, <1>b, <2>1 DEF CloseStop, Closing
  <2>3. Sees(k)'
    BY <1>a, <2>1, <2>2 DEF Sees, Opening, Closing, NothingOpen, Open, Groups, FpOf
  <2> QED BY <1>0, <1>c, <2>1, <2>2, <2>3, OnFollow
<1>6. CASE CloseDone(k)
  BY <1>6, <1>a, <1>e DEF CloseDone, At, Sees
<1> QED BY <1>1, <1>2, <1>3, <1>4, <1>5, <1>6 DEF CloseSteps

LEMMA InitFollow == Init => FollowInv
<1> SUFFICES ASSUME Init PROVE FollowInv
  OBVIOUS
<1>1. /\ \A k \in Keys : worker[k].pc = "idle" /\ receives[k] = 0
      /\ \A fp \in Fps : applied[fp] = "none"
  BY DEF Init, ProcInit, IdleWorker
<1> QED BY <1>1 DEF FollowInv, Held, Agrees

LEMMA StepFollow ==
    ASSUME IInv, Paced, OneKey, NobodyReleases, TableInv, ClosedInv, PointerInv, FollowInv,
           [Next]_vars
    PROVE  FollowInv'
<1>0. IInv' /\ LockInv /\ ReplicaBehind
  BY StepIInv DEF PointerInv, TableInv
<1>1. CASE StoreNext
  <2>1. UNCHANGED <<pointer, procVars>> /\ OpenStays
    BY <1>1 DEF StoreNext, Tick, storeVars, OpenStays, Open
  <2> QED BY <1>0, <1>1, <2>1, StoreTable, QuietFollow
<1>2. CASE LadderNext
  <2>1. PICK g \in Groups : EscSteps(g) \/ EscFaults(g)
    BY <1>2 DEF LadderNext, EscNext
  <2>2. UNCHANGED <<pointer, procVars>>
    BY <1>2, <2>1 DEF LadderNext, EscSteps, EscFaults, CheckGroup, Send, Record, EndRung,
                      WaitExpires, SendUnanswered, SendFails, HandlerFails, Reinvoke, storeVars
  <2> QED BY <1>0, <2>1, <2>2, LadderTable, LadderOpen, QuietFollow
<1>3. CASE WorkerNext
  <2>1. PICK k \in Keys :
           \/ \E e \in Envelopes : Publish(k, e)
           \/ ProcSteps(k) \/ WorkerFails(k) \/ LookupFails(k)
    BY <1>3 DEF WorkerNext, ProcNext
  <2> QED BY <1>0, <2>1, ApplyFollow, CloseFollow, QueueFollow DEF ProcSteps
<1>4. CASE PressNext
  <2>1. PICK p \in Presses : PressStepOf(p)
    BY <1>4 DEF PressNext, CallbackNext, PressStepOf
  <2>2. UNCHANGED pointer
    BY <2>1 DEF PressStepOf, NobodyReleases, PressAt, Press, CallbackSteps, HandlerSteps, Update,
                Reread, RereadAs, Release, LogPress, Rewrite, StopLadder, Answer, Redeliver,
                BestEffortFails, CallbackFails, storeVars
  <2>3. UNCHANGED procVars
    BY <1>4 DEF PressNext
  <2>4. Ahead /\ OpensNone
    BY <1>0, <2>1, PressTable DEF PressStepOf
  <2> QED BY <1>0, <2>1, <2>2, <2>3, <2>4, PressOpen, QuietFollow
<1>5. CASE UNCHANGED vars
  <2>1. UNCHANGED <<pointer, procVars>> /\ OpenStays /\ Ahead /\ OpensNone
    BY <1>0, <1>5, QuietAhead DEF vars, storeVars, OpenStays, Open, IInv
  <2> QED BY <1>0, <2>1, QuietFollow
<1> QED BY <1>1, <1>2, <1>3, <1>4, <1>5 DEF Next

(* Between deliveries the table agrees with the sender: once every envelope about a   *)
(* problem has been applied, however often it was retried and wherever it failed, an   *)
(* incident is open about it exactly if the last delivery said that it fires - except  *)
(* that close drops a resolved delivery if its lookup fails; what then stays open is   *)
(* still the group the pointer names, where the next delivery finds it.  The premises *)
(* are those of the lock, and they are needed: a second key applies two deliveries at  *)
(* once, and a Resolve press closes what the sender still calls firing.               *)
THEOREM TableAgrees ==
    ASSUME Paced, OneKey, NoResolve
    PROVE  Spec => []TableFollowsSender
<1>1. Init => ClosedInv
  BY DEF Init, ProcInit, IdleWorker, ClosedInv, Closes
<1>2. IInv /\ TableInv /\ ClosedInv /\ PointerInv /\ NobodyReleases /\ FollowInv /\ [Next]_vars
         => TableInv' /\ ClosedInv' /\ PointerInv' /\ NobodyReleases' /\ FollowInv'
  BY StepTable, StepClosed, StepPointer, StepReleases, StepFollow
<1>3. PointerInv /\ FollowInv => TableFollowsSender
  BY DEF PointerInv, LockInv, FollowInv, Steady, Agrees, TableFollowsSender, NothingOpen
<1> QED BY InitIInv, StepIInv, InitTable, InitPointer, InitReleases, InitFollow, <1>1, <1>2, <1>3,
           PTL DEF Spec
=============================================================================
