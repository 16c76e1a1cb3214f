------------------------ MODULE OnCallPromiseProofs ------------------------
(***************************************************************************)
(* Two proofs about the incidents of OnCall, however far behind the replicas *)
(* are that answer its reads.  At a sane pace every incident implements     *)
(* Incident.  Where no call fails, an incident nobody has handled is being   *)
(* paged about, unless the notifier was told that there is no such incident. *)
(***************************************************************************)
EXTENDS OnCallHandled, OnCallPromise, FiniteSetTheorems

(* The level an execution is at is never behind its last page, and an execution that *)
(* does not exist was told nothing.  Only a handled group is paged late, once and     *)
(* once more for every excuse; a notifier that is about to page for it has used no    *)
(* more than the excuses.                                                            *)
PageInv ==
    \A g \in Groups :
        /\ RungOf(g) <= exec[g].level
        /\ exec[g].status = "absent" => exec[g].misled = 0
        /\ ~ Handled(g) => LateOf(g) = 0
        /\ LateOf(g) <= ExcusesOf(g) + 1
        /\ Handled(g) /\ exec[g].pc = "send" => LateOf(g) <= ExcusesOf(g)

-----------------------------------------------------------------------------
(* How a page, and how an edit, changes what is told of a group. *)
LatePages(q) == {m \in DOMAIN q : ~ q[m].firing}

LEMMA LateType ==
    ASSUME NEW q \in Seq(Messages)
    PROVE  IsFiniteSet(LatePages(q)) /\ Cardinality(LatePages(q)) \in Nat
<1>1. IsFiniteSet(1 .. Len(q))
  BY FS_Interval
<1>2. LatePages(q) \in SUBSET (1 .. Len(q))
  BY DEF LatePages
<1>3. IsFiniteSet(LatePages(q))
  BY <1>1, <1>2, FS_Subset
<1> QED BY <1>3, FS_CardinalityType

LEMMA LateAppend ==
    ASSUME NEW q \in Seq(Messages), NEW m \in Messages
    PROVE  Cardinality(LatePages(Append(q, m))) =
               IF m.firing THEN Cardinality(LatePages(q)) ELSE Cardinality(LatePages(q)) + 1
<1> DEFINE r == Append(q, m)
           n == Len(q) + 1
<1>1. /\ DOMAIN r = 1 .. n /\ DOMAIN q = 1 .. Len(q) /\ Len(q) \in Nat
      /\ r[n] = m /\ \A i \in 1 .. Len(q) : r[i] = q[i]
  OBVIOUS
<1>2. n \notin LatePages(q)
  BY <1>1 DEF LatePages
<1>3. m.firing => LatePages(r) = LatePages(q)
  <2> HIDE DEF r
  <2> QED BY <1>1 DEF LatePages
<1>4. ~ m.firing => LatePages(r) = LatePages(q) \cup {n}
  <2> HIDE DEF r
  <2> QED BY <1>1 DEF LatePages
<1> HIDE DEF r, n
<1>5. Cardinality(LatePages(q) \cup {n}) = Cardinality(LatePages(q)) + 1
  BY <1>2, LateType, FS_AddElement
<1> QED BY <1>3, <1>4, <1>5 DEF r

LEMMA PageShows ==
    ASSUME IInv, NEW g \in Groups, NEW m \in Messages, chat'[g] = Append(chat[g], m)
    PROVE  /\ RungOf(g)' = m.level
           /\ LateOf(g)' = IF m.firing THEN LateOf(g) ELSE LateOf(g) + 1
<1>1. chat[g] \in Seq(Messages)
  BY DEF IInv, LadderInv, EscType
<1>2. /\ Len(Append(chat[g], m)) = Len(chat[g]) + 1 /\ Append(chat[g], m) # << >>
      /\ Append(chat[g], m)[Len(chat[g]) + 1] = m
  BY <1>1
<1>3. RungOf(g)' = m.level
  BY <1>2 DEF RungOf
<1>4. LateOf(g)' = Cardinality(LatePages(Append(chat[g], m)))
  BY DEF LateOf, LatePages
<1>5. LateOf(g) = Cardinality(LatePages(chat[g]))
  BY DEF LateOf, LatePages
<1> QED BY <1>1, <1>3, <1>4, <1>5, LateAppend

LEMMA EditShows ==
    ASSUME IInv, NEW g \in Groups, NEW m \in Nat, NEW s,
           chat'[g] = [chat[g] EXCEPT ![m].shown = s]
    PROVE  RungOf(g)' = RungOf(g) /\ LateOf(g)' = LateOf(g)
<1> DEFINE q == chat[g]
           r == [q EXCEPT ![m].shown = s]
<1>1. q \in Seq(Messages)
  BY DEF IInv, LadderInv, EscType
<1>2. Len(r) = Len(q) /\ DOMAIN r = DOMAIN q /\ Len(q) \in Nat /\ DOMAIN q = 1 .. Len(q)
  BY <1>1
<1>3. ASSUME NEW i \in 1 .. Len(q) PROVE r[i].level = q[i].level /\ r[i].firing = q[i].firing
  <2>1. q[i] \in Messages
    BY <1>1
  <2>2. r[i] = q[i] \/ r[i] = [q[i] EXCEPT !.shown = s]
    BY <1>1
  <2> HIDE DEF q, r
  <2> QED BY <2>1, <2>2 DEF Messages
<1>4. r = << >> <=> q = << >>
  BY <1>1, <1>2
<1> HIDE DEF q, r
<1>5. RungOf(g)' = IF r = << >> THEN 0 ELSE r[Len(r)].level
  BY DEF RungOf, r, q
<1>6. RungOf(g) = IF q = << >> THEN 0 ELSE q[Len(q)].level
  BY DEF RungOf, q
<1>7. q # << >> => Len(q) \in 1 .. Len(q)
  BY <1>1, <1>2
<1>8. RungOf(g)' = RungOf(g)
  BY <1>2, <1>3, <1>4, <1>5, <1>6, <1>7
<1>9. LateOf(g)' = Cardinality(LatePages(r)) /\ LateOf(g) = Cardinality(LatePages(q))
  BY DEF LateOf, LatePages, r, q
<1>10. LatePages(r) = LatePages(q)
  BY <1>2, <1>3 DEF LatePages
<1> QED BY <1>8, <1>9, <1>10

LEMMA PromiseType ==
    ASSUME IInv, NEW g \in Groups
    PROVE  /\ LateOf(g) \in Nat /\ ExcusesOf(g) \in Nat
           /\ faults \in Nat /\ exec[g].misled \in Nat
<1>1. chat[g] \in Seq(Messages) /\ exec[g] \in Executions /\ faults \in 0 .. MaxFaults
  BY DEF IInv, StoreType, LadderInv, EscType
<1>2. LateOf(g) \in Nat
  BY <1>1, LateType DEF LateOf, LatePages
<1> QED BY <1>1, <1>2, StoreAssumption DEF ExcusesOf, Executions

LEMMA RungType ==
    ASSUME IInv, NEW g \in Groups
    PROVE  RungOf(g) \in 0 .. Top /\ Top \in Nat
<1>1. chat[g] \in Seq(Messages)
  BY DEF IInv, LadderInv, EscType
<1>2. chat[g] # << >> => chat[g][Len(chat[g])] \in Messages
  BY <1>1
<1>3. Top \in Nat
  BY LadderAssumption DEF Top
<1> QED BY <1>2, <1>3 DEF RungOf, Messages

-----------------------------------------------------------------------------
(* What a step does to one group: it pages for it, or what was paged stays. *)
Pages(g) == Send(g) \/ SendUnanswered(g)

Looks(g) == RungOf(g)' = RungOf(g) /\ LateOf(g)' = LateOf(g)

LEMMA SameChat ==
    ASSUME NEW g \in Groups, chat'[g] = chat[g]
    PROVE  Looks(g)
BY DEF Looks, RungOf, LateOf

LEMMA ChatStep ==
    ASSUME IInv, [Next]_vars, NEW g \in Groups
    PROVE  Pages(g) \/ Looks(g)
<1>1. CASE LadderNext
  <2>1. PICK h \in Groups : EscSteps(h) \/ EscFaults(h)
    BY <1>1 DEF LadderNext, EscNext
  <2>2. CASE g # h
    BY <2>1, <2>2, OtherRungs, SameChat
  <2>3. CASE g = h /\ ~ Pages(g)
    <3>1. UNCHANGED chat
      BY <2>1, <2>3 DEF Pages, EscSteps, EscFaults, CheckGroup, Record, EndRung, WaitExpires, SendFails,
                        HandlerFails, Reinvoke
    <3> QED BY <3>1, SameChat
  <2> QED BY <2>2, <2>3
<1>2. CASE WorkerNext
  <2>1. UNCHANGED chat
    BY <1>2 DEF WorkerNext, ProcNext, Publish, WorkerFails, LookupFails, ProcSteps, Receive, ApplySteps, Claim,
         PointerTarget, Increment, Reclaim, Put, LogOpened, Start, KeepExecution, ApplyDone, CloseSteps,
         Lookup, CloseUpdate, CloseReread, CloseRelease, CloseStop, CloseDone, escVars
  <2> QED BY <2>1, SameChat
<1>3. CASE PressNext
  <2>1. PICK p \in Presses : PressStepOf(p)
    BY <1>3 DEF PressNext, CallbackNext, PressStepOf
  <2>2. CASE Rewrite(p)
    <3> DEFINE s == IF press[p].action = "resolve" THEN "resolved" ELSE "acked"
    <3>1. press[p].edit \in Nat /\ chat \in [Groups -> Seq(Messages)]
      BY DEF IInv, PressInv, CallbackType, PressRecords, LadderInv, EscType
    <3>2. chat' = [chat EXCEPT ![press[p].group] = [@ EXCEPT ![press[p].edit].shown = s]]
      BY <2>2 DEF Rewrite
    <3> HIDE DEF s
    <3>3. CASE g = press[p].group
      <4>1. chat'[g] = [chat[g] EXCEPT ![press[p].edit].shown = s]
        BY <3>1, <3>2, <3>3
      <4> QED BY <3>1, <4>1, EditShows DEF Looks
    <3>4. CASE g # press[p].group
      BY <3>1, <3>2, <3>4, SameChat
    <3> QED BY <3>3, <3>4
  <2>3. CASE ~ Rewrite(p)
    <3>1. UNCHANGED chat
      BY <2>1, <2>3 DEF PressStepOf, Press, CallbackSteps, HandlerSteps, Update, Reread, RereadAs, Release, LogPress,
                  StopLadder, Answer, Redeliver, BestEffortFails, CallbackFails, escVars
    <3> QED BY <3>1, SameChat
  <2> QED BY <2>2, <2>3
<1>4. CASE StoreNext \/ UNCHANGED vars
  BY <1>4, SameChat DEF StoreNext, escVars, vars
<1> QED BY <1>1, <1>2, <1>3, <1>4 DEF Next

LEMMA PageStep ==
    ASSUME IInv, NEW g \in Groups, Pages(g)
    PROVE  /\ RungOf(g)' = exec[g].level
           /\ LateOf(g)' = IF meta[g].state = Firing THEN LateOf(g) ELSE LateOf(g) + 1
           /\ exec[g].pc = "send" /\ HasStep(exec[g].level)
           /\ exec'[g].level = exec[g].level /\ exec'[g].status = exec[g].status
           /\ exec'[g].misled = exec[g].misled
           /\ \/ exec'[g].pc = "record" /\ ExcusesOf(g)' = ExcusesOf(g)
              \/ exec'[g].pc = "send" /\ ExcusesOf(g)' = ExcusesOf(g) + 1
           /\ UNCHANGED meta
<1>1. /\ exec \in [Groups -> Executions] /\ exec[g] \in Executions
      /\ chat \in [Groups -> Seq(Messages)]
  BY DEF IInv, LadderInv, EscType
<1>2. exec[g].pc = "send" /\ UNCHANGED meta
  BY DEF Pages, Send, SendUnanswered, storeVars
<1>3. HasStep(exec[g].level)
  BY <1>2 DEF IInv, LadderInv, RungOK
<1>4. Page(g) \in Messages /\ Page(g).level = exec[g].level /\ Page(g).firing = (meta[g].state = Firing)
  BY <1>3, PageType DEF IInv, Page
<1>5. chat'[g] = Append(chat[g], Page(g))
  BY <1>1 DEF Pages, Send, SendUnanswered
<1>6. /\ exec'[g].level = exec[g].level /\ exec'[g].status = exec[g].status
      /\ exec'[g].misled = exec[g].misled
      /\ \/ exec'[g].pc = "record" /\ faults' = faults
         \/ exec'[g].pc = "send" /\ faults' = faults + 1
  BY <1>1, <1>2 DEF Pages, Send, SendUnanswered, Goto, Executions, Fault
<1> HIDE DEF Pages
<1>7. RungOf(g)' = Page(g).level /\ LateOf(g)' = IF Page(g).firing THEN LateOf(g) ELSE LateOf(g) + 1
  BY <1>4, <1>5, PageShows
<1>8. \/ exec'[g].pc = "record" /\ ExcusesOf(g)' = ExcusesOf(g)
      \/ exec'[g].pc = "send" /\ ExcusesOf(g)' = ExcusesOf(g) + 1
  <2>1. faults \in Nat /\ exec[g].misled \in Nat
    BY PromiseType
  <2> QED BY <1>6, <2>1 DEF ExcusesOf
<1> QED BY <1>2, <1>3, <1>4, <1>6, <1>7, <1>8

(* The level never falls and what went wrong is not forgotten; only a group that     *)
(* fires, or a state check that was misled, gets as far as a page.                    *)
Climbs(g) ==
    /\ exec[g].level <= exec'[g].level
    /\ exec[g].misled <= exec'[g].misled
    /\ exec'[g].status = "absent" => exec'[g] = exec[g]
    /\ exec'[g].pc = "send" =>
          \/ exec[g].pc = "send"
          \/ exec[g].misled + 1 <= exec'[g].misled
          \/ meta[g].state = Firing /\ UNCHANGED meta

LEMMA SameClimbs ==
    ASSUME IInv, NEW g \in Groups, exec'[g].level = exec[g].level,
           exec'[g].misled = exec[g].misled,
           exec'[g].status = "absent" => exec'[g] = exec[g],
           exec'[g].pc = "send" => exec[g].pc = "send"
    PROVE  Climbs(g)
<1>1. exec[g] \in Executions
  BY DEF IInv, LadderInv, EscType
<1>2. exec[g].level \in Nat /\ exec[g].misled \in Nat
  BY <1>1, LadderAssumption DEF Executions, Top
<1> QED BY <1>2 DEF Climbs

LEMMA RungClimbs ==
    ASSUME IInv, BoundInv, NEW g \in Groups, EscSteps(g) \/ EscFaults(g)
    PROVE  Climbs(g)
<1>1. /\ exec \in [Groups -> Executions] /\ exec[g] \in Executions
      /\ exec[g].level \in Nat /\ exec[g].misled \in Nat
  BY LadderAssumption DEF IInv, LadderInv, EscType, Executions, Top
<1>2. exec[g].pc # "none" => exec[g].status # "absent"
  BY DEF BoundInv, Paid
<1>3. exec[g].status # "absent"
  BY <1>2 DEF EscSteps, EscFaults, CheckGroup, Send, Record, EndRung, WaitExpires, SendUnanswered,
              SendFails, HandlerFails, Reinvoke, Invocation
<1>a. ASSUME NEW status \in {"failed", "succeeded"}, Finish(g, status) PROVE Climbs(g)
  <2>1. /\ exec'[g].pc = "none" /\ exec'[g].level = exec[g].level
        /\ exec'[g].misled = exec[g].misled /\ exec'[g].status # "absent"
    BY <1>1, <1>3, <1>a DEF Finish, Executions
  <2> QED BY <2>1, SameClimbs
<1>b. ASSUME NEW pc, Goto(g, pc)
      PROVE  /\ exec'[g].pc = pc /\ exec'[g].level = exec[g].level
             /\ exec'[g].misled = exec[g].misled /\ exec'[g].status # "absent"
  BY <1>1, <1>3, <1>b DEF Goto, Executions
<1>4. CASE CheckGroup(g)
  <2>1. PICK item \in Get(g) :
          \/ \E status \in {"failed", "succeeded"} : Checked(g, item, "none", status)
          \/ item.state = Firing /\ Checked(g, item, "send", "running")
    BY <1>4, CheckGroupReads
  <2>2. PICK pc \in {"none", "send"}, status \in {"failed", "succeeded", "running"} :
          Checked(g, item, pc, status) /\ (pc = "send" => item.state = Firing)
    BY <2>1
  <2>3. /\ exec'[g].pc = pc /\ exec'[g].level = exec[g].level
        /\ exec'[g].status = IF exec[g].status = "running" THEN status ELSE exec[g].status
        /\ exec'[g].misled = IF item.state = meta[g].state
                               THEN exec[g].misled ELSE exec[g].misled + 1
    BY <2>2, CheckedFacts DEF IInv
  <2>4. UNCHANGED meta
    BY <1>4 DEF CheckGroup, storeVars
  <2> QED BY <1>1, <1>3, <2>2, <2>3, <2>4 DEF Climbs
<1>5. CASE EndRung(g)
  <2>1. /\ exec'[g].pc # "send" /\ exec'[g].level \in {exec[g].level, exec[g].level + 1}
        /\ exec'[g].misled = exec[g].misled /\ exec'[g].status # "absent"
    BY <1>1, <1>3, <1>5 DEF EndRung, NextRung, Executions
  <2> QED BY <1>1, <2>1 DEF Climbs
<1>6. CASE HandlerFails(g)
  BY <1>a, <1>6 DEF HandlerFails
<1>7. CASE SendUnanswered(g)
  BY <1>7, SameClimbs DEF SendUnanswered
<1>8. CASE \E pc \in {"record", "notified", "notify_failed", "get"} : Goto(g, pc)
  BY <1>b, <1>8, SameClimbs
<1>9. CASE Send(g) \/ Record(g) \/ WaitExpires(g) \/ SendFails(g) \/ Reinvoke(g)
  BY <1>8, <1>9 DEF Send, Record, WaitExpires, SendFails, Reinvoke
<1> QED BY <1>4, <1>5, <1>6, <1>7, <1>9 DEF EscSteps, EscFaults

LEMMA StepClimbs ==
    ASSUME IInv, BoundInv, PageInv, [Next]_vars, NEW g \in Groups
    PROVE  Climbs(g)
<1>0. exec \in [Groups -> Executions] /\ exec[g] \in Executions
  BY DEF IInv, LadderInv, EscType
<1>a. ASSUME NEW h \in Groups, NEW arn, StopExecution(h, arn) PROVE Climbs(g)
  <2>1. CASE exec'[g] = exec[g]
    BY <2>1, SameClimbs
  <2>2. CASE exec'[g] # exec[g]
    <3>1. /\ exec'[g].level = exec[g].level /\ exec'[g].misled = exec[g].misled
          /\ exec'[g].status = "aborted" /\ (exec'[g].pc = "send" => exec[g].pc = "send")
      BY <1>0, <1>a, <2>2 DEF StopExecution, Executions
    <3> QED BY <3>1, SameClimbs
  <2> QED BY <2>1, <2>2
<1>b. CASE UNCHANGED exec
  BY <1>b, SameClimbs
<1>1. CASE LadderNext
  <2>1. PICK h \in Groups : EscSteps(h) \/ EscFaults(h)
    BY <1>1 DEF LadderNext, EscNext
  <2>2. CASE g # h
    BY <2>1, <2>2, OtherRungs, SameClimbs
  <2>3. CASE g = h
    BY <2>1, <2>3, RungClimbs
  <2> QED BY <2>2, <2>3
<1>2. CASE WorkerNext
  <2>1. UNCHANGED exec \/ \E k \in Keys : Start(k) \/ CloseStop(k)
    BY <1>2 DEF WorkerNext, ProcNext, Publish, WorkerFails, LookupFails, ProcSteps, Receive, ApplySteps, Claim,
           PointerTarget, Increment, Reclaim, Put, LogOpened, KeepExecution, ApplyDone, CloseSteps, Lookup,
           CloseUpdate, CloseReread, CloseRelease, CloseDone, escVars
  <2>2. ASSUME NEW k \in Keys, Start(k) PROVE Climbs(g)
    <3>1. worker[k].id \in Groups /\ StartExecution(worker[k].id)
      BY <2>2 DEF Start, At, IInv, WorkInv, WorkerOK, Opening
    <3>2. CASE g = worker[k].id /\ exec[g].status = "absent"
      <4>1. exec[g].level = 0 /\ exec[g].misled = 0
        BY <3>2 DEF BoundInv, Paid, PageInv
      <4>2. exec'[g] = NewExec
        BY <1>0, <3>1, <3>2 DEF StartExecution
      <4> QED BY <4>1, <4>2, NewExecFacts DEF Climbs
    <3>3. CASE ~ (g = worker[k].id /\ exec[g].status = "absent")
      <4>1. exec'[g] = exec[g]
        BY <1>0, <3>1, <3>3 DEF StartExecution
      <4> QED BY <4>1, SameClimbs
    <3> QED BY <3>2, <3>3
  <2>3. ASSUME NEW k \in Keys, CloseStop(k) PROVE Climbs(g)
    <3>1. worker[k].group \in Groups /\ StopExecution(worker[k].group, worker[k].arn)
      BY <2>3 DEF CloseStop, At, IInv, WorkInv, WorkerOK
    <3> QED BY <1>a, <3>1
  <2> QED BY <1>b, <2>1, <2>2, <2>3
<1>3. CASE PressNext
  <2>1. PICK p \in Presses : PressStepOf(p)
    BY <1>3 DEF PressNext, CallbackNext, PressStepOf
  <2>2. CASE StopLadder(p)
    <3>1. press[p].group \in Groups /\ StopExecution(press[p].group, press[p].arn)
      BY <2>2 DEF StopLadder, PressAt, IInv, PressInv, PressOK
    <3> QED BY <1>a, <3>1
  <2>3. CASE ~ StopLadder(p)
    <3>1. UNCHANGED exec
      BY <2>1, <2>3 DEF PressStepOf, Press, CallbackSteps, HandlerSteps, Update, Reread, RereadAs, Release, LogPress,
                  Rewrite, Answer, Redeliver, BestEffortFails, CallbackFails, escVars
    <3> QED BY <1>b, <3>1
  <2> QED BY <2>2, <2>3
<1>4. CASE StoreNext \/ UNCHANGED vars
  BY <1>b, <1>4 DEF StoreNext, escVars, vars
<1> QED BY <1>1, <1>2, <1>3, <1>4 DEF Next

(* No step takes back a failure. *)
LEMMA FaultsStay ==
    ASSUME IInv, [Next]_vars
    PROVE  faults <= faults'
<1>1. faults \in Nat
  BY StoreAssumption DEF IInv, StoreType
<1>2. UNCHANGED faults \/ Fault
  <2>1. CASE StoreNext \/ UNCHANGED vars
    BY <2>1 DEF StoreNext, Tick, vars
  <2>2. CASE LadderNext
    BY <2>2 DEF LadderNext, EscNext, EscSteps, EscFaults, CheckGroup, Send, Record, EndRung, WaitExpires,
                SendUnanswered, SendFails, HandlerFails, Reinvoke
  <2>3. CASE WorkerNext
    BY <2>3 DEF WorkerNext, ProcNext, Publish, WorkerFails, LookupFails, ProcSteps, Receive, ApplySteps,
           Claim, PointerTarget, Increment, Reclaim, Put, LogOpened, Start, KeepExecution, ApplyDone,
           CloseSteps, Lookup, CloseUpdate, CloseReread, CloseRelease, CloseStop, CloseDone
  <2>4. CASE PressNext
    <3>1. PICK p \in Presses : PressStepOf(p)
      BY <2>4 DEF PressNext, CallbackNext, PressStepOf
    <3> QED BY <3>1 DEF PressStepOf, Press, CallbackSteps, HandlerSteps, Update, Reread, RereadAs,
              Release, LogPress, Rewrite, StopLadder, Answer, Redeliver, BestEffortFails, CallbackFails
  <2> QED BY <2>1, <2>2, <2>3, <2>4 DEF Next
<1> QED BY <1>1, <1>2 DEF Fault

LEMMA StepPages ==
    ASSUME IInv, BoundInv, Paced, TableInv, HandledInv, PageInv, [Next]_vars
    PROVE  PageInv'
<1>0. IInv' /\ Ahead
  BY StepIInv, StepTable
<1>1. ASSUME NEW g \in Groups
      PROVE  /\ RungOf(g)' <= exec'[g].level
             /\ exec'[g].status = "absent" => exec'[g].misled = 0
             /\ ~ Handled(g)' => LateOf(g)' = 0
             /\ LateOf(g)' <= ExcusesOf(g)' + 1
             /\ Handled(g)' /\ exec'[g].pc = "send" => LateOf(g)' <= ExcusesOf(g)'
  <2>0. /\ exec[g].level \in Nat /\ exec'[g].level \in Nat /\ RungOf(g) \in Nat
        /\ LateOf(g) \in Nat /\ ExcusesOf(g) \in Nat
        /\ faults \in Nat /\ exec[g].misled \in Nat
    BY <1>0, LadderAssumption, RungType, PromiseType DEF IInv, LadderInv, EscType, Executions, Top, Groups
  <2>1. faults' \in Nat /\ exec'[g].misled \in Nat
    BY <1>0, StoreAssumption DEF IInv, StoreType, LadderInv, EscType, Executions, Groups
  <2>2. /\ RungOf(g) <= exec[g].level
        /\ exec[g].status = "absent" => exec[g].misled = 0
        /\ ~ Handled(g) => LateOf(g) = 0
        /\ LateOf(g) <= ExcusesOf(g) + 1
        /\ Handled(g) /\ exec[g].pc = "send" => LateOf(g) <= ExcusesOf(g)
    BY DEF PageInv
  <2>3. Handled(g) => Handled(g)'
    BY <1>0, HandledStays
  <2>4. CASE Pages(g)
    <3>1. /\ RungOf(g)' = exec[g].level
          /\ LateOf(g)' = IF meta[g].state = Firing THEN LateOf(g) ELSE LateOf(g) + 1
          /\ exec[g].pc = "send"
          /\ exec'[g].level = exec[g].level /\ exec'[g].status = exec[g].status
          /\ exec'[g].misled = exec[g].misled
          /\ \/ exec'[g].pc = "record" /\ ExcusesOf(g)' = ExcusesOf(g)
             \/ exec'[g].pc = "send" /\ ExcusesOf(g)' = ExcusesOf(g) + 1
          /\ UNCHANGED meta
      BY <2>4, PageStep
    <3>2. Handled(g) \/ meta[g].state = Firing
      <4>1. Exists(g)
        BY <3>1 DEF HandledInv, ExistInv, PagedExists, PastCheck
      <4>2. meta[g].state \in {Firing, Acked, Resolved, Absent}
        BY ItemFacts DEF IInv, StoreType, States
      <4> QED BY <4>1, <4>2 DEF Handled, Exists
    <3>3. Handled(g)' <=> Handled(g)
      BY <3>1 DEF Handled
    <3>4. Handled(g) => meta[g].state # Firing
      BY DEF Handled, Firing, Acked, Resolved
    <3> QED BY <2>0, <2>2, <3>1, <3>2, <3>3, <3>4
  <2>5. CASE Looks(g)
    <3>1. RungOf(g)' = RungOf(g) /\ LateOf(g)' = LateOf(g)
      BY <2>5 DEF Looks
    <3>2. /\ exec[g].level <= exec'[g].level
          /\ exec[g].misled <= exec'[g].misled
          /\ exec'[g].status = "absent" => exec'[g] = exec[g]
          /\ exec'[g].pc = "send" =>
                \/ exec[g].pc = "send"
                \/ exec[g].misled + 1 <= exec'[g].misled
                \/ meta[g].state = Firing /\ UNCHANGED meta
      BY StepClimbs DEF Climbs
    <3>3. ExcusesOf(g)' = faults' + exec'[g].misled /\ ExcusesOf(g) = faults + exec[g].misled
      BY DEF ExcusesOf
    <3>4. faults <= faults'
      BY FaultsStay
    <3>5. meta[g].state = Firing /\ UNCHANGED meta => ~ Handled(g)'
      BY DEF Handled, Firing, Acked, Resolved
    <3>6. ExcusesOf(g) <= ExcusesOf(g)' /\ ExcusesOf(g)' \in Nat
      BY <2>0, <2>1, <3>2, <3>3, <3>4
    <3>7. LateOf(g) <= ExcusesOf(g)' + 1 /\ RungOf(g)' <= exec'[g].level
      BY <2>0, <2>2, <3>1, <3>2, <3>6
    <3>8. Handled(g)' /\ exec'[g].pc = "send" => LateOf(g) <= ExcusesOf(g)'
      <4>1. CASE exec[g].pc = "send"
        BY <2>0, <2>2, <3>6, <4>1
      <4>2. CASE exec[g].misled + 1 <= exec'[g].misled
        BY <2>0, <2>1, <2>2, <3>3, <3>4, <4>2
      <4> QED BY <3>2, <3>5, <4>1, <4>2
    <3> QED BY <2>2, <2>3, <3>1, <3>2, <3>7, <3>8
  <2> QED BY <2>4, <2>5, ChatStep
<1> QED BY <1>1 DEF PageInv, Groups

-----------------------------------------------------------------------------
(* A step moves the state of a group along one of the edges of its life. *)
LEMMA WorkerOpens ==
    ASSUME IInv, TableInv, NEW g \in Groups, meta[g].state = Absent, NEW k \in Keys,
           \/ \E e \in Envelopes : Publish(k, e)
           \/ ProcSteps(k) \/ WorkerFails(k) \/ LookupFails(k)
    PROVE  meta'[g].state \in {Absent, Firing}
<1>1. CASE Put(k) /\ OpensOnly(k)
  <2>1. /\ meta \in [Groups -> Items] /\ worker[k].id \in Groups
        /\ meta' = [meta EXCEPT ![worker[k].id] = NewItem]
    BY <1>1 DEF Put, PutMeta, WriteMeta, At, IInv, StoreType, WorkInv, WorkerOK, Opening
  <2>2. g = worker[k].id => meta'[g].state = Firing
    BY <2>1 DEF NewItem, NoItem
  <2> QED BY <1>1, <2>2 DEF OpensOnly
<1>2. CASE OpensNone
  BY <1>2 DEF OpensNone
<1> QED BY <1>1, <1>2, WorkerTable

LEMMA StateStep ==
    ASSUME IInv, Paced, TableInv, [Next]_vars, NEW g \in Groups
    PROVE  \/ meta'[g].state = meta[g].state
           \/ meta[g].state = Absent /\ meta'[g].state = Firing
           \/ meta[g].state = Firing /\ meta'[g].state = Acked
           \/ meta[g].state \in {Firing, Acked} /\ meta'[g].state = Resolved
<1>0. IInv' /\ Ahead
  BY StepIInv, StepTable
<1>1. meta[g].state = Absent => meta'[g].state \in {Absent, Firing}
  <2>1. CASE StoreNext
    BY <2>1, StoreTable DEF OpensNone, TableInv
  <2>2. CASE LadderNext
    BY <2>2, LadderTable DEF LadderNext, EscNext, OpensNone, TableInv
  <2>3. CASE WorkerNext
    BY <2>3, WorkerOpens DEF WorkerNext, ProcNext
  <2>4. CASE PressNext
    BY <2>4, PressTable DEF PressNext, CallbackNext, OpensNone, TableInv
  <2>5. CASE UNCHANGED vars
    BY <2>5 DEF vars, storeVars
  <2> QED BY <2>1, <2>2, <2>3, <2>4, <2>5 DEF Next
<1>2. /\ meta[g].state \in {Firing, Acked, Resolved, Absent}
      /\ meta'[g].state \in {Firing, Acked, Resolved, Absent}
  BY <1>0, ItemFacts DEF IInv, StoreType, States, Groups
<1>3. Rank(meta[g].state) <= Rank(meta'[g].state)
  BY <1>0 DEF Ahead
<1> QED BY <1>1, <1>2, <1>3, RankFacts

(* Until a group exists, nothing was paged for it. *)
LEMMA NothingYet ==
    ASSUME HandledInv, NEW g \in Groups, meta[g].state = Absent
    PROVE  RungOf(g) = 0 /\ ~ Pages(g)
<1>1. chat[g] = << >> /\ exec[g].pc # "send"
  BY DEF HandledInv, ExistInv, PagedExists, Exists, PastCheck
<1> QED BY <1>1 DEF RungOf, Pages, Send, SendUnanswered

LEMMA StepPromise ==
    ASSUME IInv, BoundInv, Paced, TableInv, HandledInv, PageInv, [Next]_vars, NEW g \in Groups
    PROVE  [Promise(g)!Next]_(Promise(g)!incidentVars)
<1>0. /\ LateOf(g) \in Nat /\ ExcusesOf(g) \in Nat /\ ExcusesOf(g)' \in Nat
      /\ ExcusesOf(g) <= ExcusesOf(g)'
  <2>1. faults' \in Nat /\ exec'[g].misled \in Nat
    BY StepIInv, StoreAssumption DEF IInv, StoreType, LadderInv, EscType, Executions, Groups
  <2>2. faults <= faults' /\ exec[g].misled <= exec'[g].misled
    BY FaultsStay, StepClimbs DEF Climbs
  <2> QED BY <2>1, <2>2, PromiseType DEF ExcusesOf
<1>1. CASE Pages(g)
  <2>1. RungOf(g) \in 0 .. Top /\ RungOf(g)' \in 0 .. Top /\ Top \in Nat
    <3>1. RungOf(g)' = exec[g].level /\ HasStep(exec[g].level) /\ exec[g] \in Executions
      BY <1>1, PageStep DEF IInv, LadderInv, EscType
    <3> QED BY <3>1, RungType DEF HasStep, Executions
  <2>2. /\ RungOf(g)' = exec[g].level /\ StateOf(g)' = StateOf(g)
        /\ LateOf(g)' = IF meta[g].state = Firing THEN LateOf(g) ELSE LateOf(g) + 1
        /\ exec[g].pc = "send"
    BY <1>1, PageStep DEF StateOf
  <2>3. RungOf(g) <= RungOf(g)'
    BY <2>2 DEF PageInv
  <2>4. CASE meta[g].state = Firing
    <3>1. StateOf(g) = "firing"
      BY <2>4 DEF StateOf, Firing, Absent
    <3>2. LateOf(g)' = LateOf(g)
      BY <2>2, <2>4
    <3>3. CASE RungOf(g)' = RungOf(g)
      BY <1>0, <2>2, <3>2, <3>3 DEF Promise!Next, Promise!GoesWrong
    <3>4. CASE RungOf(g)' # RungOf(g)
      <4>1. RungOf(g)' \in RungOf(g) + 1 .. Top
        BY <2>1, <2>3, <3>4
      <4> QED BY <1>0, <2>2, <3>1, <3>2, <4>1 DEF Promise!Next, Promise!Page
    <3> QED BY <3>3, <3>4
  <2>5. CASE meta[g].state # Firing
    <3>1. Handled(g) /\ StateOf(g) \in {"acked", "resolved"}
      <4>1. Exists(g)
        BY <2>2 DEF HandledInv, ExistInv, PagedExists, PastCheck
      <4>2. meta[g].state \in {Firing, Acked, Resolved, Absent}
        BY ItemFacts DEF IInv, StoreType, States
      <4> QED BY <2>5, <4>1, <4>2 DEF StateOf, Exists, Handled, Acked, Resolved
    <3>2. RungOf(g)' \in RungOf(g) .. Top
      BY <2>1, <2>3
    <3>3. LateOf(g) <= ExcusesOf(g)'
      <4>1. LateOf(g) <= ExcusesOf(g)
        BY <2>2, <3>1 DEF PageInv
      <4> QED BY <1>0, <4>1
    <3>4. LateOf(g)' = LateOf(g) + 1
      BY <2>2, <2>5
    <3> QED BY <1>0, <2>2, <3>1, <3>2, <3>3, <3>4 DEF Promise!Next, Promise!LatePage, Promise!Handled
  <2> QED BY <2>4, <2>5
<1>2. CASE Looks(g)
  <2>1. RungOf(g)' = RungOf(g) /\ LateOf(g)' = LateOf(g)
    BY <1>2 DEF Looks
  <2>2. CASE meta'[g].state = meta[g].state
    <3>1. StateOf(g)' = StateOf(g)
      BY <2>2 DEF StateOf
    <3> QED BY <1>0, <2>1, <3>1 DEF Promise!Next, Promise!GoesWrong
  <2>3. CASE meta[g].state = Absent /\ meta'[g].state = Firing
    <3>1. StateOf(g) = "none" /\ StateOf(g)' = "firing"
      BY <2>3 DEF StateOf, Firing, Absent
    <3>2. RungOf(g) = 0 /\ LateOf(g) = 0
      BY <2>3, NothingYet DEF PageInv, Handled, Absent, Acked, Resolved
    <3> QED BY <1>0, <2>1, <3>1, <3>2 DEF Promise!Next, Promise!Open, Promise!Free
  <2>4. CASE meta[g].state = Firing /\ meta'[g].state = Acked
    <3>1. StateOf(g) = "firing" /\ StateOf(g)' = "acked"
      BY <2>4 DEF StateOf, Firing, Acked, Absent
    <3> QED BY <1>0, <2>1, <3>1 DEF Promise!Next, Promise!Ack
  <2>5. CASE meta[g].state \in {Firing, Acked} /\ meta'[g].state = Resolved
    <3>1. StateOf(g) \in {"firing", "acked"} /\ StateOf(g)' = "resolved"
      BY <2>5 DEF StateOf, Firing, Acked, Resolved, Absent
    <3> QED BY <1>0, <2>1, <3>1 DEF Promise!Next, Promise!Resolve
  <2> QED BY <2>2, <2>3, <2>4, <2>5, StateStep
<1> QED BY <1>1, <1>2, ChatStep

LEMMA NoLatePages == LatePages(<< >>) = {}
BY DEF LatePages

LEMMA InitPages == Init => PageInv
<1> SUFFICES ASSUME Init, NEW g \in Groups
             PROVE  /\ RungOf(g) <= exec[g].level
                    /\ exec[g].status = "absent" => exec[g].misled = 0
                    /\ LateOf(g) = 0 /\ ExcusesOf(g) = 0
  BY DEF PageInv
<1>1. chat[g] = << >> /\ exec[g].level = 0 /\ exec[g].misled = 0 /\ faults = 0
  BY DEF Init, StoreInit, EscInit, NoExec
<1>2. LateOf(g) = 0
  BY <1>1, NoLatePages, FS_EmptySet DEF LateOf, LatePages
<1> QED BY <1>1, <1>2 DEF RungOf, ExcusesOf

LEMMA InitPromise == Init => \A g \in Groups : Promise(g)!Init
<1> SUFFICES ASSUME Init, NEW g \in Groups PROVE Promise(g)!Init
  OBVIOUS
<1>1. chat[g] = << >> /\ meta[g].state = Absent /\ exec[g].misled = 0 /\ faults = 0
  BY DEF Init, EscInit, NoExec, StoreInit, NoItem
<1>2. LateOf(g) = 0
  BY <1>1, NoLatePages, FS_EmptySet DEF LateOf, LatePages
<1> QED BY <1>1, <1>2 DEF Promise!Init, StateOf, RungOf, ExcusesOf

(* The refinement: whatever workers, notifiers, presses, failures, retries and lagging *)
(* reads do to it, each incident is seen to move forward only, to page rung by rung     *)
(* while it fires, and after somebody handled it at most once more, plus once for each  *)
(* call that failed and each state check of its ladder that was misled.                 *)
THEOREM PromiseKept ==
    ASSUME Paced
    PROVE  Spec => EachIncidentKeepsItsPromise
<1> DEFINE Keeping == \A g \in Groups : [Promise(g)!Next]_(Promise(g)!incidentVars)
<1>1. /\ IInv /\ BoundInv /\ TableInv /\ HandledInv /\ PageInv /\ [Next]_vars
         => BoundInv' /\ TableInv' /\ HandledInv' /\ PageInv' /\ [Keeping]_vars
  BY StepBound, StepTable, StepHandled, StepPages, StepPromise
<1> QED BY InitIInv, StepIInv, InitBound, InitTable, InitHandled, InitPages, InitPromise, <1>1, PTL
        DEF Spec, EachIncidentKeepsItsPromise

-----------------------------------------------------------------------------
(* An incident nobody has handled is being paged about. *)

(* Premise: every call succeeds. *)
NothingFails == MaxFaults = 0

(* Envelopes that only fire. *)
OnlyFiring == \A e \in Envelopes : \A i \in DOMAIN e : e[i].firing

(* A worker that has opened its group and not started the ladder yet, and one     *)
(* that may still come to that.                                                  *)
Owing(k) == worker[k].pc \in {"opened", "start"}
Early(k) == worker[k].pc \in Unput \/ Owing(k)

Paged(g) ==
    \/ exec[g].status = "running"
    \/ exec[g].status = "succeeded" /\ ~ HasStep(exec[g].level)
    \/ Misled(g)

(* Nobody else starts the ladder of a group that a worker is about to open, and    *)
(* only groups that exist have one.                                              *)
Begun ==
    /\ \A k \in Keys : Early(k) => exec[worker[k].id].status = "absent"
    /\ \A k \in Keys : Owing(k) => Exists(worker[k].id)
    /\ \A g \in Groups : exec[g].status # "absent" => Exists(g)

PagedInv ==
    \A g \in Groups : meta[g].state = Firing =>
        (\E k \in Keys : worker[k].id = g /\ Owing(k)) \/ Paged(g)

(* The ladders a worker stops are those of incidents that are over. *)
StopsHandled == \A k \in Keys : worker[k].pc = "stop" => Handled(worker[k].group)

-----------------------------------------------------------------------------
LEMMA NoFault == MaxFaults = 0 /\ StoreType => ~ Fault
BY DEF StoreType, Fault

(* A group that is firing after a step was before it, unless the step brought it     *)
(* into being.                                                                      *)
LEMMA FiringBefore ==
    ASSUME IInv, IInv', Ahead, NEW g \in Groups, meta'[g].state = Firing
    PROVE  meta[g].state \in {Absent, Firing}
<1>1. meta[g].state \in {Firing, Acked, Resolved, Absent}
  BY ItemFacts DEF IInv, StoreType, States
<1>2. Rank(meta[g].state) <= Rank(meta'[g].state)
  BY DEF Ahead
<1> QED BY <1>1, <1>2, RankFacts

(* Steps that leave the workers and every ladder as they are, but for those of       *)
(* handled incidents.                                                               *)
LEMMA QuietPaged ==
    ASSUME IInv, IInv', Ahead, OpensNone, Begun, PagedInv, UNCHANGED worker,
           \A g \in Groups : /\ exec[g].status = "absent" => exec'[g].status = "absent"
                             /\ exec'[g].status = "absent" => exec[g].status = "absent"
                             /\ Paged(g) => Paged(g)' \/ Handled(g)
    PROVE  Begun' /\ PagedInv'
<1>1. \A k \in Keys : Early(k) => worker[k].id \in Groups
  BY DEF IInv, WorkInv, WorkerOK, Early, Owing, Unput, Opening
<1>2. Begun'
  BY <1>1, ExistsStays DEF Begun, Early, Owing, Groups
<1>3. ASSUME NEW g \in Groups, meta'[g].state = Firing
      PROVE  (\E k \in Keys : worker[k].id = g /\ Owing(k)) \/ Paged(g)'
  <2>1. meta[g].state = Firing
    BY <1>3, FiringBefore DEF OpensNone, Firing, Absent
  <2>2. ~ Handled(g)
    BY <2>1 DEF Handled, Firing, Acked, Resolved
  <2> QED BY <2>1, <2>2 DEF PagedInv
<1>4. PagedInv'
  BY <1>3 DEF PagedInv, Owing, Groups
<1> QED BY <1>2, <1>4

(* Stopping the ladder of a handled incident. *)
LEMMA StopPaged ==
    ASSUME IInv, NEW h \in Groups, NEW arn \in BOOLEAN, StopExecution(h, arn), Handled(h),
           NEW g \in Groups
    PROVE  /\ exec[g].status = "absent" <=> exec'[g].status = "absent"
           /\ Paged(g) => Paged(g)' \/ Handled(g)
<1>0. exec \in [Groups -> Executions]
  BY DEF IInv, LadderInv, EscType
<1>1. CASE g = h
  BY <1>0, <1>1 DEF StopExecution, Executions, ExecStatus
<1>2. CASE g # h
  BY <1>0, <1>2 DEF StopExecution, Paged, Misled, HasStep, Top
<1> QED BY <1>1, <1>2

(* One rung: a ladder ends only when its incident is handled, its policy is used up  *)
(* or a replica misled it.                                                          *)
LEMMA RungPaged ==
    ASSUME IInv, TableInv, Begun, NothingFails, NEW h \in Groups,
           EscSteps(h) \/ EscFaults(h), NEW g \in Groups
    PROVE  /\ exec[g].status = "absent" => exec'[g].status = "absent"
           /\ exec'[g].status = "absent" => exec[g].status = "absent"
           /\ Paged(g) => Paged(g)' \/ Handled(g)
<1>0. /\ exec \in [Groups -> Executions] /\ exec[g] \in Executions
      /\ exec[g].misled \in Nat /\ ~ Fault
  BY NoFault DEF IInv, LadderInv, EscType, NothingFails, Executions
<1>1. CASE g # h
  BY <1>1, OtherRungs DEF Paged, Misled, HasStep, Top
<1>2. CASE g = h /\ CheckGroup(g)
  <2>1. PICK item \in Get(g) :
          \/ item.state = Absent /\ Checked(g, item, "none", "failed")
          \/ item.state \in {Acked, Resolved} /\ Checked(g, item, "none", "succeeded")
          \/ ~ HasStep(exec[g].level) /\ Checked(g, item, "none", "succeeded")
          \/ Checked(g, item, "send", "running")
    BY <1>2 DEF CheckGroup
  <2>2. PICK pc \in {"none", "send"}, status \in {"failed", "succeeded", "running"} :
          /\ Checked(g, item, pc, status)
          /\ status = "failed" => item.state = Absent
          /\ status = "succeeded" => item.state \in {Acked, Resolved} \/ ~ HasStep(exec[g].level)
    BY <2>1
  <2>3. /\ exec'[g].level = exec[g].level
        /\ exec'[g].status = IF exec[g].status = "running" THEN status ELSE exec[g].status
        /\ exec'[g].misled = IF item.state = meta[g].state
                               THEN exec[g].misled ELSE exec[g].misled + 1
    BY <2>2, CheckedFacts DEF IInv
  <2>4. item.state \in {Acked, Resolved} => Handled(g)
    BY GetBehind, RankFacts DEF Handled, Firing, Acked, Resolved, Absent
  <2>5. exec[g].status # "absent" /\ item.state = Absent => Misled(g)'
    <3>1. exec[g].status # "absent" => meta[g].state # Absent
      BY DEF Begun, Exists
    <3> QED BY <1>0, <2>3, <3>1 DEF Misled
  <2>6. Misled(g) => Misled(g)'
    BY <1>0, <2>3 DEF Misled
  <2>7. HasStep(exec'[g].level) <=> HasStep(exec[g].level)
    BY <2>3
  <2>8. /\ exec'[g].status = "running" => Paged(g)'
        /\ exec'[g].status = "succeeded" /\ ~ HasStep(exec[g].level) => Paged(g)'
        /\ Misled(g)' => Paged(g)'
    BY <2>7 DEF Paged, HasStep, Top
  <2>9. Paged(g) => Paged(g)' \/ Handled(g)
    BY <2>2, <2>3, <2>4, <2>5, <2>6, <2>8 DEF Paged
  <2> QED BY <2>2, <2>3, <2>9
<1>3. CASE g = h /\ ~ CheckGroup(g)
  <2>1. /\ exec'[g].status = exec[g].status /\ exec'[g].misled = exec[g].misled
        /\ exec'[g].level = exec[g].level \/ exec[g].status = "running"
    BY <1>0, <1>3 DEF EscSteps, EscFaults, Send, Record, EndRung, WaitExpires, SendUnanswered,
                 SendFails, HandlerFails, Reinvoke, Goto, NextRung, Running, Executions
  <2> QED BY <2>1 DEF Paged, Misled, HasStep, Top
<1> QED BY <1>1, <1>2, <1>3

-----------------------------------------------------------------------------
(* The worker.  One that owes a ladder goes on to start it. *)
LEMMA OwingStep ==
    ASSUME IInv, NothingFails, NEW k \in Keys,
           \/ \E e \in Envelopes : Publish(k, e)
           \/ ProcSteps(k) \/ WorkerFails(k) \/ LookupFails(k)
    PROVE  \/ UNCHANGED worker
           \/ Put(k) /\ worker[k].pc = "put" /\ Owing(k)' /\ worker'[k].id = worker[k].id
           \/ LogOpened(k) /\ Owing(k) /\ Owing(k)' /\ worker'[k].id = worker[k].id
           \/ Start(k) /\ ~ Owing(k)' /\ worker'[k].pc \notin Unput
           \/ ~ Owing(k) /\ ~ Owing(k)'
<1>0. /\ worker \in [Keys -> Workers] /\ worker[k] \in Workers /\ ~ WorkerFails(k)
      /\ ~ LookupFails(k)
  BY NoFault DEF IInv, WorkInv, ProcType, WorkerFails, LookupFails, NothingFails
<1>1. ASSUME NEW pc, Step(k, pc)
      PROVE  worker'[k].pc = pc /\ worker'[k].id = worker[k].id
  BY <1>0, <1>1 DEF Step, Workers
<1>2. ASSUME Abandon(k) \/ BatchDone(k)
      PROVE  worker'[k].pc \notin {"opened", "start"}
  <2>1. CASE worker' = [worker EXCEPT ![k] = IdleWorker]
    BY <1>0, <2>1 DEF IdleWorker
  <2>2. CASE \E e, i : worker' = [worker EXCEPT ![k] = BatchStart(e, i)]
    BY <1>0, <2>2 DEF BatchStart
  <2> QED BY <1>2, <2>1, <2>2 DEF Abandon, BatchDone, BatchDoneAs
<1>3. CASE Put(k) \/ LogOpened(k) \/ Start(k)
  BY <1>1, <1>3 DEF Put, LogOpened, Start, At, Owing, Unput
<1>4. CASE Claim(k) \/ Increment(k) \/ Reclaim(k) \/ KeepExecution(k) \/ CloseRelease(k) \/ CloseStop(k)
  <2>1. /\ worker[k].pc \in {"claim", "increment", "reclaim", "setExecution", "release", "stop"}
        /\ \E pc \in {"put", "target", "joined", "reclaim", "started", "stop", "closed"} : Step(k, pc)
    BY <1>4 DEF Claim, Increment, Reclaim, KeepExecution, CloseRelease, CloseStop, At
  <2> QED BY <1>1, <2>1 DEF Owing
<1>5. CASE PointerTarget(k) \/ Lookup(k) \/ CloseUpdate(k) \/ CloseReread(k)
  <2>1. worker[k].pc \in {"target", "lookup", "resolve", "reread"}
    BY <1>5 DEF PointerTarget, Lookup, CloseUpdate, CloseReread, At
  <2>2. CASE \E pc \in {"increment", "resolve"} :
                worker' = [worker EXCEPT ![k].pc = pc, ![k].group = pointer[Batch(k).fp]]
    BY <1>0, <2>1, <2>2 DEF Owing, Workers
  <2>3. CASE \E b : worker' = [worker EXCEPT ![k].pc = "release", ![k].arn = b]
    BY <1>0, <2>1, <2>3 DEF Owing, Workers
  <2>4. CASE Step(k, "reread")
    BY <1>1, <2>1, <2>4 DEF Owing
  <2>5. CASE Abandon(k) \/ BatchDone(k)
    BY <1>2, <2>1, <2>5 DEF Owing
  <2> QED BY <1>5, <2>2, <2>3, <2>4, <2>5 DEF PointerTarget, Lookup, CloseUpdate, CloseReread
<1>6. CASE ApplyDone(k) \/ CloseDone(k)
  BY <1>2, <1>6 DEF ApplyDone, CloseDone, At, Owing
<1>7. CASE Receive(k)
  <2>1. worker'[k] = BatchStart(Head(queue[k]), 1) /\ worker[k].pc = "idle"
    BY <1>0, <1>7 DEF Receive, At
  <2> QED BY <2>1 DEF BatchStart, Owing
<1>8. CASE \E e \in Envelopes : Publish(k, e)
  BY <1>8 DEF Publish
<1> QED BY <1>0, <1>3, <1>4, <1>5, <1>6, <1>7, <1>8 DEF ProcSteps, ApplySteps, CloseSteps

LEMMA EarlyStep ==
    ASSUME IInv, Paced, NothingFails, NEW k \in Keys,
           \/ \E e \in Envelopes : Publish(k, e)
           \/ ProcSteps(k) \/ WorkerFails(k) \/ LookupFails(k)
    PROVE  Early(k)' => Takes(k) \/ (Early(k) /\ worker'[k].id = worker[k].id /\ ~ Start(k))
<1>1. ASSUME Owing(k)', ~ Takes(k) PROVE Early(k) /\ worker'[k].id = worker[k].id /\ ~ Start(k)
  <2>1. UNCHANGED worker => ~ Start(k)
    BY DEF Start, Step, At, IInv, WorkInv, ProcType, Workers
  <2>2. ~ (Start(k) /\ (Put(k) \/ LogOpened(k)))
    BY DEF Start, Put, LogOpened, At
  <2> QED BY <1>1, <2>1, <2>2, OwingStep DEF Early, Owing, Unput
<1>2. ASSUME worker'[k].pc \in Unput, ~ Takes(k)
      PROVE  Early(k) /\ worker'[k].id = worker[k].id /\ ~ Start(k)
  <2>1. Keeps(k)
    BY <1>2, WorkerTakes DEF TakesNone
  <2>2. worker[k].pc \in Unput
    BY <1>2, <2>1 DEF Keeps
  <2> QED BY <2>1, <2>2 DEF Keeps, Early, Start, At, Unput
<1> QED BY <1>1, <1>2 DEF Early

(* What a worker does to the ladders. *)
LEMMA WorkerLadders ==
    ASSUME IInv, StopsHandled, NEW k \in Keys,
           \/ \E e \in Envelopes : Publish(k, e)
           \/ ProcSteps(k) \/ WorkerFails(k) \/ LookupFails(k)
    PROVE  /\ \A g \in Groups : /\ exec'[g].status = "absent" => exec[g].status = "absent"
                                /\ Paged(g) => Paged(g)' \/ Handled(g)
           /\ \A g \in Groups : exec[g].status = "absent" /\ exec'[g].status # "absent"
                                   => Start(k) /\ g = worker[k].id
<1>0. exec \in [Groups -> Executions]
  BY DEF IInv, LadderInv, EscType
<1>1. UNCHANGED exec \/ Start(k) \/ CloseStop(k)
  BY DEF Publish, WorkerFails, LookupFails, ProcSteps, Receive, ApplySteps, Claim, PointerTarget, Increment,
         Reclaim, Put, LogOpened, KeepExecution, ApplyDone, CloseSteps, Lookup, CloseUpdate,
         CloseReread, CloseRelease, CloseDone, escVars
<1>2. CASE UNCHANGED exec
  BY <1>2 DEF Paged, Misled, HasStep, Top
<1>3. CASE Start(k)
  BY <1>0, <1>3, NewExecFacts DEF Start, StartExecution, Paged, Misled, HasStep, Top
<1>4. CASE CloseStop(k)
  <2>1. /\ worker[k].group \in Groups /\ worker[k].arn \in BOOLEAN
        /\ StopExecution(worker[k].group, worker[k].arn) /\ Handled(worker[k].group)
    BY <1>4 DEF CloseStop, At, IInv, WorkInv, WorkerOK, ProcType, Workers, StopsHandled
  <2> QED BY <2>1, StopPaged
<1> QED BY <1>1, <1>2, <1>3, <1>4

LEMMA WorkerPaged ==
    ASSUME IInv, IInv', Paced, NothingFails, TableInv, Begun, PagedInv, StopsHandled, NEW k \in Keys,
           Ahead,
           \/ \E e \in Envelopes : Publish(k, e)
           \/ ProcSteps(k) \/ WorkerFails(k) \/ LookupFails(k)
    PROVE  Begun' /\ PagedInv'
<1>0. /\ \A j \in Keys \ {k} : worker'[j] = worker[j]
      /\ exec \in [Groups -> Executions] /\ NoGroup \notin Groups
      /\ \A j \in Keys : Early(j) => worker[j].id \in Groups
      /\ \A j \in Keys : Early(j)' => worker'[j].id \in Groups
      /\ worker[k].pc = "start" => worker[k].id \in Groups
  BY WorkerTakes, GroupFacts
  DEF IInv, LadderInv, EscType, WorkInv, WorkerOK, Early, Owing, Unput, Opening, Groups
<1>1. \/ OpensNone
      \/ Put(k) /\ OpensOnly(k) /\ Owing(k)' /\ worker'[k].id = worker[k].id
  BY <1>0, WorkerTable, OwingStep DEF Put, Step, At, Owing, Start, LogOpened, IInv, WorkInv, ProcType, Workers
<1>2. ASSUME NEW j \in Keys, Early(j)' PROVE exec'[worker'[j].id].status = "absent"
  <2>1. CASE j # k
    <3>1. Early(j) /\ worker'[j].id = worker[j].id
      BY <1>0, <1>2, <2>1 DEF Early, Owing
    <3>2. worker[k].id # worker[j].id
      BY <1>0, <2>1, <3>1 DEF TableInv, FreshIds
    <3> QED BY <1>0, <3>1, <3>2, WorkerLadders DEF Begun
  <2>2. CASE j = k /\ Takes(k)
    <3>1. exec[worker'[k].id].status = "absent"
      BY <1>0, <1>2, <2>2 DEF Takes, Begun, Exists
    <3>2. worker[k].id # worker'[k].id
      BY <2>2 DEF Takes
    <3> QED BY <1>0, <1>2, <2>2, <3>1, <3>2, WorkerLadders
  <2>3. CASE j = k /\ Early(k) /\ worker'[k].id = worker[k].id /\ ~ Start(k)
    BY <1>0, <2>3, WorkerLadders DEF Begun
  <2> QED BY <1>2, <2>1, <2>2, <2>3, EarlyStep
<1>3. ASSUME NEW j \in Keys, Owing(j)' PROVE meta'[worker'[j].id].state # Absent
  <2>1. CASE Owing(j) /\ worker'[j].id = worker[j].id
    <3> DEFINE g == worker[j].id
    <3>1. g \in Groups /\ Exists(g)
      BY <1>0, <2>1 DEF Begun, Early
    <3> HIDE DEF g
    <3>2. meta'[g].state # Absent
      <4>1. PICK h \in Groups : h = g
        BY <3>1
      <4> QED BY <3>1, <4>1, ExistsStays DEF Exists
    <3> QED BY <2>1, <3>2 DEF g
  <2>2. CASE j = k /\ Put(k) /\ worker'[k].id = worker[k].id
    <3>1. meta' = [meta EXCEPT ![worker[k].id] = NewItem] /\ worker[k].id \in Groups
      BY <1>0, <1>3, <2>2 DEF Put, PutMeta, WriteMeta, Early
    <3>2. NewItem.state = Firing
      BY DEF NewItem, NoItem
    <3>3. meta'[worker[k].id] = NewItem
      BY <3>1 DEF IInv, StoreType
    <3> QED BY <2>2, <3>2, <3>3 DEF Firing, Absent
  <2> QED BY <1>0, <1>3, <2>1, <2>2, OwingStep DEF Owing
<1>4. ASSUME NEW g \in Groups, exec'[g].status # "absent" PROVE Exists(g)'
  <2>1. CASE exec[g].status # "absent"
    BY <2>1, ExistsStays DEF Begun
  <2>2. CASE exec[g].status = "absent"
    <3>1. Start(k) /\ g = worker[k].id
      BY <1>4, <2>2, WorkerLadders
    <3>2. Owing(k)
      BY <3>1 DEF Start, At, Owing
    <3> QED BY <3>1, <3>2, ExistsStays DEF Begun
  <2> QED BY <2>1, <2>2
<1>5. ASSUME NEW g \in Groups, meta'[g].state = Firing
      PROVE  (\E j \in Keys : worker'[j].id = g /\ Owing(j)') \/ Paged(g)'
  <2>1. CASE meta[g].state = Absent
    <3>1. g = worker[k].id /\ Owing(k)' /\ worker'[k].id = worker[k].id
      BY <1>1, <1>5, <2>1 DEF OpensNone, OpensOnly, Firing, Absent
    <3> QED BY <3>1
  <2>2. CASE meta[g].state = Firing /\ Paged(g)
    BY <2>2, WorkerLadders DEF Handled, Firing, Acked, Resolved
  <2>3. ASSUME meta[g].state = Firing, NEW j \in Keys, worker[j].id = g, Owing(j)
        PROVE  (\E i \in Keys : worker'[i].id = g /\ Owing(i)') \/ Paged(g)'
    <3>1. CASE j # k
      BY <1>0, <2>3, <3>1 DEF Owing
    <3>2. CASE j = k /\ Start(k)
      <4>1. exec[g].status = "absent"
        BY <2>3 DEF Begun, Early
      <4>2. exec'[g].status = "running"
        BY <1>0, <2>3, <3>2, <4>1, NewExecFacts DEF Start, StartExecution
      <4> QED BY <4>2 DEF Paged
    <3>3. CASE j = k /\ ~ Start(k)
      <4>1. ~ Put(k)
        BY <2>3, <3>3 DEF Put, At, Owing
      <4>2. Owing(k)' /\ worker'[k].id = worker[k].id
        BY <2>3, <3>3, <4>1, OwingStep DEF Owing
      <4> QED BY <2>3, <3>3, <4>2
    <3> QED BY <3>1, <3>2, <3>3
  <2> QED BY <1>5, <2>1, <2>2, <2>3, FiringBefore DEF PagedInv
<1>6. Begun'
  BY <1>2, <1>3, <1>4 DEF Begun, Exists, Early, Owing, Groups
<1>7. PagedInv'
  BY <1>5 DEF PagedInv, Groups
<1> QED BY <1>6, <1>7

-----------------------------------------------------------------------------
LEMMA StepPaged ==
    ASSUME IInv, Paced, NothingFails, TableInv, HandledInv, StopsHandled, Begun, PagedInv,
           [Next]_vars
    PROVE  Begun' /\ PagedInv'
<1>0. IInv' /\ Ahead /\ ReplicaBehind
  BY StepIInv, StepTable DEF TableInv
<1>1. ASSUME OpensNone, UNCHANGED <<worker, exec>> PROVE Begun' /\ PagedInv'
  BY <1>0, <1>1, QuietPaged DEF Paged, Misled, HasStep, Top
<1>2. CASE StoreNext
  BY <1>0, <1>1, <1>2, StoreTable DEF StoreNext, procVars, escVars
<1>3. CASE LadderNext
  <2>1. PICK h \in Groups : EscSteps(h) \/ EscFaults(h)
    BY <1>3 DEF LadderNext, EscNext
  <2>2. OpensNone /\ UNCHANGED worker
    BY <1>0, <1>3, <2>1, LadderTable DEF LadderNext, procVars
  <2>3. \A g \in Groups : /\ exec[g].status = "absent" => exec'[g].status = "absent"
                          /\ exec'[g].status = "absent" => exec[g].status = "absent"
                          /\ Paged(g) => Paged(g)' \/ Handled(g)
    BY <2>1, RungPaged
  <2> QED BY <1>0, <2>2, <2>3, QuietPaged
<1>4. CASE WorkerNext
  <2>1. PICK k \in Keys :
           \/ \E e \in Envelopes : Publish(k, e)
           \/ ProcSteps(k) \/ WorkerFails(k) \/ LookupFails(k)
    BY <1>4 DEF WorkerNext, ProcNext
  <2> QED BY <1>0, <2>1, WorkerPaged
<1>5. CASE PressNext
  <2>1. PICK p \in Presses : PressStepOf(p)
    BY <1>5 DEF PressNext, CallbackNext, PressStepOf
  <2>2. OpensNone /\ UNCHANGED worker
    BY <1>0, <1>5, <2>1, PressTable DEF PressNext, PressStepOf, procVars
  <2>3. CASE StopLadder(p)
    <3>1. /\ press[p].group \in Groups /\ press[p].arn \in BOOLEAN
          /\ StopExecution(press[p].group, press[p].arn)
      BY <2>3 DEF StopLadder, PressAt, IInv, PressInv, PressOK, CallbackType, PressRecords
    <3>2. Reached(p)
      BY <2>3 DEF StopLadder, PressAt, HandledInv, ReachedInv, Won
    <3>3. meta[press[p].group].state \in {Firing, Acked, Resolved, Absent}
      BY <3>1, ItemFacts DEF IInv, StoreType, States
    <3>4. Handled(press[p].group)
      BY <3>2, <3>3, RankFacts DEF Reached, Target, Handled
    <3>5. \A g \in Groups : /\ exec[g].status = "absent" => exec'[g].status = "absent"
                            /\ exec'[g].status = "absent" => exec[g].status = "absent"
                            /\ Paged(g) => Paged(g)' \/ Handled(g)
      BY <3>1, <3>4, StopPaged
    <3> QED BY <1>0, <2>2, <3>5, QuietPaged
  <2>4. CASE ~ StopLadder(p)
    <3>1. UNCHANGED exec
      BY <2>1, <2>4 DEF PressStepOf, Press, CallbackSteps, HandlerSteps, Update, Reread, RereadAs, Release, LogPress,
                  Rewrite, Answer, Redeliver, BestEffortFails, CallbackFails, escVars
    <3> QED BY <1>1, <2>2, <3>1
  <2> QED BY <2>3, <2>4
<1>6. CASE UNCHANGED vars
  <2>1. OpensNone /\ UNCHANGED <<worker, exec>>
    BY <1>0, <1>6, QuietAhead DEF IInv, vars, storeVars, procVars, escVars
  <2> QED BY <1>1, <2>1
<1> QED BY <1>2, <1>3, <1>4, <1>5, <1>6 DEF Next

LEMMA InitPaged == Init => Begun /\ PagedInv
BY DEF Init, StoreInit, NoItem, EscInit, NoExec, ProcInit, IdleWorker, Begun, PagedInv, Early, Owing,
       Unput, Exists, Firing, Absent

(* Why StopsHandled holds: with one routing key the incident stays as closed as the *)
(* worker found it, and with envelopes that only fire no worker closes any.         *)
OpeningOnly == \A k \in Keys : worker[k].pc \notin Closing

LEMMA StepOpening ==
    ASSUME IInv, OnlyFiring, OpeningOnly, [Next]_vars
    PROVE  OpeningOnly'
<1>0. worker \in [Keys -> Workers]
  BY DEF IInv, WorkInv, ProcType
<1>1. CASE UNCHANGED worker
  BY <1>1 DEF OpeningOnly
<1>2. CASE WorkerNext
  <2>1. PICK k \in Keys :
           \/ \E e \in Envelopes : Publish(k, e)
           \/ ProcSteps(k) \/ WorkerFails(k) \/ LookupFails(k)
    BY <1>2 DEF WorkerNext, ProcNext
  <2>2. worker[k] \in Workers /\ worker[k].pc \notin Closing
    BY <1>0 DEF OpeningOnly
  <2>3. ASSUME NEW e \in Envelopes, NEW i \in DOMAIN e, worker' = [worker EXCEPT ![k] = BatchStart(e, i)]
        PROVE  OpeningOnly'
    <3>1. worker'[k].pc = "claim"
      BY <1>0, <2>3 DEF OnlyFiring, BatchStart
    <3> QED BY <1>0, <2>3, <3>1 DEF OpeningOnly, Closing
  <2>4. ASSUME worker' = [worker EXCEPT ![k] = IdleWorker]
        PROVE  OpeningOnly'
    BY <1>0, <2>4 DEF OpeningOnly, IdleWorker, Closing
  <2>5. ASSUME NEW pc \in Opening, Step(k, pc)
        PROVE  OpeningOnly'
    <3>1. worker'[k].pc = pc
      BY <1>0, <2>2, <2>5 DEF Step, Workers
    <3>2. \A j \in Keys \ {k} : worker'[j] = worker[j]
      BY <1>0, <2>5 DEF Step
    <3> QED BY <3>1, <3>2 DEF OpeningOnly, Opening, Closing
  <2>6. CASE Receive(k)
    <3>1. queue[k] \in Seq(Envelopes) /\ queue[k] # << >>
      BY <2>6 DEF Receive, IInv, WorkInv, ProcType
    <3>2. Head(queue[k]) \in Envelopes
      BY <3>1
    <3>3. Head(queue[k]) \in Seq(Batches) \ {<< >>}
      BY <3>2, QueueAssumption
    <3>4. 1 \in DOMAIN Head(queue[k])
      BY <3>3
    <3> QED BY <2>3, <2>6, <3>2, <3>4 DEF Receive
  <2>7. CASE worker[k].pc # "idle" /\ (Abandon(k) \/ BatchDone(k))
    <3>1. /\ Head(queue[k]) \in Envelopes /\ Head(queue[k]) \in Seq(Batches)
          /\ worker[k].batch \in 1 .. Len(Head(queue[k]))
      BY <2>7, BatchFacts DEF IInv
    <3>2. worker[k].batch < Len(Head(queue[k])) => worker[k].batch + 1 \in DOMAIN Head(queue[k])
      BY <3>1
    <3> QED BY <2>3, <2>4, <2>7, <3>1, <3>2 DEF Abandon, BatchDone, BatchDoneAs
  <2>8. CASE PointerTarget(k)
    <3>1. CASE worker' = [worker EXCEPT ![k].pc = "increment", ![k].group = pointer[Batch(k).fp]]
      BY <1>0, <2>2, <3>1 DEF OpeningOnly, Closing, Workers
    <3>2. CASE Abandon(k)
      BY <2>7, <2>8, <3>2 DEF PointerTarget, At
    <3> QED BY <2>8, <3>1, <3>2 DEF PointerTarget
  <2>13. CASE LookupFails(k)
    BY <2>2, <2>13 DEF LookupFails, At, Closing
  <2>9. CASE WorkerFails(k) \/ ApplyDone(k)
    BY <2>7, <2>9 DEF WorkerFails, ApplyDone, At
  <2>10. CASE CloseSteps(k)
    BY <2>2, <2>10 DEF CloseSteps, Lookup, CloseUpdate, CloseReread, CloseRelease, CloseStop, CloseDone, At,
                 Closing
  <2>11. CASE \/ Claim(k) \/ Increment(k) \/ Reclaim(k) \/ Put(k) \/ LogOpened(k) \/ Start(k)
              \/ KeepExecution(k)
    BY <2>5, <2>11 DEF Claim, Increment, Reclaim, Put, LogOpened, Start, KeepExecution, Opening
  <2>12. CASE \E e \in Envelopes : Publish(k, e)
    BY <1>1, <2>12 DEF Publish
  <2> QED BY <2>1, <2>6, <2>8, <2>9, <2>10, <2>11, <2>12, <2>13 DEF ProcSteps, ApplySteps
<1>3. CASE StoreNext \/ LadderNext \/ PressNext \/ UNCHANGED vars
  BY <1>1, <1>3 DEF StoreNext, LadderNext, PressNext, vars, procVars
<1> QED BY <1>2, <1>3 DEF Next

(* An incident nobody has handled is being paged about, however deliveries, presses *)
(* and rungs race: as long as no call fails, a second opens at most one group per    *)
(* fingerprint, and either the alerts about an incident come under one routing key   *)
(* or nothing resolves them but presses.  A replica can end the ladder all the same,  *)
(* by answering its state check that there is no such incident yet.                   *)
THEOREM EveryIncidentIsPaged ==
    ASSUME Paced, NothingFails, OneKey \/ OnlyFiring
    PROVE  Spec => []OpenedIsPaged
<1> DEFINE Inv == TableInv /\ HandledInv /\ Begun /\ PagedInv
<1>1. Init => Inv
  BY InitTable, InitHandled, InitPaged
<1>2. IInv /\ Inv /\ StopsHandled /\ [Next]_vars => Inv'
  BY StepTable, StepHandled, StepPaged
<1>3. PagedInv => OpenedIsPaged
  BY DEF PagedInv, Owing, Paged, OpenedIsPaged
<1>4. CASE OneKey
  <2>1. Init => ClosedInv
    BY DEF Init, ProcInit, IdleWorker, ClosedInv, Closes
  <2>2. ClosedInv => StopsHandled
    BY DEF ClosedInv, Closes, StopsHandled, Handled
  <2>3. IInv /\ Inv /\ ClosedInv /\ [Next]_vars => ClosedInv'
    BY <1>4, StepClosed
  <2> HIDE DEF Inv
  <2>4. Spec => []Inv
    BY InitIInv, StepIInv, <1>1, <1>2, <2>1, <2>2, <2>3, PTL DEF Spec
  <2>5. Inv => OpenedIsPaged
    BY <1>3 DEF Inv
  <2> QED BY <2>4, <2>5, PTL
<1>5. CASE OnlyFiring
  <2>1. Init => OpeningOnly
    BY DEF Init, ProcInit, IdleWorker, OpeningOnly, Closing
  <2>2. OpeningOnly => StopsHandled
    BY DEF OpeningOnly, Closing, StopsHandled
  <2>3. IInv /\ OpeningOnly /\ [Next]_vars => OpeningOnly'
    BY <1>5, StepOpening
  <2> HIDE DEF Inv
  <2>4. Spec => []Inv
    BY InitIInv, StepIInv, <1>1, <1>2, <2>1, <2>2, <2>3, PTL DEF Spec
  <2>5. Inv => OpenedIsPaged
    BY <1>3 DEF Inv
  <2> QED BY <2>4, <2>5, PTL
<1> QED BY <1>4, <1>5
=============================================================================
