---------------------------- MODULE OnCallHandled ----------------------------
(***************************************************************************)
(* Who handled an incident, and what may only happen once it is handled,    *)
(* for every value of OnCall's constants.                                   *)
(***************************************************************************)
EXTENDS OnCallSafety

Exists(g) == meta[g].state # Absent

(* Only a group that exists is paged for, and only what was paged is pressed. *)
PastCheck == {"send", "record", "notified", "notify_failed"}

PagedExists ==
    \A g \in Groups : exec[g].pc \in PastCheck \/ chat[g] # << >> => Exists(g)

PressedExists ==
    \A p \in Presses : press[p].pc # "idle" => Exists(press[p].group)

ExistInv == PagedExists /\ PressedExists

(* A press whose change the store has made or has confirmed, and that has not *)
(* failed since.                                                              *)
Won(p) ==
    \/ press[p].pc \in {"release", "timeline", "edit", "stop", "answer"}
    \/ press[p].reply = "ok"

Reached(p) == Rank(Target(press[p].action)) <= Rank(meta[press[p].group].state)

(* The table stays at least where a press moved it, or found it. *)
ReachedInv ==
    \A p \in Presses :
        /\ press[p].pc = "reread" \/ Won(p) => Reached(p)
        /\ press[p].reply = "ok" => press[p].pc = "done"

(* Of two that won the same change, one was misled. *)
SoleInv ==
    \A p, q \in Presses :
        /\ Won(p) /\ Won(q) /\ press[p].group = press[q].group
        /\ Target(press[p].action) = Target(press[q].action)
        => p = q \/ press[p].misled \/ press[q].misled

HandledInv == ExistInv /\ ReachedInv /\ SoleInv

-----------------------------------------------------------------------------
(* What Get may answer is an item the group has or had. *)
LEMMA GetBehind ==
    ASSUME IInv, TableInv, NEW g \in Groups, NEW item \in Get(g)
    PROVE  /\ item \in Items /\ item.state \in {Absent, Firing, Acked, Resolved}
           /\ Rank(item.state) <= Rank(meta[g].state)
           /\ meta[g].state \in {Absent, Firing, Acked, Resolved}
<1>1. /\ meta[g] \in Items /\ item \in Items
  BY GetType DEF IInv, StoreType
<1>2. meta[g].state \in States \cup {Absent} /\ item.state \in States \cup {Absent}
  BY <1>1, ItemFacts
<1>3. Rank(meta[g].state) \in 0 .. 3
  BY <1>2, RankFacts
<1>4. Rank(item.state) <= Rank(meta[g].state)
  BY <1>3 DEF Get, TableInv, ReplicaBehind
<1> QED BY <1>1, <1>2, <1>4 DEF States

LEMMA ExistsStays ==
    ASSUME IInv, IInv', Ahead, NEW g \in Groups, Exists(g)
    PROVE  Exists(g)'
<1>1. meta[g].state \in States \cup {Absent} /\ meta'[g].state \in States \cup {Absent}
  BY ItemFacts DEF IInv, StoreType, Groups
<1>2. Rank(meta[g].state) <= Rank(meta'[g].state)
  BY DEF Ahead
<1> QED BY <1>1, <1>2, RankFacts DEF Exists

(* Steps that neither page nor press. *)
LEMMA QuietExist ==
    ASSUME IInv, IInv', Ahead, ExistInv, UNCHANGED press,
           \A g \in Groups : /\ exec'[g].pc \in PastCheck => exec[g].pc \in PastCheck
                             /\ chat'[g] # << >> => chat[g] # << >>
    PROVE  ExistInv'
<1>1. PagedExists'
  BY ExistsStays DEF ExistInv, PagedExists, Groups
<1>2. PressedExists'
  BY ExistsStays DEF ExistInv, PressedExists, IInv, PressInv, PressOK
<1> QED BY <1>1, <1>2 DEF ExistInv

LEMMA LadderExist ==
    ASSUME IInv, IInv', Ahead, TableInv, ExistInv, NEW g \in Groups,
           EscSteps(g) \/ EscFaults(g), UNCHANGED press
    PROVE  ExistInv'
<1>0. /\ exec \in [Groups -> Executions] /\ chat \in [Groups -> Seq(Messages)]
      /\ meta \in [Groups -> Items]
  BY DEF IInv, LadderInv, EscType, StoreType
<1>1. ASSUME NEW h \in Groups, h # g PROVE exec'[h] = exec[h] /\ chat'[h] = chat[h]
  BY <1>1, OtherRungs
<1>2. exec'[g].pc \in PastCheck \/ chat'[g] # << >> => Exists(g)
  <2>1. CASE CheckGroup(g)
    <3>a. PICK item \in Get(g) :
            \/ \E status \in {"failed", "succeeded"} : Checked(g, item, "none", status)
            \/ item.state = Firing /\ HasStep(exec[g].level) /\ Checked(g, item, "send", "running")
      BY <2>1, CheckGroupReads
    <3>1. exec'[g].pc \notin PastCheck \/ item.state = Firing
      BY <3>a, CheckedFacts DEF IInv, PastCheck
    <3>2. UNCHANGED chat
      BY <2>1 DEF CheckGroup
    <3>3. item.state = Firing => Exists(g)
      BY GetBehind, RankFacts DEF Exists, Firing, Absent
    <3> QED BY <3>1, <3>2, <3>3 DEF ExistInv, PagedExists
  <2>2. CASE Send(g) \/ SendUnanswered(g) \/ SendFails(g) \/ Record(g)
    BY <2>2 DEF Send, SendUnanswered, SendFails, Record, ExistInv, PagedExists, PastCheck
  <2>3. CASE EndRung(g) \/ WaitExpires(g) \/ HandlerFails(g) \/ Reinvoke(g)
    <3>1. exec'[g].pc \notin PastCheck /\ UNCHANGED chat
      BY <1>0, <2>3 DEF EndRung, WaitExpires, HandlerFails, Reinvoke, NextRung, Goto, Finish, PastCheck,
                        Executions
    <3> QED BY <3>1 DEF ExistInv, PagedExists
  <2> QED BY <2>1, <2>2, <2>3 DEF EscSteps, EscFaults
<1>3. PagedExists'
  <2> SUFFICES ASSUME NEW h \in Groups, exec'[h].pc \in PastCheck \/ chat'[h] # << >>
               PROVE  Exists(h)
    BY ExistsStays DEF PagedExists, Groups
  <2>1. CASE h = g
    BY <1>2, <2>1
  <2>2. CASE h # g
    BY <1>1, <2>2 DEF ExistInv, PagedExists
  <2> QED BY <2>1, <2>2
<1>4. PressedExists'
  BY ExistsStays DEF ExistInv, PressedExists, IInv, PressInv, PressOK
<1> QED BY <1>3, <1>4 DEF ExistInv

LEMMA WorkerExist ==
    ASSUME IInv, IInv', Ahead, ExistInv, UNCHANGED press, NEW k \in Keys,
           \/ \E e \in Envelopes : Publish(k, e)
           \/ ProcSteps(k) \/ WorkerFails(k) \/ LookupFails(k)
    PROVE  ExistInv'
<1>0. exec \in [Groups -> Executions]
  BY DEF IInv, LadderInv, EscType
<1>1. UNCHANGED chat
  BY DEF Publish, WorkerFails, LookupFails, ProcSteps, Receive, ApplySteps, Claim, PointerTarget, Increment,
         Reclaim, Put, LogOpened, Start, KeepExecution, ApplyDone, CloseSteps, Lookup, CloseUpdate,
         CloseReread, CloseRelease, CloseStop, CloseDone, escVars
<1>2. UNCHANGED exec \/ Start(k) \/ CloseStop(k)
  BY DEF Publish, WorkerFails, LookupFails, ProcSteps, Receive, ApplySteps, Claim, PointerTarget, Increment,
         Reclaim, Put, LogOpened, KeepExecution, ApplyDone, CloseSteps, Lookup, CloseUpdate,
         CloseReread, CloseRelease, CloseDone, escVars
<1>3. \A g \in Groups : exec'[g].pc \in PastCheck => exec[g].pc \in PastCheck
  <2>1. CASE Start(k)
    BY <1>0, <2>1, NewExecFacts DEF Start, StartExecution, PastCheck
  <2>2. CASE CloseStop(k)
    BY <1>0, <2>2 DEF CloseStop, StopExecution, PastCheck, Executions
  <2> QED BY <1>2, <2>1, <2>2
<1> QED BY <1>1, <1>3, QuietExist

(* What a press step does to the presses: one record of them changes. *)
PressStepOf(p) ==
    \/ \E action \in Actions, g \in Groups : \E m \in DOMAIN chat[g] : Press(p, action, g, m)
    \/ CallbackSteps(p) \/ BestEffortFails(p) \/ CallbackFails(p)

LEMMA OnePress ==
    ASSUME IInv, NEW p \in Presses, PressStepOf(p)
    PROVE  /\ \A q \in Presses \ {p} : press'[q] = press[q]
           /\ press[p].pc # "idle" =>
                 press'[p].group = press[p].group /\ press'[p].action = press[p].action
<1>0. press \in [Presses -> PressRecords]
  BY DEF IInv, PressInv, CallbackType
<1>1. CASE \E action \in Actions, g \in Groups : \E m \in DOMAIN chat[g] : Press(p, action, g, m)
  BY <1>0, <1>1 DEF Press, PressAt, PressRecords
<1>2. CASE CallbackSteps(p)
  <2>1. CASE \E pc : PressStep(p, pc)
    BY <1>0, <2>1 DEF PressStep, PressRecords
  <2>2. CASE \E reply : Reply(p, reply)
    BY <1>0, <2>2 DEF Reply, PressRecords
  <2>3. CASE \E item : Moved(p, item)
    BY <1>0, <2>3 DEF Moved, PressRecords
  <2> QED BY <1>2, <2>1, <2>2, <2>3
          DEF CallbackSteps, HandlerSteps, Update, Reread, RereadAs, Release, LogPress, Rewrite, StopLadder,
              Answer, Redeliver
<1>3. CASE BestEffortFails(p) \/ CallbackFails(p)
  BY <1>0, <1>3 DEF BestEffortFails, CallbackFails, Reply, PressStep, PressRecords
<1> QED BY <1>1, <1>2, <1>3 DEF PressStepOf

LEMMA PressExist ==
    ASSUME IInv, IInv', Ahead, ExistInv, NEW p \in Presses, PressStepOf(p)
    PROVE  ExistInv'
<1>0. /\ exec \in [Groups -> Executions] /\ chat \in [Groups -> Seq(Messages)]
      /\ press \in [Presses -> PressRecords]
  BY DEF IInv, LadderInv, EscType, PressInv, CallbackType
<1>1. PagedExists'
  <2>1. \A g \in Groups : exec'[g].pc \in PastCheck => exec[g].pc \in PastCheck
    <3>1. CASE StopLadder(p)
      BY <1>0, <3>1 DEF StopLadder, StopExecution, PastCheck, Executions
    <3>2. CASE ~ StopLadder(p)
      <4>1. UNCHANGED exec
        BY <3>2 DEF PressStepOf, Press, CallbackSteps, HandlerSteps, Update, Reread, RereadAs, Release, LogPress,
                    Rewrite, Answer, Redeliver, BestEffortFails, CallbackFails, escVars
      <4> QED BY <4>1
    <3> QED BY <3>1, <3>2
  <2>2. \A g \in Groups : chat'[g] # << >> => chat[g] # << >>
    <3>1. CASE Rewrite(p)
      <4> DEFINE s == IF press[p].action = "resolve" THEN "resolved" ELSE "acked"
      <4>1. chat' = [chat EXCEPT ![press[p].group] = [@ EXCEPT ![press[p].edit].shown = s]]
        BY <3>1 DEF Rewrite
      <4>2. s \in Shown /\ press[p].edit \in Nat
        BY <1>0 DEF Shown, PressRecords
      <4> HIDE DEF s
      <4>3. ASSUME NEW g \in Groups, chat'[g] # << >> PROVE chat[g] # << >>
        <5>1. CASE g = press[p].group
          <6>1. chat'[g] = [chat[g] EXCEPT ![press[p].edit].shown = s]
            BY <1>0, <4>1, <5>1
          <6>2. Len(chat'[g]) = Len(chat[g])
            BY <1>0, <4>2, <6>1, EditLength
          <6>3. chat'[g] \in Seq(Messages) /\ chat[g] \in Seq(Messages)
            BY DEF IInv, LadderInv, EscType, Groups
          <6> QED BY <4>3, <6>2, <6>3
        <5>2. CASE g # press[p].group
          BY <1>0, <4>1, <4>3, <5>2
        <5> QED BY <5>1, <5>2
      <4> QED BY <4>3
    <3>2. CASE ~ Rewrite(p)
      <4>1. UNCHANGED chat
        BY <3>2 DEF PressStepOf, Press, CallbackSteps, HandlerSteps, Update, Reread, RereadAs, Release, LogPress,
                    StopLadder, Answer, Redeliver, BestEffortFails, CallbackFails, escVars
      <4> QED BY <4>1
    <3> QED BY <3>1, <3>2
  <2> QED BY <2>1, <2>2, ExistsStays DEF ExistInv, PagedExists, Groups
<1>2. PressedExists'
  <2>1. ASSUME NEW q \in Presses, press'[q].pc # "idle"
        PROVE  press'[q].group \in Groups /\ Exists(press'[q].group)
    <3>1. CASE q = p /\ press[p].pc = "idle"
      <4>1. PICK action \in Actions, g \in Groups : \E m \in DOMAIN chat[g] : Press(p, action, g, m)
        BY <3>1 DEF PressStepOf, CallbackSteps, HandlerSteps, Update, Reread, RereadAs, Release, LogPress, Rewrite,
                    StopLadder, Answer, Redeliver, BestEffortFails, CallbackFails, PressAt, Handler
      <4>2. chat[g] # << >> /\ press'[p].group = g
        BY <1>0, <4>1 DEF Press, PressRecords
      <4> QED BY <3>1, <4>2 DEF ExistInv, PagedExists
    <3>2. CASE q = p /\ press[p].pc # "idle"
      BY <3>2, OnePress DEF ExistInv, PressedExists, IInv, PressInv, PressOK
    <3>3. CASE q # p
      BY <2>1, <3>3, OnePress DEF ExistInv, PressedExists, IInv, PressInv, PressOK
    <3> QED BY <3>1, <3>2, <3>3
  <2> QED BY <2>1, ExistsStays DEF PressedExists, Exists
<1> QED BY <1>1, <1>2 DEF ExistInv

-----------------------------------------------------------------------------
(* The table keeps up with every press that moved it. *)
LEMMA ReachedStays ==
    ASSUME IInv, IInv', Ahead, NEW p \in Presses, press[p].pc # "idle", Reached(p),
           press'[p].group = press[p].group, press'[p].action = press[p].action
    PROVE  Reached(p)'
<1> DEFINE g == press[p].group
<1>1. g \in Groups
  BY DEF IInv, PressInv, PressOK
<1>2. meta[g].state \in States \cup {Absent} /\ meta'[g].state \in States \cup {Absent}
  BY <1>1, ItemFacts DEF IInv, StoreType, Groups
<1>3. Rank(meta[g].state) <= Rank(meta'[g].state)
  BY <1>1 DEF Ahead
<1>4. Target(press[p].action) \in States \cup {Absent}
  BY DEF Target, States
<1> HIDE DEF g
<1>5. /\ Rank(meta[g].state) \in 0 .. 3 /\ Rank(meta'[g].state) \in 0 .. 3
      /\ Rank(Target(press[p].action)) \in 0 .. 3
  BY <1>2, <1>4, RankFacts
<1>6. Rank(Target(press[p].action)) <= Rank(meta[g].state)
  BY DEF Reached, g
<1>7. Rank(Target(press[p].action)) <= Rank(meta'[g].state)
  BY <1>3, <1>5, <1>6
<1> QED BY <1>7 DEF Reached, g, Target

LEMMA QuietReached ==
    ASSUME IInv, IInv', Ahead, ReachedInv, SoleInv, UNCHANGED press
    PROVE  ReachedInv' /\ SoleInv'
<1>1. ReachedInv'
  BY ReachedStays DEF ReachedInv, Won
<1>2. SoleInv'
  BY DEF SoleInv, Won, Target
<1> QED BY <1>1, <1>2

(* A press that has just won moved the table, or was shown by a lagging replica  *)
(* an item the group had before.                                                 *)
LEMMA WinsByMoving ==
    ASSUME IInv, ReachedInv, NEW p \in Presses, PressStepOf(p), Won(p)', ~ Won(p)
    PROVE  \/ /\ Update(p) /\ Moved(p, meta[press[p].group])
              /\ CanMove(press[p].group, Target(press[p].action))
              /\ Move(press[p].group, Target(press[p].action))
           \/ \E item \in Get(press[p].group) :
                 /\ Reread(p) /\ Moved(p, item)
                 /\ Transition(item.state, Target(press[p].action)) = "nil"
<1>0. press \in [Presses -> PressRecords] /\ press[p] \in PressRecords
  BY DEF IInv, PressInv, CallbackType
<1>1. press[p].pc \notin {"release", "timeline", "edit", "stop", "answer"} /\ press[p].reply # "ok"
  BY DEF Won
<1>2. ASSUME NEW pc \in {"update", "reread"}, PressStep(p, pc)
      PROVE  ~ Won(p)'
  BY <1>0, <1>1, <1>2 DEF PressStep, Won, PressRecords
<1>3. ASSUME NEW reply \in {"error", "repeat", "conflict"}, Reply(p, reply)
      PROVE  ~ Won(p)'
  BY <1>0, <1>1, <1>3 DEF Reply, Won, PressRecords
<1>4. CASE \E action \in Actions, g \in Groups : \E m \in DOMAIN chat[g] : Press(p, action, g, m)
  <2>1. press'[p].pc = "update" /\ press'[p].reply = press[p].reply
    BY <1>0, <1>4 DEF Press, PressRecords
  <2> QED BY <1>1, <2>1 DEF Won
<1>5. CASE Update(p)
  BY <1>2, <1>5 DEF Update
<1>6. CASE Reread(p)
  <2>1. PICK item \in Get(press[p].group) :
           \/ Reply(p, "error") \/ Reply(p, "repeat") \/ Reply(p, "conflict")
           \/ Transition(item.state, Target(press[p].action)) = "nil" /\ Moved(p, item)
    BY <1>6 DEF Reread, RereadAs
  <2> QED BY <1>3, <1>6, <2>1
<1>7. CASE Redeliver(p)
  BY <1>2, <1>7 DEF Redeliver
<1>8. CASE CallbackFails(p)
  BY <1>3, <1>8 DEF CallbackFails
<1>9. CASE Release(p) \/ LogPress(p) \/ Rewrite(p) \/ StopLadder(p) \/ Answer(p) \/ BestEffortFails(p)
  BY <1>1, <1>9 DEF Release, LogPress, Rewrite, StopLadder, Answer, BestEffortFails, PressAt
<1> QED BY <1>4, <1>5, <1>6, <1>7, <1>8, <1>9 DEF PressStepOf, CallbackSteps, HandlerSteps

(* Where an update is still possible, the table has not reached its target. *)
LEMMA NotReached ==
    ASSUME IInv, NEW g \in Groups, NEW to \in {Acked, Resolved}, NEW item \in Items
    PROVE  /\ item.state \in Allowed(to) => ~ (Rank(to) <= Rank(item.state))
           /\ item.state # Absent /\ item.state \notin Allowed(to) => Rank(to) <= Rank(item.state)
<1>1. item.state \in States \cup {Absent} /\ to \in States \cup {Absent}
  BY ItemFacts DEF States
<1>2. Rank(item.state) \in 0 .. 3 /\ Rank(to) \in 0 .. 3
  BY <1>1, RankFacts
<1>3. item.state \in Allowed(to) <=> item.state # Absent /\ Rank(item.state) < Rank(to)
  BY <1>1, MoveFacts
<1> QED BY <1>2, <1>3

LEMMA PressReached ==
    ASSUME IInv, IInv', Ahead, ExistInv, ReachedInv, NEW p \in Presses, PressStepOf(p)
    PROVE  ReachedInv'
<1> DEFINE g == press[p].group
           to == Target(press[p].action)
<1>0. press[p] \in PressRecords /\ press \in [Presses -> PressRecords]
  BY DEF IInv, PressInv, CallbackType
<1>a. to \in {Acked, Resolved}
  BY DEF Target
<1>b. press[p].pc # "idle" => g \in Groups
  BY DEF IInv, PressInv, PressOK
<1>c. ASSUME NEW action, NEW h, NEW m, Press(p, action, h, m)
      PROVE  press'[p].pc = "update" /\ press'[p].reply = press[p].reply
  <2>1. press' = [press EXCEPT ![p] = [press[p] EXCEPT !.pc = "update", !.action = action,
                                                       !.group = h, !.message = m]]
    BY <1>0, <1>c DEF Press, PressRecords
  <2> QED BY <1>0, <2>1 DEF PressRecords
<1>1. ASSUME NEW q \in Presses, q # p, press'[q].pc = "reread" \/ Won(q)'
      PROVE  Reached(q)'
  <2>1. press'[q] = press[q]
    BY <1>1, OnePress
  <2>2. Reached(q) /\ press[q].pc # "idle"
    BY <1>1, <2>1 DEF ReachedInv, Won
  <2> QED BY <2>1, <2>2, ReachedStays
<1>2. ASSUME Won(p) PROVE Reached(p)'
  <2>1. Reached(p) /\ press[p].pc # "idle"
    BY <1>2 DEF ReachedInv, Won
  <2> QED BY <2>1, OnePress, ReachedStays
<1>3. ASSUME Won(p)', ~ Won(p) PROVE Reached(p)'
  <2>1. CASE Update(p) /\ Moved(p, meta[g]) /\ Move(g, to)
    <3>1. g \in Groups /\ press[p].pc # "idle"
      BY <1>b, <2>1 DEF Update, PressAt
    <3>2. meta[g] \in Items /\ meta \in [Groups -> Items]
      BY <3>1 DEF IInv, StoreType
    <3>3. meta'[g].state = to
      BY <2>1, <3>1, <3>2 DEF Move, WriteMeta, Items
    <3>4. press'[p].group = g /\ press'[p].action = press[p].action
      BY <3>1, OnePress
    <3>5. Rank(to) \in 0 .. 3
      BY <1>a, RankFacts DEF States
    <3> HIDE DEF g
    <3> QED BY <3>3, <3>4, <3>5 DEF Reached, Target
  <2>2. CASE Reread(p)
    <3>1. Reached(p) /\ press[p].pc # "idle"
      BY <2>2 DEF Reread, PressAt, ReachedInv
    <3> QED BY <3>1, OnePress, ReachedStays
  <2> QED BY <1>3, <2>1, <2>2, WinsByMoving
<1>4. ASSUME press'[p].pc = "reread" PROVE Reached(p)'
  <2>1. Update(p) /\ ~ CanMove(g, to)
    <3>1. \A pc \in Handler \cup {"update", "done"} : PressStep(p, pc) => press'[p].pc = pc
      BY <1>0 DEF PressStep, PressRecords
    <3>2. \A reply : Reply(p, reply) => press'[p].pc = "done"
      BY <1>0 DEF Reply, PressRecords
    <3>3. \A item : Moved(p, item) => press'[p].pc \in {"release", "timeline"}
      BY <1>0 DEF Moved, PressRecords
    <3>4. ~ \E action \in Actions, h \in Groups : \E m \in DOMAIN chat[h] : Press(p, action, h, m)
      BY <1>c, <1>4
    <3> QED BY <1>4, <3>1, <3>2, <3>3, <3>4
            DEF PressStepOf, CallbackSteps, HandlerSteps, Update, Reread, RereadAs, Release, LogPress, Rewrite,
                StopLadder, Answer, Redeliver, BestEffortFails, CallbackFails, Handler
  <2>2. press[p].pc # "idle" /\ g \in Groups
    BY <1>b, <2>1 DEF Update, PressAt
  <2>3. meta[g] \in Items /\ meta[g].state # Absent
    BY <2>2 DEF IInv, StoreType, ExistInv, PressedExists, Exists
  <2>4. Reached(p)
    BY <1>a, <2>1, <2>2, <2>3, NotReached DEF CanMove, Reached
  <2> QED BY <2>2, <2>4, OnePress, ReachedStays
<1>5. ASSUME press'[p].reply = "ok"
      PROVE  press'[p].pc = "done"
  <2>1. CASE press[p].reply = "ok"
    <3>1. press[p].pc = "done"
      BY <2>1 DEF ReachedInv
    <3> QED BY <2>1, <3>1
            DEF PressStepOf, Press, CallbackSteps, HandlerSteps, Update, Reread, RereadAs, Release, LogPress, Rewrite,
                StopLadder, Answer, Redeliver, BestEffortFails, CallbackFails, PressAt, Handler
  <2>2. CASE press[p].reply # "ok"
    <3>1. \A pc : PressStep(p, pc) => press'[p].reply = press[p].reply
      BY <1>0 DEF PressStep, PressRecords
    <3>2. \A reply : Reply(p, reply) => press'[p].pc = "done"
      BY <1>0 DEF Reply, PressRecords
    <3>3. \A item : Moved(p, item) => press'[p].reply = press[p].reply
      BY <1>0 DEF Moved, PressRecords
    <3>4. ~ \E action \in Actions, h \in Groups : \E m \in DOMAIN chat[h] : Press(p, action, h, m)
      BY <1>c, <1>5, <2>2
    <3> QED BY <1>5, <2>2, <3>1, <3>2, <3>3, <3>4
            DEF PressStepOf, CallbackSteps, HandlerSteps, Update, Reread, RereadAs, Release, LogPress, Rewrite,
                StopLadder, Answer, Redeliver, BestEffortFails, CallbackFails
  <2> QED BY <2>1, <2>2
<1>6. ASSUME NEW q \in Presses, q # p, press'[q].reply = "ok"
      PROVE  press'[q].pc = "done"
  BY <1>6, OnePress DEF ReachedInv
<1> QED BY <1>1, <1>2, <1>3, <1>4, <1>5, <1>6 DEF ReachedInv

(* A press that has won stays misled, or not. *)
LEMMA WonKeeps ==
    ASSUME IInv, ReachedInv, NEW p \in Presses, PressStepOf(p), Won(p)
    PROVE  press'[p].misled = press[p].misled
<1>0. press \in [Presses -> PressRecords] /\ press[p] \in PressRecords
  BY DEF IInv, PressInv, CallbackType
<1>1. press[p].pc \notin {"idle", "update", "reread"}
  BY DEF Won, ReachedInv
<1>2. \/ \E pc : PressStep(p, pc)
      \/ \E reply : Reply(p, reply)
  BY <1>1 DEF PressStepOf, Press, CallbackSteps, HandlerSteps, Update, Reread, Release, LogPress,
              Rewrite, StopLadder, Answer, Redeliver, BestEffortFails, CallbackFails, PressAt
<1> QED BY <1>0, <1>2 DEF PressStep, Reply, PressRecords

(* A press that wins where another one has won already was misled. *)
LEMMA SecondIsMisled ==
    ASSUME IInv, ReachedInv, NEW p \in Presses, PressStepOf(p), Won(p)', ~ Won(p), Reached(p)
    PROVE  press'[p].misled
<1> DEFINE g == press[p].group
           to == Target(press[p].action)
<1>0. press \in [Presses -> PressRecords] /\ press[p] \in PressRecords
  BY DEF IInv, PressInv, CallbackType
<1>1. press[p].pc # "idle"
  BY WinsByMoving DEF Update, Reread, PressAt
<1>2. g \in Groups /\ to \in {Acked, Resolved}
  BY <1>1 DEF IInv, PressInv, PressOK, Target
<1>3. meta[g] \in Items /\ meta[g].state \in States \cup {Absent} /\ Rank(to) <= Rank(meta[g].state)
  BY <1>2, ItemFacts DEF IInv, StoreType, Reached
<1>4. meta[g].state \notin Allowed(to)
  BY <1>2, <1>3, NotReached
<1>5. PICK item \in Get(g) : Moved(p, item) /\ Transition(item.state, to) = "nil"
  BY <1>4, WinsByMoving DEF CanMove
<1>6. Transition(meta[g].state, to) # "nil"
  BY <1>2, <1>3, <1>4, MoveFacts
<1>7. item.state # meta[g].state
  BY <1>5, <1>6
<1> QED BY <1>0, <1>5, <1>7 DEF Moved, PressRecords

LEMMA PressSole ==
    ASSUME IInv, ReachedInv, SoleInv, NEW p \in Presses, PressStepOf(p)
    PROVE  SoleInv'
<1> SUFFICES ASSUME NEW q \in Presses, NEW r \in Presses, q # r,
                    Won(q)', Won(r)', press'[q].group = press'[r].group,
                    Target(press'[q].action) = Target(press'[r].action)
             PROVE  press'[q].misled \/ press'[r].misled
  BY DEF SoleInv, Target
<1>1. ASSUME NEW s \in Presses, s # p, Won(p)', Won(s)', press'[s].group = press'[p].group,
             Target(press'[s].action) = Target(press'[p].action)
      PROVE  press'[s].misled \/ press'[p].misled
  <2>1. press'[s] = press[s] /\ Won(s)
    BY <1>1, OnePress DEF Won
  <2>2. press[p].pc # "idle"
    <3>1. CASE Won(p)
      BY <3>1 DEF Won, ReachedInv
    <3>2. CASE ~ Won(p)
      BY <1>1, <3>2, WinsByMoving DEF Update, Reread, PressAt
    <3> QED BY <3>1, <3>2
  <2>3. press[s].group = press[p].group /\ Target(press[s].action) = Target(press[p].action)
    BY <1>1, <2>1, <2>2, OnePress
  <2>4. CASE Won(p)
    BY <1>1, <2>1, <2>3, <2>4, WonKeeps DEF SoleInv
  <2>5. CASE ~ Won(p)
    <3>1. Reached(p)
      BY <2>1, <2>3 DEF ReachedInv, Reached
    <3> QED BY <1>1, <2>5, <3>1, SecondIsMisled
  <2> QED BY <2>4, <2>5
<1>2. CASE q # p /\ r # p
  <2>1. press'[q] = press[q] /\ press'[r] = press[r]
    BY <1>2, OnePress
  <2> QED BY <2>1 DEF SoleInv, Won
<1> QED BY <1>1, <1>2

(* What a press was told is so. *)
AnswerInv ==
    \A p \in Presses :
        /\ press[p].reply # "none" => press[p].pc # "idle"
        /\ press[p].reply = "repeat" => Reached(p)
        /\ press[p].reply = "conflict" => meta[press[p].group].state = Resolved

LEMMA ResolvedStays ==
    ASSUME IInv, IInv', Ahead, NEW g \in Groups, meta[g].state = Resolved
    PROVE  meta'[g].state = Resolved
<1>1. meta'[g].state \in States \cup {Absent}
  BY ItemFacts DEF IInv, StoreType, Groups
<1>2. Rank(Resolved) <= Rank(meta'[g].state)
  BY DEF Ahead
<1>3. meta'[g].state \in {Firing, Acked, Resolved, Absent}
  BY <1>1 DEF States
<1> QED BY <1>2, <1>3, RankFacts

LEMMA OldAnswer ==
    ASSUME IInv, IInv', Ahead, AnswerInv, NEW p \in Presses, press[p].pc # "idle",
           press'[p].pc # "idle", press'[p].reply = press[p].reply,
           press'[p].group = press[p].group, press'[p].action = press[p].action
    PROVE  /\ press'[p].reply # "none" => press'[p].pc # "idle"
           /\ press'[p].reply = "repeat" => Reached(p)'
           /\ press'[p].reply = "conflict" => meta'[press'[p].group].state = Resolved
<1>1. press[p].group \in Groups
  BY DEF IInv, PressInv, PressOK
<1> QED BY <1>1, ReachedStays, ResolvedStays DEF AnswerInv

LEMMA QuietAnswer ==
    ASSUME IInv, IInv', Ahead, AnswerInv, UNCHANGED press
    PROVE  AnswerInv'
<1> SUFFICES ASSUME NEW p \in Presses
             PROVE  /\ press'[p].reply # "none" => press'[p].pc # "idle"
                    /\ press'[p].reply = "repeat" => Reached(p)'
                    /\ press'[p].reply = "conflict" => meta'[press'[p].group].state = Resolved
  BY DEF AnswerInv
<1>1. CASE press[p].pc = "idle"
  BY <1>1 DEF AnswerInv
<1>2. CASE press[p].pc # "idle"
  BY <1>2, OldAnswer
<1> QED BY <1>1, <1>2

LEMMA PressAnswer ==
    ASSUME IInv, IInv', Ahead, TableInv, ReachedInv, AnswerInv, NEW p \in Presses, PressStepOf(p)
    PROVE  AnswerInv'
<1>0. press \in [Presses -> PressRecords] /\ press[p] \in PressRecords
  BY DEF IInv, PressInv, CallbackType
<1> SUFFICES ASSUME NEW q \in Presses
             PROVE  /\ press'[q].reply # "none" => press'[q].pc # "idle"
                    /\ press'[q].reply = "repeat" => Reached(q)'
                    /\ press'[q].reply = "conflict" => meta'[press'[q].group].state = Resolved
  BY DEF AnswerInv
<1>1. CASE q # p
  <2>1. press'[q] = press[q]
    BY <1>1, OnePress
  <2>2. CASE press[q].pc = "idle"
    BY <2>1, <2>2 DEF AnswerInv
  <2> QED BY <2>1, <2>2, OldAnswer
<1>2. CASE q = p /\ press[p].pc = "idle"
  <2>1. PICK action \in Actions, g \in Groups : \E m \in DOMAIN chat[g] : Press(p, action, g, m)
    BY <1>2 DEF PressStepOf, CallbackSteps, HandlerSteps, Update, Reread, Release, LogPress, Rewrite,
                StopLadder, Answer, Redeliver, BestEffortFails, CallbackFails, PressAt, Handler
  <2>2. press'[p].reply = press[p].reply
    BY <1>0, <2>1 DEF Press, PressRecords
  <2>3. press[p].reply = "none"
    BY <1>2 DEF AnswerInv
  <2> QED BY <1>2, <2>2, <2>3
<1>3. CASE q = p /\ press[p].pc # "idle"
  <2>1. press'[p].group = press[p].group /\ press'[p].action = press[p].action
    BY <1>3, OnePress
  <2>2. press[p].group \in Groups
    BY <1>3 DEF IInv, PressInv, PressOK
  <2>3. CASE press'[p].reply = press[p].reply /\ press'[p].pc # "idle"
    BY <1>3, <2>1, <2>3, OldAnswer
  <2>4. CASE Reply(p, "ok") \/ Reply(p, "error")
    BY <1>0, <1>3, <2>4 DEF Reply, PressRecords
  <2>5. CASE Reread(p) /\ Reply(p, "repeat")
    <3>1. Reached(p)
      BY <2>5 DEF Reread, PressAt, ReachedInv
    <3>2. press'[p].reply = "repeat" /\ press'[p].pc = "done"
      BY <1>0, <2>5 DEF Reply, PressRecords
    <3> QED BY <1>3, <2>1, <3>1, <3>2, ReachedStays
  <2>6. ASSUME NEW item \in Get(press[p].group), item.state # Absent,
               Transition(item.state, Target(press[p].action)) = "invalid", Reply(p, "conflict")
        PROVE  /\ press'[p].reply = "conflict" /\ press'[p].pc = "done"
               /\ meta'[press'[p].group].state = Resolved
    <3>1. press'[p].reply = "conflict" /\ press'[p].pc = "done"
      BY <1>0, <2>6 DEF Reply, PressRecords
    <3>2. /\ item.state \in {Absent, Firing, Acked, Resolved}
          /\ Rank(item.state) <= Rank(meta[press[p].group].state)
          /\ meta[press[p].group].state \in {Absent, Firing, Acked, Resolved}
      BY <2>2, GetBehind
    <3>3. item.state = Resolved
      BY <2>6, <3>2 DEF Transition, Moves, Target, Absent, Firing, Acked, Resolved
    <3>4. meta[press[p].group].state = Resolved
      BY <3>2, <3>3, RankFacts
    <3> QED BY <2>1, <2>2, <3>1, <3>4, ResolvedStays
  <2>7. CASE Reread(p)
    <3>1. PICK item \in Get(press[p].group) :
             \/ Reply(p, "error") \/ Reply(p, "repeat")
             \/ /\ item.state # Absent
                /\ Transition(item.state, Target(press[p].action)) = "invalid"
                /\ Reply(p, "conflict")
             \/ Moved(p, item)
      BY <2>7 DEF Reread, RereadAs
    <3>2. CASE Moved(p, item)
      <4>1. press'[p].reply = press[p].reply /\ press'[p].pc \in {"release", "timeline"}
        BY <1>0, <3>2 DEF Moved, PressRecords
      <4> QED BY <2>3, <4>1
    <3> QED BY <1>3, <2>4, <2>5, <2>6, <2>7, <3>1, <3>2
  <2>8. CASE ~ Reread(p)
    <3>1. \/ \E pc \in Handler : PressStep(p, pc)
          \/ Moved(p, meta[press[p].group])
          \/ Reply(p, "ok") \/ Reply(p, "error")
      BY <1>3, <2>8 DEF PressStepOf, Press, CallbackSteps, HandlerSteps, Update, Release, LogPress,
                        Rewrite, StopLadder, Answer, Redeliver, BestEffortFails, CallbackFails,
                        PressAt, Handler
    <3>2. CASE \E pc \in Handler : PressStep(p, pc)
      <4>1. press'[p].reply = press[p].reply /\ press'[p].pc # "idle"
        BY <1>0, <3>2 DEF PressStep, PressRecords, Handler
      <4> QED BY <2>3, <4>1
    <3>3. CASE Moved(p, meta[press[p].group])
      <4>1. press'[p].reply = press[p].reply /\ press'[p].pc # "idle"
        BY <1>0, <3>3 DEF Moved, PressRecords
      <4> QED BY <2>3, <4>1
    <3> QED BY <2>4, <3>1, <3>2, <3>3
  <2> QED BY <1>3, <2>7, <2>8
<1> QED BY <1>1, <1>2, <1>3

-----------------------------------------------------------------------------
LEMMA InitHandled == Init => HandledInv
<1> SUFFICES ASSUME Init PROVE HandledInv
  OBVIOUS
<1>1. ExistInv
  BY DEF Init, EscInit, CallbackInit, ExistInv, PagedExists, PressedExists, NoExec, PastCheck
<1>2. ReachedInv /\ SoleInv
  BY DEF Init, CallbackInit, ReachedInv, SoleInv, Won
<1> QED BY <1>1, <1>2 DEF HandledInv

LEMMA StepHandled ==
    ASSUME IInv, Paced, TableInv, HandledInv, [Next]_vars
    PROVE  HandledInv'
<1>0. IInv' /\ Ahead
  BY StepIInv, StepTable
<1> USE <1>0 DEF HandledInv
<1>1. CASE StoreNext
  BY <1>1, QuietExist, QuietReached DEF StoreNext, escVars
<1>2. CASE LadderNext
  BY <1>2, LadderExist, QuietReached DEF LadderNext, EscNext
<1>3. CASE WorkerNext
  BY <1>3, WorkerExist, QuietReached DEF WorkerNext, ProcNext
<1>4. CASE PressNext
  <2>1. PICK p \in Presses : PressStepOf(p)
    BY <1>4 DEF PressNext, CallbackNext, PressStepOf
  <2> QED BY <2>1, PressExist, PressReached, PressSole
<1>5. CASE UNCHANGED vars
  BY <1>5, QuietExist, QuietReached DEF vars, escVars
<1> QED BY <1>1, <1>2, <1>3, <1>4, <1>5 DEF Next

(* However many people press at once, and however often Telegram delivers a query *)
(* again, one of them is told it acked or silenced an incident, and one that it    *)
(* resolved it, but for a press whose second read a lagging replica answered.      *)
THEOREM OnePersonWins ==
    ASSUME Paced
    PROVE  Spec => []OneWinner
<1>1. IInv /\ TableInv /\ HandledInv /\ [Next]_vars => TableInv' /\ HandledInv'
  BY StepTable, StepHandled
<1>2. HandledInv => OneWinner
  BY DEF HandledInv, SoleInv, OneWinner, Winners, Won
<1> QED BY InitIInv, StepIInv, InitTable, InitHandled, <1>1, <1>2, PTL DEF Spec

(* Whatever replica answers the second read, and whatever fails and is delivered   *)
(* again, nobody is told that an incident is handled, or is over, when it is not.   *)
THEOREM NobodyIsToldTooMuch ==
    ASSUME Paced
    PROVE  Spec => []AnswersAreTrue
<1>1. Init => AnswerInv
  BY DEF Init, CallbackInit, AnswerInv
<1>2. ASSUME IInv, TableInv, HandledInv, AnswerInv, [Next]_vars
      PROVE  TableInv' /\ HandledInv' /\ AnswerInv'
  <2>0. IInv' /\ Ahead /\ TableInv' /\ HandledInv'
    BY <1>2, StepIInv, StepTable, StepHandled
  <2>1. CASE PressNext
    <3>1. PICK p \in Presses : PressStepOf(p)
      BY <2>1 DEF PressNext, CallbackNext, PressStepOf
    <3> QED BY <1>2, <2>0, <3>1, PressAnswer DEF HandledInv
  <2>2. CASE ~ PressNext
    <3>1. UNCHANGED press
      BY <1>2, <2>2 DEF Next, StoreNext, LadderNext, WorkerNext, vars
    <3> QED BY <1>2, <2>0, <3>1, QuietAnswer
  <2> QED BY <2>1, <2>2
<1>3. IInv /\ HandledInv /\ AnswerInv => AnswersAreTrue
  <2> SUFFICES ASSUME IInv, HandledInv, AnswerInv, NEW p \in Presses,
                      press[p].reply \in {"ok", "repeat", "conflict"}
               PROVE  /\ press[p].reply \in {"ok", "repeat"}
                            => Rank(meta[press[p].group].state) >= Rank(Target(press[p].action))
                      /\ press[p].reply = "conflict" => meta[press[p].group].state = Resolved
    BY DEF AnswersAreTrue
  <2>1. press[p].group \in Groups
    BY DEF AnswerInv, IInv, PressInv, PressOK
  <2>2. meta[press[p].group].state \in States \cup {Absent} /\ Target(press[p].action) \in States \cup {Absent}
    BY <2>1, ItemFacts DEF IInv, StoreType, Target, States
  <2>3. Rank(meta[press[p].group].state) \in 0 .. 3 /\ Rank(Target(press[p].action)) \in 0 .. 3
    BY <2>2, RankFacts
  <2>4. press[p].reply \in {"ok", "repeat"} => Reached(p)
    BY DEF AnswerInv, HandledInv, ReachedInv, Won
  <2> QED BY <2>3, <2>4 DEF AnswerInv, Reached
<1> QED BY InitIInv, StepIInv, InitTable, InitHandled, <1>1, <1>2, <1>3, PTL DEF Spec

-----------------------------------------------------------------------------
(* With one routing key there is one worker, and between its conditional update   *)
(* and its reread nobody opens the group it looks at.                             *)
OneKey == \A j, k \in Keys : j = k

ClosedInv ==
    \A k \in Keys :
        /\ worker[k].pc = "reread" => meta[worker[k].group].state \in {Absent, Resolved}
        /\ Closes(k) => meta[worker[k].group].state = Resolved

LEMMA EndStays ==
    ASSUME IInv, IInv', Ahead, OpensNone, NEW g \in Groups
    PROVE  /\ meta[g].state \in {Absent, Resolved} => meta'[g].state \in {Absent, Resolved}
           /\ meta[g].state = Resolved => meta'[g].state = Resolved
           /\ meta[g].state \in {Acked, Resolved} => meta'[g].state \in {Acked, Resolved}
<1>1. meta[g].state \in States \cup {Absent} /\ meta'[g].state \in States \cup {Absent}
  BY ItemFacts DEF IInv, StoreType, Groups
<1>2. Rank(meta[g].state) <= Rank(meta'[g].state)
  BY DEF Ahead
<1>3. meta[g].state = Absent => meta'[g].state = Absent
  BY DEF OpensNone
<1>4. meta'[g].state \in {Firing, Acked, Resolved, Absent}
  BY <1>1 DEF States
<1> QED BY <1>2, <1>3, <1>4, RankFacts

LEMMA QuietClosed ==
    ASSUME IInv, IInv', Ahead, OpensNone, ClosedInv, UNCHANGED worker
    PROVE  ClosedInv'
<1>1. \A k \in Keys : worker[k].pc = "reread" \/ Closes(k) => worker[k].group \in Groups
  BY DEF IInv, WorkInv, WorkerOK, Closes
<1> QED BY <1>1, EndStays DEF ClosedInv, Closes

LEMMA WorkerClosed ==
    ASSUME IInv, TableInv, ClosedInv, NEW k \in Keys,
           \/ \E e \in Envelopes : Publish(k, e)
           \/ ProcSteps(k) \/ WorkerFails(k) \/ LookupFails(k)
    PROVE  /\ worker'[k].pc = "reread" => meta'[worker'[k].group].state \in {Absent, Resolved}
           /\ Closes(k)' => meta'[worker'[k].group].state = Resolved
<1> DEFINE g == worker[k].group
<1>0. /\ worker \in [Keys -> Workers] /\ worker[k] \in Workers
      /\ meta \in [Groups -> Items]
  BY DEF IInv, WorkInv, ProcType, StoreType
<1>1. ASSUME NEW pc, Step(k, pc)
      PROVE  worker'[k].pc = pc /\ worker'[k].group = g
  BY <1>0, <1>1 DEF Step, Workers
<1>2. ASSUME Abandon(k) \/ BatchDone(k) \/ BatchDoneAs(k, "dropped")
      PROVE  worker'[k].pc \notin {"reread", "release", "stop", "closed"}
  <2>1. CASE worker' = [worker EXCEPT ![k] = IdleWorker]
    BY <1>0, <2>1 DEF IdleWorker
  <2>2. CASE \E e, i : worker' = [worker EXCEPT ![k] = BatchStart(e, i)]
    BY <1>0, <2>2 DEF BatchStart
  <2> QED BY <1>2, <2>1, <2>2 DEF Abandon, BatchDone, BatchDoneAs
<1>3. CASE CloseUpdate(k)
  <2>1. g \in Groups
    BY <1>3 DEF CloseUpdate, At, IInv, WorkInv, WorkerOK
  <2>2. meta[g] \in Items /\ meta[g].state \in States \cup {Absent}
    BY <1>0, <2>1, ItemFacts
  <2>3. CASE Move(g, Resolved) /\ worker' = [worker EXCEPT ![k].pc = "release", ![k].arn = meta[g].arn]
    <3>1. meta'[g].state = Resolved
      BY <1>0, <2>1, <2>2, <2>3 DEF Move, WriteMeta, Items
    <3>2. worker'[k].pc = "release" /\ worker'[k].group = g
      BY <1>0, <2>3 DEF Workers
    <3> QED BY <3>1, <3>2
  <2>4. CASE ~ CanMove(g, Resolved) /\ Step(k, "reread") /\ UNCHANGED <<meta, past>>
    <3>1. meta[g].state \in {Absent, Resolved}
      BY <2>2, <2>4 DEF CanMove, Allowed, Transition, Moves, States, Firing, Acked, Resolved, Absent
    <3>2. worker'[k].pc = "reread" /\ worker'[k].group = g
      BY <1>1, <2>4
    <3> QED BY <2>4, <3>1, <3>2 DEF Closes
  <2> QED BY <1>3, <2>3, <2>4 DEF CloseUpdate
<1>4. CASE CloseReread(k)
  <2>1. g \in Groups /\ worker[k].pc = "reread" /\ UNCHANGED meta
    BY <1>4 DEF CloseReread, At, IInv, WorkInv, WorkerOK, storeVars
  <2>2. meta[g].state \in {Absent, Resolved}
    BY <2>1 DEF ClosedInv
  <2>3. PICK item \in Get(g) :
          \/ Abandon(k) \/ BatchDone(k)
          \/ /\ item.state # Absent
             /\ worker' = [worker EXCEPT ![k].pc = "release", ![k].arn = item.arn]
    BY <1>4 DEF CloseReread
  <2>4. CASE /\ item.state # Absent
             /\ worker' = [worker EXCEPT ![k].pc = "release", ![k].arn = item.arn]
    <3>1. meta[g].state # Absent
      BY <2>1, <2>4, GetBehind, RankFacts
    <3>2. worker'[k].pc = "release" /\ worker'[k].group = g
      BY <1>0, <2>4 DEF Workers
    <3> QED BY <2>1, <2>2, <3>1, <3>2
  <2> QED BY <1>2, <2>1, <2>3, <2>4 DEF Closes
<1>5. CASE CloseRelease(k) \/ CloseStop(k)
  <2>1. UNCHANGED meta /\ Closes(k) /\ \E pc \in {"stop", "closed"} : Step(k, pc)
    BY <1>5 DEF CloseRelease, CloseStop, Closes, At, storeVars
  <2>2. worker'[k].group = g /\ worker'[k].pc # "reread"
    BY <1>1, <2>1
  <2> QED BY <2>1, <2>2 DEF ClosedInv
<1>6. CASE CloseDone(k) \/ ApplyDone(k) \/ WorkerFails(k) \/ LookupFails(k)
  BY <1>2, <1>6 DEF CloseDone, ApplyDone, WorkerFails, LookupFails, Closes
<1>7. CASE Claim(k) \/ Increment(k) \/ Reclaim(k) \/ Put(k) \/ LogOpened(k) \/ Start(k) \/ KeepExecution(k)
  <2>1. \E pc \in {"put", "target", "joined", "reclaim", "opened", "start", "setExecution", "started"} :
            Step(k, pc)
    BY <1>7 DEF Claim, Increment, Reclaim, Put, LogOpened, Start, KeepExecution
  <2> QED BY <1>1, <2>1 DEF Closes
<1>8. CASE PointerTarget(k) \/ Lookup(k)
  <2>1. CASE \E pc \in {"increment", "resolve"} :
                worker' = [worker EXCEPT ![k].pc = pc, ![k].group = pointer[Batch(k).fp]]
    BY <1>0, <2>1 DEF Closes, Workers
  <2> QED BY <1>2, <1>8, <2>1 DEF PointerTarget, Lookup, At, Closes
<1>9. CASE Receive(k)
  <2>1. worker'[k] = BatchStart(Head(queue[k]), 1)
    BY <1>0, <1>9 DEF Receive
  <2> QED BY <2>1 DEF BatchStart, Closes
<1>10. CASE \E e \in Envelopes : Publish(k, e)
  BY <1>10 DEF Publish, storeVars, ClosedInv, Closes
<1> QED BY <1>3, <1>4, <1>5, <1>6, <1>7, <1>8, <1>9, <1>10 DEF ProcSteps, ApplySteps, CloseSteps

LEMMA StepClosed ==
    ASSUME IInv, Paced, OneKey, TableInv, ClosedInv, [Next]_vars
    PROVE  ClosedInv'
<1>0. IInv'
  BY StepIInv
<1>1. CASE StoreNext
  BY <1>0, <1>1, StoreTable, QuietClosed DEF StoreNext, procVars, TableInv
<1>2. CASE LadderNext
  BY <1>0, <1>2, LadderTable, QuietClosed DEF LadderNext, EscNext, procVars, TableInv
<1>3. CASE WorkerNext
  <2>1. PICK k \in Keys :
           \/ \E e \in Envelopes : Publish(k, e)
           \/ ProcSteps(k) \/ WorkerFails(k) \/ LookupFails(k)
    BY <1>3 DEF WorkerNext, ProcNext
  <2>2. \A j \in Keys : j = k
    BY DEF OneKey
  <2> QED BY <2>1, <2>2, WorkerClosed DEF ClosedInv
<1>4. CASE PressNext
  BY <1>0, <1>4, PressTable, QuietClosed DEF PressNext, CallbackNext, procVars, TableInv
<1>5. CASE UNCHANGED vars
  BY <1>0, <1>5, QuietAhead, QuietClosed DEF vars, storeVars, procVars, TableInv, IInv
<1> QED BY <1>1, <1>2, <1>3, <1>4, <1>5 DEF Next

(* A worker that releases a fingerprint, stops a ladder and reports an incident     *)
(* closed works on one that is resolved, however a lagging replica answered the   *)
(* Get by which it told "already closed" from "not found": as long as the alerts    *)
(* about an incident come under one routing key and at a sane pace.                 *)
THEOREM ClosesWhatIsResolved ==
    ASSUME Paced, OneKey
    PROVE  Spec => []ClosedMeansResolved
<1>1. Init => ClosedInv
  BY DEF Init, ProcInit, IdleWorker, ClosedInv, Closes
<1>2. IInv /\ TableInv /\ ClosedInv /\ [Next]_vars => TableInv' /\ ClosedInv'
  BY StepTable, StepClosed
<1>3. ClosedInv => ClosedMeansResolved
  BY DEF ClosedInv, ClosedMeansResolved
<1> QED BY InitIInv, StepIInv, InitTable, <1>1, <1>2, <1>3, PTL DEF Spec

-----------------------------------------------------------------------------
(* What becomes of one execution. *)
Handled(g) == meta[g].state \in {Acked, Resolved}

(* Its ladder has given up by itself, though its policy has a step left. *)
Quit(g) == exec[g].status = "succeeded" /\ HasStep(exec[g].level)

Cut(g) == exec[g].status = "aborted" \/ Quit(g)

LEMMA HandledStays ==
    ASSUME IInv, IInv', Ahead, NEW g \in Groups, Handled(g)
    PROVE  Handled(g)'
<1>1. meta[g].state \in States \cup {Absent} /\ meta'[g].state \in States \cup {Absent}
  BY ItemFacts DEF IInv, StoreType, Groups
<1>2. Rank(meta[g].state) <= Rank(meta'[g].state)
  BY DEF Ahead
<1>3. meta'[g].state \in {Firing, Acked, Resolved, Absent}
  BY <1>1 DEF States
<1> QED BY <1>2, <1>3, RankFacts DEF Handled

LEMMA QuietCut ==
    ASSUME IInv, IInv', Ahead, StoppedOnlyWhenHandled,
           \A g \in Groups : Cut(g)' => Cut(g) \/ Handled(g)
    PROVE  StoppedOnlyWhenHandled'
<1>1. ASSUME NEW g \in Groups, Cut(g)' PROVE Handled(g)'
  <2>1. Cut(g) => Handled(g)
    BY DEF StoppedOnlyWhenHandled, Cut, Quit, Handled
  <2> QED BY <1>1, <2>1, HandledStays
<1> QED BY <1>1 DEF StoppedOnlyWhenHandled, Cut, Quit, Handled, Groups

(* A stop cuts the ladder of one group. *)
LEMMA StopCut ==
    ASSUME IInv, NEW h \in Groups, NEW arn \in BOOLEAN, StopExecution(h, arn), Handled(h),
           NEW g \in Groups, Cut(g)'
    PROVE  Cut(g) \/ Handled(g)
<1>1. exec \in [Groups -> Executions]
  BY DEF IInv, LadderInv, EscType
<1>2. CASE g = h
  BY <1>2
<1>3. CASE g # h
  BY <1>1, <1>3 DEF StopExecution, Cut, Quit, HasStep, Top
<1> QED BY <1>2, <1>3

(* A rung aborts nothing, and a ladder quits only when its incident is handled. *)
LEMMA RungCut ==
    ASSUME IInv, TableInv, NEW h \in Groups, EscSteps(h) \/ EscFaults(h), NEW g \in Groups
    PROVE  /\ Quit(g)' => Quit(g) \/ Handled(g)
           /\ Cut(g)' => Cut(g) \/ Handled(g)
<1>0. /\ exec \in [Groups -> Executions] /\ exec[g] \in Executions
      /\ meta \in [Groups -> Items]
  BY DEF IInv, LadderInv, EscType, StoreType
<1>1. CASE g # h
  BY <1>1, OtherRungs DEF Cut, Quit, HasStep, Top
<1>2. CASE g = h /\ CheckGroup(h)
  <2>1. PICK item \in Get(g) :
          \/ Checked(g, item, "none", "failed")
          \/ item.state \in {Acked, Resolved} /\ Checked(g, item, "none", "succeeded")
          \/ ~ HasStep(exec[g].level) /\ Checked(g, item, "none", "succeeded")
          \/ Checked(g, item, "send", "running")
    BY <1>2 DEF CheckGroup
  <2>2. exec'[g].level = exec[g].level
    BY <2>1, CheckedFacts DEF IInv
  <2>3. HasStep(exec'[g].level) = HasStep(exec[g].level)
    BY <2>2 DEF HasStep, Top
  <2>4. \/ exec'[g].status \in {exec[g].status, "failed", "running"}
        \/ exec'[g].status = "succeeded" /\ (item.state \in {Acked, Resolved} \/ ~ HasStep(exec[g].level))
    BY <2>1, CheckedFacts DEF IInv
  <2>5. item.state \in {Acked, Resolved} => Handled(g)
    BY GetBehind, RankFacts DEF Handled, Firing, Acked, Resolved, Absent
  <2>6. Quit(g)' <=> exec'[g].status = "succeeded" /\ HasStep(exec[g].level)
    BY <2>3 DEF Quit, HasStep, Top
  <2> QED BY <2>4, <2>5, <2>6 DEF Cut, Quit
<1>3. CASE g = h /\ ~ CheckGroup(h)
  <2>1. \/ exec'[g].status = "failed"
        \/ exec'[g].status = "running"
        \/ exec'[g].status = exec[g].status /\ exec'[g].level = exec[g].level
    BY <1>0, <1>3 DEF EscSteps, EscFaults, Send, Record, EndRung, WaitExpires, SendUnanswered, SendFails,
                 HandlerFails, Reinvoke, Finish, Goto, NextRung, Running, Executions
  <2> QED BY <2>1 DEF Cut, Quit, HasStep, Top
<1> QED BY <1>1, <1>2, <1>3

LEMMA StepStopped ==
    ASSUME IInv, Paced, TableInv, HandledInv, ClosedInv, StoppedOnlyWhenHandled, [Next]_vars
    PROVE  StoppedOnlyWhenHandled'
<1>0. IInv' /\ Ahead
  BY StepIInv, StepTable
<1> SUFFICES ASSUME NEW g \in Groups, Cut(g)' PROVE Cut(g) \/ Handled(g)
  BY <1>0, QuietCut
<1>1. CASE UNCHANGED exec
  BY <1>1 DEF Cut, Quit, HasStep, Top
<1>2. CASE LadderNext
  BY <1>2, RungCut DEF LadderNext, EscNext
<1>3. CASE WorkerNext
  <2>1. PICK k \in Keys :
           \/ \E e \in Envelopes : Publish(k, e)
           \/ ProcSteps(k) \/ WorkerFails(k) \/ LookupFails(k)
    BY <1>3 DEF WorkerNext, ProcNext
  <2>2. UNCHANGED exec \/ Start(k) \/ CloseStop(k)
    BY <2>1 DEF Publish, WorkerFails, LookupFails, ProcSteps, Receive, ApplySteps, Claim, PointerTarget, Increment,
           Reclaim, Put, LogOpened, KeepExecution, ApplyDone, CloseSteps, Lookup, CloseUpdate,
           CloseReread, CloseRelease, CloseDone, escVars
  <2>3. CASE Start(k)
    <3>1. exec \in [Groups -> Executions]
      BY DEF IInv, LadderInv, EscType
    <3> QED BY <2>3, <3>1, NewExecFacts DEF Start, StartExecution, Cut, Quit, HasStep, Top
  <2>4. CASE CloseStop(k)
    <3>1. /\ worker[k].group \in Groups /\ worker[k].arn \in BOOLEAN
          /\ StopExecution(worker[k].group, worker[k].arn)
      BY <2>4 DEF CloseStop, At, IInv, WorkInv, WorkerOK, ProcType, Workers
    <3>2. Handled(worker[k].group)
      BY <2>4 DEF CloseStop, At, Closes, ClosedInv, Handled
    <3> QED BY <3>1, <3>2, StopCut
  <2> QED BY <1>1, <2>2, <2>3, <2>4
<1>4. CASE PressNext
  <2>1. PICK p \in Presses : PressStepOf(p)
    BY <1>4 DEF PressNext, CallbackNext, PressStepOf
  <2>2. CASE StopLadder(p)
    <3>1. /\ press[p].group \in Groups /\ press[p].arn \in BOOLEAN
          /\ StopExecution(press[p].group, press[p].arn)
      BY <2>2 DEF StopLadder, PressAt, IInv, PressInv, PressOK, CallbackType, PressRecords
    <3>2. Reached(p)
      BY <2>2 DEF StopLadder, PressAt, HandledInv, ReachedInv, Won
    <3>3. meta[press[p].group].state \in {Firing, Acked, Resolved, Absent}
      BY <3>1, ItemFacts DEF IInv, StoreType, States
    <3>4. Handled(press[p].group)
      BY <3>2, <3>3, RankFacts DEF Reached, Target, Handled
    <3> QED BY <3>1, <3>4, StopCut
  <2>3. CASE ~ StopLadder(p)
    <3>1. UNCHANGED exec
      BY <2>1, <2>3 DEF PressStepOf, Press, CallbackSteps, HandlerSteps, Update, Reread, RereadAs, Release, LogPress,
                  Rewrite, Answer, Redeliver, BestEffortFails, CallbackFails, escVars
    <3> QED BY <1>1, <3>1
  <2> QED BY <2>2, <2>3
<1>5. CASE StoreNext \/ UNCHANGED vars
  BY <1>1, <1>5 DEF StoreNext, escVars, vars
<1> QED BY <1>2, <1>3, <1>4, <1>5 DEF Next

(* A ladder is stopped, or ends itself before its last repeat, only because somebody *)
(* handled the incident, however presses, deliveries and lagging reads race: as long *)
(* as the alerts about it come under one routing key and at a sane pace.  A ladder    *)
(* that fails is another matter.                                                      *)
THEOREM SilenceIsEarned ==
    ASSUME Paced, OneKey
    PROVE  Spec => []StoppedOnlyWhenHandled
<1>1. Init => ClosedInv
  BY DEF Init, ProcInit, IdleWorker, ClosedInv, Closes
<1>2. Init => StoppedOnlyWhenHandled
  BY DEF Init, EscInit, NoExec, StoppedOnlyWhenHandled
<1>3. IInv /\ TableInv /\ HandledInv /\ ClosedInv /\ StoppedOnlyWhenHandled /\ [Next]_vars
         => TableInv' /\ HandledInv' /\ ClosedInv' /\ StoppedOnlyWhenHandled'
  BY StepTable, StepHandled, StepClosed, StepStopped
<1> QED BY InitIInv, StepIInv, InitTable, InitHandled, <1>1, <1>2, <1>3, PTL DEF Spec

-----------------------------------------------------------------------------
(* What the ladder has paged for.  A level is behind it once its page, or a failed *)
(* call, has been counted.                                                        *)
Climbed(g) ==
    /\ exec[g].status # "absent" => exec[g].level >= 1
    /\ exec[g].level <= Len(chat[g]) + faults + 1
    /\ exec[g].pc \in {"record", "notified", "notify_failed"} => exec[g].level <= Len(chat[g]) + faults

ClimbInv == \A g \in Groups : Climbed(g) /\ (Quit(g) => Handled(g))

LEMMA ClimbFacts ==
    ASSUME IInv, NEW g \in Groups
    PROVE  /\ exec[g] \in Executions /\ exec[g].level \in Nat /\ Len(chat[g]) \in Nat
           /\ chat[g] \in Seq(Messages) /\ faults \in Nat /\ exec \in [Groups -> Executions]
           /\ chat \in [Groups -> Seq(Messages)]
<1>1. /\ exec \in [Groups -> Executions] /\ chat \in [Groups -> Seq(Messages)]
      /\ exec[g] \in Executions /\ chat[g] \in Seq(Messages)
  BY DEF IInv, LadderInv, EscType
<1>2. faults \in Nat
  BY StoreAssumption DEF IInv, StoreType
<1> QED BY <1>1, <1>2, LadderAssumption DEF Executions, Top

(* A rung counts its level, or leaves it to be run again. *)
LEMMA RungCounts ==
    ASSUME IInv, TableInv, BoundInv, NEW g \in Groups, Climbed(g), EscSteps(g) \/ EscFaults(g)
    PROVE  Climbed(g)'
<1>0. /\ exec[g] \in Executions /\ exec[g].level \in Nat /\ Len(chat[g]) \in Nat
      /\ chat[g] \in Seq(Messages) /\ faults \in Nat /\ exec \in [Groups -> Executions]
      /\ chat \in [Groups -> Seq(Messages)]
  BY ClimbFacts
<1>1. exec[g].pc # "none" => exec[g].status # "absent" /\ exec[g].level >= 1
  BY DEF BoundInv, Paid, Climbed
<1>2. CASE CheckGroup(g)
  <2>1. UNCHANGED <<chat, faults>> /\ exec[g].pc = "get"
    BY <1>2 DEF CheckGroup
  <2>2. exec'[g].level = exec[g].level /\ exec'[g].pc \in {"none", "send"}
    <3>1. PICK item \in Get(g) :
              \/ \E status \in {"failed", "succeeded"} : Checked(g, item, "none", status)
              \/ item.state = Firing /\ HasStep(exec[g].level) /\ Checked(g, item, "send", "running")
      BY <1>2, CheckGroupReads
    <3> QED BY <3>1, CheckedFacts DEF IInv
  <2> QED BY <1>0, <1>1, <2>1, <2>2 DEF Climbed
<1>3. CASE Send(g) \/ SendUnanswered(g)
  <2>1. /\ chat'[g] = Append(chat[g], Page(g)) /\ faults' \in {faults, faults + 1}
        /\ exec[g].pc = "send" /\ exec'[g].level = exec[g].level
    BY <1>0, <1>3 DEF Send, SendUnanswered, Goto, Fault, Executions
  <2>2. Len(chat'[g]) = Len(chat[g]) + 1
    BY <1>0, <2>1
  <2> QED BY <1>0, <1>1, <2>1, <2>2 DEF Climbed
<1>4. CASE SendFails(g)
  <2>1. /\ UNCHANGED chat /\ faults' = faults + 1
        /\ exec[g].pc = "send" /\ exec'[g].level = exec[g].level
    BY <1>0, <1>4 DEF SendFails, Goto, Fault, Executions
  <2> QED BY <1>0, <1>1, <2>1 DEF Climbed
<1>5. CASE Record(g)
  <2>1. /\ UNCHANGED <<chat, faults>>
        /\ exec[g].pc = "record" /\ exec'[g].level = exec[g].level
    BY <1>0, <1>5 DEF Record, Goto, Executions
  <2> QED BY <1>0, <1>1, <2>1 DEF Climbed
<1>6. CASE EndRung(g)
  <2>1. /\ UNCHANGED <<chat, faults>> /\ exec[g].pc \in {"notified", "notify_failed"}
        /\ exec'[g].pc \in {"none", "wait"} /\ exec'[g].level \in {exec[g].level, exec[g].level + 1}
    BY <1>0, <1>6 DEF EndRung, NextRung, Executions
  <2> QED BY <1>0, <1>1, <2>1 DEF Climbed
<1>7. CASE WaitExpires(g) \/ HandlerFails(g) \/ Reinvoke(g)
  <2>1. /\ UNCHANGED chat /\ faults' \in {faults, faults + 1} /\ exec[g].pc # "none"
        /\ exec'[g].pc \in {"none", "get"} /\ exec'[g].level = exec[g].level
    BY <1>0, <1>7 DEF WaitExpires, HandlerFails, Reinvoke, Goto, Finish, Fault, Executions, Invocation
  <2> QED BY <1>0, <1>1, <2>1 DEF Climbed
<1> QED BY <1>2, <1>3, <1>4, <1>5, <1>6, <1>7 DEF EscSteps, EscFaults

LEMMA QuietCounts ==
    ASSUME IInv, NEW g \in Groups, Climbed(g), Quit(g) => Handled(g),
           Len(chat'[g]) = Len(chat[g]), faults' \in {faults, faults + 1},
           \/ exec'[g] = exec[g]
           \/ \E h \in Groups : StartExecution(h)
           \/ \E h \in Groups : \E arn \in BOOLEAN : StopExecution(h, arn)
    PROVE  Climbed(g)' /\ (Quit(g)' => Handled(g))
<1>0. /\ exec[g] \in Executions /\ exec[g].level \in Nat /\ Len(chat[g]) \in Nat
      /\ faults \in Nat /\ exec \in [Groups -> Executions]
  BY ClimbFacts
<1>1. CASE exec'[g] = exec[g]
  <2>1. Climbed(g)'
    BY <1>0, <1>1 DEF Climbed
  <2>2. Quit(g)' => Quit(g)
    BY <1>1 DEF Quit, HasStep, Top
  <2> QED BY <2>1, <2>2
<1>2. CASE exec'[g] = NewExec
  BY <1>0, <1>2, NewExecFacts DEF Climbed, Quit
<1>3. CASE /\ exec'[g].status = "aborted" /\ exec'[g].level = exec[g].level
           /\ exec'[g].pc = IF exec[g].pc = "wait" THEN "none" ELSE exec[g].pc
           /\ exec[g].status = "running"
  BY <1>0, <1>3 DEF Climbed, Quit
<1>4. \/ exec'[g] = exec[g] \/ exec'[g] = NewExec
      \/ /\ exec'[g].status = "aborted" /\ exec'[g].level = exec[g].level
         /\ exec'[g].pc = IF exec[g].pc = "wait" THEN "none" ELSE exec[g].pc
         /\ exec[g].status = "running"
  <2>1. ASSUME NEW h \in Groups, StartExecution(h) PROVE exec'[g] = exec[g] \/ exec'[g] = NewExec
    BY <1>0, <2>1 DEF StartExecution
  <2>2. ASSUME NEW h \in Groups, NEW arn \in BOOLEAN, StopExecution(h, arn), exec'[g] # exec[g]
        PROVE  /\ exec'[g].status = "aborted" /\ exec'[g].level = exec[g].level
               /\ exec'[g].pc = IF exec[g].pc = "wait" THEN "none" ELSE exec[g].pc
               /\ exec[g].status = "running"
    BY <1>0, <2>2 DEF StopExecution, Executions
  <2> QED BY <2>1, <2>2
<1> QED BY <1>1, <1>2, <1>3, <1>4

LEMMA StepClimb ==
    ASSUME IInv, Paced, TableInv, BoundInv, ClimbInv, [Next]_vars
    PROVE  ClimbInv'
<1>0. IInv' /\ Ahead
  BY StepIInv, StepTable
<1> SUFFICES ASSUME NEW g \in Groups PROVE Climbed(g)' /\ (Quit(g)' => Handled(g))
  BY <1>0, HandledStays DEF ClimbInv, Groups
<1>1. Climbed(g) /\ (Quit(g) => Handled(g))
  BY DEF ClimbInv
<1>2. CASE LadderNext
  <2>1. PICK h \in Groups : EscSteps(h) \/ EscFaults(h)
    BY <1>2 DEF LadderNext, EscNext
  <2>2. Quit(g)' => Handled(g)
    BY <1>1, <2>1, RungCut
  <2>3. CASE g = h
    BY <1>1, <2>1, <2>2, <2>3, RungCounts
  <2>4. CASE g # h
    BY <1>1, <2>1, <2>4, OtherRungs, QuietCounts
  <2> QED BY <2>3, <2>4
<1>3. CASE StoreNext \/ WorkerNext \/ PressNext \/ UNCHANGED vars
  BY <1>1, <1>3, OtherSteps, QuietCounts
<1> QED BY <1>2, <1>3 DEF Next

(* Nobody is skipped: a ladder that ends while its incident is firing has paged at  *)
(* every level of the policy and at every repeat, but for the calls that failed,    *)
(* whatever replica answers its state checks and however often its invocations die. *)
THEOREM NobodyIsSkipped ==
    ASSUME Paced
    PROVE  Spec => []EveryLevelIsPaged
<1>1. Init => ClimbInv
  <2> SUFFICES ASSUME Init, NEW g \in Groups PROVE Climbed(g) /\ ~ Quit(g)
    BY DEF ClimbInv
  <2> QED BY DEF Init, StoreInit, EscInit, NoExec, Climbed, Quit
<1>2. IInv /\ TableInv /\ BoundInv /\ ClimbInv /\ [Next]_vars => TableInv' /\ BoundInv' /\ ClimbInv'
  BY StepTable, StepBound, StepClimb
<1>3. IInv /\ ClimbInv => EveryLevelIsPaged
  <2> SUFFICES ASSUME IInv, ClimbInv, NEW g \in Groups, exec[g].status = "succeeded",
                      meta[g].state = Firing, NSteps # 0
               PROVE  NSteps + MaxRepeats <= Len(chat[g]) + faults
    BY DEF EveryLevelIsPaged
  <2>1. /\ exec[g].level \in Nat /\ Len(chat[g]) \in Nat /\ faults \in Nat
    BY ClimbFacts
  <2>2. ~ Quit(g)
    BY DEF ClimbInv, Handled, Firing, Acked, Resolved
  <2>3. exec[g].level >= 1 /\ exec[g].level <= Len(chat[g]) + faults + 1
    BY DEF ClimbInv, Climbed
  <2> QED BY <2>1, <2>2, <2>3, LadderAssumption DEF Quit, HasStep, Top
<1> QED BY InitIInv, StepIInv, InitTable, InitBound, <1>1, <1>2, <1>3, PTL DEF Spec
=============================================================================
