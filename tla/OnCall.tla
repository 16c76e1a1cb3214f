------------------------------- MODULE OnCall -------------------------------
(***************************************************************************)
(* BananaOnCall from an accepted webhook to a handled incident: the         *)
(* processor, the escalation ladders and the Telegram callback, running     *)
(* concurrently over one DynamoDB table.                                    *)
(***************************************************************************)
EXTENDS Processor, Callback

vars == <<now, storeVars, faults, escVars, procVars, press>>

Init == StoreInit /\ EscInit /\ ProcInit /\ CallbackInit

StoreNext == Tick /\ UNCHANGED <<escVars, procVars, press>>

LadderNext == EscNext /\ UNCHANGED <<procVars, press>>
WorkerNext == ProcNext /\ UNCHANGED press
PressNext  == CallbackNext /\ UNCHANGED procVars

Next == StoreNext \/ LadderNext \/ WorkerNext \/ PressNext

Spec == Init /\ [][Next]_vars

(* What the platform runs without being asked: the clock, an event-source poll,   *)
(* the next call of a handler that has made the last one, the expiry of a wait and *)
(* the redelivery of a query; and a read that is made again and again is answered  *)
(* by an up-to-date replica in the end.  Nobody has to send an alert or press a    *)
(* button, and no call has to fail.                                               *)
Fairness ==
    /\ WF_vars(StoreNext)
    /\ \A g \in Groups : WF_vars(EscSteps(g) /\ UNCHANGED <<procVars, press>>)
    /\ \A k \in Keys : WF_vars(ProcSteps(k) /\ UNCHANGED press)
    /\ \A p \in Presses :
          /\ WF_vars(CallbackSteps(p) /\ UNCHANGED procVars)
          /\ SF_vars(RereadFresh(p) /\ UNCHANGED procVars)

FairSpec == Spec /\ Fairness

-----------------------------------------------------------------------------
TypeOK == StoreType /\ EscType /\ ProcType /\ CallbackType

Open(g) == meta[g].state \in {Firing, Acked}

(* At most one incident is open about one problem, whatever crashed on the way: *)
(* the pointer FP#fp/OPEN is the lock that groups deliveries (groups.go          *)
(* OpenOrJoin).                                                                  *)
OneOpenGroup ==
    \A g, h \in Groups : Open(g) /\ Open(h) /\ FpOf(g) = FpOf(h) => g = h

(* Nothing about fp is half done: no batch of it is in hand, waits for a retry or *)
(* was given up.                                                                  *)
Mentions(e, fp) == \E i \in DOMAIN e : e[i].fp = fp

Settled(fp) ==
    \A k \in Keys :
        /\ receives[k] > 0 => ~ Mentions(Head(queue[k]), fp)
        /\ \A i \in DOMAIN parked[k] : ~ Mentions(parked[k][i], fp)

(* Between deliveries the table agrees with the sender (FR-2.4, FR-2.5): after a  *)
(* firing delivery the pointer names an open group, after a resolved one no       *)
(* group is open, however often either had to be retried and wherever it failed.  *)
(* The one that close dropped because its lookup failed leaves the incident as it *)
(* was, but never out of reach: what is open is what the pointer names, so that   *)
(* the next delivery joins or closes it.                                          *)
TableFollowsSender ==
    \A fp \in Fps : Settled(fp) =>
        /\ applied[fp] = "firing" => pointer[fp] # NoGroup /\ Open(pointer[fp])
        /\ applied[fp] = "resolved" => \A g \in Groups : FpOf(g) = fp => ~ Open(g)
        /\ \A g \in Groups : FpOf(g) = fp /\ Open(g) => pointer[fp] = g

(* "close handles a delivery whose alerts have all resolved (FR-2.5)": once close  *)
(* has returned nil, the incident the delivery was about is not open any more.     *)
ResolvedIsClosed ==
    \A fp \in Fps : Settled(fp) /\ applied[fp] \in {"resolved", "dropped"} =>
        \A g \in Groups : FpOf(g) = fp => ~ Open(g)

(* A delivery that joins an incident stays quiet because somebody is already     *)
(* being paged about it (processor apply): its ladder has been started.          *)
JoinedIsPaged ==
    \A k \in Keys : At(k, "joined") => exec[worker[k].group].status # "absent"

(* Some state check of the ladder of g was answered by a replica that was behind. *)
Misled(g) == exec[g].misled > 0

(* An incident nobody has handled is being paged about: as long as no call      *)
(* fails, a firing group is in the hands of the worker that opened it, or its    *)
(* ladder is running or has run to its end, however deliveries and presses race  *)
(* (FR-2.3, FR-3.2).  What can end a ladder early all the same is a replica that *)
(* does not have the group yet: "not found" is an error of the notifier.         *)
OpenedIsPaged ==
    \A g \in Groups : meta[g].state = Firing =>
        \/ \E k \in Keys : worker[k].id = g
        \/ exec[g].status = "running"
        \/ exec[g].status = "succeeded" /\ ~ HasStep(exec[g].level)
        \/ Misled(g)

(* However long nobody answers, and whatever is retried, a ladder pages once per *)
(* level of the policy and its repeats, and once more for each failed call       *)
(* (Policy.Resolve, FR-3.6).                                                     *)
LadderBounded == \A g \in Groups : Len(chat[g]) <= Top + faults

(* Nor does it page less: an incident that is firing when its ladder has come to *)
(* its end was paged at every level of the policy and at every repeat of the last, *)
(* except where a call failed; a state check never takes the ladder to be done     *)
(* earlier, nor does a retried invocation skip a level.                            *)
EveryLevelIsPaged ==
    \A g \in Groups : exec[g].status = "succeeded" /\ meta[g].state = Firing /\ NSteps # 0
        => NSteps + MaxRepeats <= Len(chat[g]) + faults

(* A ladder is stopped, or decides by itself before its last repeat that it is    *)
(* done, only when its incident has been acked or resolved.  One that fails, by an *)
(* error of its notifier or a group it does not find, is not covered.              *)
StoppedOnlyWhenHandled ==
    \A g \in Groups :
        \/ exec[g].status = "aborted"
        \/ exec[g].status = "succeeded" /\ HasStep(exec[g].level)
        => meta[g].state \in {Acked, Resolved}

(* The worker has found its incident closed and is cleaning up. *)
Closes(k) == worker[k].pc \in {"release", "stop", "closed"}

(* Whoever goes on to release the fingerprint, stop the ladder and report the    *)
(* incident closed has seen it closed (Store.transition reports what blocked a   *)
(* change that did not happen).                                                  *)
ClosedMeansResolved ==
    \A k \in Keys : Closes(k) => meta[worker[k].group].state = Resolved

(* The presses that are told they did it, of those that ask for the same.         *)
Winners(g, to) ==
    {p \in Presses : /\ press[p].reply = "ok"
                     /\ press[p].group = g
                     /\ Target(press[p].action) = to}

(* Two people pressing at once do not both hear that they did it (FR-6.3): at     *)
(* most one press is told it acked or silenced a group, at most one that it       *)
(* resolved it, unless the read that was to tell the second one "already" was     *)
(* answered by a replica that is behind.                                          *)
OneWinner ==
    \A g \in Groups, to \in {Acked, Resolved} :
        \A p, q \in Winners(g, to) : press[p].misled \/ press[q].misled \/ p = q

(* Nobody is told too much (FR-6.3): what a press hears, that it did it, that it   *)
(* was done already, or that it is too late, is so, although the answer comes from *)
(* a second read, which may lag, races with other presses and deliveries, and is   *)
(* asked for again after failures.                                                 *)
AnswersAreTrue ==
    \A p \in Presses :
        LET state == meta[press[p].group].state
        IN  /\ press[p].reply \in {"ok", "repeat"}
                  => Rank(state) >= Rank(Target(press[p].action))
            /\ press[p].reply = "conflict" => state = Resolved

(* Forward only: an incident never un-resolves, nor un-acks (domain.Transition). *)
ForwardOnly ==
    [][\A g \in Groups : Rank(meta[g].state) <= Rank(meta'[g].state)]_vars

(* No press is being handled. *)
PressesDone == \A p \in Presses : press[p].pc \in {"idle", "done"} /\ press[p].reply # "error"

(* Every state change writes a timeline entry (FR-6.5): once nobody is at work    *)
(* on an incident, its state has an entry, whoever of several presses and         *)
(* deliveries brought it about.  The entry is a second write after the change and *)
(* is not made up for when a call fails, hence the premise.                       *)
EveryChangeLogged ==
    faults = 0 /\ PressesDone /\ (\A k \in Keys : ~ Closes(k)) =>
        \A g \in Groups :
            /\ meta[g].state = Acked => log[g] \cap {"ack", "silence"} # {}
            /\ meta[g].state = Resolved => log[g] \cap {"resolve", "resolved"} # {}

-----------------------------------------------------------------------------
(* Every ladder ends. *)
LadderEnds == \A g \in Groups : Running(g) ~> ~ Running(g)

(* Every envelope is applied or parked: one that keeps failing does not block    *)
(* its subject for ever (maxReceiveCount).                                       *)
QueueDrains == \A k \in Keys : []<>(queue[k] = << >>)

(* A firing incident is paged, as long as no call fails, unless somebody has      *)
(* handled it before or the notifier was told that there is no such incident.     *)
FiringIsPaged ==
    \A g \in Groups :
        meta[g].state = Firing ~>
            \/ chat[g] # << >>
            \/ meta[g].state # Firing
            \/ Misled(g)
            \/ faults > 0

(* Every press is told something in the end.                                     *)
PressAnswered ==
    \A p \in Presses :
        press[p].pc = "update" ~> press[p].reply \in {"ok", "repeat", "conflict"}
=============================================================================
