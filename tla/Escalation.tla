----------------------------- MODULE Escalation -----------------------------
(***************************************************************************)
(* The escalation ladder: the Step Functions state machine of              *)
(* lib/constructs/escalation.ts and the notifier it invokes at each rung,   *)
(* cmd/notify/main.go.  An execution is named after its group, so there is  *)
(* at most one per group, ever.  Stopping an execution does not stop a      *)
(* notifier invocation that is already running: its answer is discarded,    *)
(* but what it sends is sent.                                               *)
(***************************************************************************)
EXTENDS GroupStore, Sequences

CONSTANTS
    NSteps,      \* steps in the escalation policy
    MaxRepeats   \* domain.MaxRepeats: how often the last step repeats (50 in the code)

ASSUME LadderAssumption == NSteps \in Nat /\ MaxRepeats \in Nat

VARIABLES
    exec,   \* exec[g]: the execution named g
    chat    \* chat[g]: the messages that paged for group g, oldest first

escVars == <<exec, chat>>

Top == NSteps + MaxRepeats

(* Mutant of HasStep: one repeat too many. *)
HasStepPastTop(level) == NSteps # 0 /\ level >= 1 /\ level <= Top + 1

(* Mutant of HasStep: the level is taken for an index from 0. *)
HasStepFromZero(level) == NSteps # 0 /\ level >= 0 /\ level < NSteps

(* Mutant of HasStep: one repeat too few. *)
HasStepShort(level) == NSteps # 0 /\ level >= 1 /\ level < Top

(* Policy.Resolve answers ok: there is a step to run at this level. *)
HasStep(level) == NSteps # 0 /\ level >= 1 /\ level <= Top

(* The status of an execution, what its notifier invocation does next, the     *)
(* level in its payload, and how often Get misled it: answered a state that the *)
(* table had no longer, or not yet.  pc "wait" is the state machine's own Wait  *)
(* state; "none" means no invocation is running.                                *)
ExecStatus == {"absent", "running", "succeeded", "failed", "aborted"}
Invocation == {"get", "send", "record", "notified", "notify_failed"}
Executions == [status : ExecStatus,
               pc     : Invocation \cup {"none", "wait"},
               level  : 0 .. Top + 1,
               misled : Nat]
NoExec == [status |-> "absent", pc |-> "none", level |-> 0, misled |-> 0]
NewExec == [status |-> "running", pc |-> "get", level |-> 1, misled |-> 0]

(* A message: the level it was sent for, what it shows now, and whether its *)
(* group was firing at the moment it was sent.                              *)
Shown == {"alert", "acked", "resolved"}
Messages == [level : 1 .. Top, shown : Shown, firing : BOOLEAN]

EscType ==
    /\ exec \in [Groups -> Executions]
    /\ chat \in [Groups -> Seq(Messages)]

EscInit ==
    /\ exec = [g \in Groups |-> NoExec]
    /\ chat = [g \in Groups |-> << >>]

-----------------------------------------------------------------------------
(* internal/adapter/sfnx: what the processor and the callback call. *)

(* Start: an execution with this name that exists, in any status, is found again. *)
StartExecution(g) ==
    exec' = IF exec[g].status = "absent"
            THEN [exec EXCEPT ![g] = NewExec]
            ELSE exec

(* Stop: nothing without an ARN, nothing on an execution that is over. *)
StopExecution(g, arn) ==
    exec' = IF arn /\ exec[g].status = "running"
            THEN [exec EXCEPT ![g].status = "aborted",
                              ![g].pc = IF @ = "wait" THEN "none" ELSE @]
            ELSE exec

-----------------------------------------------------------------------------
(* One rung. *)

Running(g) == exec[g].status = "running"

Goto(g, pc) == exec' = [exec EXCEPT ![g].pc = pc]

(* The invocation is over: the execution, unless it was stopped meanwhile, *)
(* takes the given status.                                                 *)
Finish(g, status) ==
    exec' = [exec EXCEPT ![g].pc = "none",
                         ![g].status = IF @ = "running" THEN status ELSE @]

(* The invocation answered with stop = false: the execution waits at the next level. *)
NextRung(g) ==
    exec' = IF Running(g)
            THEN [exec EXCEPT ![g].pc = "wait", ![g].level = @ + 1]
            ELSE [exec EXCEPT ![g].pc = "none"]

(* Get answered item: the invocation goes on to pc, or ends and gives the execution, *)
(* unless it was stopped meanwhile, the given status.                                *)
Checked(g, item, pc, status) ==
    exec' = [exec EXCEPT ![g].pc = pc,
                         ![g].status = IF @ = "running" THEN status ELSE @,
                         ![g].misled = IF item.state = meta[g].state THEN @ ELSE @ + 1]

(* Mutant of CheckGroup: the state is not looked at, so any group is paged. *)
CheckGroupAnyState(g) ==
    /\ exec[g].pc = "get"
    /\ \/ HasStep(exec[g].level) /\ Goto(g, "send")
       \/ ~HasStep(exec[g].level) /\ Finish(g, "succeeded")
    /\ UNCHANGED <<now, storeVars, faults, chat>>

(* Mutant of CheckGroup: the ladder of a handled group waits instead of stopping. *)
CheckGroupWaits(g) ==
    /\ exec[g].pc = "get"
    /\ \E item \in Get(g) :
          \/ item.state = Absent /\ Checked(g, item, "none", "failed")
          \/ item.state \in {Acked, Resolved} /\ Checked(g, item, "wait", "running")
          \/ item.state = Firing /\ ~HasStep(exec[g].level) /\ Checked(g, item, "none", "succeeded")
          \/ item.state = Firing /\ HasStep(exec[g].level) /\ Checked(g, item, "send", "running")
    /\ UNCHANGED <<now, storeVars, faults, chat>>

(* handle up to the policy step: a group it cannot find is an error, which fails *)
(* the execution; a group that is not firing or a level past the end stops it.   *)
CheckGroup(g) ==
    /\ exec[g].pc = "get"
    /\ \E item \in Get(g) :
          \/ item.state = Absent /\ Checked(g, item, "none", "failed")
          \/ item.state \in {Acked, Resolved} /\ Checked(g, item, "none", "succeeded")
          \/ item.state = Firing /\ ~HasStep(exec[g].level) /\ Checked(g, item, "none", "succeeded")
          \/ item.state = Firing /\ HasStep(exec[g].level) /\ Checked(g, item, "send", "running")
    /\ UNCHANGED <<now, storeVars, faults, chat>>

Page(g) == [level |-> exec[g].level, shown |-> "alert",
            firing |-> meta[g].state = Firing]

(* notifier.Send, answered. *)
Send(g) ==
    /\ exec[g].pc = "send"
    /\ chat' = [chat EXCEPT ![g] = Append(@, Page(g))]
    /\ Goto(g, "record")
    /\ UNCHANGED <<now, storeVars, faults>>

(* The message is delivered and the answer is lost: the client sends it again. *)
SendUnanswered(g) ==
    /\ exec[g].pc = "send"
    /\ Fault
    /\ chat' = [chat EXCEPT ![g] = Append(@, Page(g))]
    /\ UNCHANGED <<now, storeVars, exec>>

(* Mutant of SendFails: a rung that could not page ends the ladder. *)
SendFailsStops(g) ==
    /\ exec[g].pc = "send"
    /\ Fault
    /\ Finish(g, "succeeded")
    /\ UNCHANGED <<now, storeVars, chat>>

(* Every attempt failed: the level is skipped without a wait. *)
SendFails(g) ==
    /\ exec[g].pc = "send"
    /\ Fault
    /\ Goto(g, "notify_failed")
    /\ UNCHANGED <<now, storeVars, chat>>

Record(g) ==
    /\ exec[g].pc = "record"
    /\ RecordNotification(g, Len(chat[g]))
    /\ Goto(g, "notified")
    /\ UNCHANGED <<now, pointer, log, faults, chat>>

(* The timeline entry of the rung, and the answer to the state machine. *)
EndRung(g) ==
    /\ exec[g].pc \in {"notified", "notify_failed"}
    /\ NextRung(g)
    /\ UNCHANGED <<now, storeVars, faults, chat>>

WaitExpires(g) ==
    /\ exec[g].pc = "wait"
    /\ Goto(g, "get")
    /\ UNCHANGED <<now, storeVars, faults, chat>>

(* A call of the handler fails and it returns the error, or its Lambda dies. *)
HandlerFails(g) ==
    /\ exec[g].pc \in Invocation
    /\ Fault
    /\ Finish(g, "failed")
    /\ UNCHANGED <<now, storeVars, chat>>

(* retryOnServiceExceptions: the Lambda service fails under the invocation and *)
(* the task runs again from the top with the same payload.                     *)
Reinvoke(g) ==
    /\ exec[g].pc \in Invocation
    /\ Running(g)
    /\ Fault
    /\ Goto(g, "get")
    /\ UNCHANGED <<now, storeVars, chat>>

EscSteps(g) ==
    \/ CheckGroup(g) \/ Send(g) \/ Record(g) \/ EndRung(g) \/ WaitExpires(g)

EscFaults(g) ==
    \/ SendUnanswered(g) \/ SendFails(g) \/ HandlerFails(g) \/ Reinvoke(g)

EscNext == \E g \in Groups : EscSteps(g) \/ EscFaults(g)
=============================================================================
