------------------------------- MODULE Callback -------------------------------
(***************************************************************************)
(* The Telegram webhook (cmd/callback/main.go): what a button press does.   *)
(* A press is one callback query.  Its handler moves the group, releases    *)
(* the fingerprint if it resolved it, writes the timeline, edits a message, *)
(* stops the ladder and answers; the first three can fail the request, the  *)
(* rest is best effort.  Telegram delivers a query again that was not       *)
(* answered with a 2xx.                                                     *)
(***************************************************************************)
EXTENDS Escalation

CONSTANTS
    Presses,   \* button presses
    Actions    \* which buttons are pressed

ASSUME PressAssumption == Actions \subseteq {"ack", "resolve", "silence"}

VARIABLES
    press      \* press[p]: the query of press p and where its handler is

(* Of a press: the button, the group in its callback data, the message it is on; *)
(* the message to edit and the ARN to stop, once the store has answered; whether *)
(* that answer came from a replica that was behind; what the presser is told.    *)
Replies == {"none", "ok", "repeat", "conflict", "error"}
Handler == {"update", "reread", "release", "timeline", "edit", "stop", "answer"}
PressRecords == [pc       : Handler \cup {"idle", "done"},
                 action   : {"ack", "resolve", "silence", "none"},
                 group    : Groups \cup {NoGroup},
                 message  : Nat,
                 edit     : Nat,
                 arn      : BOOLEAN,
                 misled   : BOOLEAN,
                 reply    : Replies]

CallbackType == press \in [Presses -> PressRecords]

CallbackInit ==
    press = [p \in Presses |-> [pc |-> "idle", action |-> "none", group |-> NoGroup,
                                message |-> 0, edit |-> 0, arn |-> FALSE,
                                misled |-> FALSE, reply |-> "none"]]

PressAt(p, pc) == press[p].pc = pc
PressStep(p, pc) == press' = [press EXCEPT ![p].pc = pc]

(* The state a button asks for: Silence is an ack that also records a time. *)
Target(action) == IF action = "resolve" THEN Resolved ELSE Acked

-----------------------------------------------------------------------------
(* Any message that paged can be pressed: a chat shows its buttons until an edit *)
(* reaches it, and only one message of a group is ever edited.                   *)
Press(p, action, g, m) ==
    /\ PressAt(p, "idle")
    /\ m \in DOMAIN chat[g]
    /\ press' = [press EXCEPT ![p].pc = "update", ![p].action = action,
                              ![p].group = g, ![p].message = m]
    /\ UNCHANGED <<now, storeVars, faults, escVars>>

(* Mutant of Moved: an ack returns before its timeline entry. *)
MovedUnlogged(p, item) ==
    press' = [press EXCEPT
                ![p].pc = IF press[p].action = "resolve" THEN "release" ELSE "edit",
                ![p].arn = item.arn,
                ![p].misled = item.state # meta[press[p].group].state,
                ![p].edit = IF item.messageID # 0 THEN item.messageID ELSE press[p].message]

(* The store answered without an error: the handler goes on with the item it got. *)
(* rewrite prefers the message the store remembers to the one that was pressed.   *)
Moved(p, item) ==
    press' = [press EXCEPT
                ![p].pc = IF press[p].action = "resolve" THEN "release" ELSE "timeline",
                ![p].arn = item.arn,
                ![p].misled = item.state # meta[press[p].group].state,
                ![p].edit = IF item.messageID # 0 THEN item.messageID ELSE press[p].message]

Reply(p, reply) == press' = [press EXCEPT ![p].pc = "done", ![p].reply = reply]

(* The conditional update of Ack, Resolve or Silence. *)
Update(p) ==
    LET g  == press[p].group
        to == Target(press[p].action)
    IN  /\ PressAt(p, "update")
        /\ \/ CanMove(g, to) /\ Move(g, to) /\ Moved(p, meta[g])
           \/ ~ CanMove(g, to) /\ PressStep(p, "reread") /\ UNCHANGED <<meta, past>>
        /\ UNCHANGED <<now, pointer, log, faults, escVars>>

(* Mutant of RereadAs: a repeated press is an error, so it is delivered again. *)
RereadAsFails(p, item) ==
    LET to == Target(press[p].action)
    IN  /\ \/ item.state = Absent /\ Reply(p, "error")
           \/ Transition(item.state, to) = "already" /\ Reply(p, "error")
           \/ /\ item.state # Absent
              /\ Transition(item.state, to) = "invalid"
              /\ Reply(p, "conflict")
           \/ Transition(item.state, to) = "nil" /\ Moved(p, item)
        /\ UNCHANGED <<now, storeVars, faults, escVars>>

(* The condition failed, Get answers item, and Transition decides from its state. *)
RereadAs(p, item) ==
    LET to == Target(press[p].action)
    IN  /\ \/ item.state = Absent /\ Reply(p, "error")
           \/ Transition(item.state, to) = "already" /\ Reply(p, "repeat")
           \/ /\ item.state # Absent
              /\ Transition(item.state, to) = "invalid"
              /\ Reply(p, "conflict")
           \/ Transition(item.state, to) = "nil" /\ Moved(p, item)
        /\ UNCHANGED <<now, storeVars, faults, escVars>>

Reread(p) == PressAt(p, "reread") /\ \E item \in Get(press[p].group) : RereadAs(p, item)

(* What may be answered by a replica is answered by an up-to-date one in the end. *)
RereadFresh(p) == PressAt(p, "reread") /\ RereadAs(p, meta[press[p].group])

Release(p) ==
    /\ PressAt(p, "release")
    /\ DeletePointer(FpOf(press[p].group))
    /\ PressStep(p, "timeline")
    /\ UNCHANGED <<now, meta, past, log, faults, escVars>>

LogPress(p) ==
    /\ PressAt(p, "timeline")
    /\ Timeline(press[p].group, press[p].action)
    /\ PressStep(p, "edit")
    /\ UNCHANGED <<now, pointer, meta, past, faults, escVars>>

(* rewrite: RenderResolved has no buttons, RenderAcked has Resolve. *)
Rewrite(p) ==
    /\ PressAt(p, "edit")
    /\ chat' = [chat EXCEPT ![press[p].group][press[p].edit].shown =
                    IF press[p].action = "resolve" THEN "resolved" ELSE "acked"]
    /\ PressStep(p, "stop")
    /\ UNCHANGED <<now, storeVars, faults, exec>>

StopLadder(p) ==
    /\ PressAt(p, "stop")
    /\ StopExecution(press[p].group, press[p].arn)
    /\ PressStep(p, "answer")
    /\ UNCHANGED <<now, storeVars, faults, chat>>

Answer(p) ==
    /\ PressAt(p, "answer")
    /\ Reply(p, "ok")
    /\ UNCHANGED <<now, storeVars, faults, escVars>>

(* The edit or the stop fails: it is logged and the handler goes on. *)
BestEffortFails(p) ==
    /\ Fault
    /\ \/ PressAt(p, "edit") /\ PressStep(p, "stop")
       \/ PressAt(p, "stop") /\ PressStep(p, "answer")
    /\ UNCHANGED <<now, storeVars, escVars>>

(* A store call returns an error, which is a 500, or the Lambda dies. *)
CallbackFails(p) ==
    /\ press[p].pc \in Handler
    /\ Fault
    /\ Reply(p, "error")
    /\ UNCHANGED <<now, storeVars, escVars>>

(* Telegram delivers a query again that was not answered with a 2xx: a 500, a *)
(* dead Lambda, and a 409 too.                                                *)
Redeliver(p) ==
    /\ PressAt(p, "done")
    /\ press[p].reply \in {"error", "conflict"}
    /\ PressStep(p, "update")
    /\ UNCHANGED <<now, storeVars, faults, escVars>>

HandlerSteps(p) ==
    \/ Update(p) \/ Reread(p) \/ Release(p) \/ LogPress(p)
    \/ Rewrite(p) \/ StopLadder(p) \/ Answer(p)

CallbackSteps(p) == HandlerSteps(p) \/ Redeliver(p)

CallbackNext ==
    \E p \in Presses :
        \/ \E action \in Actions, g \in Groups :
              \E m \in DOMAIN chat[g] : Press(p, action, g, m)
        \/ CallbackSteps(p)
        \/ BestEffortFails(p) \/ CallbackFails(p)
=============================================================================
