----------------------------- MODULE GroupStore -----------------------------
(***************************************************************************)
(* The DynamoDB items behind internal/adapter/dynamox/groups.go: the       *)
(* pointer FP#<fingerprint>/OPEN that says which group owns a fingerprint,  *)
(* the META item of each group and its timeline.  One operator per call the *)
(* store makes to DynamoDB: a call is atomic, a store method that makes     *)
(* several is not, and the modules of its callers interleave them.          *)
(***************************************************************************)
EXTENDS Naturals, GroupState

CONSTANTS
    Fps,          \* fingerprints: the distinct problems
    NoGroup,      \* what an absent pointer item reads as
    MaxNow,       \* bound: the last second the clock shows
    MaxFaults     \* bound: how many AWS or Telegram calls fail

ASSUME StoreAssumption ==
    /\ MaxNow \in Nat
    /\ MaxFaults \in Nat
    /\ NoGroup \notin Nat \X Fps

VARIABLES
    now,       \* the wall clock, in whole seconds
    pointer,   \* pointer[fp]: the group FP#fp/OPEN names, or NoGroup
    meta,      \* meta[g]: the META item of group g
    past,      \* past[g]: the META items that group g had before
    log,       \* log[g]: the kinds of timeline entry group g has
    faults     \* calls that have failed so far

storeVars == <<pointer, meta, past, log>>

(* domain.NewGroupID: Unix seconds, then a slice of the fingerprint. *)
NewGroupID(t, fp) == <<t, fp>>
Groups == (0 .. MaxNow) \X Fps
FpOf(g) == g[2]

(* Of a META item: its state, whether executionArn is set, and messageId: the *)
(* place in the chat of the message the store remembers (0: not set).         *)
Items == [state : States \cup {Absent}, arn : BOOLEAN, messageID : Nat]
NoItem == [state |-> Absent, arn |-> FALSE, messageID |-> 0]
NewItem == [NoItem EXCEPT !.state = Firing]

(* Timeline entries the properties tell apart: those of the state changes. *)
Entries == {"opened", "escalation_started", "ack", "resolve", "silence", "resolved"}

StoreType ==
    /\ now \in 0 .. MaxNow
    /\ pointer \in [Fps -> Groups \cup {NoGroup}]
    /\ meta \in [Groups -> Items]
    /\ past \in [Groups -> SUBSET Items]
    /\ log \in [Groups -> SUBSET Entries]
    /\ faults \in 0 .. MaxFaults

StoreInit ==
    /\ now = 0
    /\ pointer = [fp \in Fps |-> NoGroup]
    /\ meta = [g \in Groups |-> NoItem]
    /\ past = [g \in Groups |-> {}]
    /\ log = [g \in Groups |-> {}]
    /\ faults = 0

-----------------------------------------------------------------------------
(* Writes. *)

WriteMeta(g, item) ==
    /\ meta' = [meta EXCEPT ![g] = item]
    /\ past' = [past EXCEPT ![g] = @ \cup {meta[g]}]

(* PutItem on the pointer; OpenOrJoin's first one holds only while it is absent. *)
PutPointer(fp, g) == pointer' = [pointer EXCEPT ![fp] = g]
PointerAbsent(fp) == pointer[fp] = NoGroup

(* The DeleteItem of Resolve: no condition on whose pointer it removes. *)
DeletePointer(fp) == pointer' = [pointer EXCEPT ![fp] = NoGroup]

(* putMeta: an unconditional PutItem, replacing whatever the key held. *)
PutMeta(g) == WriteMeta(g, NewItem)

(* Mutant of CanJoin: the state is not part of the condition. *)
CanJoinResolved(g) == meta[g].state # Absent

(* The condition of increment: the item exists and is not resolved. *)
CanJoin(g) == meta[g].state \notin {Absent, Resolved}

(* Mutant of CanMove: the update only asks that the item exists. *)
CanMoveFromAny(g, to) == meta[g].state # Absent

(* The UpdateItem of transition, and the condition under which it applies. *)
CanMove(g, to) == meta[g].state \in Allowed(to)
Move(g, to) == WriteMeta(g, [meta[g] EXCEPT !.state = to])

SetExecution(g) == WriteMeta(g, [meta[g] EXCEPT !.arn = TRUE])

(* RecordNotification: messageId is set once, by if_not_exists. *)
RecordNotification(g, m) ==
    WriteMeta(g, [meta[g] EXCEPT !.messageID = IF @ = 0 THEN m ELSE @])

Timeline(g, entry) == log' = [log EXCEPT ![g] = @ \cup {entry}]

(* A second entry with the time, hence the key LOG#<time>, of one written before. *)
TimelineInstead(g, old, entry) == log' = [log EXCEPT ![g] = (@ \ {old}) \cup {entry}]

-----------------------------------------------------------------------------
(* Reads.  Get does not ask for a consistent read: a replica that is behind may  *)
(* answer it, with an item the group had before.  pointerTarget asks for one.     *)

Get(g) == {meta[g]} \cup past[g]

Tick ==
    /\ now < MaxNow
    /\ now' = now + 1
    /\ UNCHANGED <<storeVars, faults>>

(* One more call fails, if the bound allows it. *)
Fault ==
    /\ faults < MaxFaults
    /\ faults' = faults + 1
=============================================================================
