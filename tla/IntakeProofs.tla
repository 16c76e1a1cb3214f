---------------------------- MODULE IntakeProofs ----------------------------
(***************************************************************************)
(* Theorems about Intake for every value of its timers: a redelivery never   *)
(* overlaps the run before it, and the way to the processor implements the   *)
(* ordered channel of Channel.                                              *)
(***************************************************************************)
EXTENDS Intake, FiniteSetTheorems, TLAPS

(* Premises.  The visibility timeout outlasts a poll and a run together (queue.ts). *)
Outlasts == PollDelay + WorkerTime <= Visibility

(* The queue remembers a body for as long as requests with it may be handled, and   *)
(* the sender leaves the handlers of one notification the time to end.              *)
Unhurried == HandlerTime <= Gap /\ HandlerTime + Patience <= Window

Senders == [note : 0 .. MaxNotes, content : Contents, st : {"waiting", "retry", "done"},
            budget : 0 .. Patience, quiet : 0 .. Gap]
Flights == [note : Notes, pc : {"publish", "answer"}, left : 1 .. HandlerTime, awaited : BOOLEAN]
Holders == [nr : Nat, st : {"polled", "running"}, left : Nat]

-----------------------------------------------------------------------------
(* The processor's half: one holder at most, whose time is up before the head is    *)
(* shown again.                                                                    *)
Expires(h) ==
    /\ h.st = "polled" => h.left + WorkerTime <= head.hidden
    /\ h.st = "running" => 1 <= h.left /\ h.left <= head.hidden

HolderInv ==
    /\ head \in [receives : 0 .. MaxReceive, hidden : 0 .. Visibility]
    /\ holders \subseteq Holders
    /\ queue \in Seq(Notes)
    /\ holders # {} => queue # << >>
    /\ \A h \in holders : Expires(h)
    /\ \A g, h \in holders : g = h

LEMMA InitHolder == IntakeInit => HolderInv
BY IntakeAssumption DEF IntakeAssumption, IntakeInit, HolderInv, NewHead

(* As long as somebody holds the head it is hidden. *)
LEMMA HiddenWhileHeld ==
    ASSUME HolderInv, head.hidden = 0
    PROVE  holders = {}
<1>1. ASSUME NEW h \in holders PROVE FALSE
  BY <1>1, IntakeAssumption DEF IntakeAssumption, HolderInv, Expires, Holders
<1> QED BY <1>1

LEMMA PollHolder ==
    ASSUME Outlasts, HolderInv, Poll
    PROVE  HolderInv'
<1> DEFINE new == [nr |-> head.receives + 1, st |-> "polled", left |-> PollDelay]
<1>1. holders = {}
  BY HiddenWhileHeld DEF Poll, Delivered
<1>2. holders' = {new} /\ queue' = queue /\ queue # << >>
  BY <1>1 DEF Poll, Delivered
<1>3. head' = [receives |-> head.receives + 1, hidden |-> Visibility] /\ head.receives < MaxReceive
  BY DEF Poll, Delivered
<1>4. head' \in [receives : 0 .. MaxReceive, hidden : 0 .. Visibility]
  BY <1>3, IntakeAssumption DEF IntakeAssumption, HolderInv
<1>5. new \in Holders
  BY <1>3, IntakeAssumption DEF IntakeAssumption, HolderInv, Holders
<1>6. ASSUME NEW h \in holders' PROVE Expires(h)'
  BY <1>2, <1>3, <1>6 DEF Expires, Outlasts
<1> QED BY <1>2, <1>4, <1>5, <1>6 DEF HolderInv

LEMMA BeginHolder ==
    ASSUME HolderInv, NEW h \in holders, Begin(h)
    PROVE  HolderInv'
<1> DEFINE on == [h EXCEPT !.st = "running", !.left = WorkerTime]
<1>1. holders = {h} /\ h \in Holders /\ h.st = "polled" /\ Expires(h)
  BY DEF HolderInv, Begin
<1>2. holders' = {on}
  BY <1>1 DEF Begin
<1>3. on \in Holders /\ on.st = "running" /\ on.left = WorkerTime
  BY <1>1, IntakeAssumption DEF IntakeAssumption, Holders
<1>4. head' = head /\ queue' = queue
  BY DEF Begin
<1>5. WorkerTime <= head.hidden
  BY <1>1, IntakeAssumption DEF IntakeAssumption, Expires, Holders, HolderInv
<1>6. 1 <= WorkerTime
  BY IntakeAssumption DEF IntakeAssumption
<1>7. Expires(on)'
  <2> HIDE DEF on
  <2> QED BY <1>3, <1>4, <1>5, <1>6 DEF Expires
<1> QED BY <1>1, <1>2, <1>3, <1>4, <1>7 DEF HolderInv

LEMMA EndHolder ==
    ASSUME HolderInv, \/ \E h \in holders : Finish(h) \/ Errs(h)
                      \/ Park
    PROVE  HolderInv'
<1>1. NewHead \in [receives : 0 .. MaxReceive, hidden : 0 .. Visibility]
  BY IntakeAssumption DEF IntakeAssumption, NewHead
<1>2. CASE \E h \in holders : Finish(h)
  <2>1. holders' = {} /\ head' = NewHead /\ queue # << >> /\ queue' = Tail(queue)
    BY <1>2 DEF Finish, HolderInv
  <2>2. queue' \in Seq(Notes)
    BY <2>1 DEF HolderInv
  <2> QED BY <1>1, <2>1, <2>2 DEF HolderInv
<1>3. CASE \E h \in holders : Errs(h)
  <2>1. holders' \subseteq holders /\ UNCHANGED <<head, queue>>
    BY <1>3 DEF Errs
  <2> QED BY <2>1 DEF HolderInv, Expires
<1>4. CASE Park
  <2>1. holders = {} /\ holders' = holders
    BY <1>4, HiddenWhileHeld DEF Park
  <2>2. head' = NewHead /\ queue # << >> /\ queue' = Tail(queue)
    BY <1>4 DEF Park
  <2>3. queue' \in Seq(Notes)
    BY <2>2 DEF HolderInv
  <2> QED BY <1>1, <2>1, <2>2, <2>3 DEF HolderInv
<1> QED BY <1>2, <1>3, <1>4

LEMMA TickHolder ==
    ASSUME HolderInv, Tick
    PROVE  HolderInv'
<1> DEFINE alive == {x \in holders : x.st = "polled" \/ x.left > 1}
           older(h) == [h EXCEPT !.left = @ - 1]
<1>1. /\ holders' = {older(h) : h \in alive} /\ queue' = queue
      /\ head' = [head EXCEPT !.hidden = Less(@)]
      /\ \A h \in holders : h.st = "polled" => h.left > 0
  BY DEF Tick
<1>2. Less(head.hidden) \in 0 .. Visibility
  BY IntakeAssumption DEF IntakeAssumption, HolderInv, Less
<1>3. head' \in [receives : 0 .. MaxReceive, hidden : 0 .. Visibility]
      /\ head'.hidden = Less(head.hidden)
  BY <1>1, <1>2 DEF HolderInv
<1>4. ASSUME NEW h \in alive
      PROVE  older(h) \in Holders /\ Expires(older(h))'
  <2>1. h \in Holders /\ h.left \in Nat /\ h.left >= 1 /\ Expires(h) /\ head.hidden \in Nat
    BY <1>1, <1>4, IntakeAssumption DEF IntakeAssumption, HolderInv, Holders
  <2>2. older(h) \in Holders /\ older(h).st = h.st /\ older(h).left = h.left - 1
    BY <2>1 DEF Holders
  <2>3. head.hidden >= 1 /\ head'.hidden = head.hidden - 1
    BY <1>3, <2>1, IntakeAssumption DEF IntakeAssumption, Expires, Less, Holders
  <2>4. h.st = "running" => h.left > 1
    BY <1>4
  <2> QED BY <2>1, <2>2, <2>3, <2>4, IntakeAssumption DEF IntakeAssumption, Expires
<1> QED BY <1>1, <1>3, <1>4 DEF HolderInv

(* The sender's half leaves the processor's alone, but for the end of the queue. *)
LEMMA PublishHolder ==
    ASSUME HolderInv, NEW f \in flights, f.note \in Notes, Publish(f)
    PROVE  HolderInv'
<1>1. UNCHANGED <<head, holders>> /\ (queue' = queue \/ queue' = Append(queue, f.note))
  BY DEF Publish
<1>2. queue' \in Seq(Notes) /\ (queue # << >> => queue' # << >>)
  BY <1>1 DEF HolderInv
<1> QED BY <1>1, <1>2 DEF HolderInv, Expires

LEMMA QuietHolder ==
    ASSUME HolderInv, UNCHANGED <<head, holders, queue>>
    PROVE  HolderInv'
BY DEF HolderInv, Expires

-----------------------------------------------------------------------------
(* The sender's half.  A handler still at work carries the sender's last notification, *)
(* as the others have run out of time.                                             *)
TimerInv ==
    /\ sender \in Senders
    /\ sender.st # "done" => sender.note \in Notes
    /\ flights \subseteq Flights
    /\ \A f \in flights : f.note = sender.note /\ f.left + sender.quiet <= HandlerTime

(* What is carried is at most what the sender has made, the queue remembers only what *)
(* was carried, and whoever is about to answer answers for the last one.            *)
CarryInv ==
    /\ memory \in [Notes -> 0 .. Window]
    /\ accepted \in Seq(Notes)
    /\ C!LastCarried <= sender.note
    /\ \A n \in Notes : memory[n] > 0 => n <= C!LastCarried
    /\ \A f \in flights : f.pc = "answer" => C!LastCarried = sender.note

(* What was carried stays in the queue's memory for as long as it may be sent again *)
(* and handled: the time it is remembered outlasts the sender's patience and the    *)
(* handlers that are left.                                                         *)
Remembered ==
    C!LastCarried = sender.note /\ sender.note \in Notes =>
        /\ sender.budget > 0 => memory[sender.note] + Patience >= Window + sender.budget
        /\ \A f \in flights :
              memory[sender.note] + HandlerTime + Patience >= Window + f.left

SenderInv == TimerInv /\ CarryInv /\ Remembered

LEMMA InitSender == IntakeInit => SenderInv
BY IntakeAssumption
   DEF IntakeAssumption, IntakeInit, SenderInv, TimerInv, CarryInv, Remembered, Senders, Contents,
       C!LastCarried, Notes

(* The last notification carried, as a number. *)
LEMMA LastType ==
    ASSUME accepted \in Seq(Notes)
    PROVE  C!LastCarried \in Nat
BY IntakeAssumption DEF IntakeAssumption, C!LastCarried, Notes

LEMMA FlightFacts ==
    ASSUME TimerInv, NEW f \in flights
    PROVE  /\ f \in Flights /\ f.note = sender.note /\ f.note \in Notes
           /\ f.left \in 1 .. HandlerTime /\ f.left + sender.quiet <= HandlerTime
BY DEF TimerInv, Flights

LEMMA NewFlightType ==
    ASSUME NEW n \in Notes
    PROVE  NewFlight(n) \in Flights /\ NewFlight(n).note = n /\ NewFlight(n).left = HandlerTime
           /\ NewFlight(n).pc = "publish"
BY IntakeAssumption DEF IntakeAssumption, NewFlight, Flights

LEMMA UnawaitedFacts ==
    ASSUME TimerInv, NEW f \in Unawaited
    PROVE  /\ f \in Flights
           /\ \E g \in flights : f.note = g.note /\ f.left = g.left /\ f.pc = g.pc
<1>1. PICK g \in flights : f = [g EXCEPT !.awaited = FALSE]
  BY DEF Unawaited
<1>2. g \in Flights
  BY FlightFacts
<1> QED BY <1>1, <1>2 DEF Flights

(* The carried half rests on what flights and sender do only through this. *)
LEMMA QuietCarry ==
    ASSUME SenderInv, UNCHANGED <<memory, accepted>>,
           sender'.note = sender.note, sender'.budget = sender.budget,
           \A f \in flights' : \E g \in flights : f.pc = g.pc /\ f.left = g.left
    PROVE  CarryInv' /\ Remembered'
<1>1. C!LastCarried' = C!LastCarried
  BY DEF C!LastCarried
<1> QED BY <1>1 DEF SenderInv, CarryInv, Remembered

LEMMA QuietSender ==
    ASSUME SenderInv, UNCHANGED <<sender, flights, memory, accepted>>
    PROVE  SenderInv'
<1>1. CarryInv' /\ Remembered'
  BY QuietCarry
<1> QED BY <1>1 DEF SenderInv, TimerInv

-----------------------------------------------------------------------------
LEMMA NotifySender ==
    ASSUME Unhurried, SenderInv, NEW c \in Contents, Notify(c)
    PROVE  SenderInv'
<1> DEFINE n == sender.note + 1
<1>1. n \in Notes /\ sender.quiet = Gap
  BY IntakeAssumption DEF IntakeAssumption, Notify, SenderInv, TimerInv, Senders, Notes
<1>2. flights = {}
  <2>1. ASSUME NEW f \in flights PROVE FALSE
    BY <1>1, <2>1, FlightFacts, IntakeAssumption
       DEF IntakeAssumption, SenderInv, Unhurried
  <2> QED BY <2>1
<1>3. flights' \subseteq {NewFlight(n)}
  BY <1>2 DEF Notify, Unawaited
<1>4. /\ sender' \in Senders /\ sender'.note = n /\ sender'.quiet = 0
  BY <1>1, IntakeAssumption DEF IntakeAssumption, Notify, Senders, Notes
<1>5. TimerInv'
  BY <1>1, <1>3, <1>4, NewFlightType, IntakeAssumption DEF IntakeAssumption, TimerInv
<1>6. UNCHANGED <<memory, accepted>> /\ C!LastCarried' = C!LastCarried /\ C!LastCarried \in Nat
  BY LastType DEF Notify, queueVars, C!LastCarried, SenderInv, CarryInv
<1>7. C!LastCarried' < sender'.note
  BY <1>1, <1>4, <1>6 DEF SenderInv, TimerInv, CarryInv, Senders
<1>8. \A f \in flights' : f.pc = "publish"
  BY <1>1, <1>3, NewFlightType
<1>9. CarryInv' /\ Remembered'
  BY <1>1, <1>4, <1>6, <1>7, <1>8 DEF SenderInv, CarryInv, Remembered, Notes
<1> QED BY <1>5, <1>9 DEF SenderInv

LEMMA RetrySender ==
    ASSUME SenderInv, Retry
    PROVE  SenderInv'
<1> DEFINE new == NewFlight(sender.note)
<1>1. sender' = [sender EXCEPT !.st = "waiting", !.quiet = 0] /\ 0 \in 0 .. Gap
      /\ flights' = Unawaited \union {new} /\ UNCHANGED <<memory, accepted>>
  BY IntakeAssumption DEF IntakeAssumption, Retry, queueVars
<1>2. sender \in Senders /\ sender.note \in Notes /\ sender.budget > 0
  BY DEF Retry, SenderInv, TimerInv
<1>3. /\ sender' \in Senders /\ sender'.note = sender.note /\ sender'.budget = sender.budget
      /\ sender'.quiet = 0
  BY <1>1, <1>2 DEF Senders
<1>4. /\ new \in Flights /\ new.note = sender.note /\ new.left = HandlerTime
      /\ new.pc = "publish"
  BY <1>2, NewFlightType
<1>5. ASSUME NEW f \in flights'
      PROVE  /\ f \in Flights /\ f.note = sender.note /\ f.left <= HandlerTime
             /\ f = new \/ \E g \in flights : f.pc = g.pc /\ f.left = g.left
  <2>1. CASE f = new
    BY <1>4, <2>1, IntakeAssumption DEF IntakeAssumption
  <2>2. CASE f \in Unawaited
    <3>1. PICK g \in flights : f.note = g.note /\ f.left = g.left /\ f.pc = g.pc
      BY <2>2, UnawaitedFacts DEF SenderInv
    <3>2. f \in Flights
      BY <2>2, UnawaitedFacts DEF SenderInv
    <3> QED BY <3>1, <3>2, FlightFacts DEF SenderInv, Flights
  <2> QED BY <1>1, <1>5, <2>1, <2>2
<1>6. TimerInv'
  <2>1. ASSUME NEW f \in flights' PROVE f.left + sender'.quiet <= HandlerTime
    BY <1>3, <1>5, <2>1, IntakeAssumption DEF IntakeAssumption, Flights
  <2> QED BY <1>2, <1>3, <1>5, <2>1 DEF TimerInv
<1>7. C!LastCarried' = C!LastCarried /\ C!LastCarried \in Nat
  BY <1>1, LastType DEF C!LastCarried, SenderInv, CarryInv
<1>8. CarryInv'
  BY <1>1, <1>3, <1>4, <1>5, <1>7 DEF SenderInv, CarryInv
<1>9. Remembered'
  <2> SUFFICES ASSUME C!LastCarried = sender.note
               PROVE  /\ memory[sender.note] + Patience >= Window + sender.budget
                      /\ \A f \in flights' :
                            memory[sender.note] + HandlerTime + Patience >= Window + f.left
    BY <1>1, <1>3, <1>7 DEF Remembered
  <2>1. memory[sender.note] + Patience >= Window + sender.budget
    BY <1>2 DEF SenderInv, Remembered
  <2>2. memory[sender.note] + HandlerTime + Patience >= Window + HandlerTime
    <3>1. memory[sender.note] \in Nat /\ sender.budget \in Nat
      BY <1>2 DEF SenderInv, CarryInv, Senders
    <3> QED BY <1>2, <2>1, <3>1, IntakeAssumption DEF IntakeAssumption
  <2>3. \A g \in flights : memory[sender.note] + HandlerTime + Patience >= Window + g.left
    BY <1>2 DEF SenderInv, Remembered
  <2> QED BY <1>4, <1>5, <2>1, <2>2, <2>3
<1> QED BY <1>6, <1>8, <1>9 DEF SenderInv

(* Giving up, losing an answer and failing leave what is in flight as it is, or less.  *)
LEMMA ResignSender ==
    ASSUME SenderInv,
           \E st \in {"waiting", "retry", "done"} :
               sender' = [sender EXCEPT !.st = st] /\ (sender.st = "done" => st = "done"),
           flights' \subseteq flights \/ flights' = Unawaited,
           UNCHANGED <<memory, accepted>>
    PROVE  SenderInv'
<1>1. /\ sender' \in Senders /\ sender'.note = sender.note /\ sender'.budget = sender.budget
      /\ sender'.quiet = sender.quiet /\ (sender'.st # "done" => sender.st # "done")
  BY DEF SenderInv, TimerInv, Senders
<1>2. ASSUME NEW f \in flights'
      PROVE  f \in Flights /\ \E g \in flights : f.note = g.note /\ f.left = g.left /\ f.pc = g.pc
  BY <1>2, UnawaitedFacts, FlightFacts DEF SenderInv
<1>3. TimerInv'
  BY <1>1, <1>2 DEF SenderInv, TimerInv
<1>4. CarryInv' /\ Remembered'
  BY <1>1, <1>2, QuietCarry
<1> QED BY <1>3, <1>4 DEF SenderInv

(* An answer ends its flight; the sender that still waits for it hears it. *)
LEMMA AnswerSender ==
    ASSUME SenderInv, NEW f \in flights, NEW ok \in BOOLEAN, Answer(f, ok),
           flights' = flights \ {f}, UNCHANGED <<memory, accepted>>
    PROVE  SenderInv'
<1>1. CASE f.awaited /\ sender.st = "waiting"
  BY <1>1, ResignSender DEF Answer
<1>2. CASE ~ (f.awaited /\ sender.st = "waiting")
  <2>1. sender' = sender
    BY <1>2 DEF Answer, senderVars
  <2>2. CarryInv' /\ Remembered'
    BY <2>1, QuietCarry
  <2> QED BY <2>1, <2>2 DEF SenderInv, TimerInv
<1> QED BY <1>1, <1>2

(* What a publish does to the queue.  One that is absorbed was carried before; one   *)
(* that is not has not been, or the queue would still know it.                      *)
LEMMA PublishCarries ==
    ASSUME Unhurried, SenderInv, NEW f \in flights, Publish(f)
    PROVE  /\ f.note = sender.note
           /\ \/ /\ UNCHANGED <<memory, accepted>>
                 /\ C!LastCarried = sender.note
              \/ /\ C!LastCarried < sender.note
                 /\ memory' = [memory EXCEPT ![f.note] = Window]
                 /\ accepted' = Append(accepted, f.note)
<1>1. /\ f.note = sender.note /\ f.note \in Notes /\ f.left >= 1
      /\ memory[f.note] \in 0 .. Window /\ C!LastCarried \in Nat /\ sender.note \in Nat
  BY FlightFacts, LastType DEF SenderInv, CarryInv, Notes
<1>2. CASE memory[f.note] > 0
  BY <1>1, <1>2 DEF Publish, SenderInv, CarryInv
<1>3. CASE ~ memory[f.note] > 0
  <2>1. ASSUME C!LastCarried = sender.note PROVE FALSE
    <3>1. memory[sender.note] + HandlerTime + Patience >= Window + f.left
      BY <1>1, <2>1 DEF SenderInv, Remembered
    <3> QED BY <1>1, <1>3, <3>1, FlightFacts, IntakeAssumption
            DEF IntakeAssumption, Unhurried, SenderInv
  <2> QED BY <1>1, <1>3, <2>1 DEF Publish, SenderInv, CarryInv
<1> QED BY <1>2, <1>3

LEMMA PublishSender ==
    ASSUME Unhurried, SenderInv, NEW f \in flights, Publish(f)
    PROVE  SenderInv'
<1> DEFINE on == [f EXCEPT !.pc = "answer"]
<1>1. /\ f \in Flights /\ f.note = sender.note /\ f.note \in Notes
      /\ f.left \in 1 .. HandlerTime /\ f.left + sender.quiet <= HandlerTime
  BY FlightFacts DEF SenderInv
<1>2. flights' = (flights \ {f}) \union {on} /\ sender' = sender
  BY DEF Publish, senderVars
<1>3. on \in Flights /\ on.note = f.note /\ on.left = f.left /\ on.pc = "answer"
  BY <1>1 DEF Flights
<1>4. TimerInv'
  BY <1>1, <1>2, <1>3 DEF SenderInv, TimerInv
<1>5. sender.note \in Nat /\ sender.budget \in 0 .. Patience /\ C!LastCarried \in Nat
  BY LastType DEF SenderInv, TimerInv, CarryInv, Senders
<1>6. CASE UNCHANGED <<memory, accepted>> /\ C!LastCarried = sender.note
  <2>1. C!LastCarried' = C!LastCarried
    BY <1>6 DEF C!LastCarried
  <2>2. CarryInv'
    BY <1>2, <1>6, <2>1 DEF SenderInv, CarryInv
  <2>3. Remembered'
    BY <1>2, <1>3, <1>6, <2>1 DEF SenderInv, Remembered
  <2> QED BY <1>4, <2>2, <2>3 DEF SenderInv
<1>7. CASE /\ C!LastCarried < sender.note
           /\ memory' = [memory EXCEPT ![f.note] = Window]
           /\ accepted' = Append(accepted, f.note)
  <2>1. accepted' \in Seq(Notes) /\ C!LastCarried' = f.note
    BY <1>1, <1>7 DEF C!LastCarried, SenderInv, CarryInv
  <2>2. memory' \in [Notes -> 0 .. Window] /\ memory'[f.note] = Window
    BY <1>1, <1>7, IntakeAssumption DEF IntakeAssumption, SenderInv, CarryInv
  <2>3. \A n \in Notes : memory'[n] > 0 => n <= f.note
    BY <1>1, <1>5, <1>7, <2>2 DEF SenderInv, CarryInv, Notes
  <2>4. CarryInv'
    BY <1>1, <1>2, <1>5, <2>1, <2>2, <2>3 DEF CarryInv
  <2>5. ASSUME NEW g \in flights'
        PROVE  Window + HandlerTime + Patience >= Window + g.left
    BY <1>4, <2>5, IntakeAssumption DEF IntakeAssumption, TimerInv, Flights
  <2>6. Window + Patience >= Window + sender.budget
    BY <1>5, IntakeAssumption DEF IntakeAssumption
  <2>7. Remembered'
    BY <1>1, <1>2, <2>2, <2>5, <2>6 DEF Remembered
  <2> QED BY <1>4, <2>4, <2>7 DEF SenderInv
<1> QED BY <1>6, <1>7, PublishCarries

LEMMA LessFacts ==
    ASSUME NEW n \in Nat
    PROVE  Less(n) \in 0 .. n /\ Less(n) + 1 >= n /\ (n > 0 => Less(n) = n - 1)
BY DEF Less

LEMMA TickSender ==
    ASSUME SenderInv, Tick
    PROVE  SenderInv'
<1> DEFINE older(f) == [f EXCEPT !.left = @ - 1]
           note == sender.note
<1>1. /\ flights' = {older(f) : f \in {x \in flights : x.left > 1}}
      /\ memory' = [n \in Notes |-> Less(memory[n])] /\ UNCHANGED accepted
      /\ \E st \in {sender.st, "retry"} :
            /\ sender.st = "done" => st = "done"
            /\ sender' = [sender EXCEPT !.budget = Less(@), !.quiet = Least(@ + 1, Gap), !.st = st]
  BY DEF Tick
<1>2. /\ note \in 0 .. MaxNotes /\ sender.budget \in 0 .. Patience /\ sender.quiet \in 0 .. Gap
      /\ C!LastCarried \in Nat /\ sender \in Senders
  BY LastType DEF SenderInv, TimerInv, CarryInv, Senders
<1>3. /\ Less(sender.budget) \in 0 .. Patience
      /\ Least(sender.quiet + 1, Gap) \in 0 .. Gap
      /\ Least(sender.quiet + 1, Gap) <= sender.quiet + 1
  BY <1>2, IntakeAssumption DEF IntakeAssumption, Less, Least
<1>4. /\ sender' \in Senders /\ sender'.note = note /\ sender'.budget = Less(sender.budget)
      /\ sender'.quiet = Least(sender.quiet + 1, Gap)
      /\ sender'.st # "done" => sender.st # "done"
  BY <1>1, <1>2, <1>3 DEF Senders
<1>5. ASSUME NEW f \in flights'
      PROVE  /\ f \in Flights /\ f.note = note /\ f.left + sender'.quiet <= HandlerTime
             /\ \E g \in flights : f.pc = g.pc /\ f.left = g.left - 1 /\ g.left \in Nat
  <2>1. PICK g \in flights : g.left > 1 /\ f = older(g)
    BY <1>1, <1>5
  <2>2. g \in Flights /\ g.note = note /\ g.left + sender.quiet <= HandlerTime
    BY FlightFacts DEF SenderInv
  <2>3. /\ f \in Flights /\ f.note = g.note /\ f.pc = g.pc /\ f.left = g.left - 1
        /\ g.left \in Nat
    BY <2>1, <2>2, IntakeAssumption DEF IntakeAssumption, Flights
  <2>4. f.left + sender'.quiet <= HandlerTime
    BY <1>2, <1>3, <1>4, <2>2, <2>3, IntakeAssumption DEF IntakeAssumption
  <2> QED BY <2>2, <2>3, <2>4
<1>6. TimerInv'
  BY <1>4, <1>5 DEF SenderInv, TimerInv
<1>7. C!LastCarried' = C!LastCarried
  BY <1>1 DEF C!LastCarried
<1>8. \A n \in Notes : memory[n] \in 0 .. Window /\ memory'[n] \in 0 .. memory[n]
                       /\ memory'[n] + 1 >= memory[n]
  BY <1>1, LessFacts, IntakeAssumption DEF IntakeAssumption, SenderInv, CarryInv
<1>9. CarryInv'
  <2>1. memory' \in [Notes -> 0 .. Window]
    BY <1>1, <1>8, IntakeAssumption DEF IntakeAssumption
  <2>2. \A n \in Notes : memory'[n] > 0 => memory[n] > 0
    BY <1>8, IntakeAssumption DEF IntakeAssumption
  <2>3. C!LastCarried' <= sender'.note /\ accepted' \in Seq(Notes)
    BY <1>1, <1>4, <1>7 DEF SenderInv, CarryInv
  <2>4. \A n \in Notes : memory'[n] > 0 => n <= C!LastCarried'
    BY <1>7, <2>2 DEF SenderInv, CarryInv
  <2>5. \A f \in flights' : f.pc = "answer" => C!LastCarried' = sender'.note
    BY <1>4, <1>5, <1>7 DEF SenderInv, CarryInv
  <2> QED BY <2>1, <2>3, <2>4, <2>5 DEF CarryInv
<1>10. Remembered'
  <2> SUFFICES ASSUME C!LastCarried = note, note \in Notes
               PROVE  /\ Less(sender.budget) > 0 =>
                            memory'[note] + Patience >= Window + Less(sender.budget)
                      /\ \A f \in flights' :
                            memory'[note] + HandlerTime + Patience >= Window + f.left
    BY <1>4, <1>7 DEF Remembered
  <2>1. Less(sender.budget) > 0 => memory[note] + Patience >= Window + sender.budget
                                   /\ Less(sender.budget) = sender.budget - 1
    BY <1>2, LessFacts, IntakeAssumption DEF IntakeAssumption, SenderInv, Remembered, Less
  <2>2. ASSUME NEW f \in flights'
        PROVE  memory'[note] + HandlerTime + Patience >= Window + f.left
    <3>1. PICK g \in flights : f.left = g.left - 1 /\ g.left \in Nat
      BY <1>5, <2>2
    <3>2. memory[note] + HandlerTime + Patience >= Window + g.left
      BY DEF SenderInv, Remembered
    <3> QED BY <1>8, <3>1, <3>2, IntakeAssumption DEF IntakeAssumption
  <2>3. Less(sender.budget) > 0 => memory'[note] + Patience >= Window + Less(sender.budget)
    BY <1>2, <1>8, <2>1, IntakeAssumption DEF IntakeAssumption
  <2> QED BY <2>2, <2>3
<1> QED BY <1>6, <1>9, <1>10 DEF SenderInv
-----------------------------------------------------------------------------
(* The rest of the types. *)
HistoryInv == parked \subseteq Notes /\ handled \subseteq Notes /\ told \subseteq Notes

LEMMA StepHistory ==
    ASSUME SenderInv, HolderInv, HistoryInv, [IntakeNext]_intakeVars
    PROVE  HistoryInv'
<1>0. UNCHANGED intakeVars => UNCHANGED <<parked, handled, told>>
  BY DEF intakeVars, senderVars, queueVars
<1>1. UNCHANGED <<parked, handled>> \/ Park \/ \E h \in holders : Finish(h)
  BY <1>0 DEF IntakeNext, SenderNext, IngestNext, QueueNext, Notify, Retry, GiveUp, NoAnswer,
      Publish, Accept, PublishFails, Poll, Delivered, Begin, Errs, Tick, queueVars
<1>2. told' = told \/ \E f \in flights : told' = told \union {f.note}
  BY <1>0 DEF IntakeNext, SenderNext, IngestNext, QueueNext, Notify, Retry, GiveUp, NoAnswer,
      Publish, Accept, PublishFails, Answer, Poll, Delivered, Begin, Finish, Errs, Park, Tick,
      senderVars
<1>3. told' \subseteq Notes
  BY <1>2, FlightFacts DEF SenderInv, HistoryInv
<1>4. CASE UNCHANGED <<parked, handled>>
  BY <1>3, <1>4 DEF HistoryInv
<1>5. CASE Park
  <2>1. queue # << >> /\ parked' = parked \union {Head(queue)} /\ handled' = handled
    BY <1>5 DEF Park
  <2>2. Head(queue) \in Notes
    BY <2>1 DEF HolderInv
  <2> QED BY <1>3, <2>1, <2>2 DEF HistoryInv
<1>6. CASE \E h \in holders : Finish(h)
  <2>1. queue # << >> /\ handled' = handled \union {Head(queue)} /\ parked' = parked
    BY <1>6 DEF Finish, HolderInv
  <2>2. Head(queue) \in Notes
    BY <2>1 DEF HolderInv
  <2> QED BY <1>3, <2>1, <2>2 DEF HistoryInv
<1> QED BY <1>1, <1>4, <1>5, <1>6

LEMMA StepHolder ==
    ASSUME Outlasts, SenderInv, HolderInv, [IntakeNext]_intakeVars
    PROVE  HolderInv'
<1>1. CASE SenderNext \/ UNCHANGED intakeVars
  BY <1>1, QuietHolder DEF SenderNext, Notify, Retry, GiveUp, NoAnswer, intakeVars, queueVars
<1>2. CASE IngestNext
  <2>1. ASSUME NEW f \in flights, Publish(f) PROVE HolderInv'
    BY <2>1, PublishHolder, FlightFacts DEF SenderInv
  <2>2. ASSUME NEW f \in flights, Accept(f) \/ PublishFails(f) PROVE HolderInv'
    BY <2>2, QuietHolder DEF Accept, PublishFails, queueVars
  <2> QED BY <1>2, <2>1, <2>2 DEF IngestNext
<1>3. CASE QueueNext
  BY <1>3, PollHolder, BeginHolder, EndHolder DEF QueueNext
<1>4. CASE Tick
  BY <1>4, TickHolder
<1> QED BY <1>1, <1>2, <1>3, <1>4 DEF IntakeNext

LEMMA StepSender ==
    ASSUME Unhurried, SenderInv, [IntakeNext]_intakeVars
    PROVE  SenderInv'
<1>1. CASE SenderNext
  <2>1. ASSUME NEW c \in Contents, Notify(c) PROVE SenderInv'
    BY <2>1, NotifySender
  <2>2. CASE Retry
    BY <2>2, RetrySender
  <2>3. CASE GiveUp
    BY <2>3, ResignSender DEF GiveUp, queueVars
  <2>4. CASE NoAnswer
    BY <2>4, ResignSender DEF NoAnswer, queueVars
  <2> QED BY <1>1, <2>1, <2>2, <2>3, <2>4 DEF SenderNext
<1>2. CASE IngestNext
  <2>1. ASSUME NEW f \in flights, Publish(f) PROVE SenderInv'
    BY <2>1, PublishSender
  <2>2. ASSUME NEW f \in flights, Accept(f) PROVE SenderInv'
    BY <2>2, AnswerSender DEF Accept, queueVars
  <2>3. ASSUME NEW f \in flights, PublishFails(f) PROVE SenderInv'
    BY <2>3, AnswerSender DEF PublishFails, queueVars
  <2> QED BY <1>2, <2>1, <2>2, <2>3 DEF IngestNext
<1>3. CASE QueueNext \/ UNCHANGED intakeVars
  <2>1. UNCHANGED <<sender, flights, memory, accepted>>
    BY <1>3 DEF QueueNext, Poll, Delivered, Begin, Finish, Errs, Park, intakeVars, senderVars,
                queueVars
  <2> QED BY <2>1, QuietSender
<1>4. CASE Tick
  BY <1>4, TickSender
<1> QED BY <1>1, <1>2, <1>3, <1>4 DEF IntakeNext

-----------------------------------------------------------------------------
IntakeInv == SenderInv /\ HolderInv /\ HistoryInv

LEMMA InitIntake == IntakeInit => IntakeInv
<1>1. IntakeInit => HistoryInv
  BY DEF IntakeInit, HistoryInv
<1> QED BY <1>1, InitSender, InitHolder DEF IntakeInv

LEMMA StepIntake ==
    ASSUME Outlasts, Unhurried
    PROVE  IntakeInv /\ [IntakeNext]_intakeVars => IntakeInv'
BY StepSender, StepHolder, StepHistory DEF IntakeInv

(* Every variable keeps its type, for every set of timers that meets the premises: in *)
(* particular no poll finds the head while a processor still has it, so nothing is     *)
(* deleted from an empty queue.                                                       *)
THEOREM IntakeTypeCorrect ==
    ASSUME Outlasts, Unhurried
    PROVE  IntakeSpec => []IntakeType
<1>1. IntakeInv => IntakeType
  <2> SUFFICES ASSUME IntakeInv PROVE IntakeType
    OBVIOUS
  <2>1. Senders \subseteq [note : Nat, content : Contents, st : {"waiting", "retry", "done"},
                           budget : 0 .. Patience, quiet : 0 .. Gap]
    BY DEF Senders
  <2> QED BY <2>1 DEF IntakeInv, SenderInv, TimerInv, CarryInv, HolderInv, HistoryInv, Flights,
                      IntakeType
<1> QED BY <1>1, InitIntake, StepIntake, PTL DEF IntakeSpec

(* A redelivery never overlaps a run of the processor that still has the message, for  *)
(* every visibility timeout that outlasts a poll and a run together, however runs fail   *)
(* or are killed.                                                                      *)
THEOREM NeverTwice ==
    ASSUME Outlasts, Unhurried
    PROVE  IntakeSpec => []NoOverlap
<1>1. IntakeInv => NoOverlap
  <2> SUFFICES ASSUME IntakeInv PROVE Cardinality(holders) <= 1
    BY DEF NoOverlap
  <2>1. CASE holders = {}
    BY <2>1, FS_EmptySet
  <2>2. CASE holders # {}
    <3>1. PICK h \in holders : holders = {h}
      BY <2>2 DEF IntakeInv, HolderInv
    <3> QED BY <3>1, FS_Singleton
  <2> QED BY <2>1, <2>2
<1> QED BY <1>1, InitIntake, StepIntake, PTL DEF IntakeSpec

-----------------------------------------------------------------------------
(* The refinement: what each step is to Channel. *)
LEMMA StepChannel ==
    ASSUME Unhurried, SenderInv, [IntakeNext]_intakeVars
    PROVE  [C!Next]_(C!channelVars)
<1> USE DEF C!channelVars
<1>1. ASSUME NEW c \in Contents, Notify(c) PROVE C!Offer
  BY <1>1 DEF Notify, queueVars, C!Offer
<1>2. CASE Retry \/ GiveUp \/ NoAnswer
  <2>1. sender'.note = sender.note /\ UNCHANGED <<accepted, told>>
    BY <1>2 DEF Retry, GiveUp, NoAnswer, queueVars, SenderInv, TimerInv, Senders
  <2> QED BY <2>1
<1>3. ASSUME NEW f \in flights, Publish(f) PROVE C!Carry \/ UNCHANGED C!channelVars
  <2>1. sender' = sender /\ told' = told
    BY <1>3 DEF Publish, senderVars
  <2> QED BY <1>3, <2>1, PublishCarries DEF C!Carry
<1>4. ASSUME NEW f \in flights, Accept(f) PROVE C!Tell \/ UNCHANGED C!channelVars
  <2>1. accepted' = accepted /\ f.note = sender.note /\ C!LastCarried = sender.note
    BY <1>4, FlightFacts DEF Accept, queueVars, SenderInv, CarryInv
  <2>2. CASE f.awaited /\ sender.st = "waiting"
    <3>1. sender' = [sender EXCEPT !.st = "done"] /\ told' = told \union {f.note}
      BY <1>4, <2>2 DEF Accept, Answer
    <3>2. sender'.note = sender.note
      BY <3>1 DEF SenderInv, TimerInv, Senders
    <3> QED BY <2>1, <3>1, <3>2 DEF C!Tell
  <2>3. CASE ~ (f.awaited /\ sender.st = "waiting")
    BY <1>4, <2>1, <2>3 DEF Accept, Answer, senderVars
  <2> QED BY <2>2, <2>3
<1>5. ASSUME NEW f \in flights, PublishFails(f) PROVE UNCHANGED C!channelVars
  <2>1. accepted' = accepted /\ told' = told /\ (sender' = sender \/ sender' = [sender EXCEPT !.st = "retry"])
    BY <1>5 DEF PublishFails, Answer, queueVars, senderVars
  <2>2. sender'.note = sender.note
    BY <2>1 DEF SenderInv, TimerInv, Senders
  <2> QED BY <2>1, <2>2
<1>6. CASE QueueNext \/ UNCHANGED intakeVars
  <2>1. UNCHANGED <<sender, accepted, told>>
    BY <1>6 DEF QueueNext, Poll, Delivered, Begin, Finish, Errs, Park, intakeVars, senderVars,
                queueVars
  <2> QED BY <2>1
<1>7. CASE Tick
  <2>1. sender'.note = sender.note /\ UNCHANGED <<accepted, told>>
    BY <1>7 DEF Tick, SenderInv, TimerInv, Senders
  <2> QED BY <2>1
<1> QED BY <1>1, <1>2, <1>3, <1>4, <1>5, <1>6, <1>7
        DEF IntakeNext, SenderNext, IngestNext, C!Next

(* Whatever requests and answers are lost, however long abandoned handlers go on, and  *)
(* however often the sender tries again, the notifications of a subject reach the queue  *)
(* in order and once each, and one that was answered with a 202 has reached it.         *)
THEOREM CarriedOnceInOrder ==
    ASSUME Unhurried
    PROVE  IntakeSpec => CarriesOnceInOrder
<1>1. IntakeInit => C!Init
  BY DEF IntakeInit, C!Init
<1>2. SenderInv /\ [IntakeNext]_intakeVars => SenderInv'
  BY StepSender
<1>3. SenderInv /\ [IntakeNext]_intakeVars => [C!Next]_(C!channelVars)
  BY StepChannel
<1> QED BY <1>1, <1>2, <1>3, InitSender, PTL DEF IntakeSpec, CarriesOnceInOrder, C!Spec
=============================================================================
