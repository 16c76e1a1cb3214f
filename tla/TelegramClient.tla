--------------------------- MODULE TelegramClient ---------------------------
(***************************************************************************)
(* telegramx.Client.call inside the invocation that makes it: up to three   *)
(* attempts with growing pauses, each cut off by the HTTP client's time-out, *)
(* and Lambda's time-out over all of them.  Half a second is the unit.      *)
(***************************************************************************)
EXTENDS Stack

CONSTANTS
    attempts,      \* tries per call
    HttpTimeout,   \* of one try
    MaxPrelude     \* bound: what the handler has used up before its first call

ASSUME ClientAssumption == attempts \in Nat \ {0} /\ HttpTimeout \in Nat /\ MaxPrelude \in Nat

VARIABLES
    caller,    \* the function whose invocation this is
    calls,     \* Bot API methods it still has to call; the first one is running
    attempt,   \* the attempt being made
    elapsed,   \* since the invocation began
    took,      \* history: the part of it that was spent waiting for the provider
    result     \* of the running, or last, call; "killed": of the invocation

clientVars == <<caller, calls, attempt, elapsed, took, result>>

(* What a function asks of Telegram in one invocation. *)
CallsOf(f) ==
    IF f = "notify" THEN <<"sendMessage">> ELSE <<"editMessageText", "answerCallbackQuery">>
Deadline == 2 * Timeout(caller)

ClientInit ==
    /\ caller \in {"notify", "callback"} /\ calls = CallsOf(caller)
    /\ attempt = 1 /\ elapsed \in 0 .. MaxPrelude
    /\ took = 0 /\ result = "pending"

Pending == result = "pending"

(* An edit that failed is only logged: the callback goes on to answer.            *)
NextCall ==
    /\ result \in {"ok", "failed"} /\ calls # << >>
    /\ attempt' = 1 /\ result' = "pending"
    /\ UNCHANGED <<caller, calls, elapsed, took>>

(* Mutant of Pause: as long as the last attempt. *)
PauseLong == attempt * 8

Pause == attempt

(* An attempt is over after some time.  The call returns, or a pause is made and   *)
(* the next attempt, unless Lambda has ended the invocation by then.             *)
AttemptEnds(time, how) ==
    LET later == elapsed + time + (IF how = "pending" THEN Pause ELSE 0) IN
    /\ Pending
    /\ elapsed' = later /\ took' = took + time
    /\ result' = IF later >= Deadline THEN "killed" ELSE how
    /\ attempt' = IF result' = "pending" THEN attempt + 1 ELSE attempt
    /\ calls' = IF result' \in {"ok", "failed"} THEN Tail(calls) ELSE calls
    /\ UNCHANGED caller

(* Answered. *)
Succeeds(time) == AttemptEnds(time, "ok")

(* A 4xx, an answer that says it is not ok, or one nobody can decode. *)
Refused(time) == AttemptEnds(time, "failed")

(* A 5xx, a connection that fails, or a provider that does not answer before the   *)
(* time-out of the HTTP client.                                                  *)
Errs(time) == AttemptEnds(time, IF attempt < attempts THEN "pending" ELSE "failed")

(* No outcome takes longer than the HTTP client's time-out, and each may take that. *)
ClientNext == NextCall \/ \E time \in 0 .. HttpTimeout : Succeeds(time) \/ Refused(time) \/ Errs(time)

ClientSpec == ClientInit /\ [][ClientNext]_clientVars

-----------------------------------------------------------------------------
ClientType ==
    /\ caller \in {"notify", "callback"}
    /\ attempt \in 1 .. attempts /\ elapsed \in Nat /\ took \in 0 .. elapsed
    /\ result \in {"pending", "ok", "failed", "killed"}

(* Retries and their pauses do not by themselves use an invocation up.  Lambda      *)
(* kills the notifier only when Telegram kept it waiting for longer than all its    *)
(* attempts but one can, and the callback, whose time-out is shorter, only when it  *)
(* did for longer than one attempt can.                                            *)
KilledOnlyByWaiting ==
    result = "killed" => took > HttpTimeout * (IF caller = "notify" THEN attempts - 1 ELSE 1)

(* A hung provider surfaces as a retry rather than as a killed invocation         *)
(* (client.go New).                                                              *)
HungIsRetried == caller = "notify" => result # "killed"
=============================================================================
