-------------------------------- MODULE Board --------------------------------
(***************************************************************************)
(* The status page (web/src): it loads the status endpoint when it is       *)
(* mounted and every REFRESH_MS, and shows the last figures it got beside    *)
(* the last error.  Loads overlap, settle in any order and are aborted when  *)
(* the page is unmounted, which StrictMode does once right after mounting.   *)
(***************************************************************************)
EXTENDS Status

CONSTANTS
    MaxFailures   \* bound: queries and requests that fail

VARIABLES
    page,      \* what the component keeps, and whether it is mounted
    load,      \* load[l]: what has become of fetch l
    failures   \* queries and requests that have failed

boardVars == <<statusVars, page, load, failures>>

NoBoard == [status |-> 0]

BoardInit ==
    /\ StatusInit
    /\ page = [mounted |-> FALSE, strict |-> FALSE, board |-> NoBoard, error |-> FALSE]
    /\ load = [l \in Loads |-> "none"]
    /\ failures = 0

Failure == failures < MaxFailures /\ failures' = failures + 1
TableStays == UNCHANGED <<time, index, past, rollups>>

-----------------------------------------------------------------------------
(* The effect of Board: load now and on every tick of the timer. *)

Fetch(l) ==
    /\ load[l] = "none"
    /\ load' = [load EXCEPT ![l] = "pending"]
    /\ request' = [request EXCEPT ![l] = Begin]

(* The development build mounts everything twice. *)
Mount(l, strict) ==
    /\ ~ page.mounted
    /\ page' = [mounted |-> TRUE, strict |-> strict, board |-> NoBoard, error |-> FALSE]
    /\ Fetch(l)
    /\ TableStays /\ UNCHANGED failures

(* The cleanup: what is under way is aborted, the timer is cleared. *)
Aborted == [l \in Loads |-> IF load[l] = "pending" THEN "aborted" ELSE load[l]]
Unheard == [l \in Loads |-> Idle]

(* StrictMode runs cleanup and effect again; the component keeps its state. *)
Remount(l) ==
    /\ page.mounted /\ page.strict /\ load[l] = "none"
    /\ page' = [page EXCEPT !.strict = FALSE]
    /\ load' = [Aborted EXCEPT ![l] = "pending"]
    /\ request' = [Unheard EXCEPT ![l] = Begin]
    /\ TableStays /\ UNCHANGED failures

Unmount ==
    /\ page.mounted /\ ~ page.strict
    /\ page' = [page EXCEPT !.mounted = FALSE]
    /\ load' = Aborted
    /\ request' = Unheard
    /\ TableStays /\ UNCHANGED failures

(* setInterval: the next load does not wait for the last. *)
Refresh(l) ==
    /\ page.mounted /\ ~ page.strict
    /\ Fetch(l)
    /\ TableStays /\ UNCHANGED <<page, failures>>

-----------------------------------------------------------------------------
Answered(l, status) == request[l].answer.status = status

Free(l) ==
    /\ load' = [load EXCEPT ![l] = "none"]
    /\ request' = [request EXCEPT ![l] = Idle]

(* Mutant of Shows: the error of a load before stays. *)
ShowsBeside(answer) == [page EXCEPT !.board = answer]

(* setBoard and setError(null). *)
Shows(answer) == [page EXCEPT !.board = answer, !.error = FALSE]

Settles(l) ==
    /\ load[l] = "pending" /\ Answered(l, 200)
    /\ page' = Shows(request[l].answer)
    /\ Free(l)
    /\ TableStays /\ UNCHANGED failures

(* Mutant of Complains: an abort is an error like any other. *)
ComplainsAlways(l) == [page EXCEPT !.error = TRUE]

(* The figures stay, with the reason why they are old; an abort is no error.      *)
Complains(l) == IF load[l] = "aborted" THEN page ELSE [page EXCEPT !.error = TRUE]

(* An answer that is not ok, or the rejection of an aborted fetch. *)
Rejects(l) ==
    /\ load[l] = "aborted" \/ (load[l] = "pending" /\ Answered(l, 500))
    /\ page' = Complains(l)
    /\ Free(l)
    /\ TableStays /\ UNCHANGED failures

(* The request or its answer is lost. *)
NetworkFails(l) ==
    /\ load[l] = "pending" /\ Failure
    /\ page' = Complains(l)
    /\ Free(l)
    /\ TableStays

-----------------------------------------------------------------------------
LoadSteps(l) == Settles(l) \/ Rejects(l) \/ (Serves(l) /\ UNCHANGED <<page, load, failures>>)

BoardNext ==
    \/ TableNext /\ UNCHANGED <<page, load, failures>>
    \/ Unmount
    \/ \E l \in Loads :
          \/ (\E strict \in BOOLEAN : Mount(l, strict)) \/ Remount(l) \/ Refresh(l)
          \/ LoadSteps(l) \/ NetworkFails(l)
          \/ QueryFails(l) /\ Failure /\ UNCHANGED <<page, load>>

(* The browser runs the effect and its timer, the handler goes on, a load settles   *)
(* and GSI1 catches up; nobody has to open the page or stay on it.                *)
EffectRuns == \E l \in Loads : Remount(l) \/ Refresh(l)
BoardFairness ==
    /\ WF_boardVars(EffectRuns)
    /\ \A l \in Loads : WF_boardVars(LoadSteps(l))
    /\ \A i \in Incidents : WF_boardVars(Propagates(i) /\ UNCHANGED <<page, load, failures>>)

BoardSpec == BoardInit /\ [][BoardNext]_boardVars /\ BoardFairness
-----------------------------------------------------------------------------
(* What the page renders. *)

(* duration: hours and minutes, or minutes and seconds; the rest is left out.     *)
Duration(seconds) ==
    IF seconds <= 0 THEN <<0, 0, 0>>
    ELSE LET h == seconds \div 3600
             m == (seconds % 3600) \div 60
         IN IF h > 0 THEN <<h, m, 0>> ELSE <<0, m, seconds % 60>>

HEALTH_COPY == [operational |-> "st-good", degraded |-> "st-warning", down |-> "st-critical"]

(* The headline, while there are no figures too. *)
Masthead ==
    IF page.board.status = 200 THEN HEALTH_COPY[page.board.health]
    ELSE IF page.error THEN "Status unavailable." ELSE "Loading"

(* Mutant of ClassifyDay: a day may fail as often again as the target allows and  *)
(* still be good.                                                                *)
ClassifyDayLax(d, target) ==
    IF d.total = 0 THEN "empty"
    ELSE IF d.good * 1000 >= (2 * target - 1000) * d.total THEN "good" ELSE "critical"

(* One further allowance below the target is a warning. *)
ClassifyDay(d, target) ==
    IF d.total = 0 THEN "empty"
    ELSE IF d.good * 1000 >= target * d.total THEN "good"
    ELSE IF d.good * 1000 >= (2 * target - 1000) * d.total THEN "warning"
    ELSE "critical"

Strip(sli) == [n \in DOMAIN sli.days |-> ClassifyDay(sli.days[n], sli.target)]

(* The card of one indicator; percent is in tenths. *)
Sli(sli) ==
    [pill |-> IF sli.meeting THEN "Meeting target" ELSE "Breached",
     fill |-> IF sli.budget.percent >= 1000 THEN "st-critical"
              ELSE IF sli.budget.percent >= 600 THEN "st-warning" ELSE "st-good",
     left |-> Duration(sli.budget.remaining),
     cells |-> Strip(sli)]

(* The legend explains every grade a cell can have. *)
Legend == {"good", "warning", "critical", "empty"}

(* A duration, or nothing for "never acked", "ongoing" and a dash. *)
Nothing == << >>
AckDelay(i) == IF i.acked = None THEN Nothing ELSE Duration(i.acked - i.started)
TotalDuration(i) == IF i.resolved = None THEN Nothing ELSE Duration(i.resolved - i.started)

Row(i) == [id |-> i.id, state |-> i.state, ack |-> AckDelay(i)]
ActiveIncidents(a) == [n \in DOMAIN a.active |-> Row(a.active[n])]

IncidentHistory(a) ==
    [n \in DOMAIN a.recent |->
        [id |-> a.recent[n].id, ack |-> AckDelay(a.recent[n]), lasted |-> TotalDuration(a.recent[n])]]

(* The tile of a mean. *)
Tile(mean) == IF mean.size > 0 THEN Duration(mean.seconds) ELSE Nothing

-----------------------------------------------------------------------------
BoardType ==
    /\ page.mounted \in BOOLEAN /\ page.error \in BOOLEAN
    /\ page.board.status \in {0, 200}
    /\ load \in [Loads -> {"none", "pending", "aborted"}]
    /\ \A l \in Loads : request[l] # Idle => load[l] = "pending"

(* An indicator reads the same wherever it is shown, computed by the endpoint from *)
(* the window and by the page from each day: a breached one has no budget left, a  *)
(* full bar and a day below target, and one with a bar that is not full is met.    *)
IndicatorsAgree ==
    page.board.status = 200 =>
        \A n \in DOMAIN SLIs :
            LET card == Sli(SLIs[n]) IN
            /\ card.pill = "Breached" =>
                  /\ card.fill = "st-critical" /\ card.left = <<0, 0, 0>>
                  /\ \E c \in DOMAIN card.cells : card.cells[c] \in {"warning", "critical"}
            /\ \A c \in DOMAIN card.cells : card.cells[c] \in Legend

(* The page blames the endpoint only for what went wrong there: not for a load     *)
(* that it aborted itself, in StrictMode or when it went away (Board.tsx load).    *)
ErrorIsReal == page.error => failures > 0

(* The history on the page is of incidents that are over, the latest to close      *)
(* first, each with how long it lasted, and the two means are of those very rows.   *)
HistoryIsOfTheClosed ==
    page.board.status = 200 =>
        LET recent == page.board.recent
            rows == IncidentHistory(page.board)
        IN /\ \A i, j \in DOMAIN recent : i < j => recent[i].resolved >= recent[j].resolved
           /\ \A n \in DOMAIN rows : rows[n].lasted # Nothing
           /\ Tile(Mttr(page.board)) # Nothing <=> rows # << >>
           /\ Tile(Mtta(page.board)) # Nothing <=> \E n \in DOMAIN rows : rows[n].ack # Nothing

(* The page lists what is open, each as it stands, under a headline to match. *)
Agrees ==
    /\ page.board.status = 200 /\ ~ page.error
    /\ Range(ActiveIncidents(page.board)) = {Row(index[i]) : i \in OpenNow}
    /\ Masthead = "st-good" => OpenNow = {}

(* A page somebody keeps open converges: once incidents stop moving and calls stop  *)
(* failing it shows what is open and no error, however its loads overlapped.        *)
PageConverges == <>[](page.mounted) => <>[]Agrees
=============================================================================
