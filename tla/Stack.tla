-------------------------------- MODULE Stack --------------------------------
(***************************************************************************)
(* What the CDK application declares: the functions, their environment,     *)
(* permissions and time-outs, beside what the handlers need and call.       *)
(***************************************************************************)
EXTENDS Naturals, Sequences

Functions == {"ingest", "status", "notify", "processor", "callback", "schedule"}

(* The fields of the environment's configuration that have a value. *)
EnvConfig(e) ==
    {"telegramApiBaseUrl", "scheduleId"} \union
    IF e = "local"
    THEN {"integrationKeys", "telegramBotToken", "telegramWebhookSecret", "icalUrl",
          "restApiId", "siteBucketName"}
    ELSE {}

LOCAL_SITE_BUCKET == "bananaoncall-status-local"

(* Mutant of Environment: the calendar is not handed to the sync. *)
EnvironmentNoCalendar(f) == {<<"TABLE_NAME", "stack">>, <<"SCHEDULE_ID", "scheduleId">>}

(* The variables of a function's environment: name and what it is taken from. *)
Environment(f) ==
    CASE f = "ingest"    -> {<<"ALERT_QUEUE_URL", "stack">>, <<"INTEGRATION_KEYS", "integrationKeys">>}
      [] f = "status"    -> {<<"TABLE_NAME", "stack">>, <<"ALLOWED_ORIGIN", "stack">>}
      [] f = "notify"    -> {<<"TABLE_NAME", "stack">>, <<"TELEGRAM_API_BASE", "telegramApiBaseUrl">>,
                             <<"TELEGRAM_BOT_TOKEN", "telegramBotToken">>, <<"SCHEDULE_ID", "scheduleId">>}
      [] f = "processor" -> {<<"TABLE_NAME", "stack">>, <<"ESCALATION_ARN", "stack">>}
      [] f = "callback"  -> {<<"TABLE_NAME", "stack">>, <<"TELEGRAM_API_BASE", "telegramApiBaseUrl">>,
                             <<"TELEGRAM_BOT_TOKEN", "telegramBotToken">>,
                             <<"TELEGRAM_WEBHOOK_SECRET", "telegramWebhookSecret">>,
                             <<"ESCALATION_ARN", "stack">>}
      [] f = "schedule"  -> {<<"TABLE_NAME", "stack">>, <<"ICAL_URL", "icalUrl">>,
                             <<"SCHEDULE_ID", "scheduleId">>}

(* What main of a function insists on before it starts its handler. *)
Required(f) ==
    CASE f = "ingest"    -> {"ALERT_QUEUE_URL"}
      [] f = "status"    -> {"TABLE_NAME"}
      [] f = "notify"    -> {"TABLE_NAME", "TELEGRAM_API_BASE", "TELEGRAM_BOT_TOKEN"}
      [] f = "processor" -> {"TABLE_NAME", "ESCALATION_ARN"}
      [] f = "callback"  -> {"TABLE_NAME", "TELEGRAM_API_BASE", "TELEGRAM_BOT_TOKEN",
                             "ESCALATION_ARN", "TELEGRAM_WEBHOOK_SECRET"}
      [] f = "schedule"  -> {"TABLE_NAME", "ICAL_URL"}

(* The variables of f that have a value in environment e. *)
Provided(e, f) ==
    {v[1] : v \in {w \in Environment(f) : w[2] \in EnvConfig(e) \union {"stack"}}}

(* Lambda's time-out for f, in seconds. *)
Timeout(f) ==
    CASE f = "ingest" -> 10 [] f \in {"status", "callback"} -> 15
      [] f \in {"notify", "schedule"} -> 20 [] f = "processor" -> 30

(* CDK's table grants, as far as some handler makes the call. *)
ReadData == {"GetItem", "Query"}

(* Mutant of ReadWriteData: deleting is not part of it. *)
ReadWriteDataKept == ReadData \union {"PutItem", "UpdateItem", "BatchWriteItem"}

ReadWriteData == ReadData \union {"PutItem", "UpdateItem", "DeleteItem", "BatchWriteItem"}

Grants(f) ==
    CASE f = "ingest"    -> {"SendMessage"}
      [] f = "status"    -> ReadData
      [] f = "notify"    -> ReadWriteData
      [] f = "processor" -> ReadWriteData \union {"StartExecution", "StopExecution",
                                                  "ReceiveMessage", "DeleteMessage"}
      [] f = "callback"  -> ReadWriteData \union {"StopExecution"}
      [] f = "schedule"  -> ReadWriteData

(* The calls of a handler on its longest ways through, in their order: for the   *)
(* processor an alert that opens an incident, one that joins and one that closes, *)
(* for the callback an ack and a resolve.                                        *)
Ways(f) ==
    CASE f = "ingest"    -> {<<"SendMessage">>}
      [] f = "status"    -> {[n \in 1 .. 7 |-> "Query"]}
      [] f = "notify"    -> {<<"GetItem", "Query", "GetItem", "Query", "GetItem",
                               "Telegram", "UpdateItem", "PutItem">>}
      [] f = "processor" ->
            {<<"ReceiveMessage", "PutItem", "PutItem", "PutItem", "PutItem", "StartExecution",
               "UpdateItem", "PutItem", "DeleteMessage">>,
             <<"ReceiveMessage", "PutItem", "GetItem", "UpdateItem", "PutItem", "DeleteMessage">>,
             <<"ReceiveMessage", "GetItem", "UpdateItem", "DeleteItem", "StopExecution", "PutItem",
               "DeleteMessage">>}
      [] f = "callback"  ->
            {<<"UpdateItem", "GetItem", "PutItem", "StopExecution", "Telegram", "Telegram">>,
             <<"UpdateItem", "DeleteItem", "PutItem", "StopExecution", "Telegram", "Telegram">>}
      [] f = "schedule"  -> {<<"Calendar", "BatchWriteItem">>}

(* Calls that need no permission: those that leave the account. *)
Outside == {"Telegram", "Calendar"}
=============================================================================
