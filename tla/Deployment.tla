----------------------------- MODULE Deployment -----------------------------
(***************************************************************************)
(* The life of the stack: deployed, torn down and deployed again, while     *)
(* triggers start its functions.  An invocation is the sequence of calls    *)
(* its handler makes; one that the function's role does not allow is denied. *)
(***************************************************************************)
EXTENDS Stack

CONSTANT MaxDeploys   \* bound: how often the stack is deployed

ASSUME DeploymentAssumption == MaxDeploys \in Nat

VARIABLES
    env,     \* the environment the stack is synthesized for
    stack,   \* "none", "up", "gone", or "stuck": its deletion has failed
    deploys, \* how often it has been deployed
    site,    \* whether the bucket of this stack holds the built site
    kept,    \* the tables and buckets that exist: what each is, and its name
    inv      \* an invocation: its function, the calls it still has to make, its end

deployVars == <<env, stack, deploys, site, kept, inv>>

Starts(f) == Required(f) \subseteq Provided(env, f)

-----------------------------------------------------------------------------
Idle == [fn |-> "none", calls |-> << >>, end |-> "none"]
Ends == {"none", "busy", "ok", "denied", "crashed"}

DeployInit ==
    /\ env \in {"local", "prod"}
    /\ stack = "none" /\ deploys = 0 /\ site = FALSE /\ kept = {}
    /\ inv = Idle

(* CloudFormation makes a fresh name up unless the template pins one. *)
Generated == <<"generated", deploys + 1>>
TableName  == Generated
BucketName == IF "siteBucketName" \in EnvConfig(env) THEN <<LOCAL_SITE_BUCKET, 0>> ELSE Generated

Taken == <<"table", TableName>> \in kept \/ <<"bucket", BucketName>> \in kept

(* A name that is taken makes the deployment fail and roll back. *)
Deploy ==
    /\ stack \in {"none", "gone"} /\ stack' = "up" /\ ~ Taken
    /\ deploys < MaxDeploys /\ deploys' = deploys + 1
    /\ site' = FALSE
    /\ kept' = kept \union {<<"table", TableName>>, <<"bucket", BucketName>>}
    /\ UNCHANGED <<env, inv>>

(* make web-deploy *)
PublishSite ==
    /\ stack = "up" /\ site' = TRUE
    /\ UNCHANGED <<env, stack, deploys, kept, inv>>

TableRetained  == env # "local"

BucketRetained == env # "local"

(* The removal policies say what stays when the stack goes.  A bucket that is not  *)
(* empty cannot be deleted, for want of autoDeleteObjects: the deletion is stuck.  *)
Destroy ==
    LET stays(r) == CASE r[1] = "table"  -> TableRetained
                      [] r[1] = "bucket" -> BucketRetained \/ site
    IN /\ stack \in {"up", "stuck"}
       /\ stack' = IF site /\ ~ BucketRetained THEN "stuck" ELSE "gone"
       /\ kept' = {r \in kept : stays(r)}
       /\ inv' = Idle
       /\ UNCHANGED <<env, deploys, site>>

(* make down: LocalStack forgets the whole account. *)
Wipe ==
    /\ env = "local" /\ stack' = "none" /\ kept' = {} /\ site' = FALSE /\ inv' = Idle
    /\ UNCHANGED <<env, deploys>>

(* A trigger of f fires.  A function that lacks a variable panics at its start. *)
Invoke(f) ==
    /\ stack = "up" /\ inv.end # "busy"
    /\ \E way \in Ways(f) :
          inv' = [fn |-> f, calls |-> IF Starts(f) THEN way ELSE << >>,
                  end |-> IF Starts(f) THEN "busy" ELSE "crashed"]
    /\ UNCHANGED <<env, stack, deploys, site, kept>>

Denied(call) == call \notin Outside /\ call \notin Grants(inv.fn)

Ended(end) == inv' = [inv EXCEPT !.calls = << >>, !.end = end]

Call ==
    /\ inv.end = "busy"
    /\ LET call == Head(inv.calls) IN
       \/ Denied(call) /\ Ended("denied")
       \/ /\ ~ Denied(call)
          /\ IF Len(inv.calls) = 1 THEN Ended("ok")
             ELSE inv' = [inv EXCEPT !.calls = Tail(@)]
    /\ UNCHANGED <<env, stack, deploys, site, kept>>

DeployNext ==
    \/ Deploy \/ PublishSite \/ Destroy \/ Wipe \/ Call
    \/ \E f \in Functions : Invoke(f)

-----------------------------------------------------------------------------
DeployType ==
    /\ env \in {"local", "prod"} /\ stack \in {"none", "up", "gone", "stuck"}
    /\ deploys \in 0 .. MaxDeploys /\ site \in BOOLEAN
    /\ \A r \in kept : r[1] \in {"table", "bucket"}
    /\ inv.fn \in Functions \union {"none"} /\ inv.end \in Ends

(* No handler makes a call its role was not granted: the permissions are in      *)
(* cdk-stack.ts, the calls in the adapters of another language.                  *)
NeverDenied == inv.end # "denied"

(* Every function of the local stack starts: what main requires is provided.     *)
LocalStarts == env = "local" => inv.end # "crashed"

-----------------------------------------------------------------------------
DeploySpec == DeployInit /\ [][DeployNext]_deployVars
=============================================================================
