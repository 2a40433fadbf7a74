-------------------------------- MODULE StartUp --------------------------------
(***************************************************************************)
(* The start of the processes of one deployment: the onModuleInit hooks of *)
(* PrismaService, which connects and asks what role it is connected as,    *)
(* and of StorageService, which makes the bucket.  A hook that throws ends *)
(* the process, and compose starts it again.                               *)
(***************************************************************************)
CONSTANTS
  Processes,   \* the API and the workers
  Strict       \* NODE_ENV is "production"

ASSUME StartUpAssumption == Strict \in BOOLEAN

VARIABLES
  bypass,      \* whether the role of APP_DATABASE_URL bypasses row-level security
  postgresUp,  \* whether Postgres answers
  storageUp,   \* whether MinIO answers
  mayCreate,   \* whether the access key may make buckets
  bucket,      \* whose the bucket is: "none" if it is not there
  prismaHook,  \* where the hook of each process stands
  storageHook,
  exited       \* whether a hook has thrown

environmentVars == <<bypass, postgresUp, storageUp, mayCreate>>
hookVars == <<prismaHook, storageHook, exited>>
startUpVars == <<environmentVars, bucket, hookVars>>

Buckets == {"none", "ours", "theirs"}

StartUpInit ==
  /\ bypass \in BOOLEAN /\ postgresUp \in BOOLEAN
  /\ storageUp \in BOOLEAN /\ mayCreate \in BOOLEAN
  /\ bucket \in Buckets
  /\ prismaHook = [p \in Processes |-> "todo"]
  /\ storageHook = [p \in Processes |-> "todo"]
  /\ exited = [p \in Processes |-> FALSE]

Serving(p) == ~exited[p] /\ prismaHook[p] = "done" /\ storageHook[p] = "done"

\* The process is gone, and with it what its hooks have done so far.
Throws(p) ==
  /\ exited' = [exited EXCEPT ![p] = TRUE]
  /\ prismaHook' = [prismaHook EXCEPT ![p] = "todo"]
  /\ storageHook' = [storageHook EXCEPT ![p] = "todo"]

PrismaAt(p, state) ==
  prismaHook' = [prismaHook EXCEPT ![p] = state] /\ UNCHANGED <<storageHook, exited>>
StorageAt(p, state) ==
  storageHook' = [storageHook EXCEPT ![p] = state] /\ UNCHANGED <<prismaHook, exited>>

\* await this.$connect()
Connect(p) ==
  /\ ~exited[p] /\ prismaHook[p] = "todo"
  /\ IF postgresUp THEN PrismaAt(p, "connected") ELSE Throws(p)
  /\ UNCHANGED <<environmentVars, bucket>>

\* Mutant: warns in production, too.
AssertRlsWarns(p) ==
  /\ ~exited[p] /\ prismaHook[p] = "connected"
  /\ IF postgresUp THEN PrismaAt(p, "done") ELSE Throws(p)
  /\ UNCHANGED <<environmentVars, bucket>>

\* The query fails, or tells the role.
AssertRlsEnforced(p) ==
  /\ ~exited[p] /\ prismaHook[p] = "connected"
  /\ IF postgresUp /\ ~(bypass /\ Strict) THEN PrismaAt(p, "done") ELSE Throws(p)
  /\ UNCHANGED <<environmentVars, bucket>>

\* An error is taken for "no": bucketExists(...).catch(() => false).  A bucket of
\* somebody else answers with one.
BucketExists(p) ==
  /\ ~exited[p] /\ storageHook[p] = "todo"
  /\ StorageAt(p, IF storageUp /\ bucket = "ours" THEN "done" ELSE "missing")
  /\ UNCHANGED <<environmentVars, bucket>>

\* What MinIO answers to makeBucket.
Answer ==
  CASE ~storageUp -> "unreachable"
    [] storageUp /\ ~mayCreate -> "AccessDenied"
    [] storageUp /\ mayCreate /\ bucket = "theirs" -> "BucketAlreadyExists"
    [] storageUp /\ mayCreate /\ bucket = "ours" -> "BucketAlreadyOwnedByYou"
    [] storageUp /\ mayCreate /\ bucket = "none" -> "made"

MakeBucketUnless(p, harmless) ==
  /\ ~exited[p] /\ storageHook[p] = "missing"
  /\ IF Answer \in {"made"} \cup harmless THEN StorageAt(p, "done") ELSE Throws(p)
  /\ bucket' = IF Answer = "made" THEN "ours" ELSE bucket
  /\ UNCHANGED environmentVars

\* Mutant: every error of makeBucket is thrown on.
MakeBucketOrThrow(p) == MakeBucketUnless(p, {})

\* Mutant: a bucket that exists is good enough, whosever it is.
MakeBucketAnyones(p) ==
  MakeBucketUnless(p, {"BucketAlreadyOwnedByYou", "BucketAlreadyExists"})

\* Only the answer to the slower of two processes is no error.
MakeBucket(p) == MakeBucketUnless(p, {"BucketAlreadyOwnedByYou"})

\* restart: unless-stopped
Restart(p) ==
  /\ exited[p]
  /\ exited' = [exited EXCEPT ![p] = FALSE]
  /\ UNCHANGED <<environmentVars, bucket, prismaHook, storageHook>>

\* Postgres comes, and may go again until a process has got past it; what fails
\* in a process that serves is TenantIsolation's Rollback.
PostgresChanges ==
  /\ \A p \in Processes : prismaHook[p] # "done"
  /\ postgresUp' = ~postgresUp
  /\ UNCHANGED <<bypass, storageUp, mayCreate, bucket, hookVars>>

StorageAnswers ==
  /\ ~storageUp /\ storageUp' = TRUE
  /\ UNCHANGED <<bypass, postgresUp, mayCreate, bucket, hookVars>>

StartUpStep(p) ==
  Connect(p) \/ AssertRlsEnforced(p) \/ BucketExists(p) \/ MakeBucket(p) \/ Restart(p)
StartUpNext == PostgresChanges \/ StorageAnswers \/ \E p \in Processes : StartUpStep(p)

-----------------------------------------------------------------------------
(* Properties *)

\* What ends a start: Postgres or MinIO does not answer, the role is refused, the
\* key may not make buckets, or the bucket is somebody else's.
Unfit ==
  ~postgresUp \/ (bypass /\ Strict) \/ ~storageUp \/ ~mayCreate \/ bucket = "theirs"

\* Processes that start together do not end each other: in a fit environment none
\* exits, though another has made the bucket between its check and its makeBucket.
\* Nor does the error let through for that race let anything else through: a
\* process that has come to serve has the deployment's own bucket, and in
\* production a role under the policies.
RaceIsHarmless ==
  [][\A p \in Processes :
       /\ ~exited[p] /\ exited'[p] => Unfit
       /\ ~Serving(p) /\ Serving(p)' => bucket' = "ours" /\ ~(bypass' /\ Strict)]_startUpVars

=============================================================================
