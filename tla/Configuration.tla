--------------------------- MODULE Configuration ---------------------------
(***************************************************************************)
(* internal/config: the environment turned into a Config, or refused; and  *)
(* the two S3 clients made from it.  An environment maps each variable to  *)
(* what os.LookupEnv finds.  A text is reduced to its value and whether    *)
(* the parser of its kind accepts it; an endpoint to its host and whether  *)
(* it is a bare host:port.                                                 *)
(***************************************************************************)
EXTENDS Integers, Sequences

CONSTANT Envs  \* the environments the process may be started in

Durations == {"SHUTDOWN_TIMEOUT", "PRESIGN_TTL", "GC_INTERVAL", "GC_GRACE_PERIOD", "IDEMPOTENCY_TTL"}
Toggles   == {"S3_USE_SSL", "S3_PUBLIC_USE_SSL"}
Endpoints == {"S3_ENDPOINT", "S3_PUBLIC_ENDPOINT"}
Texts     == {"HTTP_ADDR", "POSTGRES_DSN", "S3_REGION", "S3_ACCESS_KEY", "S3_SECRET_KEY", "S3_BUCKET"}
Names     == Durations \cup Toggles \cup Endpoints \cup Texts \cup {"MAX_UPLOAD_BYTES"}
Required  == {"POSTGRES_DSN", "S3_ENDPOINT", "S3_ACCESS_KEY", "S3_SECRET_KEY", "S3_BUCKET"}

\* What os.LookupEnv finds: nothing, or a value; and whether the text has
\* the form of its kind.
Unset      == [found |-> <<>>, wellFormed |-> TRUE]
Found(v)   == [found |-> <<v>>, wellFormed |-> TRUE]
Garbled(v) == [found |-> <<v>>, wellFormed |-> FALSE]

Set(env, x)   == env[x].found # <<>>
Value(env, x) == env[x].found[1]

\* Numbers are numbers, and there is no wrong way to write a text or to leave
\* an endpoint empty.
ASSUME EnvsAssumption ==
    \A env \in Envs :
        /\ \A x \in Durations \cup {"MAX_UPLOAD_BYTES"} : Set(env, x) => Value(env, x) \in Int
        /\ \A x \in Texts : env[x].wellFormed
        /\ \A x \in Endpoints : Set(env, x) /\ Value(env, x) = "" => env[x].wellFormed

\* The defaults of Load and loadStorage; times are in seconds.
Default ==
    [HTTP_ADDR |-> ":8080", SHUTDOWN_TIMEOUT |-> 10, PRESIGN_TTL |-> 900, MAX_UPLOAD_BYTES |-> 0,
     GC_INTERVAL |-> 300, GC_GRACE_PERIOD |-> 3600, IDEMPOTENCY_TTL |-> 86400,
     POSTGRES_DSN |-> "", S3_ENDPOINT |-> "", S3_REGION |-> "us-east-1",
     S3_ACCESS_KEY |-> "", S3_SECRET_KEY |-> "", S3_BUCKET |-> "", S3_USE_SSL |-> FALSE]

-----------------------------------------------------------------------------
\* getenv: a variable that is set wins, even when it is empty.
getenv(env, x, fallback) == IF Set(env, x) THEN Value(env, x) ELSE fallback

\* Mutant: a malformed value falls back to the default.
ParsesOrDefaults(env, x) == TRUE

\* getduration, getint64, getbool: a variable that is set must parse.
Parses(env, x) == Set(env, x) => env[x].wellFormed

\* Load, before its checks: the two public settings default to the others.
Resolve(env) ==
    [x \in Names |->
        getenv(env, x, CASE x = "S3_PUBLIC_ENDPOINT" -> getenv(env, "S3_ENDPOINT", Default.S3_ENDPOINT)
                         [] x = "S3_PUBLIC_USE_SSL"  -> getenv(env, "S3_USE_SSL", Default.S3_USE_SSL)
                         [] OTHER                    -> Default[x])]

\* validateEndpoint: an endpoint left empty passes.
validateEndpoint(env, x) == Set(env, x) /\ Value(env, x) # "" => env[x].wellFormed

\* validate.
validate(env) ==
    /\ \A x \in Required : Resolve(env)[x] # ""
    /\ \A x \in Endpoints : validateEndpoint(env, x)

\* Load succeeds.
Loads(env) ==
    /\ \A x \in Durations \cup Toggles \cup {"MAX_UPLOAD_BYTES"} : Parses(env, x)
    /\ Resolve(env).MAX_UPLOAD_BYTES >= 0
    /\ Resolve(env).SHUTDOWN_TIMEOUT > 0
    /\ Resolve(env).PRESIGN_TTL > 0
    /\ validate(env)

\* s3.New: the client that does the I/O, and the one that signs URLs.
IOClient(cfg) == [host |-> cfg.S3_ENDPOINT, tls |-> cfg.S3_USE_SSL]

PresignClient(cfg) ==
    IF cfg.S3_PUBLIC_ENDPOINT # "" /\ cfg.S3_PUBLIC_ENDPOINT # cfg.S3_ENDPOINT
    THEN [host |-> cfg.S3_PUBLIC_ENDPOINT, tls |-> cfg.S3_PUBLIC_USE_SSL]
    ELSE IOClient(cfg)

-----------------------------------------------------------------------------
\* The reference: why an environment is no good.  A required variable is
\* missing, a value is not one of its kind, or it is one that nothing can be
\* done with: no time to drain in, links that are born expired, a cap below
\* zero.
Missing(env)    == \E x \in Required : ~Set(env, x) \/ Value(env, x) = ""
Malformed(env)  == \E x \in Names : Set(env, x) /\ ~env[x].wellFormed
OutOfRange(env) ==
    \/ \E x \in {"SHUTDOWN_TIMEOUT", "PRESIGN_TTL"} : Set(env, x) /\ Value(env, x) <= 0
    \/ Set(env, "MAX_UPLOAD_BYTES") /\ Value(env, "MAX_UPLOAD_BYTES") < 0

\* Or the sweeps run with a grace period shorter than any upload: the sweep
\* takes an object whose row is not committed yet.
NoGrace(env) ==
    /\ Set(env, "GC_INTERVAL") => Value(env, "GC_INTERVAL") > 0
    /\ Set(env, "GC_GRACE_PERIOD") /\ Value(env, "GC_GRACE_PERIOD") <= 0

Unusable(env) == Missing(env) \/ Malformed(env) \/ OutOfRange(env) \/ NoGrace(env)
=============================================================================
