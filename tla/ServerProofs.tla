---------------------------- MODULE ServerProofs ----------------------------
(***************************************************************************)
(* The life of the process, for any environment, any number of client      *)
(* connections and any size of the pool: what Load makes of the            *)
(* environment, that exit status 0 means a graceful exit, that the         *)
(* collector's counters add up, and who may hold a connection.             *)
(***************************************************************************)
EXTENDS Server, TLAPS

-----------------------------------------------------------------------------
(* Configuration. *)

\* A variable that is set wins over its default.
LEMMA SetWins ==
    ASSUME NEW e, NEW x \in Names, Set(e, x)
    PROVE  Resolve(e)[x] = Value(e, x)
    BY DEF Resolve, getenv

\* One that is not set takes it.
LEMMA UnsetTakesDefault ==
    ASSUME NEW e, NEW x \in Names \ {"S3_PUBLIC_ENDPOINT", "S3_PUBLIC_USE_SSL"}, ~Set(e, x)
    PROVE  Resolve(e)[x] = Default[x]
    BY DEF Resolve, getenv

\* Required variables have no default.
LEMMA RequiredHasNoDefault ==
    ASSUME NEW x \in Required
    PROVE  Default[x] = "" /\ x \in Names \ {"S3_PUBLIC_ENDPOINT", "S3_PUBLIC_USE_SSL"}
<1>1. x \in Names /\ x \notin {"S3_PUBLIC_ENDPOINT", "S3_PUBLIC_USE_SSL"}
    BY DEF Required, Names, Endpoints, Texts
<1>2. /\ Default.POSTGRES_DSN = "" /\ Default.S3_ENDPOINT = "" /\ Default.S3_ACCESS_KEY = ""
      /\ Default.S3_SECRET_KEY = "" /\ Default.S3_BUCKET = ""
    BY DEF Default
<1>3. \/ x = "POSTGRES_DSN" \/ x = "S3_ENDPOINT" \/ x = "S3_ACCESS_KEY"
      \/ x = "S3_SECRET_KEY" \/ x = "S3_BUCKET"
    BY DEF Required
<1>4. QED
    BY <1>1, <1>2, <1>3, Zenon

\* Load's checks, each against the reason it is there for; of the grace period
\* it checks the form alone.
LEMMA LoadIsExact ==
    ASSUME NEW e \in Envs
    PROVE  Loads(e) <=> ~Missing(e) /\ ~Malformed(e) /\ ~OutOfRange(e)
<1> DEFINE Parsed == Durations \cup Toggles \cup {"MAX_UPLOAD_BYTES"}
<1>1. Names = Parsed \cup Endpoints \cup Texts
    BY DEF Names
<1>2. Malformed(e)
         <=> \/ \E x \in Parsed : ~Parses(e, x)
             \/ \E x \in Endpoints : ~validateEndpoint(e, x)
    BY <1>1, EnvsAssumption DEF Malformed, Parses, validateEndpoint
<1>3. Required \subseteq Names /\ {"SHUTDOWN_TIMEOUT", "PRESIGN_TTL", "MAX_UPLOAD_BYTES"} \subseteq Names
    BY DEF Required, Names, Durations, Endpoints, Texts
<1>4. ASSUME NEW x \in Required
      PROVE  Resolve(e)[x] # "" <=> Set(e, x) /\ Value(e, x) # ""
    <2>1. CASE Set(e, x)
        <3>1. Resolve(e)[x] = Value(e, x)
            BY <1>3, <2>1, SetWins
        <3>2. QED
            BY <2>1, <3>1
    <2>2. CASE ~Set(e, x)
        <3>1. Resolve(e)[x] = ""
            BY <2>2, RequiredHasNoDefault, UnsetTakesDefault
        <3>2. QED
            BY <2>2, <3>1
    <2>3. QED
        BY <2>1, <2>2
<1>5. ASSUME NEW x \in {"SHUTDOWN_TIMEOUT", "PRESIGN_TTL"}
      PROVE  Resolve(e)[x] > 0 <=> ~(Set(e, x) /\ Value(e, x) <= 0)
    <2>1. CASE Set(e, x)
        <3>1. Value(e, x) \in Int
            BY <2>1, EnvsAssumption DEF Durations
        <3>2. Resolve(e)[x] = Value(e, x)
            BY <1>3, <2>1, SetWins
        <3>3. QED
            BY <2>1, <3>1, <3>2
    <2>2. CASE ~Set(e, x)
        <3>1. Resolve(e)[x] = Default[x]
            BY <1>3, <2>2, UnsetTakesDefault
        <3>2. Default.SHUTDOWN_TIMEOUT = 10 /\ Default.PRESIGN_TTL = 900
            BY DEF Default
        <3>3. QED
            BY <2>2, <3>1, <3>2
    <2>3. QED
        BY <2>1, <2>2
<1>6. Resolve(e).MAX_UPLOAD_BYTES >= 0
         <=> ~(Set(e, "MAX_UPLOAD_BYTES") /\ Value(e, "MAX_UPLOAD_BYTES") < 0)
    <2>1. CASE Set(e, "MAX_UPLOAD_BYTES")
        <3>1. Value(e, "MAX_UPLOAD_BYTES") \in Int
            BY <2>1, EnvsAssumption
        <3>2. Resolve(e)["MAX_UPLOAD_BYTES"] = Value(e, "MAX_UPLOAD_BYTES")
            BY <1>3, <2>1, SetWins
        <3>3. QED
            BY <2>1, <3>1, <3>2
    <2>2. CASE ~Set(e, "MAX_UPLOAD_BYTES")
        <3>1. Resolve(e)["MAX_UPLOAD_BYTES"] = Default["MAX_UPLOAD_BYTES"]
            BY <1>3, <2>2, UnsetTakesDefault
        <3>2. Default.MAX_UPLOAD_BYTES = 0
            BY DEF Default
        <3>3. QED
            BY <2>2, <3>1, <3>2
    <2>3. QED
        BY <2>1, <2>2
<1>7. QED
    BY <1>2, <1>4, <1>5, <1>6 DEF Loads, Missing, OutOfRange, validate

\* URLs are signed for the public endpoint, which defaults to the other one.
LEMMA PresignedHost ==
    ASSUME NEW e \in Envs, Loads(e)
    PROVE  LET config == Resolve(e)
               public == "S3_PUBLIC_ENDPOINT"
           IN  PresignClient(config).host =
                  IF Set(e, public) /\ Value(e, public) # "" THEN Value(e, public)
                  ELSE Value(e, "S3_ENDPOINT")
<1> DEFINE config == Resolve(e)
           own    == Value(e, "S3_ENDPOINT")
           public == Value(e, "S3_PUBLIC_ENDPOINT")
           given  == Set(e, "S3_PUBLIC_ENDPOINT")
<1>1. "S3_ENDPOINT" \in Names /\ "S3_PUBLIC_ENDPOINT" \in Names /\ "S3_ENDPOINT" \in Required
    BY DEF Names, Endpoints, Required
<1>2. Set(e, "S3_ENDPOINT")
    BY <1>1, LoadIsExact DEF Missing
<1>3. config.S3_ENDPOINT = own
    BY <1>1, <1>2, SetWins
<1>4. config.S3_PUBLIC_ENDPOINT = IF given THEN public ELSE own
    <2>1. CASE given
        BY <1>1, <2>1, SetWins
    <2>2. CASE ~given
        BY <1>1, <1>2, <2>2 DEF Resolve, getenv
    <2>3. QED
        BY <2>1, <2>2
<1> HIDE DEF config, own, public, given
<1>5. PresignClient(config).host = IF given /\ public # "" THEN public ELSE own
    BY <1>3, <1>4 DEF PresignClient, IOClient
<1>6. QED
    BY <1>5 DEF config, own, public, given

-----------------------------------------------------------------------------
(* The process. *)

Booting == {"load", "migrate", "connect", "bucket"}
Places  == Booting \cup {"serve", "drain", "close", "closing", "exited"}

ProcessTyped ==
    /\ main \in [pc: Places, code: Nat]
    /\ listener \in {"down", "starting", "open", "closed", "failed"}
    /\ conn \in [Slots -> Active \cup {"none", "new"}]
    /\ pool \in [closed: BOOLEAN, held: SUBSET (Slots \cup {"gc"})]
    /\ refused \in BOOLEAN

\* Until boot has opened everything nothing runs that could use it.
BootIsQuiet ==
    At("load") \/ At("migrate") \/ At("connect") \/ At("bucket") =>
        /\ listener = "down" /\ gc.pc = "off" /\ pool.held = {}
        /\ \A s \in Slots : conn[s] = "none"

EnvKnown == At("load") => env \in Envs

\* Connections are accepted only while boot waits in its select,
AcceptsOnlyServing == listener = "open" => At("serve")

\* and the pool is closed only on the way out.
PoolClosesLast ==
    /\ pool.closed => At("closing") \/ At("exited")
    /\ refused => pool.closed

\* Past a drain that was not cut short nothing is left to be refused.
DrainedIsIdle ==
    (At("close") \/ At("closing") \/ At("exited")) /\ main.code = 0 =>
        ~refused /\ \A s \in Slots : conn[s] = "none"

ProcessInv ==
    /\ ProcessTyped /\ BootIsQuiet /\ EnvKnown /\ AcceptsOnlyServing
    /\ PoolClosesLast /\ DrainedIsIdle

LEMMA ProcessInit == Init => ProcessInv
<1> SUFFICES ASSUME Init PROVE ProcessInv
    OBVIOUS
<1>1. main.pc = "load" /\ pool.closed = FALSE /\ pool.held = {} /\ gc.pc = "off"
    BY DEF Init
<1>2. ProcessTyped
    BY DEF Init, ProcessTyped, Places, Booting
<1>3. QED
    BY <1>1, <1>2 DEF Init, ProcessInv, BootIsQuiet, EnvKnown, AcceptsOnlyServing, PoolClosesLast,
                      DrainedIsIdle, At

\* How boot moves on.
LEMMA BootMoves ==
    ASSUME main \in [pc: Places, code: Nat], NEW pc \in Places, To(pc) \/ Fail(pc)
    PROVE  /\ main' \in [pc: Places, code: Nat] /\ main'.pc = pc
           /\ \/ To(pc) /\ main'.code = main.code
              \/ Fail(pc) /\ main'.code # 0
<1>1. CASE To(pc)
    BY <1>1 DEF To
<1>2. CASE Fail(pc)
    BY <1>2 DEF Fail
<1>3. QED
    BY <1>1, <1>2

\* What a step of boot has to bring with it.
LEMMA BootStep ==
    ASSUME ProcessInv, NEW pc \in Places \ {"load"}, To(pc) \/ Fail(pc),
           UNCHANGED <<conn, refused>>, pool.closed => pool'.closed,
           listener' \in {"down", "starting", "open", "closed", "failed"},
           pool' \in [closed: BOOLEAN, held: SUBSET (Slots \cup {"gc"})],
           pc \in Booting => /\ listener' = "down" /\ gc'.pc = "off" /\ pool'.held = {}
                             /\ \A s \in Slots : conn[s] = "none",
           listener' = "open" => pc = "serve",
           pool'.closed => pc \in {"closing", "exited"},
           To(pc) /\ main.code = 0 /\ pc \in {"close", "closing", "exited"}
              => ~refused /\ \A s \in Slots : conn[s] = "none"
    PROVE  ProcessInv'
<1>1. /\ main' \in [pc: Places, code: Nat] /\ main'.pc = pc
      /\ \/ To(pc) /\ main'.code = main.code
         \/ Fail(pc) /\ main'.code # 0
    BY BootMoves DEF ProcessInv, ProcessTyped
<1>2. ProcessTyped'
    BY <1>1 DEF ProcessInv, ProcessTyped
<1>3. BootIsQuiet' /\ EnvKnown' /\ AcceptsOnlyServing'
    BY <1>1 DEF BootIsQuiet, EnvKnown, AcceptsOnlyServing, At, Booting
<1>4. PoolClosesLast'
    BY <1>1 DEF ProcessInv, PoolClosesLast, At
<1>5. DrainedIsIdle'
    BY <1>1 DEF DrainedIsIdle, At
<1>6. QED
    BY <1>2, <1>3, <1>4, <1>5 DEF ProcessInv

LEMMA BootKeepsProcess ==
    ASSUME ProcessInv, MainStep
    PROVE  ProcessInv'
<1> USE DEF ProcessInv, ProcessTyped
<1>1. /\ {"migrate", "connect", "bucket", "serve", "drain", "close", "closing", "exited"}
            = Places \ {"load"}
      /\ Booting = {"load", "migrate", "connect", "bucket"}
    BY DEF Places, Booting
<1>2. CASE LoadConfig \/ RunMigrations \/ OpenPostgres
    <2>1. /\ At("load") \/ At("migrate") \/ At("connect")
          /\ UNCHANGED <<listener, conn, pool, gc, refused>>
        BY <1>2 DEF LoadConfig, RunMigrations, OpenPostgres, gcVars
    <2>2. PICK pc \in {"migrate", "connect", "bucket", "exited"} :
             (To(pc) /\ pc # "exited") \/ Fail(pc)
        BY <1>2 DEF LoadConfig, RunMigrations, OpenPostgres
    <2>3. ~pool.closed /\ listener = "down" /\ gc.pc = "off" /\ pool.held = {}
          /\ \A s \in Slots : conn[s] = "none"
        BY <2>1 DEF PoolClosesLast, BootIsQuiet, At
    <2>4. main.code = 0 => pc # "exited" \/ ~To(pc)
        BY <2>2 DEF To, Fail, Places
    <2>5. QED
        BY <1>1, <2>1, <2>2, <2>3, <2>4, BootStep
<1>3. CASE NewBackend
    <2>1. At("bucket") /\ UNCHANGED <<conn, pool, refused>>
        BY <1>3 DEF NewBackend
    <2>2. ~pool.closed /\ listener = "down" /\ pool.held = {} /\ ~refused
          /\ \A s \in Slots : conn[s] = "none"
        BY <2>1 DEF PoolClosesLast, BootIsQuiet, At
    <2>3. CASE To("serve") /\ listener' = "starting"
        BY <1>1, <2>1, <2>2, <2>3, BootStep
    <2>4. CASE Fail("close") /\ UNCHANGED <<listener, gc>>
        BY <1>1, <2>1, <2>2, <2>4, BootStep
    <2>5. QED
        BY <1>3, <2>3, <2>4 DEF NewBackend
<1>4. CASE ServeFails
    <2>1. /\ At("serve") /\ listener = "failed" /\ Fail("close")
          /\ UNCHANGED <<listener, conn, pool, gc, refused>>
        BY <1>4 DEF ServeFails, gcVars
    <2>2. ~pool.closed /\ ~refused
        BY <2>1 DEF PoolClosesLast, At
    <2>3. main.code = 0 => ~To("close")
        BY <2>1 DEF To, Fail
    <2>4. QED
        BY <1>1, <2>1, <2>2, <2>3, BootStep
<1>5. CASE ShutdownBegins
    <2>1. /\ At("serve") /\ To("drain") /\ listener' = IF listener = "open" THEN "closed" ELSE listener
          /\ UNCHANGED <<conn, pool, gc, refused>>
        BY <1>5 DEF ShutdownBegins, gcVars
    <2>2. ~pool.closed
        BY <2>1 DEF PoolClosesLast, At
    <2>3. QED
        BY <1>1, <2>1, <2>2, BootStep
<1>6. CASE ShutdownEnds
    <2>1. /\ At("drain") /\ To("close") /\ (\A s \in Slots : conn[s] = "none")
          /\ UNCHANGED <<listener, conn, pool, gc, refused>>
        BY <1>6 DEF ShutdownEnds, gcVars
    <2>2. ~pool.closed /\ ~refused /\ listener # "open"
        BY <2>1 DEF PoolClosesLast, AcceptsOnlyServing, At
    <2>3. QED
        BY <1>1, <2>1, <2>2, BootStep
<1>7. CASE ShutdownTimesOut
    <2>1. /\ At("drain") /\ Fail("close")
          /\ UNCHANGED <<listener, conn, pool, gc, refused>>
        BY <1>7 DEF ShutdownTimesOut, gcVars
    <2>2. ~pool.closed /\ listener # "open"
        BY <2>1 DEF PoolClosesLast, AcceptsOnlyServing, At
    <2>3. main.code = 0 => ~To("close")
        BY <2>1 DEF To, Fail
    <2>4. QED
        BY <1>1, <2>1, <2>2, <2>3, BootStep
<1>8. CASE ClosePool
    <2>1. /\ At("close") /\ To("closing") /\ pool' = [pool EXCEPT !.closed = TRUE]
          /\ UNCHANGED <<listener, conn, gc, refused>>
        BY <1>8 DEF ClosePool, gcVars
    <2>2. listener # "open" /\ (main.code = 0 => ~refused /\ \A s \in Slots : conn[s] = "none")
        BY <2>1 DEF DrainedIsIdle, AcceptsOnlyServing, At
    <2>3. pool' \in [closed: BOOLEAN, held: SUBSET (Slots \cup {"gc"})] /\ pool'.closed
        BY <2>1
    <2>4. QED
        BY <1>1, <2>1, <2>2, <2>3, BootStep
<1>9. CASE PoolClosed
    <2>1. /\ At("closing") /\ pool.held = {} /\ To("exited")
          /\ UNCHANGED <<listener, conn, pool, gc, refused>>
        BY <1>9 DEF PoolClosed, gcVars
    <2>2. listener # "open" /\ (main.code = 0 => ~refused /\ \A s \in Slots : conn[s] = "none")
        BY <2>1 DEF DrainedIsIdle, AcceptsOnlyServing, At
    <2>3. QED
        BY <1>1, <2>1, <2>2, BootStep
<1>10. ASSUME NEW s \in Slots, ShutdownDrops(s) PROVE ProcessInv'
    <2>1. /\ At("drain") /\ conn' = [conn EXCEPT ![s] = "none"]
          /\ UNCHANGED <<env, main, listener, pool, gc, refused>>
        BY <1>10 DEF ShutdownDrops, mainVars, gcVars
    <2>2. ProcessTyped'
        BY <2>1
    <2>3. QED
        BY <2>1, <2>2 DEF BootIsQuiet, EnvKnown, AcceptsOnlyServing, PoolClosesLast, DrainedIsIdle,
                          At
<1>11. QED
    BY <1>2, <1>3, <1>4, <1>5, <1>6, <1>7, <1>8, <1>9, <1>10 DEF MainStep

\* Once serving, nothing but boot's own steps moves boot.
LEMMA OthersKeepProcess ==
    ASSUME ProcessInv, UNCHANGED <<env, main>>, Up,
           ~(At("load") \/ At("migrate") \/ At("connect") \/ At("bucket")),
           ProcessTyped', pool'.closed = pool.closed,
           listener' = "open" => listener = "open" \/ At("serve"),
           refused' => refused \/ pool.closed,
           (\A s \in Slots : conn[s] = "none") /\ listener # "open"
               => UNCHANGED refused /\ \A s \in Slots : conn'[s] = "none"
    PROVE  ProcessInv'
<1>1. BootIsQuiet' /\ EnvKnown'
    BY DEF BootIsQuiet, EnvKnown, At
<1>2. AcceptsOnlyServing' /\ PoolClosesLast'
    BY DEF ProcessInv, AcceptsOnlyServing, PoolClosesLast, At
<1>3. DrainedIsIdle'
    <2>1. At("close") \/ At("closing") \/ At("exited") => listener # "open"
        BY DEF ProcessInv, AcceptsOnlyServing, At
    <2>2. QED
        BY <2>1 DEF ProcessInv, DrainedIsIdle, At
<1>4. QED
    BY <1>1, <1>2, <1>3 DEF ProcessInv

\* The calls a handler may be in, and that each leads to another or ends the
\* request.
LEMMA Handlers ==
    /\ Active = {"claim", "query", "transfer", "commit", "cleanup", "release", "ping", "stat"}
    /\ \A pc \in Active : Goes[pc] \subseteq Active \cup {"none"}
<1>1. Active = {"claim", "query", "transfer", "commit", "cleanup", "release", "ping", "stat"}
    BY DEF Active, Goes
<1>2. \A pc \in Active : Goes[pc] \subseteq Active \cup {"none"}
    BY <1>1 DEF Goes
<1>3. QED
    BY <1>1, <1>2

LEMMA RequestKeepsProcess ==
    ASSUME ProcessInv, NEW s \in Slots, Request(s)
    PROVE  ProcessInv'
<1> USE DEF ProcessInv, ProcessTyped
<1>1. Up /\ UNCHANGED <<env, main, listener>>
    BY DEF Request, Accept, ReadHeader, Acquire, AcquireFails, QueryEnds, TransferEnds,
           CleanupEnds, StatEnds, mainVars
<1>2. conn[s] # "none" \/ listener = "open"
    BY DEF Request, Accept, ReadHeader, Acquire, AcquireFails, QueryEnds, TransferEnds,
           CleanupEnds, StatEnds, Querying
<1>3. ~(At("load") \/ At("migrate") \/ At("connect") \/ At("bucket"))
    BY <1>2 DEF BootIsQuiet
<1>4. UNCHANGED refused \/ (refused' = TRUE /\ pool.closed)
    BY DEF Request, Accept, ReadHeader, Acquire, AcquireFails, QueryEnds, TransferEnds,
           CleanupEnds, StatEnds
<1>5. \/ UNCHANGED conn
      \/ \E pc \in Active \cup {"none", "new"} : conn' = [conn EXCEPT ![s] = pc]
    <2>1. CASE Accept(s) \/ ReadHeader(s) \/ Acquire(s) \/ AcquireFails(s)
        BY <2>1, Handlers DEF Accept, ReadHeader, Acquire, AcquireFails
    <2>2. CASE QueryEnds(s) \/ TransferEnds(s) \/ CleanupEnds(s) \/ StatEnds(s)
        <3>1. conn[s] \in Active /\ Goto(s)
            BY <2>2, Handlers DEF QueryEnds, TransferEnds, CleanupEnds, StatEnds, Querying
        <3>2. QED
            BY <3>1, Handlers DEF Goto
    <2>3. QED
        BY <2>1, <2>2 DEF Request
<1>6. \/ UNCHANGED pool
      \/ \E held \in SUBSET (Slots \cup {"gc"}) : pool' = [pool EXCEPT !.held = held]
    <2>1. pool.held \in SUBSET (Slots \cup {"gc"})
        OBVIOUS
    <2>2. pool.held \cup {s} \in SUBSET (Slots \cup {"gc"})
          /\ pool.held \ {s} \in SUBSET (Slots \cup {"gc"})
        BY <2>1
    <2>3. \/ UNCHANGED pool \/ pool' = [pool EXCEPT !.held = pool.held \cup {s}]
          \/ pool' = [pool EXCEPT !.held = pool.held \ {s}]
        BY DEF Request, Accept, ReadHeader, Acquire, AcquireFails, QueryEnds, TransferEnds,
               CleanupEnds, StatEnds
    <2>4. QED
        BY <2>2, <2>3
<1>7. pool' \in [closed: BOOLEAN, held: SUBSET (Slots \cup {"gc"})] /\ pool'.closed = pool.closed
    BY <1>6
<1>8. ProcessTyped'
    <2>1. conn' \in [Slots -> Active \cup {"none", "new"}]
        BY <1>5
    <2>2. QED
        BY <1>1, <1>4, <1>7, <2>1
<1>9. QED
    BY <1>1, <1>2, <1>3, <1>4, <1>7, <1>8, OthersKeepProcess

\* The collector only takes and returns its own connection.
LEMMA CollectorKeepsProcess ==
    ASSUME ProcessInv, GCAcquire \/ GCStep
    PROVE  ProcessInv'
<1> USE DEF ProcessInv, ProcessTyped
<1>1. Up /\ UNCHANGED <<env, main, listener, conn, refused>> /\ gc.pc # "off"
    BY DEF GCAcquire, GCStep, StopGC, StartSweep, GCStatementEnds, GCStoreCallEnds, NextPhase,
           CallFails, CallSucceeds, Statement, mainVars
<1>2. ~(At("load") \/ At("migrate") \/ At("connect") \/ At("bucket"))
    BY <1>1 DEF BootIsQuiet
<1>3. pool' \in [closed: BOOLEAN, held: SUBSET (Slots \cup {"gc"})] /\ pool'.closed = pool.closed
    <2>1. pool.held \in SUBSET (Slots \cup {"gc"})
        OBVIOUS
    <2>2. pool.held \cup {"gc"} \in SUBSET (Slots \cup {"gc"})
          /\ pool.held \ {"gc"} \in SUBSET (Slots \cup {"gc"})
        BY <2>1
    <2>3. \/ UNCHANGED pool \/ pool' = [pool EXCEPT !.held = pool.held \cup {"gc"}]
          \/ pool' = [pool EXCEPT !.held = pool.held \ {"gc"}]
        BY DEF GCAcquire, GCStep, StopGC, StartSweep, GCStatementEnds, GCStoreCallEnds, NextPhase
    <2>4. UNCHANGED pool
          \/ \E held \in SUBSET (Slots \cup {"gc"}) : pool' = [pool EXCEPT !.held = held]
        BY <2>2, <2>3
    <2>5. QED
        BY <2>4
<1>4. QED
    BY <1>1, <1>2, <1>3, OthersKeepProcess

LEMMA ProcessNext == ProcessInv /\ [Next]_vars => ProcessInv'
<1> SUFFICES ASSUME ProcessInv, [Next]_vars PROVE ProcessInv'
    OBVIOUS
<1>1. CASE Signal \/ UNCHANGED vars
    <2>1. UNCHANGED <<env, main, listener, conn, pool, gc, refused>>
        BY <1>1 DEF Signal, gcVars, vars
    <2>2. QED
        BY <2>1 DEF ProcessInv, ProcessTyped, BootIsQuiet, EnvKnown, AcceptsOnlyServing,
                    PoolClosesLast, DrainedIsIdle, At
<1>2. CASE Listen
    <2>1. /\ Up /\ UNCHANGED <<env, main, conn, pool, refused>> /\ listener # "down"
          /\ listener' \in {"open", "closed", "failed"} /\ (listener' = "open" => At("serve"))
        BY <1>2 DEF Listen
    <2>2. ~(At("load") \/ At("migrate") \/ At("connect") \/ At("bucket"))
        BY <2>1 DEF ProcessInv, BootIsQuiet
    <2>3. ProcessTyped'
        BY <2>1 DEF ProcessInv, ProcessTyped
    <2>4. QED
        BY <2>1, <2>2, <2>3, OthersKeepProcess
<1>3. QED
    BY <1>1, <1>2, BootKeepsProcess, RequestKeepsProcess, CollectorKeepsProcess DEF Next

LEMMA ProcessInvariant == Spec => []ProcessInv
<1>1. Init => ProcessInv
    BY ProcessInit
<1>2. ProcessInv /\ [Next]_vars => ProcessInv'
    BY ProcessNext
<1>3. QED
    BY <1>1, <1>2, PTL DEF Spec

\* Load refuses no usable environment, accepts none with a value missing,
\* malformed or out of range, and overrides nothing that is set; URLs are
\* signed for the public host.
THEOREM ConfigurationHonoured == Spec => []ConfigHonoured
<1>1. ProcessInv => ConfigHonoured
    <2> SUFFICES ASSUME At("load"), env \in Envs PROVE ConfigHonoured
        BY DEF ConfigHonoured, ProcessInv, EnvKnown
    <2>1. /\ ~Unusable(env) => Loads(env)
          /\ Loads(env) => ~Missing(env) /\ ~Malformed(env) /\ ~OutOfRange(env)
        BY LoadIsExact DEF Unusable
    <2>2. \A x \in Names : Set(env, x) => Resolve(env)[x] = Value(env, x)
        BY SetWins
    <2>3. QED
        BY <2>1, <2>2, PresignedHost DEF ConfigHonoured
<1>2. QED
    BY <1>1, ProcessInvariant, PTL

\* With any number of connections, exit status 0 means that Shutdown saw every
\* handler return, and that no handler met a closed pool before or after.
THEOREM ExitIsGraceful == Spec => []GracefulExit
<1>1. ProcessInv => GracefulExit
    BY Handlers DEF ProcessInv, DrainedIsIdle, GracefulExit, At, Up
<1>2. QED
    BY <1>1, ProcessInvariant, PTL

-----------------------------------------------------------------------------
(* The collector's counters.  What a sweep has reclaimed and not reported  *)
(* yet is in its Stats; a failed sweep loses them, and says so.            *)

Phases == Statement \cup {"off", "wait", "stopped", "purge", "orphans"}

SweepInv ==
    /\ gc \in [pc: Phases, todo: Nat, stats: Nat]
    /\ met \in [reclaimed: Nat, ok: Nat, error: Nat]
    /\ done \in Nat
    /\ gc.pc = "purgeRow" => gc.todo > 0
    /\ gc.pc \in {"off", "wait", "stopped"} => gc.stats = 0
    /\ met.reclaimed + gc.stats <= done
    /\ met.error = 0 => met.reclaimed + gc.stats = done

\* A call that does not end the sweep,
LEMMA SweepGoesOn ==
    ASSUME SweepInv, NEW pc \in Phases \ {"off", "wait", "stopped"}, NEW todo \in Nat, NEW n \in Nat,
           Continue(pc, todo, gc.stats + n), done' = done + n, pc = "purgeRow" => todo > 0
    PROVE  SweepInv'
<1>1. gc.stats + n \in Nat /\ done' \in Nat
    BY DEF SweepInv
<1>2. /\ gc' \in [pc: Phases, todo: Nat, stats: Nat] /\ gc'.pc = pc /\ gc'.todo = todo
      /\ gc'.stats = gc.stats + n
    BY <1>1 DEF Continue, GCGoto
<1>3. UNCHANGED met
    BY DEF Continue
<1>4. QED
    BY <1>1, <1>2, <1>3 DEF SweepInv

\* and one that does.
LEMMA SweepIsOver ==
    ASSUME SweepInv, NEW n \in Nat, NEW failed \in BOOLEAN, EndSweep(gc.stats + n, failed),
           done' = done + n
    PROVE  SweepInv'
<1>1. gc' \in [pc: Phases, todo: Nat, stats: Nat] /\ gc'.pc = "wait" /\ gc'.stats = 0
    BY DEF EndSweep, GCGoto, Phases
<1>2. CASE failed
    <2>1. met' = [met EXCEPT !.error = met.error + 1]
        BY <1>2 DEF EndSweep, ObserveGCSweep
    <2>2. met.error + 1 \in Nat
        BY DEF SweepInv
    <2>3. /\ met' \in [reclaimed: Nat, ok: Nat, error: Nat] /\ met'.error = met.error + 1
          /\ met'.reclaimed = met.reclaimed
        BY <2>1, <2>2 DEF SweepInv
    <2>4. QED
        BY <1>1, <2>3 DEF SweepInv
<1>3. CASE ~failed
    <2>1. met' = [met EXCEPT !.ok = met.ok + 1, !.reclaimed = met.reclaimed + (gc.stats + n)]
        BY <1>3 DEF EndSweep, ObserveGCSweep
    <2>2. met.ok + 1 \in Nat /\ met.reclaimed + (gc.stats + n) \in Nat
        BY DEF SweepInv
    <2>3. /\ met' \in [reclaimed: Nat, ok: Nat, error: Nat] /\ met'.error = met.error
          /\ met'.reclaimed = met.reclaimed + (gc.stats + n)
        BY <2>1, <2>2 DEF SweepInv
    <2>4. QED
        BY <1>1, <2>3 DEF SweepInv
<1>4. QED
    BY <1>2, <1>3

LEMMA SweepNext == ProcessInv /\ SweepInv /\ [Next]_vars => SweepInv'
<1> SUFFICES ASSUME ProcessInv, SweepInv, [Next]_vars PROVE SweepInv'
    OBVIOUS
<1>1. gc.stats \in Nat /\ gc.todo \in Nat /\ gc.stats + 0 = gc.stats /\ done + 0 = done
      /\ done \in Nat /\ (gc.pc = "purgeRow" => gc.todo > 0)
    BY DEF SweepInv
<1>2. ASSUME NEW pc \in Phases, UNCHANGED <<met, done>>, gc' = [gc EXCEPT !.pc = pc],
             gc.pc \in {"off", "wait", "stopped"}, pc # "purgeRow"
      PROVE  SweepInv'
    BY <1>2 DEF SweepInv
<1>3. ASSUME NEW pc \in Phases \ {"off", "wait", "stopped"}, NEW todo \in Nat,
             Continue(pc, todo, gc.stats), UNCHANGED done, pc = "purgeRow" => todo > 0
      PROVE  SweepInv'
    BY <1>1, <1>3, SweepGoesOn
<1>4. ASSUME NEW failed \in BOOLEAN, EndSweep(gc.stats, failed), UNCHANGED done PROVE SweepInv'
    BY <1>1, <1>4, SweepIsOver
<1>5. {"list", "purge", "purgeRow", "keys", "orphans", "expire"} = Phases \ {"off", "wait", "stopped"}
    BY DEF Phases, Statement
<1>6. CASE UNCHANGED <<gc, met, done>>
    BY <1>6 DEF SweepInv
<1>7. CASE NewBackend
    <2>1. gc.pc = "off" /\ UNCHANGED <<met, done>>
        BY <1>7 DEF NewBackend, ProcessInv, BootIsQuiet
    <2>2. \/ UNCHANGED gc
          \/ \E pc \in {"wait", "off"} : gc' = [gc EXCEPT !.pc = pc]
        BY <1>7 DEF NewBackend
    <2>3. QED
        BY <1>2, <1>6, <2>1, <2>2 DEF Phases
<1>8. CASE StopGC
    BY <1>2, <1>8 DEF StopGC, Phases
<1>9. CASE StartSweep
    BY <1>3, <1>5, <1>9 DEF StartSweep
<1>10. CASE NextPhase
    <2>1. ASSUME NEW pc \in {"keys", "expire"}, Continue(pc, 0, gc.stats), UNCHANGED done
          PROVE  SweepInv'
        BY <1>3, <1>5, <2>1
    <2>2. CASE EndSweep(gc.stats, FALSE) /\ UNCHANGED done
        BY <1>4, <2>2
    <2>3. QED
        BY <1>10, <2>1, <2>2 DEF NextPhase
<1>11. CASE CallFails
    <2>1. gc.todo > 0 => gc.todo - 1 \in Nat
        BY <1>1
    <2>2. QED
        BY <1>1, <1>3, <1>4, <1>5, <1>11, <2>1 DEF CallFails
<1>12. ASSUME NEW n \in Nat, CallSucceeds(n) PROVE SweepInv'
    <2>1. gc.todo > 0 => gc.todo - 1 \in Nat
        BY <1>1
    <2>2. ASSUME gc.todo > 0, NEW pc \in {"purge", "orphans"},
                 Continue(pc, gc.todo - 1, gc.stats + 1), done' = done + 1
          PROVE  SweepInv'
        BY <1>5, <2>1, <2>2, SweepGoesOn
    <2>3. CASE gc.pc = "expire" /\ EndSweep(gc.stats + n, FALSE) /\ done' = done + n
        BY <2>3, SweepIsOver
    <2>4. QED
        BY <1>1, <1>3, <1>5, <1>12, <2>2, <2>3 DEF CallSucceeds
<1>13. CASE GCStatementEnds \/ GCStoreCallEnds
    <2>1. CallFails \/ \E n \in Nat : CallSucceeds(n)
        <3>1. 0 \in Nat /\ \A k : \A n \in 0..k : k \in Int => n \in Nat
            OBVIOUS
        <3>2. MaxItems - done \in Int
            BY <1>1, ServerAssumption
        <3>3. QED
            BY <1>13, <3>1, <3>2 DEF GCStatementEnds, GCStoreCallEnds
    <2>2. QED
        BY <1>11, <1>12, <2>1
<1>14. CASE GCAcquire \/ Signal \/ Listen \/ (MainStep /\ ~NewBackend)
            \/ (\E s \in Slots : Request(s)) \/ UNCHANGED vars
    <2>1. UNCHANGED <<gc, met, done>>
        BY <1>14 DEF GCAcquire, Signal, Listen, MainStep, LoadConfig, RunMigrations, OpenPostgres,
              ServeFails, ShutdownBegins, ShutdownEnds, ShutdownTimesOut, ShutdownDrops, ClosePool,
              PoolClosed, Request, Accept, ReadHeader, Acquire, AcquireFails, QueryEnds,
              TransferEnds, CleanupEnds, StatEnds, gcVars, vars
    <2>2. QED
        BY <1>6, <2>1
<1>15. QED
    BY <1>7, <1>8, <1>9, <1>10, <1>13, <1>14 DEF Next, GCStep

\* The counter of reclaimed items never runs ahead of what sweeps removed, and
\* falls behind only through a sweep that is counted as failed: for any number
\* of sweeps, of items and of failures.
THEOREM SweepsAreReported == Spec => []SweepsReported
<1>1. Init => SweepInv
    BY DEF Init, SweepInv, Phases
<1>2. ProcessInv /\ SweepInv /\ [Next]_vars => SweepInv'
    BY SweepNext
<1>3. SweepInv => SweepsReported
    BY DEF SweepInv, SweepsReported
<1>4. QED
    BY <1>1, <1>2, <1>3, ProcessInvariant, PTL DEF Spec
-----------------------------------------------------------------------------
(* Who holds a connection.  What keeps the pool from running dry behind    *)
(* stalled clients is that a connection is held for a statement only:      *)
(* every holder is waiting for Postgres, and for nobody else.              *)

\* A step of a request leaves the others' connections alone.
LEMMA RequestKeepsHolders ==
    ASSUME ProcessInv, HoldersRunStatements, NEW s \in Slots, Request(s)
    PROVE  HoldersRunStatements'
<1>1. /\ conn \in [Slots -> Active \cup {"none", "new"}]
      /\ pool \in [closed: BOOLEAN, held: SUBSET (Slots \cup {"gc"})]
    BY DEF ProcessInv, ProcessTyped
<1>2. UNCHANGED gc
    BY DEF Request, Accept, ReadHeader, Acquire, AcquireFails, QueryEnds, TransferEnds,
           CleanupEnds, StatEnds, gcVars
<1>3. \A r \in Slots \ {s} : conn'[r] = conn[r]
    BY <1>1 DEF Request, Accept, ReadHeader, Acquire, AcquireFails, QueryEnds, TransferEnds,
                CleanupEnds, StatEnds, Goto
<1>4. s # "gc"
    BY ServerAssumption
<1>5. CASE Acquire(s)
    <2>1. pool'.held = pool.held \cup {s} /\ UNCHANGED conn /\ Querying(s)
        BY <1>1, <1>5 DEF Acquire
    <2>2. QED
        BY <1>2, <1>4, <2>1 DEF HoldersRunStatements, Querying
<1>6. CASE QueryEnds(s)
    <2>1. pool'.held = pool.held \ {s}
        BY <1>1, <1>6 DEF QueryEnds
    <2>2. QED
        BY <1>2, <1>3, <2>1 DEF HoldersRunStatements, Querying
<1>7. CASE Accept(s) \/ ReadHeader(s) \/ AcquireFails(s) \/ TransferEnds(s) \/ CleanupEnds(s) \/ StatEnds(s)
    <2>1. UNCHANGED pool
        BY <1>7 DEF Accept, ReadHeader, AcquireFails, TransferEnds, CleanupEnds, StatEnds
    <2>2. s \notin pool.held
        BY <1>7 DEF Accept, ReadHeader, AcquireFails, TransferEnds, CleanupEnds, StatEnds,
                    HoldersRunStatements, Querying
    <2>3. QED
        BY <1>2, <1>3, <2>1, <2>2 DEF HoldersRunStatements, Querying
<1>8. QED
    BY <1>5, <1>6, <1>7 DEF Request

\* The collector gives its connection back with the statement's answer.
LEMMA CollectorKeepsHolders ==
    ASSUME ProcessInv, HoldersRunStatements, GCAcquire \/ GCStep
    PROVE  HoldersRunStatements'
<1>1. pool \in [closed: BOOLEAN, held: SUBSET (Slots \cup {"gc"})]
    BY DEF ProcessInv, ProcessTyped
<1>2. UNCHANGED conn
    BY DEF GCAcquire, GCStep, StopGC, StartSweep, GCStatementEnds, GCStoreCallEnds, NextPhase
<1>3. CASE GCAcquire
    <2>1. pool'.held = pool.held \cup {"gc"} /\ UNCHANGED gc /\ gc.pc \in Statement
        BY <1>1, <1>3 DEF GCAcquire, gcVars
    <2>2. QED
        BY <1>2, <2>1, ServerAssumption DEF HoldersRunStatements, Querying
<1>4. CASE GCStatementEnds
    <2>1. pool'.held = pool.held \ {"gc"}
        BY <1>1, <1>4 DEF GCStatementEnds
    <2>2. QED
        BY <1>2, <2>1 DEF HoldersRunStatements, Querying
<1>5. CASE StopGC \/ StartSweep \/ GCStoreCallEnds \/ NextPhase
    <2>1. UNCHANGED pool /\ gc.pc \notin Statement
        BY <1>5 DEF StopGC, StartSweep, GCStoreCallEnds, NextPhase, Statement
    <2>2. QED
        BY <1>2, <2>1 DEF HoldersRunStatements, Querying
<1>6. QED
    BY <1>3, <1>4, <1>5 DEF GCStep

\* Boot hands out no connection, and drops only clients that hold none.
LEMMA BootKeepsHolders ==
    ASSUME ProcessInv, HoldersRunStatements, MainStep
    PROVE  HoldersRunStatements'
<1>1. /\ conn \in [Slots -> Active \cup {"none", "new"}]
      /\ pool \in [closed: BOOLEAN, held: SUBSET (Slots \cup {"gc"})]
    BY DEF ProcessInv, ProcessTyped
<1>2. pool'.held = pool.held
    BY <1>1 DEF MainStep, LoadConfig, RunMigrations, OpenPostgres, NewBackend, ServeFails, ShutdownBegins,
                ShutdownEnds, ShutdownTimesOut, ShutdownDrops, ClosePool, PoolClosed
<1>3. CASE NewBackend
    <2>1. gc.pc = "off" /\ UNCHANGED conn
        BY <1>3 DEF NewBackend, ProcessInv, BootIsQuiet
    <2>2. QED
        BY <1>2, <2>1 DEF HoldersRunStatements, Querying, Statement
<1>4. CASE \E s \in Slots : ShutdownDrops(s)
    <2>1. PICK s \in Slots : ShutdownDrops(s)
        BY <1>4
    <2>2. conn[s] = "new" /\ UNCHANGED gc /\ \A r \in Slots \ {s} : conn'[r] = conn[r]
        BY <1>1, <2>1 DEF ShutdownDrops, gcVars
    <2>3. QED
        BY <1>2, <2>2 DEF HoldersRunStatements, Querying
<1>5. CASE \/ LoadConfig \/ RunMigrations \/ OpenPostgres \/ ServeFails \/ ShutdownBegins
           \/ ShutdownEnds \/ ShutdownTimesOut \/ ClosePool \/ PoolClosed
    <2>1. UNCHANGED <<conn, gc>>
        BY <1>5 DEF LoadConfig, RunMigrations, OpenPostgres, ServeFails, ShutdownBegins,
                    ShutdownEnds, ShutdownTimesOut, ClosePool, PoolClosed, gcVars
    <2>2. QED
        BY <1>2, <2>1 DEF HoldersRunStatements, Querying
<1>6. QED
    BY <1>3, <1>4, <1>5 DEF MainStep

\* A connection is held only by a request or a sweep that is waiting for the
\* answer to a statement: none is held across a transfer, however long the
\* client takes, nor by a request that has been answered.  It is the safety
\* half of ProbeAnswered and of the pool's Close returning: whoever waits for
\* a connection, or for all of them, waits for Postgres alone.
THEOREM ConnectionsServeStatements == Spec => []HoldersRunStatements
<1>1. Init => HoldersRunStatements
    BY DEF Init, HoldersRunStatements
<1>2. ProcessInv /\ HoldersRunStatements /\ [Next]_vars => HoldersRunStatements'
    <2> SUFFICES ASSUME ProcessInv, HoldersRunStatements, [Next]_vars PROVE HoldersRunStatements'
        OBVIOUS
    <2>1. CASE Signal \/ Listen \/ UNCHANGED vars
        <3>1. UNCHANGED <<conn, pool, gc>>
            BY <2>1 DEF Signal, Listen, gcVars, vars
        <3>2. QED
            BY <3>1 DEF HoldersRunStatements, Querying
    <2>2. QED
        BY <2>1, BootKeepsHolders, RequestKeepsHolders, CollectorKeepsHolders DEF Next
<1>3. QED
    BY <1>1, <1>2, ProcessInvariant, PTL DEF Spec
=============================================================================
