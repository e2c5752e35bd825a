------------------------------- MODULE Server -------------------------------
(***************************************************************************)
(* The process of cmd/server: boot, the HTTP server with its requests, the *)
(* collector's goroutine and the connection pool they share, the signal,   *)
(* and the way down.  A request is reduced to where it holds a connection  *)
(* and where it does not; a sweep, modelled in full by Collector, to its   *)
(* calls and to what its metrics report.                                   *)
(***************************************************************************)
EXTENDS Configuration, FiniteSets

CONSTANTS
    Slots,      \* client connections, each one reused after its answer
    MaxConns,   \* the size of the connection pool
    MaxItems,   \* bound: how much there is to reclaim in all
    MaxSweeps   \* bound: how often the ticker fires

ASSUME ServerAssumption ==
    /\ "gc" \notin Slots
    /\ MaxConns \in Nat \ {0} /\ MaxItems \in Nat /\ MaxSweeps \in Nat

(***************************************************************************)
(* env       what os.LookupEnv finds, until it has been read               *)
(* cfg       of the Config: whether the collector runs, and expires keys   *)
(* main      pc: load, migrate, connect, bucket, serve, drain, close,      *)
(*           closing, exited; code: the exit status                        *)
(* listener  down | starting | open | closed | failed (errCh holds it)     *)
(* conn      slot -> none | new (accepted, no header yet), or the call its *)
(*           handler is in: see Goes                                       *)
(* pool      closed: Close was called; held: who has a connection          *)
(* gc        the collector's goroutine: its place, what is left to do in   *)
(*           this phase, and the Stats of this sweep                       *)
(* met       the counters /metrics shows: reclaimed, sweeps ok and failed  *)
(* done      history: what sweeps were told is gone                        *)
(* refused   history: a request found the pool closed                      *)
(***************************************************************************)
VARIABLES env, cfg, main, signalled, listener, conn, pool, gc, met, done, refused

mainVars == <<env, cfg, main, signalled, listener>>
gcVars   == <<gc, met, done>>
vars     == <<env, cfg, main, signalled, listener, conn, pool, gc, met, done, refused>>

\* Where a handler goes from each of its calls; which kind of request it is,
\* is not remembered.  An upload with a key claims it first, and replays the
\* file of a finished one; it stores its body and commits; when the commit
\* fails it removes the object, and when anything fails it releases the key,
\* if it has one.  Other requests query, and a download then transfers; the
\* readiness probe pings Postgres and then stats the store's sentinel.
Goes ==
    [claim    |-> {"transfer", "query", "none"},
     query    |-> {"transfer", "none"},
     transfer |-> {"commit", "release", "none"},
     commit   |-> {"cleanup", "none"},
     cleanup  |-> {"release", "none"},
     release  |-> {"none"},
     ping     |-> {"stat", "none"},
     stat     |-> {"none"}]
Active == DOMAIN Goes

Init ==
    /\ env \in Envs /\ cfg = [sweeps |-> FALSE, expires |-> FALSE]
    /\ main = [pc |-> "load", code |-> 0]
    /\ signalled = FALSE /\ listener = "down"
    /\ conn = [s \in Slots |-> "none"]
    /\ pool = [closed |-> FALSE, held |-> {}]
    /\ gc = [pc |-> "off", todo |-> 0, stats |-> 0]
    /\ met = [reclaimed |-> 0, ok |-> 0, error |-> 0] /\ done = 0
    /\ refused = FALSE

Up      == main.pc # "exited"
At(pc)  == main.pc = pc
To(pc)  == main' = [main EXCEPT !.pc = pc]
\* An error returned by boot: exit status 1, after the defers due by then.
Fail(pc) == main' = [pc |-> pc, code |-> 1]

-----------------------------------------------------------------------------
(* boot and run. *)

\* config.Load; the environment is not read again.
LoadConfig ==
    /\ At("load")
    /\ IF Loads(env) THEN To("migrate") ELSE Fail("exited")
    /\ cfg' = IF Loads(env) THEN [sweeps  |-> Resolve(env).GC_INTERVAL > 0,
                                   expires |-> Resolve(env).IDEMPOTENCY_TTL > 0]
              ELSE cfg
    /\ env' = [x \in Names |-> Unset]
    /\ UNCHANGED <<signalled, listener, conn, pool, gcVars, refused>>

\* runMigrations takes no notice of a signal.
RunMigrations ==
    /\ At("migrate")
    /\ To("connect") \/ Fail("exited")
    /\ UNCHANGED <<env, cfg, signalled, listener, conn, pool, gcVars, refused>>

\* openPostgres, which closes its pool itself when it fails.
OpenPostgres ==
    /\ At("connect")
    /\ (~signalled /\ To("bucket")) \/ Fail("exited")
    /\ UNCHANGED <<env, cfg, signalled, listener, conn, pool, gcVars, refused>>

\* s3.New with ensureBucket, then the two goroutines.
NewBackend ==
    /\ At("bucket")
    /\ \/ /\ ~signalled /\ To("serve")
          /\ listener' = "starting"
          /\ gc' = [gc EXCEPT !.pc = IF cfg.sweeps THEN "wait" ELSE "off"]
       \/ Fail("close") /\ UNCHANGED <<listener, gc>>
    /\ UNCHANGED <<env, cfg, signalled, conn, pool, met, done, refused>>

\* The select of run: the listener's error, or the signal; when both are
\* there either may win.
ServeFails ==
    /\ At("serve") /\ listener = "failed"
    /\ Fail("close")
    /\ UNCHANGED <<env, cfg, signalled, listener, conn, pool, gcVars, refused>>

ShutdownBegins ==
    /\ At("serve") /\ signalled
    /\ To("drain")
    /\ listener' = IF listener = "open" THEN "closed" ELSE listener
    /\ UNCHANGED <<env, cfg, signalled, conn, pool, gcVars, refused>>

\* Shutdown closes a connection that has sent no header for a while.
ShutdownDrops(s) ==
    /\ At("drain") /\ conn[s] = "new"
    /\ conn' = [conn EXCEPT ![s] = "none"]
    /\ UNCHANGED <<mainVars, pool, gcVars, refused>>

\* Mutants: srv.Close instead of srv.Shutdown; Shutdown without a deadline.
ShutdownAtOnce ==
    /\ At("drain")
    /\ To("close")
    /\ UNCHANGED <<env, cfg, signalled, listener, conn, pool, gcVars, refused>>
ShutdownWaits == FALSE

\* Shutdown ends when every connection is idle, or at its deadline.
ShutdownEnds ==
    /\ At("drain") /\ \A s \in Slots : conn[s] = "none"
    /\ To("close")
    /\ UNCHANGED <<env, cfg, signalled, listener, conn, pool, gcVars, refused>>

ShutdownTimesOut ==
    /\ At("drain")
    /\ Fail("close")
    /\ UNCHANGED <<env, cfg, signalled, listener, conn, pool, gcVars, refused>>

\* The deferred pool.Close: nobody gets a connection any more, and those
\* handed out are waited for.
ClosePool ==
    /\ At("close")
    /\ To("closing")
    /\ pool' = [pool EXCEPT !.closed = TRUE]
    /\ UNCHANGED <<env, cfg, signalled, listener, conn, gcVars, refused>>

PoolClosed ==
    /\ At("closing") /\ pool.held = {}
    /\ To("exited")
    /\ UNCHANGED <<env, cfg, signalled, listener, conn, pool, gcVars, refused>>

MainStep ==
    \/ LoadConfig \/ RunMigrations \/ OpenPostgres \/ NewBackend
    \/ ServeFails \/ ShutdownBegins \/ ShutdownEnds \/ ShutdownTimesOut
    \/ (\E s \in Slots : ShutdownDrops(s))
    \/ ClosePool \/ PoolClosed

\* SIGINT or SIGTERM cancels the context that boot made.
Signal ==
    /\ Up /\ ~signalled
    /\ signalled' = TRUE
    /\ UNCHANGED <<env, cfg, main, listener, conn, pool, gcVars, refused>>

\* ListenAndServe: returns at once when Shutdown came first.  An address in
\* use, or a listener that breaks later, is put into errCh.
Listen ==
    /\ Up
    /\ \/ listener = "starting" /\ At("serve") /\ listener' \in {"open", "failed"}
       \/ listener = "starting" /\ ~At("serve") /\ listener' \in {"closed", "failed"}
       \/ listener = "open" /\ listener' = "failed"
    /\ UNCHANGED <<env, cfg, main, signalled, conn, pool, gcVars, refused>>

-----------------------------------------------------------------------------
(* Requests.  Their contexts are not derived from the signal's. *)

Accept(s) ==
    /\ Up /\ listener = "open" /\ conn[s] = "none"
    /\ conn' = [conn EXCEPT ![s] = "new"]
    /\ UNCHANGED <<mainVars, pool, gcVars, refused>>

\* The header arrives, also on a connection accepted before the drain; or
\* the client gives up, or ReadHeaderTimeout does.
ReadHeader(s) ==
    /\ Up /\ conn[s] = "new"
    /\ \E pc \in {"claim", "query", "transfer", "ping", "none"} : conn' = [conn EXCEPT ![s] = pc]
    /\ UNCHANGED <<mainVars, pool, gcVars, refused>>

Querying(s) == conn[s] \in {"claim", "query", "commit", "release", "ping"}
Free == ~pool.closed /\ Cardinality(pool.held) < MaxConns

Acquire(s) ==
    /\ Up /\ Querying(s) /\ s \notin pool.held /\ Free
    /\ pool' = [pool EXCEPT !.held = @ \cup {s}]
    /\ UNCHANGED <<mainVars, conn, gcVars, refused>>

\* A closed pool refuses, and the handler answers an error, after its cleanup
\* when it was to commit.
AcquireFails(s) ==
    /\ Up /\ Querying(s) /\ s \notin pool.held /\ pool.closed
    /\ conn' = [conn EXCEPT ![s] = IF @ = "commit" THEN "cleanup" ELSE "none"]
    /\ refused' = TRUE
    /\ UNCHANGED <<mainVars, pool, gcVars>>

Goto(s) == \E pc \in Goes[conn[s]] : conn' = [conn EXCEPT ![s] = pc]

\* Mutant: the connection that made the claim is kept for the commit.
QueryEndsKeepingConn(s) ==
    /\ Up /\ s \in pool.held /\ Querying(s)
    /\ Goto(s)
    /\ pool' = IF conn'[s] = "transfer" THEN pool ELSE [pool EXCEPT !.held = @ \ {s}]
    /\ UNCHANGED <<mainVars, gcVars, refused>>

\* The statement is answered, or fails, and its connection is returned.
QueryEnds(s) ==
    /\ Up /\ s \in pool.held /\ Querying(s)
    /\ Goto(s)
    /\ pool' = [pool EXCEPT !.held = @ \ {s}]
    /\ UNCHANGED <<mainVars, gcVars, refused>>

\* The body is stored or sent, or not: there is no limit on how long that
\* takes.
TransferEnds(s) ==
    /\ Up /\ conn[s] = "transfer"
    /\ Goto(s)
    /\ UNCHANGED <<mainVars, pool, gcVars, refused>>

\* The delete of an object whose row could not be committed; whatever its
\* answer is, the key is released next.
CleanupEnds(s) ==
    /\ Up /\ conn[s] = "cleanup"
    /\ Goto(s)
    /\ UNCHANGED <<mainVars, pool, gcVars, refused>>

\* readiness, its second half: the sentinel's stat.
StatEnds(s) ==
    /\ Up /\ conn[s] = "stat"
    /\ Goto(s)
    /\ UNCHANGED <<mainVars, pool, gcVars, refused>>

-----------------------------------------------------------------------------
(* The collector's goroutine.  A phase that runs a statement needs a        *)
(* connection; once the signal is there every call fails.                   *)

Statement == {"list", "purgeRow", "keys", "expire"}
GCGoto(pc, todo, stats) == gc' = [pc |-> pc, todo |-> todo, stats |-> stats]

\* ObserveGCSweep, which Run calls after every sweep.
ObserveGCSweep(stats, failed) ==
    met' = IF failed THEN [met EXCEPT !.error = @ + 1]
           ELSE [met EXCEPT !.ok = @ + 1, !.reclaimed = @ + stats]

\* RunOnce returns; the next one begins with Stats of its own.
EndSweep(stats, failed) == ObserveGCSweep(stats, failed) /\ GCGoto("wait", 0, 0)

Continue(pc, todo, stats) == GCGoto(pc, todo, stats) /\ UNCHANGED met

\* Run's select.
StopGC ==
    /\ Up /\ gc.pc = "wait" /\ signalled
    /\ gc' = [gc EXCEPT !.pc = "stopped"]
    /\ UNCHANGED <<mainVars, conn, pool, met, done, refused>>

StartSweep ==
    /\ Up /\ gc.pc = "wait" /\ met.ok + met.error < MaxSweeps
    /\ Continue("list", 0, gc.stats)
    /\ UNCHANGED <<mainVars, conn, pool, done, refused>>

GCAcquire ==
    /\ Up /\ gc.pc \in Statement /\ "gc" \notin pool.held /\ Free /\ ~signalled
    /\ pool' = [pool EXCEPT !.held = @ \cup {"gc"}]
    /\ UNCHANGED <<mainVars, conn, gcVars, refused>>

\* A call of the sweep succeeds: RunOnce's three phases.  `n` is what a
\* listing or an expiry found.
CallSucceeds(n) ==
    /\ ~signalled
    /\ \/ gc.pc = "list" /\ Continue("purge", n, gc.stats) /\ UNCHANGED done
       \/ gc.pc = "purge" /\ gc.todo > 0 /\ Continue("purgeRow", gc.todo, gc.stats) /\ UNCHANGED done
       \/ gc.pc = "purgeRow" /\ Continue("purge", gc.todo - 1, gc.stats + 1) /\ done' = done + 1
       \/ gc.pc = "keys" /\ Continue("orphans", n, gc.stats) /\ UNCHANGED done
       \/ gc.pc = "orphans" /\ gc.todo > 0 /\ Continue("orphans", gc.todo - 1, gc.stats + 1) /\ done' = done + 1
       \/ gc.pc = "expire" /\ EndSweep(gc.stats + n, FALSE) /\ done' = done + n

\* Mutant: a row is counted before its purge has succeeded.
CallFailsCounting ==
    /\ \/ gc.pc \in {"list", "keys", "expire", "orphans"} /\ EndSweep(gc.stats, TRUE)
       \/ gc.pc = "purgeRow" /\ Continue("purge", gc.todo - 1, gc.stats + 1)
    /\ UNCHANGED done

\* A call fails: one object or row is passed over, anything else ends the
\* sweep; so does the signal, between two rows and in a listing.
CallFails ==
    /\ \/ gc.pc \in {"list", "keys", "expire"} /\ EndSweep(gc.stats, TRUE)
       \/ gc.pc = "purge" /\ gc.todo > 0 /\ Continue("purge", gc.todo - 1, gc.stats)
       \/ gc.pc = "purge" /\ gc.todo > 0 /\ signalled /\ EndSweep(gc.stats, TRUE)
       \/ gc.pc = "purgeRow" /\ Continue("purge", gc.todo - 1, gc.stats)
       \/ gc.pc = "orphans" /\ EndSweep(gc.stats, TRUE)
       \/ gc.pc = "orphans" /\ gc.todo > 0 /\ Continue("orphans", gc.todo - 1, gc.stats)
    /\ UNCHANGED done

\* A statement ends and its slot of the pool is free.  One that the signal
\* cuts short is given up: pgx closes its connection, and Postgres may still
\* be running it then.
GCStatementEnds ==
    /\ Up /\ gc.pc \in Statement
    /\ \/ "gc" \in pool.held /\ (CallFails \/ \E n \in 0..(MaxItems - done) : CallSucceeds(n))
       \/ "gc" \notin pool.held /\ (pool.closed \/ signalled) /\ CallFails
    /\ pool' = [pool EXCEPT !.held = @ \ {"gc"}]
    /\ UNCHANGED <<mainVars, conn, refused>>

GCStoreCallEnds ==
    /\ Up /\ gc.pc \notin Statement
    /\ CallFails \/ CallSucceeds(0)
    /\ UNCHANGED <<mainVars, conn, pool, refused>>

\* A phase with nothing left to do gives way to the next; a TTL of zero
\* leaves out the last.
NextPhase ==
    /\ Up /\ gc.todo = 0
    /\ \/ gc.pc = "purge" /\ Continue("keys", 0, gc.stats)
       \/ gc.pc = "orphans" /\ cfg.expires /\ Continue("expire", 0, gc.stats)
       \/ gc.pc = "orphans" /\ ~cfg.expires /\ EndSweep(gc.stats, FALSE)
    /\ UNCHANGED <<mainVars, conn, pool, done, refused>>

GCStep == StopGC \/ StartSweep \/ GCStatementEnds \/ GCStoreCallEnds \/ NextPhase

-----------------------------------------------------------------------------
Request(s) ==
    \/ Accept(s) \/ ReadHeader(s) \/ Acquire(s) \/ AcquireFails(s)
    \/ QueryEnds(s) \/ TransferEnds(s) \/ CleanupEnds(s) \/ StatEnds(s)

Next == MainStep \/ Signal \/ Listen \/ GCAcquire \/ GCStep \/ \E s \in Slots : Request(s)

Spec == Init /\ [][Next]_vars

(***************************************************************************)
(* Fairness.  Goroutines are scheduled and Shutdown's deadline comes, so   *)
(* boot goes on whenever it can; Postgres and the store answer statements, *)
(* deletes and stats; the pool serves its waiters first come, first served, so     *)
(* nobody is passed over for ever.  Nothing is assumed of clients: they    *)
(* need not send headers or bodies, and no signal need ever come.          *)
(***************************************************************************)
Fairness ==
    /\ WF_vars(MainStep)
    /\ WF_vars(GCStep) /\ SF_vars(GCAcquire)
    /\ \A s \in Slots :
          /\ SF_vars(Acquire(s)) /\ WF_vars(AcquireFails(s))
          /\ WF_vars(QueryEnds(s)) /\ WF_vars(CleanupEnds(s)) /\ WF_vars(StatEnds(s))

FairSpec == Spec /\ Fairness

-----------------------------------------------------------------------------
\* No usable environment is refused, and what is accepted has every required
\* value and none that is malformed or out of range; what Load accepts it
\* honours, so that no variable that is set falls back to a default; and
\* presigned URLs name the host clients are to use.
ConfigHonoured ==
    At("load") =>
        /\ ~Unusable(env) => Loads(env)
        /\ Loads(env) =>
              LET config == Resolve(env)
                  public == "S3_PUBLIC_ENDPOINT"
              IN  /\ ~Missing(env) /\ ~Malformed(env) /\ ~OutOfRange(env)
                  /\ \A x \in Names : Set(env, x) => config[x] = Value(env, x)
                  /\ PresignClient(config).host =
                        IF Set(env, public) /\ Value(env, public) # "" THEN Value(env, public)
                        ELSE Value(env, "S3_ENDPOINT")

\* An exit status of 0 means a graceful exit: every request whose handler
\* had started was answered, and none of them found the pool closed under it.
GracefulExit == ~Up /\ main.code = 0 => ~refused /\ \A s \in Slots : conn[s] \notin Active

\* A connection is held only by a request or a sweep that is waiting for the
\* answer to a statement: not while a client sends or takes its bytes, not
\* while the store is asked to delete, and not by a request that has been
\* answered.  Whoever waits for a connection, or as pool.Close does for all of
\* them, waits for Postgres alone.
HoldersRunStatements ==
    /\ \A s \in Slots : s \in pool.held => Querying(s)
    /\ "gc" \in pool.held => gc.pc \in Statement

\* The reclaimed counter never claims more than sweeps were told is gone, and
\* while every sweep has succeeded it claims all of it.
SweepsReported ==
    /\ met.reclaimed <= done
    /\ gc.pc = "wait" /\ met.error = 0 => met.reclaimed = done

\* After SIGTERM the process exits, also when it is still booting, when a
\* client never finishes its transfer, and when the collector is mid-sweep.
StopsWhenAsked == signalled ~> ~Up

\* A readiness probe is answered although every upload in progress may have
\* stalled, however few connections the pool has: a transfer holds none.
ProbeAnswered == \A s \in Slots : conn[s] = "ping" ~> conn[s] = "none" \/ ~Up
=============================================================================
