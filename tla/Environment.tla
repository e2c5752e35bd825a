---------------------------- MODULE Environment ----------------------------
(***************************************************************************)
(* What the CairnMark processes share with the world: the wall clock, the  *)
(* supply of UUIDs, and the ways a remote call (Postgres or the object     *)
(* store) or the whole process can fail.                                   *)
(***************************************************************************)
EXTENDS Integers

CONSTANTS
    MaxTime,    \* bound: the clock stops here
    MaxSkew,    \* how far a server's timestamps may be off the service's clock
    MaxUUID,    \* bound: how many UUIDs newID hands out
    MaxCrashes, \* bound: how many times the process dies
    Faults      \* which kinds of failure the environment may produce

FaultKinds == {"fail", "lost", "lostCommit", "cancel", "crash"}

ASSUME EnvironmentAssumption ==
    /\ MaxTime \in Nat /\ MaxSkew \in Nat /\ MaxUUID \in Nat /\ MaxCrashes \in Nat
    /\ Faults \subseteq FaultKinds

VARIABLES
    now,     \* the clock, in an arbitrary unit
    serial,  \* the last UUIDv7 generated: later ones compare greater
    crashes  \* how many times the process has died

UUID == 1..MaxUUID
NoID == 0

(***************************************************************************)
(* A remote call ends in one of three ways.  "ok": the server applied it   *)
(* and said so.  "fail": the server never applied it and the caller gets   *)
(* an error.  "lost": the server applied it but the answer did not arrive, *)
(* so the caller gets an error all the same.                               *)
(***************************************************************************)
Outcome == {"ok", "fail", "lost"}

\* A call made under a cancelled context returns the context's error
\* before anything is sent.
CallOutcomes(cancelled) ==
    IF cancelled THEN {"fail"} ELSE {"ok"} \cup (Faults \cap {"fail", "lost"})

\* The same for the statement that commits a row, whose lost answer is a
\* fault of its own: the README treats it separately.
CommitOutcomes(cancelled) ==
    IF cancelled THEN {"fail"}
    ELSE {"ok"} \cup (Faults \cap {"fail"})
                \cup (IF "lostCommit" \in Faults THEN {"lost"} ELSE {})

\* A server that stamps a record some time between `since` and now writes
\* one of these timestamps.
Stamps(since) == (since - MaxSkew)..(now + MaxSkew)
=============================================================================
