----------------------------- MODULE FileStore -----------------------------
(***************************************************************************)
(* What the service promises its clients, with nothing of how: no requests *)
(* in progress, no clock, no sweep, no failures.  A file appears whole, in *)
(* one step, under an id used once; it keeps its bytes until a client      *)
(* removes it; only then do the bytes go, and only after them the row; and *)
(* an idempotency key names the one file made under it until it expires.   *)
(***************************************************************************)
CONSTANTS Ids,    \* file ids
          Keys,   \* idempotency keys
          NoKey,  \* an upload without one
          NoFile  \* what a key without a result names

VARIABLES
    live,   \* the files clients can read
    trash,  \* the files a client has removed, not yet forgotten
    bytes,  \* the files whose bytes are kept
    fresh,  \* the ids that may still become a file's
    result  \* idempotency key -> the file made under it

fsVars == <<live, trash, bytes, fresh, result>>

FSInit ==
    /\ live = {} /\ trash = {} /\ bytes = {}
    /\ fresh = Ids
    /\ result = [k \in Keys |-> NoFile]

\* An upload takes effect: row, bytes and the key's result together.
Publish(i, k) ==
    /\ i \in fresh /\ fresh' = fresh \ {i}
    /\ live' = live \cup {i}
    /\ bytes' = bytes \cup {i}
    /\ \/ k = NoKey /\ UNCHANGED result
       \/ /\ k \in Keys /\ result[k] = NoFile
          /\ result' = [result EXCEPT ![k] = i]
    /\ UNCHANGED trash

\* A client removes a file.
Remove(i) ==
    /\ i \in live
    /\ live' = live \ {i}
    /\ trash' = trash \cup {i}
    /\ UNCHANGED <<bytes, fresh, result>>

\* The store drops the bytes of a removed file, and later its row.
Discard(i) ==
    /\ i \in trash /\ i \in bytes
    /\ bytes' = bytes \ {i}
    /\ UNCHANGED <<live, trash, fresh, result>>

Forget(i) ==
    /\ i \in trash /\ i \notin bytes
    /\ trash' = trash \ {i}
    /\ UNCHANGED <<live, bytes, fresh, result>>

\* Results expire, any number of them at once.
Expire ==
    /\ \E gone \in SUBSET Keys :
          result' = [k \in Keys |-> IF k \in gone THEN NoFile ELSE result[k]]
    /\ UNCHANGED <<live, trash, bytes, fresh>>

\* Ids drawn for uploads that failed are never used.
Retire ==
    /\ \E unused \in SUBSET fresh : fresh' = fresh \ unused
    /\ UNCHANGED <<live, trash, bytes, result>>

FSNext ==
    \/ \E i \in Ids : (\E k \in Keys \cup {NoKey} : Publish(i, k)) \/ Remove(i) \/ Discard(i) \/ Forget(i)
    \/ Expire \/ Retire

FSSpec == FSInit /\ [][FSNext]_fsVars
=============================================================================
