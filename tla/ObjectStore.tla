---------------------------- MODULE ObjectStore ----------------------------
(***************************************************************************)
(* The object store behind storage.Backend, as internal/storage/s3 drives  *)
(* it.  An object's bytes are written once, under a key nothing else ever  *)
(* uses, so what matters of an object is whether it is there and the       *)
(* LastModified the store reports for it.                                  *)
(***************************************************************************)
EXTENDS Environment, FiniteSets

VARIABLE objects  \* storage key -> object

NoObject == [there |-> FALSE, modified |-> 0]

ObjectStoreTypeOK == objects \in [UUID -> [there: BOOLEAN, modified: Int]]

ObjectStoreInit == objects = [k \in UUID |-> NoObject]

\* Stat: does the store hold an object under k?
Stored(k) == objects[k].there

\* Put: the whole object appears at once, or not at all.
Put(k, modified, o) ==
    objects' = IF o = "fail" THEN objects
               ELSE [objects EXCEPT ![k] = [there |-> TRUE, modified |-> modified]]

\* Delete: removing a key that is not there is not an error.
Delete(k, o) ==
    objects' = IF o = "fail" THEN objects
               ELSE [objects EXCEPT ![k] = NoObject]

\* List, one page: the first `size` keys after `cursor`, in key order.
Page(cursor, size) ==
    LET after == {k \in UUID : Stored(k) /\ k > cursor}
    IN  {k \in after : Cardinality({j \in after : j < k}) < size}
=============================================================================
