------------------------ MODULE CairnMarkRefinement ------------------------
(***************************************************************************)
(* CairnMark implements FileStore.  A file is what a row of the files      *)
(* table says it is; it has its bytes when the store holds its key; an id  *)
(* is fresh when it is not drawn yet, or held by an upload still under way *)
(* that has no row; a key has a result when its row is completed.          *)
(***************************************************************************)
EXTENDS CairnMarkInvariants

LiveFiles  == {i \in UUID : Live(i)}
TrashFiles == {i \in UUID : Deleted(i)}
WithBytes  == {i \in UUID : HasRow(i) /\ Stored(files[i].key)}
FreshIds   == {i \in UUID : i > serial \/ \E r \in Requests : HasKeys(r) /\ req[r].id = i}
Results    == [k \in IdemKeys |-> IF idem[k].status = "completed" THEN idem[k].file ELSE NoID]

FS == INSTANCE FileStore WITH
        Ids    <- UUID,      Keys  <- IdemKeys,   NoFile <- NoID,
        live   <- LiveFiles, trash <- TrashFiles, bytes  <- WithBytes,
        fresh  <- FreshIds,  result <- Results

\* Upload, UploadIdempotent, Delete and the sweeps, with every interleaving,
\* failed call, hang-up and crash in between, look to clients like FileStore:
\* an upload takes effect at its commit or not at all, a file loses its bytes
\* only after a delete, its row only after its bytes, and a key's result is
\* replaced only after it expired.
ImplementsFileStore == FS!FSSpec
=============================================================================
