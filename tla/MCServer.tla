------------------------------ MODULE MCServer ------------------------------
(***************************************************************************)
(* Server for TLC, started in a good environment with up to two variables  *)
(* changed in any way.                                                     *)
(***************************************************************************)
EXTENDS Server

GoodEnv == [x \in Names |-> IF x = "S3_ENDPOINT" THEN Found("inner")
                            ELSE IF x \in Required THEN Found("some") ELSE Unset]

Variants(x) ==
    CASE x \in Durations \cup {"MAX_UPLOAD_BYTES"} -> {Unset, Garbled(1), Found(-1), Found(0), Found(7)}
      [] x \in Toggles   -> {Unset, Garbled(TRUE), Found(TRUE), Found(FALSE)}
      [] x \in Endpoints -> {Unset, Found(""), Garbled("http://inner"), Found("inner"), Found("outer")}
      [] OTHER           -> {Unset, Found(""), Found("some")}

MCEnvs == UNION {{[GoodEnv EXCEPT ![x] = v, ![y] = w] : v \in Variants(x), w \in Variants(y)} :
                    <<x, y>> \in Names \X Names}
=============================================================================
