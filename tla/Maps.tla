-------------------------------- MODULE Maps --------------------------------
(***************************************************************************)
(* The maps of the code, as functions: what an assignment makes of one.    *)
(* TLC's "a :> v @@ f" is the same; the provers do not know it.            *)
(***************************************************************************)

\* The map f after f[a] = v.
Assigned(f, a, v) == [x \in {a} \cup DOMAIN f |-> IF x = a THEN v ELSE f[x]]

\* A map of one name.
Single(a, v) == [x \in {a} |-> v]
=============================================================================
