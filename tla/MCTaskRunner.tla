---------------------------- MODULE MCTaskRunner ----------------------------
(***************************************************************************)
(* A diamond a -> {b, c} -> d, and a leaf e that also depends on c.  The   *)
(* result of b is retained although d depends on it, as the result of a    *)
(* parser is; the leaf e is not retained, so its own clean-up drops it.     *)
(***************************************************************************)
EXTENDS TaskRunner

CONSTANTS a, b, c, d, e

Diamond == [t \in {a, b, c, d, e} |->
              CASE t = a -> {}
                [] t = b -> {a}
                [] t = c -> {a}
                [] t = d -> {b, c}
                [] t = e -> {c}]

=============================================================================
