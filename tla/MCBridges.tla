----------------------------- MODULE MCBridges ------------------------------
(***************************************************************************)
(* The instance of Bridges for TLC: three requests, either of one session, *)
(* which is what it takes for a request to evict a bridge that is not the  *)
(* one that died on it, or two of one session and one of another, whose    *)
(* bridge works on while the first session waits for one that is deaf.     *)
(***************************************************************************)
EXTENDS Bridges, TLC

CONSTANTS k1, k2, r1, r2, r3

Of(key, calls) == [key |-> key, calls |-> calls]

OneOrTwo ==
    { r1 :> Of(k1, 2) @@ r2 :> Of(k1, 1) @@ r3 :> Of(k1, 1),
      r1 :> Of(k1, 1) @@ r2 :> Of(k1, 1) @@ r3 :> Of(k2, 1) }
=============================================================================
