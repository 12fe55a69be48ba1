------------------------------ MODULE MCChannels ------------------------------
(* Values for the constants of Channels: two servers, the first one with     *)
(* two connections, that share a Redis.                                      *)
EXTENDS Channels, TLC

CONSTANTS s1, s2, k1, k2, k3, m1, r1, r2

Homes == (k1 :> s1) @@ (k2 :> s1) @@ (k3 :> s2)
OneRedis == (s1 :> m1) @@ (s2 :> m1)

Symmetry == Permutations(Requests)

(* At most one kind of mishap in a behaviour: a connection was closed while *)
(* its lock was in use, two requests went through one connection, a         *)
(* selection met another one or a cache missed a change; the last two may   *)
(* go together.  What else two kinds together may do is left to the         *)
(* theorems of ChannelsProofs, which have no bound.                         *)
InScope ==
    /\ ~(lost /\ shared)
    /\ lost \/ shared => ~clash /\ stale = {}
=============================================================================
