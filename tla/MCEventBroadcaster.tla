-------------------------- MODULE MCEventBroadcaster --------------------------
(* Values for the constants of EventBroadcaster, and the two scopes in which *)
(* it is checked: many connections while events are sent at one time, which  *)
(* are closed at any moment after they left, and two generations of the      *)
(* polling goroutine while time passes, with one subscriber and one walk at  *)
(* a time.  The server is shut down while there is one connection at most.   *)
EXTENDS EventBroadcaster, TLC

VARIABLE scope    \* chosen at the start: "walk" or "clock"

Joined == {c \in Conns : conns[c] # "none"}
Alive == {p \in Pollers : pollers[p].pc # "off"}
InScope ==
    \/ /\ scope = "walk" /\ clock = 0 /\ Cardinality(Alive) <= 1
       /\ up \/ Cardinality(Joined) <= 1
    \/ /\ scope = "clock" /\ up /\ Cardinality(Joined) <= 2
       /\ \A c \in Conns : conns[c] # "closed"
       /\ Len(subs.list) <= 1 /\ Cardinality({a \in Actors : Sending(a)}) <= 1

MCInit ==
    /\ Init
    /\ scope \in {"walk", "clock"}
    /\ scope = "clock" => backend = "polling"
(* A walk and the Record around it take microseconds, the clock counts      *)
(* what a poll can tell apart.                                              *)
Unhurried ==
    /\ \A a \in Actors : ~Sending(a)
    /\ \A e \in Events : records[e] # "sending"

MCNext == Next /\ UNCHANGED scope /\ InScope' /\ (clock' = clock \/ Unhurried)
MCSpec == MCInit /\ [][MCNext]_<<vars, scope>>

Symmetry == Permutations(Conns) \cup Permutations(Events) \cup Permutations(Pollers)
=============================================================================
