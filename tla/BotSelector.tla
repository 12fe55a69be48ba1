----------------------------- MODULE BotSelector -----------------------------
(***************************************************************************)
(* The choice of the next bot in turn, in memory or with a counter in      *)
(* Redis that several servers share, while the list of bots of the user    *)
(* changes between two calls.                                              *)
(***************************************************************************)
EXTENDS Naturals, Sequences, FiniteSets

CONSTANTS
    BotOps,     \* operations, each with a counter of its own
    MaxBots,    \* bound on the bots of the user
    MaxPicks    \* bound on the calls

ASSUME BotAssumption == MaxBots \in Nat \ {0} /\ MaxPicks \in Nat

VARIABLES
    backend,   \* "memory" or "redis"
    botCount,  \* bots of the user
    currIdx,   \* the counters of the selector
    picks      \* the calls of an operation: the bot chosen, of how many

botVars == <<backend, botCount, currIdx, picks>>

BotInit ==
    /\ backend \in {"memory", "redis"}
    /\ botCount \in 0 .. MaxBots
    /\ currIdx = [op \in BotOps |-> 0]
    /\ picks = [op \in BotOps |-> <<>>]

Picked(op, idx) == picks' = [picks EXCEPT ![op] = Append(@, [idx |-> idx, of |-> botCount])]

(* Mutant: the counter runs on, and is cut to the list only where it is    *)
(* put back.                                                               *)
NextInMemory_Unwrapped(op) ==
    /\ currIdx' = [currIdx EXCEPT ![op] = (@ + 1) % MaxBots]
    /\ Picked(op, currIdx[op])

(* MemoryBotSelector.Next: the counter is used as it is, and then put one  *)
(* further within the list of this call. An index beyond the list is a     *)
(* panic of the request.                                                   *)
NextInMemory(op) ==
    /\ currIdx' = [currIdx EXCEPT ![op] = (@ + 1) % botCount]
    /\ Picked(op, currIdx[op])

(* RedisBotSelector.Next: INCR, then the remainder.                        *)
NextInRedis(op) ==
    /\ currIdx' = [currIdx EXCEPT ![op] = @ + 1]
    /\ Picked(op, currIdx[op] % botCount)

NextBot(op) ==
    /\ botCount > 0 /\ Len(picks[op]) < MaxPicks
    /\ \/ backend = "memory" /\ NextInMemory(op)
       \/ backend = "redis" /\ NextInRedis(op)
    /\ UNCHANGED <<backend, botCount>>

(* UsersUpdateBots, UsersRemoveBots and the bots limit of a request.       *)
ChangeBots ==
    /\ botCount' \in 0 .. MaxBots
    /\ UNCHANGED <<backend, currIdx, picks>>

BotNext == ChangeBots \/ \E op \in BotOps : NextBot(op)
BotSpec == BotInit /\ [][BotNext]_botVars

-----------------------------------------------------------------------------
(* Calls of an operation that found the same list in a row choose each of  *)
(* its bots once in a turn, and a bot that is not on the list is chosen    *)
(* only by the first call in memory after the list has become shorter.     *)
TurnsAreFair ==
    \A op \in BotOps :
       LET seen == picks[op] IN
       \A i, j \in DOMAIN seen :
          /\ seen[i].idx >= seen[i].of =>
                backend = "memory" /\ i > 1 /\ seen[i - 1].of > seen[i].of
          /\ i < j /\ j - i < seen[i].of /\ seen[i].idx < seen[i].of
             /\ (\A k \in i .. j : seen[k].of = seen[i].of)
                => seen[i].idx # seen[j].idx
=============================================================================
