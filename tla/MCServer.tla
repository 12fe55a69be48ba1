------------------------------- MODULE MCServer -------------------------------
(* What the server remembers of its users: shares and sessions with the    *)
(* cache before their rows, the list of deduplication jobs, and the bot    *)
(* whose turn it is.  They share no state that the model keeps, so that a  *)
(* behaviour is about the one that focus names, and the others stay as     *)
(* they begin.                                                             *)
EXTENDS Shares, Sessions, DedupJobs, BotSelector, TLC

CONSTANTS key1, key2,  \* short codes, hashes of sessions, users
          c1, c2,      \* requests
          v1           \* a visitor

VARIABLE focus

serverVars == <<shareVars, sessionVars, jobVars, botVars, focus>>

Symmetry == Permutations(Codes) \cup Permutations(Owners)

(* A share that can be zipped, and one that asks for all and expires.      *)
NewShareFlags ==
    {[block |-> FALSE, always |-> FALSE, zip |-> TRUE, ends |-> FALSE],
     [block |-> TRUE, always |-> TRUE, zip |-> TRUE, ends |-> TRUE]}

(* One share may be there already, under the first id.                     *)
ShareChoice == \A s \in ShareIds \ {1} : shares[s] = NoShare

(* The shares of a file have no expiry date: those of a folder, whose rows  *)
(* are handled alike, may have one.  It passes, or the row of the file goes,*)
(* in the behaviours in which the owner sends one request.                  *)
FilesStay ==
    /\ shareKind = "file" => ~late /\ \A s \in ShareIds : ~shares[s].ends
    /\ late \/ ~fileRow => shareOps <= 1
    /\ late => fileRow

(* A component that is not looked at: its initial states are all alike.    *)
NoShares ==
    /\ SharesInit
    /\ shares = [s \in ShareIds |-> NoShare]
    /\ shareKind = CHOOSE k \in ShareKinds : TRUE

NoBots == BotInit /\ backend = "memory" /\ botCount = 0

MCInit ==
    /\ SessionsInit /\ JobsInit
    /\ \/ focus = "shares" /\ SharesInit /\ ShareChoice /\ FilesStay /\ NoBots
       \/ focus \in {"sessions", "jobs"} /\ NoShares /\ NoBots
       \/ focus = "bots" /\ BotInit /\ NoShares

MCNext ==
    \/ focus = "shares" /\ SharesNext /\ FilesStay' /\ UNCHANGED <<sessionVars, jobVars, botVars, focus>>
    \/ focus = "sessions" /\ SessionsNext /\ UNCHANGED <<shareVars, jobVars, botVars, focus>>
    \/ focus = "jobs" /\ JobsNext /\ UNCHANGED <<shareVars, sessionVars, botVars, focus>>
    \/ focus = "bots" /\ BotNext /\ UNCHANGED <<shareVars, sessionVars, jobVars, focus>>

MCSpec == MCInit /\ [][MCNext]_serverVars

(* The types of all of them.                                               *)
ServerTypeOK == SharesTypeOK /\ SessionsTypeOK /\ JobsTypeOK
=============================================================================
