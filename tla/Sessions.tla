------------------------------- MODULE Sessions -------------------------------
(***************************************************************************)
(* The sessions of one user: the rows a login inserts and a logout deletes,*)
(* and the three kinds of cache entries that answer for them without an    *)
(* expiry - by the hash in a token (every request is verified against it), *)
(* by the user (share links act with the owner's newest session), and the  *)
(* list in the settings.                                                   *)
(***************************************************************************)
EXTENDS Naturals, Sequences, FiniteSets

SX == INSTANCE SequencesExt

CONSTANTS
    Hashes,   \* hashes of Telegram sessions
    NoHash,   \* no session
    Calls     \* requests that can be in flight at once

ASSUME SessionsAssumption == NoHash \notin Hashes

VARIABLES
    sessions,     \* the rows of teldrive.sessions of the user, oldest first
    sessionCache, \* the cache entries
    call,         \* the requests
    ended,        \* the sessions that were logged in and are no more
    outdated      \* history: the entries that are wrong for a known cause

sessionVars == <<sessions, sessionCache, call, ended, outdated>>

InRow(h) == \E i \in DOMAIN sessions : sessions[i] = h
Rows == {sessions[i] : i \in DOMAIN sessions}

(* Cache keys: one per hash, sessions:user:<id> and users:sessions:<id>.   *)
SessionKeys == Hashes \cup {"user", "list"}
Absent == [hit |-> FALSE, val |-> {}]

(* What a lookup finds in the database; no session is an error.            *)
Found(rows, key) ==
    IF key \in Hashes THEN {rows[i] : i \in DOMAIN rows} \cap {key}
    ELSE IF key = "user" THEN IF rows = <<>> THEN {} ELSE {rows[Len(rows)]}
    ELSE {rows[i] : i \in DOMAIN rows}

(* An entry that says something else than the rows.                        *)
Differs(k) == sessionCache[k].hit /\ sessionCache[k].val # Found(sessions, k)

IdleCall == [op |-> "none", pc |-> "idle", key |-> "list", hash |-> NoHash,
             val |-> {}, todo |-> {}]

SessionsInit ==
    /\ sessions = <<>>
    /\ sessionCache = [k \in SessionKeys |-> Absent]
    /\ call = [c \in Calls |-> IdleCall]
    /\ ended = {}
    /\ outdated = {}

Free(c) == call[c].pc = "idle"

(* Whether a token with this hash passes VerifyUser.                       *)
Accepted(h) == sessionCache[h].hit \/ InRow(h)

-----------------------------------------------------------------------------
(* Lookups: GetSessionByHash, GetSessionByUserId and UsersListSessions. *)

LookupMiss(c, k) ==
    /\ Free(c)
    /\ ~sessionCache[k].hit
    /\ k = "list" => \E h \in Hashes : Accepted(h)
    /\ call' = [call EXCEPT ![c] = [IdleCall EXCEPT !.op = "lookup", !.pc = "load", !.key = k]]
    /\ UNCHANGED <<sessions, sessionCache, ended, outdated>>

LookupLoad(c) ==
    /\ call[c].pc = "load"
    /\ LET k == call[c].key
           found == Found(sessions, k)
       IN  call' = [call EXCEPT ![c] =
             IF found = {} /\ k # "list" THEN IdleCall
             ELSE [@ EXCEPT !.pc = "store", !.val = found]]
    /\ UNCHANGED <<sessions, sessionCache, ended, outdated>>

LookupStore(c) ==
    /\ call[c].pc = "store"
    /\ LET k == call[c].key IN
         /\ sessionCache' = [sessionCache EXCEPT ![k] = [hit |-> TRUE, val |-> call[c].val]]
         /\ outdated' = IF call[c].val = Found(sessions, k) THEN outdated \ {k}
                                                            ELSE outdated \cup {k}
    /\ call' = [call EXCEPT ![c] = IdleCall]
    /\ UNCHANGED <<sessions, ended>>

-----------------------------------------------------------------------------
(* Requests that change the rows *)

(* AuthLogin: Telegram is asked about the session, then its row inserted.  *)
LoginStart(c, h) ==
    /\ Free(c)
    /\ ~InRow(h) /\ h \notin ended
    /\ \A d \in Calls : call[d].hash # h
    /\ call' = [call EXCEPT ![c] =
         [IdleCall EXCEPT !.op = "login", !.pc = "write", !.hash = h]]
    /\ UNCHANGED <<sessions, sessionCache, ended, outdated>>

(* AuthLogout by the holder of the session, once Telegram has been told.   *)
LogoutStart(c, h) ==
    /\ Free(c)
    /\ Accepted(h)
    /\ call' = [call EXCEPT ![c] =
         [IdleCall EXCEPT !.op = "logout", !.pc = "write", !.hash = h]]
    /\ UNCHANGED <<sessions, sessionCache, ended, outdated>>

(* UsersRemoveSession: any session of the user, which must have a row.     *)
RemoveStart(c, h) ==
    /\ Free(c)
    /\ InRow(h)
    /\ \E g \in Hashes : Accepted(g)
    /\ call' = [call EXCEPT ![c] =
         [IdleCall EXCEPT !.op = "remove", !.pc = "write", !.hash = h]]
    /\ UNCHANGED <<sessions, sessionCache, ended, outdated>>

(* Telegram or the database fails: a lookup and a login give up.           *)
CallFails(c) ==
    /\ call[c].pc = "load" \/ (call[c].pc = "write" /\ call[c].op = "login")
    /\ call' = [call EXCEPT ![c] = IdleCall]
    /\ UNCHANGED <<sessions, sessionCache, ended, outdated>>

(* Mutant: a login leaves the session of the user in the cache.            *)
Invalidated_NoUser(op, h) ==
    IF op = "logout" THEN {h, "list", "user"}
    ELSE IF op = "login" THEN {"list"} ELSE {"list", "user"}

(* The entries a request deletes after it wrote.                           *)
Invalidated(op, h) ==
    IF op = "logout" THEN {h, "list", "user"} ELSE {"list", "user"}

(* A hash is unique: there is one row to delete, or none.                  *)
Position(h) == CHOOSE i \in DOMAIN sessions : sessions[i] = h
Without(h) == IF InRow(h) THEN SX!RemoveAt(sessions, Position(h)) ELSE sessions

(* An entry under a hash is out of date from the moment a session is       *)
(* removed by another one: nothing deletes it.                             *)
WriteRow(c) ==
    LET r == call[c] IN
    /\ r.pc = "write"
    /\ sessions' = IF r.op = "login" THEN Append(sessions, r.hash) ELSE Without(r.hash)
    /\ ended' = IF r.op = "login" THEN ended ELSE ended \cup {r.hash}
    /\ outdated' = IF r.op = "remove" /\ sessionCache[r.hash].hit
                   THEN outdated \cup {r.hash} ELSE outdated
    /\ call' = [call EXCEPT ![c].pc = "clean", ![c].todo = Invalidated(r.op, r.hash)]
    /\ UNCHANGED sessionCache

(* A DELETE that fails: nobody looks at its error.                         *)
DeleteFails(c) ==
    /\ call[c].pc = "write" /\ call[c].op # "login"
    /\ call' = [call EXCEPT ![c].pc = "clean",
                            ![c].todo = Invalidated(call[c].op, call[c].hash)]
    /\ UNCHANGED <<sessions, sessionCache, ended, outdated>>

(* One call deletes the entries.  With Redis it may fail, for one when the  *)
(* client has gone and cancelled the request: nobody looks at its error.    *)
DeleteKeys(c) ==
    LET gone == call[c].todo IN
    /\ call[c].pc = "clean"
    /\ sessionCache' = [k \in SessionKeys |->
                          IF k \in gone THEN Absent ELSE sessionCache[k]]
    /\ outdated' = outdated \ gone
    /\ call' = [call EXCEPT ![c] = IdleCall]
    /\ UNCHANGED <<sessions, ended>>
DeleteKeysFails(c) ==
    /\ call[c].pc = "clean"
    /\ outdated' = outdated \cup {k \in call[c].todo : Differs(k)}
    /\ call' = [call EXCEPT ![c] = IdleCall]
    /\ UNCHANGED <<sessions, sessionCache, ended>>

SessionsNext ==
    \E c \in Calls :
       \/ \E k \in SessionKeys : LookupMiss(c, k)
       \/ LookupLoad(c) \/ LookupStore(c) \/ CallFails(c)
       \/ WriteRow(c) \/ DeleteFails(c) \/ DeleteKeys(c) \/ DeleteKeysFails(c)
       \/ \E h \in Hashes : LoginStart(c, h) \/ LogoutStart(c, h) \/ RemoveStart(c, h)

SessionsSpec == SessionsInit /\ [][SessionsNext]_sessionVars

-----------------------------------------------------------------------------
SessionsTypeOK ==
    /\ sessions \in Seq(Hashes)
    /\ \A k \in SessionKeys : sessionCache[k].hit \in BOOLEAN
                              /\ sessionCache[k].val \subseteq Hashes
    /\ \A c \in Calls : call[c].pc \in {"idle", "load", "store", "write", "clean"}
    /\ outdated \subseteq SessionKeys

(* What the cache says of the sessions is what the rows say, but while the *)
(* request that changed them has still to delete the entry, or when a      *)
(* lookup that had read the rows before stored it afterwards, or when the  *)
(* deletion of the entry failed, or - for the entry under a hash - when    *)
(* UsersRemoveSession took the session away.  A logout whose deletion goes *)
(* through ends the session it is about, and a login the one that share    *)
(* links act with (pkg/services/auth.go:129, 142; user.go:276).            *)
StaleSessionHasCause ==
    \A k \in SessionKeys :
       Differs(k) => k \in outdated \/ \E c \in Calls : k \in call[c].todo
=============================================================================
