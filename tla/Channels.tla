------------------------------- MODULE Channels -------------------------------
(***************************************************************************)
(* The storage channels of a user: which one is selected, what the caches  *)
(* say it is, and how an upload moves on to a new channel when it is full, *)
(* on one or several servers that share a database.  A rollover is guarded *)
(* by an advisory lock of PostgreSQL, which belongs to the connection that *)
(* took it, and every statement runs on whichever connection the pool of   *)
(* the server hands out.  Statements and Telegram calls are steps; so are  *)
(* the snapshot an UPDATE works on and the writes it makes once the rows   *)
(* of that snapshot are not locked.                                        *)
(*                                                                         *)
(* One user.  Bots are left out but for the failures they cause.           *)
(***************************************************************************)
EXTENDS Integers, Sequences, FiniteSets

CONSTANTS
    Servers,     \* processes that serve requests
    Conns,       \* database connections
    HomeOf,      \* the server whose pool a connection is in
    Caches,      \* a Redis, or one cache in the memory of each server
    CacheOf,     \* the cache a server uses
    Requests,    \* requests that can be served at the same time
    MaxChannels, \* bound on the channels ever made
    MaxHolds,    \* bound on how often one connection takes the lock
    None

ChanIds == 1 .. MaxChannels
NoChan == 0

ASSUME ChannelsAssumption ==
    /\ HomeOf \in [Conns -> Servers]
    /\ CacheOf \in [Servers -> Caches]
    /\ MaxChannels \in Nat /\ MaxHolds \in Nat
    /\ IsFiniteSet(Requests)
    /\ None \notin Conns /\ None \notin Servers

VARIABLES
    rows,    \* teldrive.channels, by created_at
    made,    \* how many channels Telegram has made
    lock,    \* the advisory lock: its connection and how often it is held
    cache,   \* the entry users:channel of each cache
    req,     \* the requests in flight
    lost,    \* history: a connection was closed while its lock was in use
    shared,  \* history: two requests of a server had the lock through one
             \* connection
    clash,   \* history: a selection or deletion while another one was under way
    stale    \* history: caches that missed a change, or have an old value

data == <<rows, made>>
history == <<lost, shared, clash, stale>>
vars == <<data, lock, cache, req, history>>

Channel == [ chan : ChanIds, selected : BOOLEAN,
             fresh : BOOLEAN,    \* created in the last 10 seconds
             rolled : BOOLEAN ]  \* history: by CreateNewChannel

Pcs == { "idle", "fetch", "store", "check",                     \* CurrentChannel
         "lock", "recent", "create", "insert", "begin",         \* CreateNewChannel
         "deselect", "commit", "invalidate", "unlock",
         "snap", "others", "set" }                              \* UsersUpdateChannel
Request == [ op : {"none", "upload", "add", "select"}, pc : Pcs,
             server : Servers \cup {None},
             chan : ChanIds \cup {NoChan},
             snap : SUBSET ChanIds,  \* the rows an UPDATE works on
             old  : BOOLEAN ]        \* history: the selection has changed since

Idle == [ op |-> "none", pc |-> "idle", server |-> None, chan |-> NoChan,
          snap |-> {}, old |-> FALSE ]
Free == [ conn |-> None, count |-> 0 ]

Init ==
    /\ rows = <<>> /\ made = 0
    /\ lock = Free
    /\ cache = [x \in Caches |-> NoChan]
    /\ req = [r \in Requests |-> Idle]
    /\ lost = FALSE /\ shared = FALSE /\ clash = FALSE /\ stale = {}

-----------------------------------------------------------------------------
(* Helpers *)

Row(c) == {i \in DOMAIN rows : rows[i].chan = c}
Listed == {rows[i].chan : i \in DOMAIN rows}
Selected == {rows[i].chan : i \in {k \in DOMAIN rows : rows[k].selected}}
Fresh == {i \in DOMAIN rows : rows[i].fresh}

(* Between the lock and its release. *)
InRollover(r) == req[r].pc \in {"recent", "create", "insert", "begin", "deselect",
                                "commit", "invalidate", "unlock"}
Writing(pc) == pc \in {"insert", "begin", "deselect", "commit"}
(* The rows a transaction has updated and not yet committed. *)
Locked(c) == \E r \in Requests : req[r].pc = "commit" /\ c \in req[r].snap

SetReq(r, new) == req' = [req EXCEPT ![r] = new]
Goto(r, pc) == req' = [req EXCEPT ![r].pc = pc]
Finished(r, pc) == [req[r] EXCEPT !.pc = pc, !.chan = NoChan, !.snap = {}]

(* Deselect the channels of S, and add new rows. *)
Deselected(S) == [i \in DOMAIN rows |->
                    IF rows[i].chan \in S THEN [rows[i] EXCEPT !.selected = FALSE]
                    ELSE rows[i]]

(* A change of the selection, by server s: readers that have the old one in *)
(* hand and the caches of other servers do not learn of it.                 *)
Changes(s, new) ==
    /\ req' = [r \in Requests |-> [new[r] EXCEPT !.old = @ \/ new[r].pc = "store"]]
    /\ stale' = stale \cup (Caches \ {CacheOf[s]})
Selecting(r) == \/ req[r].op = "select"
                \/ req[r].op = "upload" /\ req[r].pc \in {"deselect", "commit"}
Clashes(r, isSelect) ==
    clash' = (clash \/ \E q \in Requests \ {r} :
                          Selecting(q) /\ (isSelect \/ req[q].op = "select"))

-----------------------------------------------------------------------------
(* CurrentChannel, through Fetch, and ChannelLimitReached *)

Upload(r, s) ==
    LET c == cache[CacheOf[s]] IN
    /\ req[r] = Idle
    /\ SetReq(r, [Idle EXCEPT !.op = "upload", !.server = s, !.chan = c,
                              !.pc = IF c = NoChan THEN "fetch" ELSE "check"])
    /\ UNCHANGED <<data, lock, cache, history>>

(* Any row that is selected, in no stated order. *)
FetchRead(r) ==
    /\ req[r].pc = "fetch"
    /\ IF Selected = {} THEN Goto(r, "lock")
       ELSE \E c \in Selected :
               SetReq(r, [req[r] EXCEPT !.chan = c, !.pc = "store"])
    /\ UNCHANGED <<data, lock, cache, history>>

FetchStore(r) ==
    LET x == CacheOf[req[r].server] IN
    /\ req[r].pc = "store"
    /\ cache' = [cache EXCEPT ![x] = req[r].chan]
    /\ stale' = IF req[r].old THEN stale \cup {x} ELSE stale \ {x}
    /\ SetReq(r, [req[r] EXCEPT !.pc = "check", !.old = FALSE])
    /\ UNCHANGED <<data, lock, lost, shared, clash>>

(* The error of a call of the cache is ignored: Fetch goes on without.      *)
StoreFails(r) ==
    /\ req[r].pc = "store"
    /\ SetReq(r, [req[r] EXCEPT !.pc = "check", !.old = FALSE])
    /\ UNCHANGED <<data, lock, cache, history>>

(* An upload into a channel with fewer than ChannelLimit parts ends here.   *)
(* Every file operation changes their number: it is either, at any time.    *)
CheckLimit(r) ==
    /\ req[r].pc = "check"
    /\ SetReq(r, [req[r] EXCEPT !.chan = NoChan, !.pc = "lock"]) \/ SetReq(r, Idle)
    /\ UNCHANGED <<data, lock, cache, history>>

-----------------------------------------------------------------------------
(* CreateNewChannel, with setDefault for an upload and without for a user   *)

Add(r, s) ==
    /\ req[r] = Idle
    /\ SetReq(r, [Idle EXCEPT !.op = "add", !.server = s, !.pc = "lock"])
    /\ UNCHANGED <<data, lock, cache, history>>

(* Mutant: the lock is taken whoever has it. *)
CanLock_Always(k) == TRUE
(* pg_try_advisory_lock on connection k, which may have it already. *)
CanLock(k) == lock.conn \in {None, k}
Acquire(r, k) ==
    /\ req[r].pc = "lock" /\ HomeOf[k] = req[r].server
    /\ lock.count < MaxHolds
    /\ IF CanLock(k)
       THEN /\ lock' = [conn |-> k, count |-> lock.count + 1]
            /\ shared' = (shared \/ (lock.conn = k /\ \E q \in Requests : InRollover(q)))
            /\ Goto(r, "recent")
       ELSE SetReq(r, Idle) /\ UNCHANGED <<lock, shared>>
    /\ UNCHANGED <<data, cache, lost, clash, stale>>

(* Mutant: a channel that was made a moment ago is not looked for. *)
CheckRecent_Unchecked(r) ==
    /\ req[r].pc = "recent"
    /\ Goto(r, "create")
    /\ UNCHANGED <<data, lock, cache, history>>
(* getChannelCreatedAfter: the last row of the last 10 seconds is returned. *)
(* What the upload does with the channel it gets is not followed further.   *)
CheckRecent(r) ==
    /\ req[r].pc = "recent"
    /\ Goto(r, IF Fresh = {} THEN "create" ELSE "unlock")
    /\ UNCHANGED <<data, lock, cache, history>>

Create(r) ==
    /\ req[r].pc = "create"
    /\ made < MaxChannels
    /\ made' = made + 1
    /\ SetReq(r, [req[r] EXCEPT !.chan = made + 1,
                     !.pc = IF req[r].op = "upload" THEN "begin" ELSE "insert"])
    /\ UNCHANGED <<rows, lock, cache, history>>

(* Telegram refuses, or the bots cannot be added to the channel it has made, *)
(* or there are none, or a statement fails and rolls the transaction back.   *)
Fail(r) ==
    /\ req[r].pc \in {"recent", "create", "insert", "begin", "deselect", "commit"}
    /\ SetReq(r, Finished(r, "unlock"))
    /\ UNCHANGED <<data, lock, cache, history>>

NewRow(c, selected, rolled) ==
    [chan |-> c, selected |-> selected, fresh |-> TRUE, rolled |-> rolled]

Insert(r) ==
    /\ req[r].pc = "insert" /\ req[r].chan \notin Listed
    /\ rows' = Append(rows, NewRow(req[r].chan, FALSE, TRUE))
    /\ SetReq(r, Finished(r, "unlock"))
    /\ UNCHANGED <<made, lock, cache, history>>

(* UPDATE .. SET selected = false: its snapshot, then the rows of it.       *)
Begin(r) ==
    /\ req[r].pc = "begin"
    /\ SetReq(r, [req[r] EXCEPT !.pc = "deselect", !.snap = Listed])
    /\ Clashes(r, FALSE)
    /\ UNCHANGED <<data, lock, cache, lost, shared, stale>>
Deselect(r) ==
    /\ req[r].pc = "deselect"
    /\ \A c \in req[r].snap : ~Locked(c)
    /\ Goto(r, "commit")
    /\ UNCHANGED <<data, lock, cache, history>>
(* Mutant: the rows that were selected stay so. *)
Commit_KeepsOthers(r) ==
    /\ req[r].pc = "commit" /\ req[r].chan \notin Listed
    /\ rows' = Append(rows, NewRow(req[r].chan, TRUE, TRUE))
    /\ Changes(req[r].server, [req EXCEPT ![r] = Finished(r, "invalidate")])
    /\ UNCHANGED <<made, lock, cache, lost, shared, clash>>
(* INSERT of the new row, and COMMIT.                                       *)
Commit(r) ==
    /\ req[r].pc = "commit" /\ req[r].chan \notin Listed
    /\ rows' = Append(Deselected(req[r].snap), NewRow(req[r].chan, TRUE, TRUE))
    /\ Changes(req[r].server, [req EXCEPT ![r] = Finished(r, "invalidate")])
    /\ UNCHANGED <<made, lock, cache, lost, shared, clash>>

(* Mutant: the entry stays in the cache. *)
Invalidate_Nothing(r) ==
    /\ req[r].pc = "invalidate"
    /\ Goto(r, "unlock")
    /\ UNCHANGED <<data, lock, cache, history>>
Invalidate(r) ==
    LET x == CacheOf[req[r].server] IN
    /\ req[r].pc = "invalidate"
    /\ cache' = [cache EXCEPT ![x] = NoChan]
    /\ stale' = stale \ {x}
    /\ Goto(r, "unlock")
    /\ UNCHANGED <<data, lock, lost, shared, clash>>

(* Mutant: the lock is given up on whatever connection has it.             *)
Release_AnyConn(r, k) ==
    /\ req[r].pc = "unlock" /\ HomeOf[k] = req[r].server
    /\ lock' = IF lock.count = 1 THEN Free ELSE [lock EXCEPT !.count = @ - 1]
    /\ SetReq(r, Idle)
    /\ UNCHANGED <<data, cache, history>>
(* pg_advisory_unlock on connection k, which need not be the one that has   *)
(* the lock.                                                                *)
Release(r, k) ==
    /\ req[r].pc = "unlock" /\ HomeOf[k] = req[r].server
    /\ lock' = IF lock.conn # k THEN lock
               ELSE IF lock.count = 1 THEN Free
               ELSE [lock EXCEPT !.count = @ - 1]
    /\ SetReq(r, Idle)
    /\ UNCHANGED <<data, cache, history>>

(* The pool closes a connection at the end of its lifetime, or the network  *)
(* does.  The pool opens another one in its place.                          *)
CloseConn ==
    /\ lock.conn # None
    /\ lost' = (lost \/ \E r \in Requests : InRollover(r))
    /\ lock' = Free
    /\ UNCHANGED <<data, cache, req, shared, clash, stale>>

(* Ten seconds pass. *)
Age ==
    /\ Fresh # {}
    /\ rows' = [i \in DOMAIN rows |-> IF \A k \in Fresh : i <= k
                                      THEN [rows[i] EXCEPT !.fresh = FALSE] ELSE rows[i]]
    /\ UNCHANGED <<made, lock, cache, req, history>>

-----------------------------------------------------------------------------
(* UsersUpdateChannel and UsersDeleteChannel *)

(* The upsert.  The channel is one of the user's Telegram channels.         *)
Select(r, s, c) ==
    /\ req[r] = Idle
    /\ c <= made /\ ~Locked(c)
    /\ rows' = IF c \in Listed
               THEN [i \in DOMAIN rows |-> IF rows[i].chan = c
                       THEN [rows[i] EXCEPT !.selected = TRUE] ELSE rows[i]]
               ELSE Append(rows, NewRow(c, TRUE, FALSE))
    /\ Changes(s, [req EXCEPT ![r] = [Idle EXCEPT !.op = "select", !.server = s,
                                                  !.chan = c, !.pc = "snap"]])
    /\ Clashes(r, TRUE)
    /\ UNCHANGED <<made, lock, cache, lost, shared>>

(* Mutant: the channel itself is deselected too. *)
SelectSnap_All(r) ==
    /\ req[r].pc = "snap"
    /\ SetReq(r, [req[r] EXCEPT !.pc = "others", !.snap = Listed])
    /\ UNCHANGED <<data, lock, cache, history>>
(* The UPDATE of the others, which may fail unnoticed.                      *)
SelectSnap(r) ==
    /\ req[r].pc = "snap"
    /\ SetReq(r, [req[r] EXCEPT !.pc = "others", !.snap = Listed \ {req[r].chan}])
    /\ UNCHANGED <<data, lock, cache, history>>
SelectOthers(r) ==
    /\ req[r].pc = "others"
    /\ \A c \in req[r].snap : ~Locked(c)
    /\ rows' = Deselected(req[r].snap)
    /\ Changes(req[r].server, [req EXCEPT ![r].pc = "set", ![r].snap = {}])
    /\ UNCHANGED <<made, lock, cache, lost, shared, clash>>
SelectFails(r) ==
    /\ req[r].pc \in {"snap", "others"}
    /\ clash' = TRUE
    /\ SetReq(r, [req[r] EXCEPT !.pc = "set", !.snap = {}])
    /\ UNCHANGED <<data, lock, cache, lost, shared, stale>>
SelectSet(r) ==
    LET x == CacheOf[req[r].server] IN
    /\ req[r].pc = "set"
    /\ cache' = [cache EXCEPT ![x] = req[r].chan]
    /\ stale' = stale \ {x}
    /\ SetReq(r, Idle)
    /\ UNCHANGED <<data, lock, lost, shared, clash>>

(* Invalidate or SelectSet with a Redis that fails, or with the context of  *)
(* a client that has gone: the entry stays, and nobody looks at the error.  *)
CacheFails(r) ==
    LET x == CacheOf[req[r].server]
        right == cache[x] \in {NoChan} \cup Selected
    IN  /\ req[r].pc \in {"invalidate", "set"}
        /\ stale' = IF right THEN stale ELSE stale \cup {x}
        /\ SetReq(r, IF req[r].pc = "set" THEN Idle ELSE [req[r] EXCEPT !.pc = "unlock"])
        /\ UNCHANGED <<data, lock, cache, lost, shared, clash>>

(* The row goes; no cache hears of it. *)
DeleteChannel(c) ==
    /\ ~Locked(c)
    /\ \E i \in Row(c) :
          rows' = SubSeq(rows, 1, i - 1) \o SubSeq(rows, i + 1, Len(rows))
    /\ stale' = Caches
    /\ req' = [r \in Requests |-> [req[r] EXCEPT !.old = @ \/ req[r].pc = "store"]]
    /\ clash' = (clash \/ \E r \in Requests : req[r].op = "select")
    /\ UNCHANGED <<made, lock, cache, lost, shared>>

Rollover(r) ==
    \/ \E k \in Conns : Acquire(r, k) \/ Release(r, k)
    \/ CheckRecent(r) \/ Create(r) \/ Fail(r) \/ Insert(r)
    \/ Begin(r) \/ Deselect(r) \/ Commit(r) \/ Invalidate(r)

Next ==
    \/ \E r \in Requests :
          \/ \E s \in Servers : Upload(r, s) \/ Add(r, s)
          \/ \E s \in Servers, c \in ChanIds : Select(r, s, c)
          \/ FetchRead(r) \/ FetchStore(r) \/ StoreFails(r) \/ CheckLimit(r)
          \/ Rollover(r)
          \/ SelectSnap(r) \/ SelectOthers(r) \/ SelectFails(r) \/ SelectSet(r)
          \/ CacheFails(r)
    \/ \E c \in ChanIds : DeleteChannel(c)
    \/ CloseConn \/ Age

Spec == Init /\ [][Next]_vars
-----------------------------------------------------------------------------
(* Properties *)

(* Every variable stays within its columns and fields; the lock is held by  *)
(* a connection exactly when its count is not zero; a request that is about *)
(* to write the row of a channel has made one.                              *)
TypeOK ==
    /\ rows \in Seq(Channel) /\ made \in 0 .. MaxChannels
    /\ lock \in [conn : Conns \cup {None}, count : Nat]
    /\ lock.conn = None <=> lock.count = 0
    /\ cache \in [Caches -> ChanIds \cup {NoChan}]
    /\ req \in [Requests -> Request]
    /\ \A r \in Requests : /\ req[r].pc = "idle" <=> req[r].server = None
                           /\ Writing(req[r].pc) => req[r].chan # NoChan
    /\ {lost, shared, clash} \subseteq BOOLEAN /\ stale \subseteq Caches

(* Two servers never make a channel at the same time, although the lock is  *)
(* taken and released on any connection of a pool: a lock that is taken     *)
(* twice on a connection, or released on another one, never lets the other  *)
(* server in.                                                               *)
ExclusionAcrossServers ==
    ~lost => \A r, q \in Requests :
        InRollover(r) /\ InRollover(q) => req[r].server = req[q].server

(* What makes it inductive: the lock is in the pool of the server, and is   *)
(* held at least once for each request that uses it.                        *)
LockHeld ==
    ~lost => LET users == {r \in Requests : InRollover(r)} IN
        /\ Cardinality(users) <= lock.count
        /\ \A r \in users : lock.conn # None /\ HomeOf[lock.conn] = req[r].server

(* A rollover makes at most one channel in ten seconds, on all servers      *)
(* together: those that wait for the lock find the row of the first one.    *)
OneRolloverPerWindow ==
    ~lost /\ ~shared => \A i, k \in Fresh : rows[i].rolled /\ rows[k].rolled => i = k

(* Unless two selections overlap, at most one channel is selected once they *)
(* are done, whatever rollovers and deletions come in between.              *)
Settled == \A r \in Requests : ~Selecting(r)
OneSelected ==
    Settled /\ ~(clash \/ shared \/ lost) => Cardinality(Selected) <= 1

(* No step but the deletion of the selected channel leaves the user without *)
(* one, unless selections overlap.                                          *)
SelectionStays ==
    [][Selected # {} /\ ~clash' => \/ Selected' # {}
                                   \/ \E c \in Selected : DeleteChannel(c)]_vars

(* When no selection is under way, what a cache has is what is selected,    *)
(* unless it could not know: another server changed it, a reader stored     *)
(* what it had read before the change, the channel was deleted, the call of *)
(* the cache that followed a rollover or a selection failed (its error is   *)
(* ignored, as in CreateNewChannel and UsersUpdateChannel), or selections   *)
(* overlapped.                                                              *)
CacheStaleHasCause ==
    (\A r \in Requests : ~Selecting(r) /\ req[r].pc # "invalidate")
      /\ ~(clash \/ shared \/ lost) =>
        \A x \in Caches \ stale : cache[x] \in {NoChan} \cup Selected

=============================================================================
