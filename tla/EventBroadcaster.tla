--------------------------- MODULE EventBroadcaster ---------------------------
(***************************************************************************)
(* The event broadcasters: file operations Record events, and the server   *)
(* sends them to the event-stream connections of the user.  With Redis the *)
(* events come back from a channel; without it every event is sent at once *)
(* and a polling goroutine, which runs while there are connections, reads  *)
(* the events table as well.                                               *)
(*                                                                         *)
(* One user and one server.  broadcast() takes the slice of subscribers    *)
(* under a read lock and walks it after the unlock, while Subscribe and    *)
(* Unsubscribe write to the same backing array: "shared" says whether a    *)
(* walk still sees those writes.                                           *)
(***************************************************************************)
EXTENDS Naturals, Sequences, FiniteSets

SX == INSTANCE SequencesExt

CONSTANTS
    Backends,     \* which of "polling" and "redis" NewBroadcaster may choose
    Conns,        \* event-stream connections, each with its channel
    Events,       \* events recorded
    Pollers,      \* polling goroutines that can be alive at the same time
    Loop,         \* the goroutine that listens to Redis
    QueueSize,    \* capacity of the queue of the database workers
    PollLimit,    \* LIMIT of the polling query (1000)
    MaxTime,      \* bound on the clock
    NoEvent

ASSUME BroadcasterAssumption ==
    /\ Backends \subseteq {"polling", "redis"}
    /\ QueueSize \in Nat /\ PollLimit \in Nat \ {0}
    /\ MaxTime \in Nat
    /\ NoEvent \notin Events /\ Loop \notin Events \cup Pollers
    /\ Events \cap Pollers = {}

VARIABLES
    backend,    \* the broadcaster in use
    up,         \* Shutdown has not been called
    clock,      \* time.Now()
    crashed,    \* a goroutine panicked, and the process has ended
    conns,      \* state of each connection
    subs,       \* subscribers[userID]: the slice and its capacity
    records,    \* Record, for each event
    created,    \* created_at of each event
    queue,      \* dbWorkerCh
    db,         \* teldrive.events
    polling, lastPollTime, pollers,  \* the polling state and its goroutines
    wire, listening,                 \* the Redis channel and the listener
    recent,     \* recentEvents
    sending,    \* the walks of broadcast() under way; "due" and "left" are
                \* history: who has yet to get the event, who has unsubscribed
    started,    \* history: the clock when polling was last started
    rounds,     \* history: how often each event was broadcast
    passed      \* history: stored too late for a poll, or cut off by LIMIT

time == <<backend, up, clock, crashed>>
store == <<queue, db>>
poll == <<polling, lastPollTime, pollers, started>>
redis == <<wire, listening>>
walks == <<sending, rounds>>
vars == <<time, conns, subs, records, created, store, poll, redis,
          recent, walks, passed>>

Actors == Events \cup Pollers \cup {Loop}
Idle == [evt |-> NoEvent, list |-> <<>>, next |-> 1, shared |-> FALSE,
         due |-> {}, left |-> {}]
NoPoller == [pc |-> "off", now |-> 0, batch |-> {}]

Init ==
    /\ backend \in Backends /\ up = TRUE /\ clock = 0 /\ crashed = FALSE
    /\ conns = [c \in Conns |-> "none"]
    /\ subs = [list |-> <<>>, cap |-> 0]
    /\ records = [e \in Events |-> "none"]
    /\ created = [e \in Events |-> 0]
    /\ queue = {} /\ db = {}
    /\ polling = FALSE /\ lastPollTime = 0
    /\ pollers = [p \in Pollers |-> NoPoller]
    /\ wire = {} /\ listening = FALSE
    /\ recent = {}
    /\ sending = [a \in Actors |-> Idle]
    /\ started = 0
    /\ rounds = [e \in Events |-> 0]
    /\ passed = {}

Tick ==
    /\ clock < MaxTime
    /\ clock' = clock + 1
    /\ UNCHANGED <<backend, up, crashed, conns, subs, records, created,
                   store, poll, redis, recent, walks, passed>>

-----------------------------------------------------------------------------
(* The list of subscribers *)

Sending(a) == sending[a].evt # NoEvent
Finished(a) == Sending(a) /\ sending[a].next > Len(sending[a].list)
Returned(a) == ~Sending(a) \/ Finished(a)
Returns(a) == sending' = [sending EXCEPT ![a] = Idle]

(* append: in place while there is capacity, else into a new array.         *)
Appended(s, c) ==
    [ list |-> Append(s.list, c),
      cap |-> IF Len(s.list) < s.cap THEN s.cap
              ELSE IF s.cap = 0 THEN 1 ELSE 2 * s.cap ]
SeesAppend(w, s, c) ==
    IF ~w.shared THEN w
    ELSE IF Len(s.list) = s.cap THEN [w EXCEPT !.shared = FALSE]
    ELSE IF Len(w.list) > Len(s.list)
         THEN [w EXCEPT !.list[Len(s.list) + 1] = c]
    ELSE w

(* Mutant: the last subscriber is dropped instead of the one that left. *)
Removed_Last(s, c) ==
    IF Len(s.list) = 1 THEN [list |-> <<>>, cap |-> 0]
    ELSE [s EXCEPT !.list = SubSeq(s.list, 1, Len(s.list) - 1)]
Position(s, c) == CHOOSE i \in DOMAIN s.list : s.list[i] = c
(* append(subs[:i], subs[i+1:]...): the tail moves down in place; an empty  *)
(* list is deleted from the map.                                            *)
Removed(s, c) ==
    IF Len(s.list) = 1 THEN [list |-> <<>>, cap |-> 0]
    ELSE [s EXCEPT !.list = SX!RemoveAt(s.list, Position(s, c))]
SeesRemove(w, s, c) ==
    LET rest == Removed(s, c).list
        gone == [w EXCEPT !.left = @ \cup {c}]
    IN IF ~w.shared THEN gone
       ELSE IF rest = <<>> THEN [gone EXCEPT !.shared = FALSE]
       ELSE [gone EXCEPT !.list = [k \in DOMAIN w.list |->
                              IF k \in DOMAIN rest THEN rest[k] ELSE w.list[k]]]

(* Subscribe adds the channel under the lock; in the polling broadcaster    *)
(* the first one then starts polling, after the unlock.                     *)
Subscribe(c) ==
    /\ conns[c] = "none"
    /\ subs' = Appended(subs, c)
    /\ sending' = [a \in Actors |-> IF Sending(a) THEN SeesAppend(sending[a], subs, c)
                                    ELSE Idle]
    /\ conns' = [conns EXCEPT ![c] =
                   IF backend = "polling" /\ subs.list = <<>> THEN "adding" ELSE "open"]
    /\ UNCHANGED <<time, records, created, store, poll, redis, recent,
                   rounds, passed>>

(* Unsubscribe removes it under the lock; the last one then stops polling.  *)
Unsubscribe(c) ==
    /\ conns[c] = "open"
    /\ subs' = Removed(subs, c)
    /\ sending' = [a \in Actors |-> IF Sending(a) THEN SeesRemove(sending[a], subs, c)
                                    ELSE Idle]
    /\ conns' = [conns EXCEPT ![c] =
                   IF backend = "polling" /\ Removed(subs, c).list = <<>>
                   THEN "removing" ELSE "draining"]
    /\ UNCHANGED <<time, records, created, store, poll, redis, recent,
                   rounds, passed>>

(* After 100 ms the channel is closed, whatever walks are under way.        *)
Close(c) ==
    /\ conns[c] = "draining"
    /\ conns' = [conns EXCEPT ![c] = "closed"]
    /\ UNCHANGED <<time, subs, records, created, store, poll, redis, recent,
                   walks, passed>>

-----------------------------------------------------------------------------
(* broadcast *)

(* Mutant: the walk starts at the second subscriber. *)
Broadcast_FromSecond(a, e) ==
    /\ rounds' = [rounds EXCEPT ![e] = @ + 1]
    /\ sending' = [sending EXCEPT ![a] =
                     IF subs.list = <<>> THEN Idle
                     ELSE [evt |-> e, list |-> subs.list, next |-> 2,
                           shared |-> TRUE, left |-> {},
                           due |-> {subs.list[k] : k \in DOMAIN subs.list}]]
(* Take the slice under the read lock. *)
Broadcast(a, e) ==
    /\ rounds' = [rounds EXCEPT ![e] = @ + 1]
    /\ sending' = [sending EXCEPT ![a] =
                     IF subs.list = <<>> THEN Idle
                     ELSE [evt |-> e, list |-> subs.list, next |-> 1,
                           shared |-> TRUE, left |-> {},
                           due |-> {subs.list[k] : k \in DOMAIN subs.list}]]

(* Offer it to the next one, whose channel drops it when it is full.        *)
Send(a) ==
    LET w == sending[a]
        c == w.list[w.next]
    IN
    /\ Sending(a) /\ w.next <= Len(w.list) /\ conns[c] # "closed"
    /\ sending' = [sending EXCEPT ![a].next = @ + 1, ![a].due = @ \ {c}]
    /\ UNCHANGED <<time, conns, subs, records, created, store, poll, redis,
                   recent, rounds, passed>>

(* A send on a closed channel panics.  Record runs in the request of a file *)
(* operation: net/http recovers the panic, and the event is not queued.  The*)
(* goroutines of the pollers and of the listener end the process.           *)
SendPanics(a) ==
    LET w == sending[a] IN
    /\ Sending(a) /\ w.next <= Len(w.list) /\ conns[w.list[w.next]] = "closed"
    /\ crashed' = (a \notin Events)
    /\ Returns(a)
    /\ records' = IF a \in Events THEN [records EXCEPT ![a] = "done"] ELSE records
    /\ UNCHANGED <<backend, up, clock, conns, subs, created, store, poll,
                   redis, recent, rounds, passed>>

-----------------------------------------------------------------------------
(* Record, and the database workers *)

(* Mutant: the queue has no limit. *)
Enqueued_NoLimit(e) == queue \cup {e}
(* A full queue drops the event. *)
Enqueued(e) == IF Cardinality(queue) < QueueSize THEN queue \cup {e} ELSE queue

(* The polling broadcaster sends the event at once ... *)
RecordPolling(e) ==
    /\ backend = "polling" /\ records[e] = "none"
    /\ records' = [records EXCEPT ![e] = "sending"]
    /\ created' = [created EXCEPT ![e] = clock]
    /\ Broadcast(e, e)
    /\ UNCHANGED <<time, conns, subs, store, poll, redis, recent, passed>>
(* ... and then queues it, or drops it when the queue is full. *)
RecordQueue(e) ==
    /\ records[e] = "sending" /\ Returned(e)
    /\ records' = [records EXCEPT ![e] = "done"]
    /\ queue' = Enqueued(e)
    /\ Returns(e)
    /\ UNCHANGED <<time, conns, subs, created, db, poll, redis, recent,
                   rounds, passed>>

(* The Redis broadcaster queues it, and publishes it in a goroutine. *)
RecordRedis(e) ==
    /\ backend = "redis" /\ records[e] = "none"
    /\ records' = [records EXCEPT ![e] = "publishing"]
    /\ created' = [created EXCEPT ![e] = clock]
    /\ queue' = Enqueued(e)
    /\ UNCHANGED <<time, conns, subs, db, poll, redis, recent, walks, passed>>
(* Nobody keeps a message that is published while no listener is connected. *)
(* The client library may send a publish again whose answer was lost.       *)
Publish(e) ==
    /\ records[e] = "publishing" /\ up
    /\ wire' = IF listening THEN wire \cup {e} ELSE wire
    /\ \E pc \in {"publishing", "done"} : records' = [records EXCEPT ![e] = pc]
    /\ UNCHANGED <<time, conns, subs, created, store, poll, listening,
                   recent, walks, passed>>
PublishFails(e) ==
    /\ records[e] = "publishing"
    /\ records' = [records EXCEPT ![e] = "done"]
    /\ UNCHANGED <<time, conns, subs, created, store, poll, redis,
                   recent, walks, passed>>

(* Workers insert the queued events in any order; a failed insert drops one. *)
Polled(p) == pollers[p].pc \in {"queried", "delivering"}
Insert(e) ==
    /\ e \in queue
    /\ queue' = queue \ {e}
    /\ \/ /\ db' = db \cup {e}
          /\ passed' = IF \/ created[e] <= lastPollTime
                          \/ \E p \in Pollers : Polled(p) /\ created[e] <= pollers[p].now
                       THEN passed \cup {e} ELSE passed
       \/ UNCHANGED <<db, passed>>
    /\ UNCHANGED <<time, conns, subs, records, created, poll, redis,
                   recent, walks>>

-----------------------------------------------------------------------------
(* Polling *)

StartPolling(c) ==
    /\ conns[c] = "adding"
    /\ conns' = [conns EXCEPT ![c] = "open"]
    /\ IF polling THEN UNCHANGED poll
       ELSE /\ polling' = TRUE /\ lastPollTime' = clock /\ started' = clock
            /\ \E p \in Pollers :
                  /\ pollers[p].pc = "off"
                  /\ pollers' = [pollers EXCEPT ![p].pc = "waiting"]
    /\ UNCHANGED <<time, subs, records, created, store, redis, recent,
                   walks, passed>>

StopPolling(c) ==
    /\ conns[c] = "removing"
    /\ conns' = [conns EXCEPT ![c] = "draining"]
    /\ polling' = FALSE
    /\ UNCHANGED <<time, subs, records, created, store, lastPollTime,
                   pollers, started, redis, recent, walks, passed>>

(* The ticker fires; a goroutine that is no longer wanted ends.             *)
PollTick(p) ==
    /\ pollers[p].pc = "waiting"
    /\ \/ /\ polling
          /\ pollers' = [pollers EXCEPT ![p].pc = "querying", ![p].now = clock]
       \/ /\ ~polling \/ ~up
          /\ pollers' = [pollers EXCEPT ![p] = NoPoller]
    /\ UNCHANGED <<time, conns, subs, records, created, store, polling,
                   lastPollTime, started, redis, recent, walks, passed>>

(* SELECT .. WHERE created_at > lastPollTime ORDER BY created_at LIMIT ..   *)
PollQuery(p) ==
    /\ pollers[p].pc = "querying"
    /\ LET found == {e \in db : created[e] > lastPollTime} IN
       \E batch \in SUBSET found :
          /\ Cardinality(batch) =
               IF Cardinality(found) < PollLimit THEN Cardinality(found) ELSE PollLimit
          /\ \A e \in batch, f \in found \ batch : created[e] <= created[f]
          /\ pollers' = [pollers EXCEPT ![p].pc = "queried", ![p].batch = batch]
          /\ passed' = passed \cup (found \ batch)
    /\ UNCHANGED <<time, conns, subs, records, created, store, polling,
                   lastPollTime, started, redis, recent, walks>>
PollFails(p) ==
    /\ pollers[p].pc = "querying"
    /\ pollers' = [pollers EXCEPT ![p] = [NoPoller EXCEPT !.pc = "waiting"]]
    /\ UNCHANGED <<time, conns, subs, records, created, store, polling,
                   lastPollTime, started, redis, recent, walks, passed>>

(* Mutant: the cursor moves to the time after the query. *)
PollCursor_Late(p) ==
    /\ pollers[p].pc = "queried"
    /\ lastPollTime' = clock
    /\ pollers' = [pollers EXCEPT ![p].pc = "delivering"]
    /\ UNCHANGED <<time, conns, subs, records, created, store, polling,
                   started, redis, recent, walks, passed>>
PollCursor(p) ==
    /\ pollers[p].pc = "queried"
    /\ lastPollTime' = pollers[p].now
    /\ pollers' = [pollers EXCEPT ![p].pc = "delivering"]
    /\ UNCHANGED <<time, conns, subs, records, created, store, polling,
                   started, redis, recent, walks, passed>>

(* Mutant: the event is not marked as processed. *)
ShouldProcess_NoMark(a, e) ==
    IF e \in recent THEN Returns(a) /\ UNCHANGED <<recent, rounds>>
    ELSE UNCHANGED recent /\ Broadcast(a, e)
(* shouldProcess marks the event; it is broadcast if it was not marked yet. *)
ShouldProcess(a, e) ==
    IF e \in recent THEN Returns(a) /\ UNCHANGED <<recent, rounds>>
    ELSE recent' = recent \cup {e} /\ Broadcast(a, e)

PollDeliver(p) ==
    /\ pollers[p].pc = "delivering" /\ Returned(p)
    /\ \E e \in pollers[p].batch :
          /\ \A f \in pollers[p].batch : created[e] <= created[f]
          /\ pollers' = [pollers EXCEPT ![p].batch = @ \ {e}]
          /\ ShouldProcess(p, e)
    /\ UNCHANGED <<time, conns, subs, records, created, store, polling,
                   lastPollTime, started, redis, passed>>
PollEnd(p) ==
    /\ pollers[p].pc = "delivering" /\ Returned(p) /\ pollers[p].batch = {}
    /\ pollers' = [pollers EXCEPT ![p] = [NoPoller EXCEPT !.pc = "waiting"]]
    /\ Returns(p)
    /\ UNCHANGED <<time, conns, subs, records, created, store, polling,
                   lastPollTime, started, redis, recent, rounds, passed>>

-----------------------------------------------------------------------------
(* The Redis listener *)

Listen ==
    /\ backend = "redis" /\ up /\ ~listening
    /\ listening' = TRUE
    /\ UNCHANGED <<time, conns, subs, records, created, store, poll, wire,
                   recent, walks, passed>>
(* The connection is lost, or the server shuts down: messages are drained.  *)
ListenLost ==
    /\ listening /\ Returned(Loop)
    /\ listening' = FALSE /\ wire' = {}
    /\ Returns(Loop)
    /\ UNCHANGED <<time, conns, subs, records, created, store, poll,
                   recent, rounds, passed>>
ListenReceive(e) ==
    /\ listening /\ Returned(Loop) /\ e \in wire
    /\ wire' = wire \ {e}
    /\ ShouldProcess(Loop, e)
    /\ UNCHANGED <<time, conns, subs, records, created, store, poll,
                   listening, passed>>

(* Shutdown stops polling and cancels the context: the workers end, with    *)
(* whatever is left in the queue.                                           *)
Shutdown ==
    /\ up
    /\ up' = FALSE
    /\ polling' = FALSE
    /\ UNCHANGED <<backend, clock, crashed, conns, subs, records, created,
                   store, lastPollTime, pollers, started, redis, recent, walks, passed>>
WorkersEnd ==
    /\ ~up /\ queue # {}
    /\ queue' = {}
    /\ UNCHANGED <<time, conns, subs, records, created, db, poll, redis,
                   recent, walks, passed>>

Step ==
    \/ Tick
    \/ \E c \in Conns : \/ Subscribe(c) \/ Unsubscribe(c) \/ Close(c)
                        \/ StartPolling(c) \/ StopPolling(c)
    \/ \E a \in Actors : Send(a) \/ SendPanics(a)
    \/ \E e \in Events : \/ RecordPolling(e) \/ RecordQueue(e) \/ RecordRedis(e)
                         \/ Publish(e) \/ PublishFails(e) \/ Insert(e)
                         \/ ListenReceive(e)
    \/ \E p \in Pollers : \/ PollTick(p) \/ PollQuery(p) \/ PollFails(p)
                          \/ PollCursor(p) \/ PollDeliver(p) \/ PollEnd(p)
    \/ Listen \/ ListenLost \/ Shutdown \/ WorkersEnd

Next == ~crashed /\ Step

Spec == Init /\ [][Next]_vars
-----------------------------------------------------------------------------
(* Properties *)

(* The queue keeps to its capacity, the list of subscribers to that of its  *)
(* array, and every walk to the list it took.                               *)
TypeOK ==
    /\ backend \in Backends /\ {up, crashed} \subseteq BOOLEAN /\ clock \in 0 .. MaxTime
    /\ conns \in [Conns -> {"none", "adding", "open", "removing", "draining", "closed"}]
    /\ subs.list \in Seq(Conns) /\ Len(subs.list) <= subs.cap
    /\ records \in [Events -> {"none", "sending", "publishing", "done"}]
    /\ created \in [Events -> 0 .. MaxTime]
    /\ queue \cup db \cup wire \cup recent \cup passed \subseteq Events
    /\ Cardinality(queue) <= QueueSize
    /\ polling \in BOOLEAN /\ listening \in BOOLEAN
    /\ {lastPollTime, started} \subseteq 0 .. MaxTime
    /\ pollers \in [Pollers ->
          [pc : {"off", "waiting", "querying", "queried", "delivering"},
           now : 0 .. MaxTime, batch : SUBSET Events]]
    /\ \A a \in Actors :
          /\ sending[a].evt \in Events \cup {NoEvent}
          /\ sending[a].list \in Seq(Conns)
          /\ sending[a].next \in 1 .. Len(sending[a].list) + 1
    /\ rounds \in [Events -> Nat]

(* A send reaches a closed channel, and panics, for one cause only: the     *)
(* connection left while the walk was under way, and its 100 ms passed      *)
(* before the walk came to it.  A connection that left before the walk took *)
(* the list is never met again, whatever Subscribe and Unsubscribe did to   *)
(* the array under it.                                                      *)
ClosedSendHasCause ==
    \A a \in Actors : Sending(a) =>
        \A k \in sending[a].next .. Len(sending[a].list) :
            conns[sending[a].list[k]] = "closed" =>
                sending[a].list[k] \in sending[a].left

(* When nobody leaves while an event is sent, everyone who was subscribed   *)
(* is offered it: a Subscribe in the middle takes it from nobody.           *)
BroadcastComplete ==
    \A a \in Actors : Finished(a) /\ sending[a].left = {} => sending[a].due = {}

(* However many pollers run and however often Redis delivers a message,     *)
(* recentEvents lets an event through once; the polling broadcaster has     *)
(* sent it once before, in Record.                                          *)
ProcessedOnce ==
    \A e \in Events : rounds[e] <= IF backend = "redis" THEN 1 ELSE 2

(* The cursor passes no event unread: a stored event from before it was     *)
(* created before polling began, has been processed, is in the batch of a   *)
(* poller, or was inserted after the poll it belonged to (or cut by LIMIT). *)
CursorSound ==
    \A e \in db : created[e] > started /\ created[e] <= lastPollTime =>
        \/ e \in recent \cup passed
        \/ \E p \in Pollers : e \in pollers[p].batch

-----------------------------------------------------------------------------
(* What a comment says, and the code does not do *)

(* The comment on broadcast(): it "sends event to all local subscribers of  *)
(* a user".  Everyone subscribed when the walk begins, and still when it    *)
(* ends, has been offered the event.                                        *)
BroadcastReachesAll ==
    \A a \in Actors : Finished(a) =>
        \A c \in sending[a].due : conns[c] # "open"
==============================================================================
