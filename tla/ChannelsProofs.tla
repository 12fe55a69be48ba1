---------------------------- MODULE ChannelsProofs ----------------------------
(* Proofs about Channels, for every value of its constants: the lock of a    *)
(* rollover, the channels made in the last ten seconds, and what the steps   *)
(* do to the selected channel and to the caches that hold it.                *)
EXTENDS Channels, FiniteSetTheorems, SequenceTheorems, TLAPS

-----------------------------------------------------------------------------
(* Sequences of rows *)

LEMMA RowTyped ==
    ASSUME TypeOK
    PROVE  /\ DOMAIN rows = 1 .. Len(rows) /\ Len(rows) \in Nat
           /\ \A i \in DOMAIN rows : rows[i] \in Channel
           /\ Listed \subseteq ChanIds /\ Selected \subseteq Listed
<1>1. rows \in Seq(Channel)
  BY DEF TypeOK
<1>2. DOMAIN rows = 1 .. Len(rows) /\ Len(rows) \in Nat
  BY <1>1
<1>3. \A i \in DOMAIN rows : rows[i] \in Channel
  BY <1>1, <1>2
<1>4. Listed \subseteq ChanIds
  BY <1>3 DEF Listed, Channel
<1>5. Selected \subseteq Listed
  BY DEF Selected, Listed
<1> QED BY <1>2, <1>3, <1>4, <1>5

LEMMA MappedRowsTyped ==
    ASSUME TypeOK, NEW new, DOMAIN new = DOMAIN rows,
           new = [i \in DOMAIN new |-> new[i]],
           \A i \in DOMAIN rows : new[i] \in Channel
    PROVE  new \in Seq(Channel)
<1>1. new \in [1 .. Len(rows) -> Channel] /\ Len(rows) \in Nat
  BY RowTyped
<1> QED BY <1>1, SeqDef

LEMMA DeselectedTyped ==
    ASSUME TypeOK, NEW S
    PROVE  Deselected(S) \in Seq(Channel)
<1>1. \A i \in DOMAIN rows : Deselected(S)[i] \in Channel
  BY RowTyped DEF Deselected, Channel
<1>2. /\ DOMAIN Deselected(S) = DOMAIN rows
      /\ Deselected(S) = [i \in DOMAIN Deselected(S) |-> Deselected(S)[i]]
  BY DEF Deselected
<1> QED BY <1>1, <1>2, MappedRowsTyped

LEMMA NewRowTyped ==
    ASSUME NEW c \in ChanIds, NEW s \in BOOLEAN, NEW b \in BOOLEAN
    PROVE  NewRow(c, s, b) \in Channel
BY DEF NewRow, Channel

-----------------------------------------------------------------------------
(* Type correctness *)

LEMMA InitTyped == Init => TypeOK
<1> SUFFICES ASSUME Init PROVE TypeOK
  OBVIOUS
<1>1. req \in [Requests -> Request]
  BY DEF Init, Idle, Request, Pcs, NoChan
<1>2. \A r \in Requests : /\ req[r].pc = "idle" <=> req[r].server = None
                          /\ Writing(req[r].pc) => req[r].chan # NoChan
  BY DEF Init, Idle, Writing
<1>3. rows \in Seq(Channel)
  BY DEF Init
<1>4. made \in 0 .. MaxChannels
  BY ChannelsAssumption DEF Init
<1>5. /\ lock \in [conn : Conns \cup {None}, count : Nat]
      /\ lock.conn = None <=> lock.count = 0
  BY DEF Init, Free
<1>6. cache \in [Caches -> ChanIds \cup {NoChan}]
  BY DEF Init
<1>7. {lost, shared, clash} \subseteq BOOLEAN /\ stale \subseteq Caches
  BY DEF Init
<1> QED BY <1>1, <1>2, <1>3, <1>4, <1>5, <1>6, <1>7 DEF TypeOK, Writing

ReqOK == /\ req \in [Requests -> Request]
         /\ \A r \in Requests : /\ req[r].pc = "idle" <=> req[r].server = None
                                /\ Writing(req[r].pc) => req[r].chan # NoChan
Steady(new) == /\ new \in Request /\ (new.pc = "idle" <=> new.server = None)
               /\ Writing(new.pc) => new.chan # NoChan

(* What a request becomes. *)
LEMMA SetTyped ==
    ASSUME TypeOK, NEW r \in Requests, NEW new, Steady(new), SetReq(r, new)
    PROVE  ReqOK'
BY DEF TypeOK, SetReq, ReqOK, Steady

LEMMA IdleTyped == Steady(Idle)
BY DEF Idle, Request, Pcs, NoChan, Steady, Writing

LEMMA GotoTyped ==
    ASSUME TypeOK, NEW r \in Requests, req[r].pc # "idle", NEW pc \in Pcs \ {"idle"},
           NEW c \in ChanIds \cup {NoChan}, NEW S \in SUBSET ChanIds
    PROVE  /\ (Writing(pc) => req[r].chan # NoChan) =>
                 /\ Steady([req[r] EXCEPT !.pc = pc])
                 /\ Steady([req[r] EXCEPT !.pc = pc, !.snap = S])
                 /\ Steady([req[r] EXCEPT !.pc = pc, !.old = FALSE])
           /\ (Writing(pc) => c # NoChan) =>
                 /\ Steady([req[r] EXCEPT !.chan = c, !.pc = pc])
                 /\ Steady([req[r] EXCEPT !.pc = pc, !.chan = c, !.snap = S])
<1> req[r] \in Request /\ req[r].server # None
  BY DEF TypeOK
<1> QED BY DEF Request, Steady

LEMMA ServerTyped ==
    ASSUME TypeOK, NEW r \in Requests, req[r].pc # "idle"
    PROVE  req[r].server \in Servers /\ CacheOf[req[r].server] \in Caches
BY ChannelsAssumption DEF TypeOK, Request

(* Steps that change a request and leave the tables alone. *)
LEMMA RequestStepTyped ==
    ASSUME TypeOK, ReqOK', UNCHANGED <<rows, made, lock, cache, history>>
    PROVE  TypeOK'
BY DEF TypeOK, ReqOK, history

LEMMA UploadTyped ==
    ASSUME TypeOK, NEW r \in Requests, NEW s \in Servers, Upload(r, s)
    PROVE  TypeOK'
<1> DEFINE new == [Idle EXCEPT !.op = "upload", !.server = s,
                      !.chan = cache[CacheOf[s]],
                      !.pc = IF cache[CacheOf[s]] = NoChan THEN "fetch" ELSE "check"]
<1>1. Steady(new)
  BY ChannelsAssumption DEF Idle, Request, Pcs, TypeOK, NoChan, Steady, Writing
<1>2. SetReq(r, new)
  BY DEF Upload
<1> HIDE DEF new
<1> QED BY <1>1, <1>2, SetTyped, RequestStepTyped DEF Upload, data

LEMMA FetchTyped ==
    ASSUME TypeOK, NEW r \in Requests,
           FetchRead(r) \/ FetchStore(r) \/ StoreFails(r) \/ CheckLimit(r)
    PROVE  TypeOK'
<1>1. CASE FetchRead(r)
  <2>1. CASE Selected = {}
    <3>1. SetReq(r, [req[r] EXCEPT !.pc = "lock"])
      BY <1>1, <2>1 DEF FetchRead, Goto, SetReq
    <3>2. Steady([req[r] EXCEPT !.pc = "lock"])
      BY <1>1, GotoTyped DEF Writing, FetchRead, Pcs
    <3> QED BY <1>1, <3>1, <3>2, SetTyped, RequestStepTyped DEF FetchRead, data
  <2>2. CASE Selected # {}
    <3>1. PICK c \in Selected : SetReq(r, [req[r] EXCEPT !.chan = c, !.pc = "store"])
      BY <1>1, <2>2 DEF FetchRead
    <3>2. c \in ChanIds
      BY RowTyped
    <3>3. Steady([req[r] EXCEPT !.chan = c, !.pc = "store"])
      BY <1>1, <3>2, GotoTyped DEF Writing, FetchRead, Pcs
    <3> QED BY <1>1, <3>1, <3>3, SetTyped, RequestStepTyped DEF FetchRead, data
  <2> QED BY <2>1, <2>2
<1>2. CASE FetchStore(r)
  <2>1. Steady([req[r] EXCEPT !.pc = "check", !.old = FALSE])
    BY <1>2, GotoTyped DEF Writing, FetchStore, Pcs
  <2>2. ReqOK'
    BY <1>2, <2>1, SetTyped DEF FetchStore
  <2>3. cache' \in [Caches -> ChanIds \cup {NoChan}]
    BY <1>2 DEF FetchStore, TypeOK, Request
  <2>4. stale' \subseteq Caches
    BY <1>2, ServerTyped DEF FetchStore, TypeOK
  <2> QED BY <1>2, <2>2, <2>3, <2>4 DEF FetchStore, TypeOK, ReqOK, data
<1>3. CASE CheckLimit(r)
  <2>1. Steady([req[r] EXCEPT !.chan = NoChan, !.pc = "lock"])
    BY <1>3, GotoTyped DEF Writing, CheckLimit, Pcs
  <2>2. ReqOK'
    BY <1>3, <2>1, IdleTyped, SetTyped DEF CheckLimit
  <2> QED BY <1>3, <2>2, RequestStepTyped DEF CheckLimit, data
<1>4. CASE StoreFails(r)
  <2>1. Steady([req[r] EXCEPT !.pc = "check", !.old = FALSE])
    BY <1>4, GotoTyped DEF Writing, StoreFails, Pcs
  <2> QED BY <1>4, <2>1, SetTyped, RequestStepTyped DEF StoreFails, data
<1> QED BY <1>1, <1>2, <1>3, <1>4

LEMMA LockTyped ==
    ASSUME TypeOK, NEW r \in Requests, NEW k \in Conns,
           Acquire(r, k) \/ Release(r, k)
    PROVE  TypeOK'
<1> USE ChannelsAssumption
<1>1. CASE Acquire(r, k)
  <2>1. Steady([req[r] EXCEPT !.pc = "recent"])
    BY <1>1, GotoTyped DEF Writing, Acquire, Pcs
  <2>2. ReqOK'
    <3>1. CASE CanLock(k)
      BY <1>1, <2>1, <3>1, SetTyped DEF Acquire, Goto, SetReq
    <3>2. CASE ~CanLock(k)
      BY <1>1, <3>2, IdleTyped, SetTyped DEF Acquire
    <3> QED BY <3>1, <3>2
  <2>3. lock' \in [conn : Conns \cup {None}, count : Nat]
    BY <1>1 DEF Acquire, TypeOK
  <2>4. lock'.conn = None <=> lock'.count = 0
    BY <1>1 DEF Acquire, TypeOK
  <2>5. shared' \in BOOLEAN
    BY <1>1 DEF Acquire, TypeOK
  <2> QED BY <1>1, <2>2, <2>3, <2>4, <2>5 DEF Acquire, TypeOK, data, ReqOK
<1>2. CASE Release(r, k)
  <2>1. lock' \in [conn : Conns \cup {None}, count : Nat]
    BY <1>2 DEF Release, TypeOK, Free
  <2>2. lock'.conn = None <=> lock'.count = 0
    BY <1>2 DEF Release, TypeOK, Free
  <2>3. ReqOK'
    BY <1>2, IdleTyped, SetTyped DEF Release
  <2> QED BY <1>2, <2>1, <2>2, <2>3 DEF Release, TypeOK, data, history, ReqOK
<1> QED BY <1>1, <1>2

(* A step of CreateNewChannel that leaves the rows alone. *)
LEMMA RolloverTyped ==
    ASSUME TypeOK, NEW r \in Requests,
           CheckRecent(r) \/ Create(r) \/ Fail(r) \/ Begin(r) \/ Deselect(r)
             \/ Invalidate(r)
    PROVE  TypeOK'
<1>1. CASE CheckRecent(r)
  <2> DEFINE pc == IF Fresh = {} THEN "create" ELSE "unlock"
  <2>1. pc \in Pcs \ {"idle"} /\ ~Writing(pc) /\ SetReq(r, [req[r] EXCEPT !.pc = pc])
    BY <1>1 DEF CheckRecent, Goto, SetReq, Pcs, Writing
  <2> HIDE DEF pc
  <2>2. Steady([req[r] EXCEPT !.pc = pc])
    BY <1>1, <2>1, GotoTyped DEF Writing, CheckRecent
  <2> QED BY <1>1, <2>1, <2>2, SetTyped, RequestStepTyped DEF CheckRecent, data
<1>2. CASE Create(r)
  <2> DEFINE pc == IF req[r].op = "upload" THEN "begin" ELSE "insert"
  <2>1. /\ made + 1 \in ChanIds /\ made + 1 # NoChan
        /\ made' \in 0 .. MaxChannels
    BY <1>2, ChannelsAssumption DEF Create, TypeOK, ChanIds, NoChan
  <2>2. /\ pc \in Pcs \ {"idle"}
        /\ SetReq(r, [req[r] EXCEPT !.chan = made + 1, !.pc = pc])
    BY <1>2 DEF Create, Pcs
  <2> HIDE DEF pc
  <2>3. Steady([req[r] EXCEPT !.chan = made + 1, !.pc = pc])
    BY <1>2, <2>1, <2>2, GotoTyped DEF Writing, Create
  <2>4. ReqOK'
    BY <2>2, <2>3, SetTyped
  <2> QED BY <1>2, <2>1, <2>4 DEF Create, TypeOK, ReqOK, history
<1>3. CASE Fail(r)
  <2>1. Steady(Finished(r, "unlock"))
    BY <1>3, GotoTyped DEF Writing, Fail, Pcs, Finished, NoChan
  <2> QED BY <1>3, <2>1, SetTyped, RequestStepTyped DEF Fail, data
<1>4. CASE Begin(r)
  <2>1. Steady([req[r] EXCEPT !.pc = "deselect", !.snap = Listed])
    BY <1>4, RowTyped, GotoTyped DEF Writing, Begin, Pcs, TypeOK
  <2>2. ReqOK'
    BY <1>4, <2>1, SetTyped DEF Begin
  <2>3. clash' \in BOOLEAN
    BY <1>4 DEF Begin, Clashes, TypeOK
  <2> QED BY <1>4, <2>2, <2>3 DEF Begin, TypeOK, ReqOK, data
<1>5. CASE Deselect(r)
  <2>1. Steady([req[r] EXCEPT !.pc = "commit"])
    BY <1>5, GotoTyped DEF Writing, Deselect, Pcs, TypeOK
  <2>2. ReqOK'
    BY <1>5, <2>1, SetTyped DEF Deselect, Goto, SetReq
  <2> QED BY <1>5, <2>2, RequestStepTyped DEF Deselect, data
<1>6. CASE Invalidate(r)
  <2>1. Steady([req[r] EXCEPT !.pc = "unlock"])
    BY <1>6, GotoTyped DEF Writing, Invalidate, Pcs
  <2>2. ReqOK'
    BY <1>6, <2>1, SetTyped DEF Invalidate, Goto, SetReq
  <2>3. cache' \in [Caches -> ChanIds \cup {NoChan}] /\ stale' \subseteq Caches
    BY <1>6 DEF Invalidate, TypeOK
  <2> QED BY <1>6, <2>2, <2>3 DEF Invalidate, TypeOK, ReqOK, data
<1> QED BY <1>1, <1>2, <1>3, <1>4, <1>5, <1>6

(* A change of the selection, by every request of new. *)
LEMMA ChangesTyped ==
    ASSUME TypeOK, NEW s, NEW new \in [Requests -> Request],
           \A q \in Requests : Steady(new[q]), Changes(s, new)
    PROVE  ReqOK' /\ stale' \subseteq Caches
<1>1. req' \in [Requests -> Request]
  BY ZenonT(40) DEF Changes, Request
<1>2. \A q \in Requests : /\ req'[q].pc = "idle" <=> req'[q].server = None
                          /\ Writing(req'[q].pc) => req'[q].chan # NoChan
  <2> TAKE q \in Requests
  <2>1. /\ req'[q].pc = new[q].pc /\ req'[q].server = new[q].server
        /\ req'[q].chan = new[q].chan
    BY DEF Changes, Request
  <2> QED BY <2>1 DEF Steady
<1>3. stale' \subseteq Caches
  BY DEF Changes, TypeOK
<1> QED BY <1>1, <1>2, <1>3 DEF ReqOK, Writing

LEMMA OneChanged ==
    ASSUME TypeOK, NEW r \in Requests, NEW v, Steady(v)
    PROVE  /\ [req EXCEPT ![r] = v] \in [Requests -> Request]
           /\ \A q \in Requests : Steady([req EXCEPT ![r] = v][q])
BY DEF TypeOK, Steady

(* What writes the rows. *)
LEMMA RowsTyped ==
    ASSUME TypeOK, ReqOK', rows' \in Seq(Channel), stale' \subseteq Caches,
           {lost', shared', clash'} \subseteq BOOLEAN, UNCHANGED <<made, lock, cache>>
    PROVE  TypeOK'
BY DEF TypeOK, ReqOK

LEMMA AppendedTyped ==
    ASSUME NEW seq \in Seq(Channel), NEW row \in Channel
    PROVE  Append(seq, row) \in Seq(Channel)
OBVIOUS

LEMMA CommitTyped ==
    ASSUME TypeOK, NEW r \in Requests, Insert(r) \/ Commit(r)
    PROVE  TypeOK'
<1>1. req[r].chan \in ChanIds
  <2>1. req[r] \in Request /\ (Writing(req[r].pc) => req[r].chan # NoChan)
    BY DEF TypeOK
  <2> QED BY <2>1 DEF Request, Insert, Commit, Writing
<1>2. CASE Insert(r)
  <2>1. Steady(Finished(r, "unlock"))
    BY <1>2, GotoTyped DEF Writing, Insert, Pcs, Finished
  <2>2. ReqOK'
    BY <1>2, <2>1, SetTyped DEF Insert
  <2>3. rows' \in Seq(Channel)
    BY <1>1, <1>2, NewRowTyped, AppendedTyped DEF Insert, TypeOK
  <2> QED BY <1>2, <2>2, <2>3, RowsTyped DEF Insert, history, TypeOK
<1>3. CASE Commit(r)
  <2>1. Steady(Finished(r, "invalidate"))
    BY <1>3, GotoTyped DEF Writing, Commit, Pcs, Finished
  <2>2. ReqOK' /\ stale' \subseteq Caches
    BY <1>3, <2>1, OneChanged, ChangesTyped DEF Commit
  <2>3. rows' \in Seq(Channel)
    BY <1>1, <1>3, NewRowTyped, DeselectedTyped, AppendedTyped DEF Commit
  <2> QED BY <1>3, <2>2, <2>3, RowsTyped DEF Commit, TypeOK
<1> QED BY <1>2, <1>3

LEMMA SelectTyped ==
    ASSUME TypeOK, NEW r \in Requests, NEW s \in Servers, NEW c \in ChanIds,
           Select(r, s, c)
    PROVE  TypeOK'
<1> DEFINE v == [Idle EXCEPT !.op = "select", !.server = s, !.chan = c, !.pc = "snap"]
           chosen == [i \in DOMAIN rows |-> IF rows[i].chan = c
                        THEN [rows[i] EXCEPT !.selected = TRUE] ELSE rows[i]]
<1>1. Steady(v)
  BY ChannelsAssumption DEF Idle, Request, Pcs, NoChan, Steady, Writing
<1>2. Changes(s, [req EXCEPT ![r] = v])
  BY DEF Select
<1>3. ReqOK' /\ stale' \subseteq Caches
  <2> HIDE DEF v
  <2> QED BY <1>1, <1>2, OneChanged, ChangesTyped
<1>4. chosen \in Seq(Channel)
  <2>1. \A i \in DOMAIN rows : chosen[i] \in Channel
    BY RowTyped DEF Channel
  <2>2. DOMAIN chosen = DOMAIN rows /\ chosen = [i \in DOMAIN chosen |-> chosen[i]]
    OBVIOUS
  <2> HIDE DEF chosen
  <2> QED BY <2>1, <2>2, MappedRowsTyped
<1>5. Append(rows, NewRow(c, TRUE, FALSE)) \in Seq(Channel)
  BY NewRowTyped, AppendedTyped DEF TypeOK
<1>6. rows' \in Seq(Channel)
  BY <1>4, <1>5 DEF Select
<1>7. {lost', shared', clash'} \subseteq BOOLEAN
  BY DEF Select, Clashes, TypeOK
<1> QED BY <1>3, <1>6, <1>7, RowsTyped DEF Select

(* A call of the cache that fails. *)
LEMMA CacheFailsTyped ==
    ASSUME TypeOK, NEW r \in Requests, CacheFails(r)
    PROVE  TypeOK'
<1>1. Steady([req[r] EXCEPT !.pc = "unlock"]) \/ req[r].pc = "set"
  BY GotoTyped DEF Writing, CacheFails, Pcs
<1>2. ReqOK'
  <2>1. CASE req[r].pc = "set"
    BY <2>1, IdleTyped, SetTyped DEF CacheFails
  <2>2. CASE req[r].pc # "set"
    BY <1>1, <2>2, SetTyped DEF CacheFails, SetReq
  <2> QED BY <2>1, <2>2
<1>3. stale' \subseteq Caches
  BY ServerTyped DEF CacheFails, TypeOK
<1> QED BY <1>2, <1>3 DEF CacheFails, TypeOK, ReqOK, data

LEMMA OthersTyped ==
    ASSUME TypeOK, NEW r \in Requests,
           SelectSnap(r) \/ SelectOthers(r) \/ SelectFails(r) \/ SelectSet(r)
    PROVE  TypeOK'
<1>1. CASE SelectSnap(r)
  <2>1. Steady([req[r] EXCEPT !.pc = "others", !.snap = Listed \ {req[r].chan}])
    BY <1>1, RowTyped, GotoTyped DEF SelectSnap, Pcs, Writing
  <2> QED BY <1>1, <2>1, SetTyped, RequestStepTyped DEF SelectSnap, data
<1>2. CASE SelectOthers(r)
  <2> DEFINE v == [req[r] EXCEPT !.pc = "set", !.snap = {}]
  <2>1. Steady(v)
    BY <1>2, GotoTyped DEF SelectOthers, Pcs, Writing
  <2>2. [req EXCEPT ![r].pc = "set", ![r].snap = {}] = [req EXCEPT ![r] = v]
    BY DEF TypeOK
  <2>3. ReqOK' /\ stale' \subseteq Caches
    <3> HIDE DEF v
    <3> QED BY <1>2, <2>1, <2>2, OneChanged, ChangesTyped DEF SelectOthers
  <2> QED BY <1>2, <2>3, DeselectedTyped, RowsTyped DEF SelectOthers, TypeOK
<1>3. CASE SelectFails(r)
  <2>1. Steady([req[r] EXCEPT !.pc = "set", !.snap = {}])
    BY <1>3, GotoTyped DEF SelectFails, Pcs, Writing
  <2>2. ReqOK'
    BY <1>3, <2>1, SetTyped DEF SelectFails
  <2> QED BY <1>3, <2>2 DEF SelectFails, TypeOK, ReqOK, data
<1>4. CASE SelectSet(r)
  <2>1. ReqOK'
    BY <1>4, IdleTyped, SetTyped DEF SelectSet
  <2>2. cache' \in [Caches -> ChanIds \cup {NoChan}] /\ stale' \subseteq Caches
    BY <1>4 DEF SelectSet, TypeOK, Request
  <2> QED BY <1>4, <2>1, <2>2 DEF SelectSet, TypeOK, ReqOK, data
<1> QED BY <1>1, <1>2, <1>3, <1>4

LEMMA DeleteTyped ==
    ASSUME TypeOK, NEW c \in ChanIds, DeleteChannel(c)
    PROVE  TypeOK'
<1>1. PICK i \in Row(c) :
        rows' = SubSeq(rows, 1, i - 1) \o SubSeq(rows, i + 1, Len(rows))
  BY DEF DeleteChannel
<1>2. i \in 1 .. Len(rows) /\ rows \in Seq(Channel) /\ Len(rows) \in Nat
  BY RowTyped DEF Row, TypeOK
<1>3. /\ SubSeq(rows, 1, i - 1) \in Seq(Channel)
      /\ SubSeq(rows, i + 1, Len(rows)) \in Seq(Channel)
  BY <1>2, SubSeqProperties
<1>4. rows' \in Seq(Channel)
  BY <1>1, <1>3
<1>5. ReqOK'
  <2>1. req' \in [Requests -> Request]
    BY ZenonT(40) DEF DeleteChannel, TypeOK, Request
  <2>2. \A q \in Requests : /\ req'[q].pc = req[q].pc /\ req'[q].server = req[q].server
                           /\ req'[q].chan = req[q].chan
    BY DEF DeleteChannel, TypeOK, Request
  <2> QED BY <2>1, <2>2 DEF TypeOK, ReqOK, Writing
<1>6. {lost', shared', clash'} \subseteq BOOLEAN
  BY DEF DeleteChannel, TypeOK
<1> QED BY <1>4, <1>5, <1>6, RowsTyped DEF DeleteChannel

LEMMA OutsideTyped ==
    ASSUME TypeOK, CloseConn \/ Age
    PROVE  TypeOK'
<1>1. CASE CloseConn
  BY <1>1 DEF CloseConn, TypeOK, Free, data
<1>2. CASE Age
  <2> DEFINE aged == [i \in DOMAIN rows |-> IF \A k \in Fresh : i <= k
                        THEN [rows[i] EXCEPT !.fresh = FALSE] ELSE rows[i]]
  <2>1. \A i \in DOMAIN rows : aged[i] \in Channel
    BY RowTyped DEF Channel
  <2>2. DOMAIN aged = DOMAIN rows /\ aged = [i \in DOMAIN aged |-> aged[i]]
    OBVIOUS
  <2>3. aged \in Seq(Channel)
    <3> HIDE DEF aged
    <3> QED BY <2>1, <2>2, MappedRowsTyped
  <2> QED BY <1>2, <2>3 DEF Age, TypeOK, history, Writing
<1> QED BY <1>1, <1>2

LEMMA AddTyped ==
    ASSUME TypeOK, NEW r \in Requests, NEW s \in Servers, Add(r, s)
    PROVE  TypeOK'
<1> DEFINE v == [Idle EXCEPT !.op = "add", !.server = s, !.pc = "lock"]
<1>1. Steady(v)
  BY ChannelsAssumption DEF Idle, Request, Pcs, NoChan, Steady, Writing
<1>2. SetReq(r, v)
  BY DEF Add
<1> HIDE DEF v
<1> QED BY <1>1, <1>2, SetTyped, RequestStepTyped DEF Add, data

LEMMA NextTyped == TypeOK /\ [Next]_vars => TypeOK'
<1> SUFFICES ASSUME TypeOK, [Next]_vars PROVE TypeOK'
  OBVIOUS
<1>1. CASE UNCHANGED vars
  BY <1>1 DEF vars, data, history, TypeOK, Writing
<1>2. CASE Next
  <2>1. CASE \E r \in Requests, s \in Servers : Upload(r, s) \/ Add(r, s)
    BY <2>1, UploadTyped, AddTyped
  <2>2. CASE \E r \in Requests, s \in Servers, c \in ChanIds : Select(r, s, c)
    BY <2>2, SelectTyped
  <2>3. CASE \E r \in Requests : FetchRead(r) \/ FetchStore(r) \/ StoreFails(r)
                                  \/ CheckLimit(r)
    BY <2>3, FetchTyped
  <2>4. CASE \E r \in Requests : Rollover(r)
    BY <2>4, LockTyped, RolloverTyped, CommitTyped DEF Rollover
  <2>5. CASE \E r \in Requests : SelectSnap(r) \/ SelectOthers(r) \/ SelectFails(r)
                                  \/ SelectSet(r) \/ CacheFails(r)
    BY <2>5, OthersTyped, CacheFailsTyped
  <2>6. CASE (\E c \in ChanIds : DeleteChannel(c)) \/ CloseConn \/ Age
    BY <2>6, DeleteTyped, OutsideTyped
  <2> QED BY <1>2, <2>1, <2>2, <2>3, <2>4, <2>5, <2>6 DEF Next
<1> QED BY <1>1, <1>2

(* In every state the variables are within their types. *)
THEOREM Typed == Spec => []TypeOK
BY InitTyped, NextTyped, PTL DEF Spec

-----------------------------------------------------------------------------
(* The lock *)

Users == {r \in Requests : InRollover(r)}

(* LockHeld with its set named. *)
Held == /\ Cardinality(Users) <= lock.count
        /\ \A r \in Users : lock.conn # None /\ HomeOf[lock.conn] = req[r].server

LEMMA HeldIsLockHeld == LockHeld <=> (~lost => Held)
BY DEF LockHeld, Held, Users

LEMMA UsersFinite ==
    IsFiniteSet(Users) /\ Cardinality(Users) \in Nat
<1>1. Users \subseteq Requests
  BY DEF Users
<1> QED BY <1>1, ChannelsAssumption, FS_Subset, FS_CardinalityType

LEMMA InitHeld == Init => Held
<1> SUFFICES ASSUME Init PROVE Held
  OBVIOUS
<1>1. Users = {}
  BY DEF Init, Users, InRollover, Idle
<1>2. Cardinality(Users) = 0
  BY <1>1, FS_EmptySet
<1> QED BY <1>1, <1>2 DEF Init, Free, Held

(* Steps that leave the lock alone and bring in no new request. *)
LEMMA FewerUsers ==
    ASSUME TypeOK, Held, UNCHANGED lock,
           \A q \in Requests : InRollover(q)' =>
               InRollover(q) /\ req'[q].server = req[q].server
    PROVE  Held'
<1>1. Users' \subseteq Users
  BY DEF Users
<1>2. IsFiniteSet(Users) /\ Cardinality(Users) \in Nat
  BY UsersFinite
<1>3. Cardinality(Users') \in Nat /\ Cardinality(Users') <= Cardinality(Users)
  BY <1>1, <1>2, FS_Subset, FS_CardinalityType
<1>4. lock.count \in Nat
  BY DEF TypeOK
<1>5. Cardinality(Users') <= lock'.count
  BY <1>2, <1>3, <1>4 DEF Held
<1>6. \A r \in Users' : lock'.conn # None /\ HomeOf[lock'.conn] = req'[r].server
  BY <1>1 DEF Held, Users
<1> QED BY <1>5, <1>6 DEF Held

LEMMA AcquireHeld ==
    ASSUME TypeOK, Held, NEW r \in Requests, NEW k \in Conns, Acquire(r, k)
    PROVE  Held'
<1>1. CASE ~CanLock(k)
  <2>1. \A q \in Requests : InRollover(q)' =>
            InRollover(q) /\ req'[q].server = req[q].server
    BY <1>1 DEF Acquire, SetReq, Idle, InRollover, TypeOK
  <2> QED BY <1>1, <2>1, FewerUsers DEF Acquire
<1>2. CASE CanLock(k)
  <2>1. /\ lock' = [conn |-> k, count |-> lock.count + 1]
        /\ req' = [req EXCEPT ![r].pc = "recent"]
        /\ req[r].pc = "lock" /\ HomeOf[k] = req[r].server
    BY <1>2 DEF Acquire, Goto
  <2>2. Users' = Users \cup {r} /\ r \notin Users
    BY <2>1 DEF Users, InRollover, TypeOK
  <2>3. Cardinality(Users') = Cardinality(Users) + 1
    BY <2>2, UsersFinite, FS_AddElement
  <2>4. Cardinality(Users') <= lock'.count
    BY <2>1, <2>3, UsersFinite DEF Held, TypeOK
  <2>5. \A q \in Users : HomeOf[k] = req[q].server
    BY <1>2 DEF CanLock, Held
  <2>6. \A q \in Requests : req'[q].server = req[q].server
    BY <2>1 DEF TypeOK, Request
  <2>7. \A q \in Users' : lock'.conn # None /\ HomeOf[lock'.conn] = req'[q].server
    BY <2>1, <2>2, <2>5, <2>6, ChannelsAssumption DEF Users
  <2> QED BY <2>4, <2>7 DEF Held
<1> QED BY <1>1, <1>2

LEMMA ReleaseHeld ==
    ASSUME TypeOK, Held, NEW r \in Requests, NEW k \in Conns, Release(r, k)
    PROVE  Held'
<1>1. req' = [req EXCEPT ![r] = Idle] /\ r \in Users
  BY DEF Release, SetReq, Users, InRollover
<1>2. Users' = Users \ {r} /\ \A q \in Users' : req'[q] = req[q]
  BY <1>1 DEF Users, InRollover, Idle, TypeOK
<1>3. Cardinality(Users') = Cardinality(Users) - 1 /\ IsFiniteSet(Users')
  BY <1>1, <1>2, UsersFinite, FS_RemoveElement
<1>4. Cardinality(Users') \in Nat /\ (Cardinality(Users') = 0 => Users' = {})
  BY <1>3, FS_CardinalityType, FS_EmptySet
<1>5. CASE lock.conn # k
  <2>1. lock' = lock
    BY <1>5 DEF Release
  <2> QED BY <1>2, <1>3, <1>4, <2>1, UsersFinite DEF Held, TypeOK
<1>6. CASE lock.conn = k /\ lock.count = 1
  <2>1. Users' = {}
    BY <1>3, <1>4, <1>6, UsersFinite DEF Held
  <2>2. lock'.count = 0 /\ Cardinality(Users') = 0
    BY <1>6, <2>1, FS_EmptySet DEF Release, Free
  <2> QED BY <2>1, <2>2 DEF Held
<1>7. CASE lock.conn = k /\ lock.count # 1
  <2>1. lock'.conn = lock.conn /\ lock'.count = lock.count - 1
    BY <1>7 DEF Release, TypeOK
  <2> QED BY <1>2, <1>3, <1>4, <2>1, UsersFinite DEF Held, TypeOK
<1> QED BY <1>5, <1>6, <1>7

(* A request that is not at the lock stays on its server, and stays in its  *)
(* rollover or leaves it.                                                   *)
LEMMA OneRequestHeld ==
    ASSUME TypeOK, Held, UNCHANGED lock, NEW r \in Requests,
           \A q \in Requests \ {r} : /\ req'[q].pc = req[q].pc
                                     /\ req'[q].server = req[q].server,
           InRollover(r)' => InRollover(r) /\ req'[r].server = req[r].server
    PROVE  Held'
BY FewerUsers DEF InRollover

LEMMA RolloverHeld ==
    ASSUME TypeOK, Held, NEW r \in Requests,
           CheckRecent(r) \/ Create(r) \/ Fail(r) \/ Insert(r) \/ Begin(r)
             \/ Deselect(r) \/ Commit(r) \/ Invalidate(r)
    PROVE  Held' /\ UNCHANGED lost
<1>1. UNCHANGED lock /\ UNCHANGED lost
  BY DEF CheckRecent, Create, Fail, Insert, Begin, Deselect, Commit, Invalidate, history
<1>2. InRollover(r)
  BY DEF CheckRecent, Create, Fail, Insert, Begin, Deselect, Commit, Invalidate,
         InRollover
<1>3. \A q \in Requests \ {r} : req'[q].pc = req[q].pc /\ req'[q].server = req[q].server
  <2>1. CASE Commit(r)
    BY <2>1 DEF Commit, Changes, TypeOK, Request
  <2>2. CASE ~Commit(r)
    BY <2>2 DEF CheckRecent, Create, Fail, Insert, Begin, Deselect, Invalidate,
                Goto, SetReq, TypeOK
  <2> QED BY <2>1, <2>2
<1>4. req'[r].server = req[r].server
  <2> req[r] \in Request
    BY DEF TypeOK
  <2>1. CASE Commit(r)
    BY <2>1 DEF Commit, Changes, Finished, TypeOK, Request
  <2>2. CASE CheckRecent(r) \/ Deselect(r) \/ Invalidate(r)
    BY <2>2 DEF CheckRecent, Deselect, Invalidate, Goto, TypeOK, Request
  <2>3. CASE Create(r)
    BY <2>3 DEF Create, SetReq, TypeOK, Request
  <2>4. CASE Begin(r)
    BY <2>4 DEF Begin, SetReq, TypeOK, Request
  <2>5. CASE Fail(r) \/ Insert(r)
    <3>1. req'[r] = Finished(r, "unlock")
      BY <2>5 DEF Fail, Insert, SetReq, TypeOK
    <3> QED BY <3>1 DEF Finished, Request
  <2> QED BY <2>1, <2>2, <2>3, <2>4, <2>5
<1> QED BY <1>1, <1>2, <1>3, <1>4, OneRequestHeld

(* The steps of requests that are in no rollover, before and after. *)
LEMMA OtherRequestHeld ==
    ASSUME TypeOK, Held, NEW r \in Requests,
           \/ \E s \in Servers : Upload(r, s) \/ Add(r, s)
           \/ \E s \in Servers, c \in ChanIds : Select(r, s, c)
           \/ FetchRead(r) \/ FetchStore(r) \/ StoreFails(r) \/ CheckLimit(r)
           \/ SelectSnap(r) \/ SelectOthers(r) \/ SelectFails(r) \/ SelectSet(r)
    PROVE  Held' /\ UNCHANGED lost
<1>1. UNCHANGED lock /\ UNCHANGED lost
  BY DEF Upload, Add, Select, FetchRead, FetchStore, StoreFails, CheckLimit, SelectSnap,
         SelectOthers, SelectFails, SelectSet, history
<1>2. ASSUME NEW v, v.pc \notin {"recent", "create", "insert", "begin",
                                   "deselect", "commit", "invalidate", "unlock"},
             SetReq(r, v)
      PROVE  Held'
  <2>1. /\ \A q \in Requests \ {r} : req'[q] = req[q]
        /\ ~InRollover(r)'
    BY <1>2 DEF SetReq, InRollover, TypeOK
  <2> QED BY <1>1, <2>1, OneRequestHeld
<1>3. ASSUME NEW s, NEW v \in Request, v.pc \in {"snap", "set"},
             Changes(s, [req EXCEPT ![r] = v])
      PROVE  Held'
  <2>1. /\ \A q \in Requests \ {r} : /\ req'[q].pc = req[q].pc
                                     /\ req'[q].server = req[q].server
        /\ ~InRollover(r)'
    BY <1>3 DEF Changes, InRollover, TypeOK, Request
  <2> QED BY <1>1, <2>1, OneRequestHeld
<1>4. req[r] \in Request /\ Idle \in Request /\ Idle.pc = "idle"
  BY IdleTyped DEF TypeOK, Steady, Idle
<1>5. CASE \E s \in Servers : Upload(r, s) \/ Add(r, s)
  <2>1. PICK s \in Servers : Upload(r, s) \/ Add(r, s)
    BY <1>5
  <2> DEFINE v == [Idle EXCEPT !.op = "upload", !.server = s,
                      !.chan = cache[CacheOf[s]],
                      !.pc = IF cache[CacheOf[s]] = NoChan THEN "fetch" ELSE "check"]
             w == [Idle EXCEPT !.op = "add", !.server = s, !.pc = "lock"]
  <2>2. v.pc \in {"fetch", "check"} /\ w.pc = "lock"
    BY DEF Idle
  <2>3. SetReq(r, v) \/ SetReq(r, w)
    BY <2>1 DEF Upload, Add
  <2> HIDE DEF v, w
  <2> QED BY <1>1, <1>2, <2>2, <2>3
<1>6. CASE \E s \in Servers, c \in ChanIds : Select(r, s, c)
  <2>1. PICK s \in Servers, c \in ChanIds : Select(r, s, c)
    BY <1>6
  <2> DEFINE v == [Idle EXCEPT !.op = "select", !.server = s, !.chan = c, !.pc = "snap"]
  <2>2. v \in Request /\ v.pc = "snap"
    BY DEF Idle, Request, Pcs
  <2>3. Changes(s, [req EXCEPT ![r] = v])
    BY <2>1 DEF Select
  <2> HIDE DEF v
  <2> QED BY <1>1, <1>3, <2>2, <2>3
<1>7. CASE SelectOthers(r)
  <2> DEFINE v == [req[r] EXCEPT !.pc = "set", !.snap = {}]
  <2>1. v \in Request /\ v.pc = "set"
    BY <1>4 DEF Request, Pcs
  <2>2. Changes(req[r].server, [req EXCEPT ![r] = v])
    BY <1>7 DEF SelectOthers, TypeOK
  <2> HIDE DEF v
  <2> QED BY <1>1, <1>3, <2>1, <2>2
<1>8. CASE \/ FetchRead(r) \/ FetchStore(r) \/ StoreFails(r) \/ CheckLimit(r)
           \/ SelectSnap(r) \/ SelectFails(r) \/ SelectSet(r)
  <2> DEFINE moves(v) == SetReq(r, v) /\ v.pc \in {"lock", "store", "check", "others",
                                                    "set", "idle"}
  <2>1. CASE FetchRead(r)
    <3>1. CASE Selected = {}
      <4>1. moves([req[r] EXCEPT !.pc = "lock"])
        BY <1>4, <2>1, <3>1 DEF FetchRead, Goto, SetReq, Request
      <4> QED BY <1>1, <1>2, <4>1
    <3>2. CASE Selected # {}
      <4>1. PICK c \in Selected : SetReq(r, [req[r] EXCEPT !.chan = c, !.pc = "store"])
        BY <2>1, <3>2 DEF FetchRead
      <4>2. moves([req[r] EXCEPT !.chan = c, !.pc = "store"])
        BY <1>4, <4>1 DEF Request
      <4> QED BY <1>1, <1>2, <4>2
    <3> QED BY <3>1, <3>2
  <2>2. CASE FetchStore(r) \/ StoreFails(r)
    <3>1. moves([req[r] EXCEPT !.pc = "check", !.old = FALSE])
      BY <1>4, <2>2 DEF FetchStore, StoreFails, Request
    <3> QED BY <1>1, <1>2, <3>1
  <2>3. CASE CheckLimit(r)
    <3>1. moves([req[r] EXCEPT !.chan = NoChan, !.pc = "lock"]) \/ moves(Idle)
      BY <1>4, <2>3 DEF CheckLimit, Request
    <3> QED BY <1>1, <1>2, <3>1
  <2>4. CASE SelectSnap(r)
    <3>1. moves([req[r] EXCEPT !.pc = "others", !.snap = Listed \ {req[r].chan}])
      BY <1>4, <2>4 DEF SelectSnap, Request
    <3> QED BY <1>1, <1>2, <3>1
  <2>5. CASE SelectFails(r)
    <3>1. moves([req[r] EXCEPT !.pc = "set", !.snap = {}])
      BY <1>4, <2>5 DEF SelectFails, Request
    <3> QED BY <1>1, <1>2, <3>1
  <2>6. CASE SelectSet(r)
    <3>1. moves(Idle)
      BY <1>4, <2>6 DEF SelectSet
    <3> QED BY <1>1, <1>2, <3>1
  <2> QED BY <1>1, <1>8, <2>1, <2>2, <2>3, <2>4, <2>5, <2>6
<1> QED BY <1>5, <1>6, <1>7, <1>8

LEMMA CacheFailsHeld ==
    ASSUME TypeOK, Held, NEW r \in Requests, CacheFails(r)
    PROVE  Held' /\ UNCHANGED lost
<1>1. UNCHANGED lock /\ UNCHANGED lost
  BY DEF CacheFails
<1>2. \A q \in Requests \ {r} : req'[q] = req[q]
  BY DEF CacheFails, SetReq, TypeOK
<1>3. CASE req[r].pc = "set"
  <2>1. ~InRollover(r)'
    BY <1>3 DEF CacheFails, SetReq, InRollover, Idle, TypeOK
  <2> QED BY <1>1, <1>2, <2>1, OneRequestHeld
<1>4. CASE req[r].pc = "invalidate"
  <2>1. InRollover(r) /\ req'[r].server = req[r].server
    BY <1>4 DEF CacheFails, SetReq, InRollover, TypeOK, Request
  <2> QED BY <1>1, <1>2, <2>1, OneRequestHeld
<1> QED BY <1>3, <1>4 DEF CacheFails

LEMMA OutsideHeld ==
    ASSUME TypeOK, ~lost => Held, ~lost',
           (\E c \in ChanIds : DeleteChannel(c)) \/ CloseConn \/ Age
    PROVE  Held'
<1>1. CASE \E c \in ChanIds : DeleteChannel(c)
  <2>1. UNCHANGED lock /\ UNCHANGED lost
    BY <1>1 DEF DeleteChannel
  <2>2. \A q \in Requests : req'[q].pc = req[q].pc /\ req'[q].server = req[q].server
    BY SMTT(30), <1>1 DEF DeleteChannel, TypeOK, Request
  <2> QED BY <2>1, <2>2, FewerUsers DEF InRollover
<1>2. CASE CloseConn
  <2>1. Users' = {} /\ lock'.count = 0
    BY <1>2 DEF CloseConn, Users, InRollover, TypeOK, Free
  <2> QED BY <2>1, FS_EmptySet DEF Held
<1>3. CASE Age
  BY <1>3, FewerUsers DEF Age, history, InRollover
<1> QED BY <1>1, <1>2, <1>3

LEMMA NextHeld == TypeOK /\ LockHeld /\ [Next]_vars => LockHeld'
<1> SUFFICES ASSUME TypeOK, LockHeld, [Next]_vars PROVE LockHeld'
  OBVIOUS
<1>1. CASE UNCHANGED vars
  BY <1>1, HeldIsLockHeld DEF vars, data, history, LockHeld, InRollover
<1>2. CASE Next
  <2> SUFFICES ASSUME ~lost' PROVE Held'
    BY DEF LockHeld, Held, Users
  <2>1. CASE \E r \in Requests, k \in Conns : Acquire(r, k) \/ Release(r, k)
    <3>1. UNCHANGED lost
      BY <2>1 DEF Acquire, Release, history
    <3> QED BY <2>1, <3>1, HeldIsLockHeld, AcquireHeld, ReleaseHeld
  <2>2. CASE \E r \in Requests : \/ CheckRecent(r) \/ Create(r) \/ Fail(r) \/ Insert(r)
                                 \/ Begin(r) \/ Deselect(r) \/ Commit(r)
                                 \/ Invalidate(r)
    <3>1. UNCHANGED lost
      BY <2>2 DEF CheckRecent, Create, Fail, Insert, Begin, Deselect, Commit, Invalidate,
                  history
    <3> QED BY <2>2, <3>1, HeldIsLockHeld, RolloverHeld
  <2>3. CASE \E r \in Requests :
               \/ \E s \in Servers : Upload(r, s) \/ Add(r, s)
               \/ \E s \in Servers, c \in ChanIds : Select(r, s, c)
               \/ FetchRead(r) \/ FetchStore(r) \/ StoreFails(r) \/ CheckLimit(r)
               \/ SelectSnap(r) \/ SelectOthers(r) \/ SelectFails(r) \/ SelectSet(r)
    <3>1. UNCHANGED lost
      BY <2>3 DEF Upload, Add, Select, FetchRead, FetchStore, StoreFails, CheckLimit, SelectSnap,
                  SelectOthers, SelectFails, SelectSet, history
    <3> QED BY <2>3, <3>1, HeldIsLockHeld, OtherRequestHeld
  <2>4. CASE (\E c \in ChanIds : DeleteChannel(c)) \/ CloseConn \/ Age
    BY <2>4, HeldIsLockHeld, OutsideHeld
  <2>5. CASE \E r \in Requests : CacheFails(r)
    <3>1. UNCHANGED lost
      BY <2>5 DEF CacheFails
    <3> QED BY <2>5, <3>1, HeldIsLockHeld, CacheFailsHeld
  <2> QED BY <1>2, <2>1, <2>2, <2>3, <2>4, <2>5 DEF Next, Rollover
<1> QED BY <1>1, <1>2

-----------------------------------------------------------------------------
(* The lock is held at least once for each request of a rollover, by a      *)
(* connection of the server that serves it, unless a connection was closed  *)
(* under it.                                                                *)
THEOREM LockIsHeld == Spec => []LockHeld
<1>1. Init => LockHeld
  BY InitHeld, HeldIsLockHeld
<1> QED BY <1>1, Typed, NextHeld, PTL DEF Spec

(* Rollovers of two servers exclude each other.                             *)
THEOREM Exclusion == Spec => []ExclusionAcrossServers
<1>1. LockHeld => ExclusionAcrossServers
  BY DEF LockHeld, ExclusionAcrossServers
<1> QED BY <1>1, LockIsHeld, PTL

-----------------------------------------------------------------------------
(* The inductive invariants *)

(* The operation and the point a request is at belong together. *)
OpsMatch ==
    \A r \in Requests :
        /\ req[r].op = "select" <=> req[r].pc \in {"snap", "others", "set"}
        /\ req[r].pc \in {"begin", "deselect", "commit"} => req[r].op = "upload"

(* Rollovers come one at a time, and one that goes on to make a channel has *)
(* seen no fresh one.                                                       *)
Making(pc) == pc \in {"create", "insert", "begin", "deselect", "commit"}
FreshRolled == {i \in Fresh : rows[i].rolled}
WindowInv ==
    ~lost /\ ~shared =>
        /\ \A r, q \in Requests : InRollover(r) /\ InRollover(q) => r = q
        /\ (\E r \in Requests : Making(req[r].pc)) => FreshRolled = {}
        /\ \A i, k \in FreshRolled : i = k

(* Unless selections overlap, the channel of a selection under way is       *)
(* selected and not among those it deselects, and nothing else selects.     *)
SelectAlone ==
    ~clash => \A r \in Requests : req[r].op = "select" =>
        /\ req[r].chan \in Selected /\ req[r].chan \notin req[r].snap
        /\ \A q \in Requests : Selecting(q) => q = r

(* What a selection still has to deselect is in its snapshot, and when none *)
(* is under way there is one channel.                                       *)
SnapshotsWhole ==
    ~(clash \/ shared \/ lost) =>
        /\ \A r \in Requests :
              /\ req[r].pc = "others" => Selected \subseteq req[r].snap \cup {req[r].chan}
              /\ req[r].pc = "set" => Selected \subseteq {req[r].chan}
              /\ req[r].pc \in {"deselect", "commit"} => Selected \subseteq req[r].snap
        /\ (\A r \in Requests : req[r].op # "select") => \A c, d \in Selected : c = d

(* A reader that learned of no change has a channel that is still selected. *)
ReadersRight ==
    \A r \in Requests : req[r].pc = "store" /\ ~req[r].old => req[r].chan \in Selected

(* A cache that missed nothing has a selected channel, or will hear of the  *)
(* change that is under way.                                                *)
Refreshes(r, x) == /\ req[r].op = "select" \/ req[r].pc = "invalidate"
                   /\ CacheOf[req[r].server] = x
CachesRight ==
    ~clash => \A x \in Caches \ stale :
        cache[x] \in {NoChan} \cup Selected \/ \E r \in Requests : Refreshes(r, x)

SelectionInv == OpsMatch /\ SelectAlone /\ SnapshotsWhole /\ ReadersRight /\ CachesRight

-----------------------------------------------------------------------------
(* What the steps do to the rows *)

LEMMA SelectedIs ==
    /\ \A i \in DOMAIN rows : rows[i].selected => rows[i].chan \in Selected
    /\ \A c \in Selected : \E i \in DOMAIN rows : rows[i].chan = c /\ rows[i].selected
BY DEF Selected

LEMMA SelectedIsNext ==
    /\ \A i \in DOMAIN rows' : rows'[i].selected => rows'[i].chan \in Selected'
    /\ \A c \in Selected' : \E i \in DOMAIN rows' : rows'[i].chan = c /\ rows'[i].selected
BY DEF Selected

(* A new row at the end. *)
LEMMA AppendEffect ==
    ASSUME NEW seq \in Seq(Channel), NEW row \in Channel, rows' = Append(seq, row)
    PROVE  /\ DOMAIN rows' = DOMAIN seq \cup {Len(seq) + 1}
           /\ Len(seq) + 1 \notin DOMAIN seq
           /\ \A i \in DOMAIN seq : rows'[i] = seq[i]
           /\ rows'[Len(seq) + 1] = row
<1>1. Len(seq) \in Nat /\ DOMAIN seq = 1 .. Len(seq)
  OBVIOUS
<1>2. Len(rows') = Len(seq) + 1 /\ DOMAIN rows' = 1 .. (Len(seq) + 1)
  OBVIOUS
<1> QED BY <1>1, <1>2

LEMMA InsertEffect ==
    ASSUME TypeOK, NEW r \in Requests, Insert(r)
    PROVE  /\ Selected' = Selected
           /\ FreshRolled' = FreshRolled \cup {Len(rows) + 1}
<1> DEFINE row == NewRow(req[r].chan, FALSE, TRUE)
<1>1. row \in Channel /\ rows \in Seq(Channel) /\ rows' = Append(rows, row)
  BY NewRowTyped DEF Insert, TypeOK, Request, Writing
<1>2. ~row.selected /\ row.fresh /\ row.rolled
  BY DEF NewRow
<1> HIDE DEF row
<1>3. /\ DOMAIN rows' = DOMAIN rows \cup {Len(rows) + 1}
      /\ \A i \in DOMAIN rows : rows'[i] = rows[i]
      /\ rows'[Len(rows) + 1] = row
  BY <1>1, AppendEffect
<1>4. Selected' \subseteq Selected
  BY <1>2, <1>3, SelectedIs, SelectedIsNext
<1>5. Selected \subseteq Selected'
  BY <1>3, SelectedIs, SelectedIsNext
<1>6. FreshRolled' = FreshRolled \cup {Len(rows) + 1}
  BY <1>2, <1>3 DEF FreshRolled, Fresh
<1> QED BY <1>4, <1>5, <1>6

LEMMA DeselectedIs ==
    ASSUME TypeOK, NEW S
    PROVE  /\ DOMAIN Deselected(S) = DOMAIN rows
           /\ Len(Deselected(S)) = Len(rows)
           /\ \A i \in DOMAIN rows :
                /\ Deselected(S)[i].chan = rows[i].chan
                /\ Deselected(S)[i].fresh = rows[i].fresh
                /\ Deselected(S)[i].rolled = rows[i].rolled
                /\ Deselected(S)[i].selected <=> rows[i].selected /\ rows[i].chan \notin S
<1>1. Len(Deselected(S)) = Len(rows)
  BY RowTyped, DeselectedTyped DEF Deselected
<1>2. \A i \in DOMAIN rows :
                /\ Deselected(S)[i].chan = rows[i].chan
                /\ Deselected(S)[i].fresh = rows[i].fresh
                /\ Deselected(S)[i].rolled = rows[i].rolled
                /\ Deselected(S)[i].selected <=> rows[i].selected /\ rows[i].chan \notin S
  BY RowTyped DEF Deselected, Channel
<1> QED BY <1>1, <1>2 DEF Deselected

LEMMA CommitEffect ==
    ASSUME TypeOK, NEW r \in Requests, Commit(r)
    PROVE  /\ Selected' = (Selected \ req[r].snap) \cup {req[r].chan}
           /\ FreshRolled' = FreshRolled \cup {Len(rows) + 1}
<1> DEFINE row == NewRow(req[r].chan, TRUE, TRUE)
           kept == Deselected(req[r].snap)
<1>1. row \in Channel /\ kept \in Seq(Channel) /\ rows' = Append(kept, row)
  BY NewRowTyped, DeselectedTyped DEF Commit, TypeOK, Request, Writing
<1>2. row.selected /\ row.fresh /\ row.rolled /\ row.chan = req[r].chan
  BY DEF NewRow
<1> HIDE DEF row
<1>3. /\ DOMAIN rows' = DOMAIN rows \cup {Len(rows) + 1}
      /\ \A i \in DOMAIN rows : rows'[i] = kept[i] /\ Len(rows) + 1 # i
      /\ rows'[Len(rows) + 1] = row
  BY <1>1, AppendEffect, DeselectedIs
<1>4. \A i \in DOMAIN rows :
        /\ rows'[i].chan = rows[i].chan
        /\ rows'[i].fresh = rows[i].fresh
        /\ rows'[i].rolled = rows[i].rolled
        /\ rows'[i].selected <=> rows[i].selected /\ rows[i].chan \notin req[r].snap
  BY <1>3, DeselectedIs
<1> HIDE DEF kept
<1>5. Selected' \subseteq (Selected \ req[r].snap) \cup {req[r].chan}
  BY <1>2, <1>3, <1>4, SelectedIs, SelectedIsNext
<1>6. (Selected \ req[r].snap) \cup {req[r].chan} \subseteq Selected'
  BY <1>2, <1>3, <1>4, SelectedIs, SelectedIsNext
<1>7. FreshRolled' = FreshRolled \cup {Len(rows) + 1}
  BY <1>2, <1>3, <1>4 DEF FreshRolled, Fresh
<1> QED BY <1>5, <1>6, <1>7

LEMMA SelectEffect ==
    ASSUME TypeOK, NEW r \in Requests, NEW s \in Servers, NEW c \in ChanIds,
           Select(r, s, c)
    PROVE  Selected' = Selected \cup {c} /\ FreshRolled' = FreshRolled
<1>1. CASE c \in Listed
  <2>1. /\ DOMAIN rows' = DOMAIN rows
        /\ \A i \in DOMAIN rows :
             /\ rows'[i].chan = rows[i].chan
             /\ rows'[i].fresh = rows[i].fresh
             /\ rows'[i].rolled = rows[i].rolled
             /\ rows'[i].selected <=> rows[i].selected \/ rows[i].chan = c
    BY <1>1, RowTyped DEF Select, Channel
  <2>2. \E i \in DOMAIN rows : rows[i].chan = c
    BY <1>1 DEF Listed
  <2>3. Selected' \subseteq Selected \cup {c}
    BY <2>1, SelectedIs, SelectedIsNext
  <2>4. Selected \cup {c} \subseteq Selected'
    BY <2>1, <2>2, SelectedIs, SelectedIsNext
  <2> QED BY <2>1, <2>3, <2>4 DEF FreshRolled, Fresh
<1>2. CASE c \notin Listed
  <2> DEFINE row == NewRow(c, TRUE, FALSE)
  <2>1. row \in Channel /\ rows \in Seq(Channel) /\ rows' = Append(rows, row)
    BY <1>2, NewRowTyped DEF Select, TypeOK
  <2>2. row.selected /\ ~row.rolled /\ row.chan = c
    BY DEF NewRow
  <2> HIDE DEF row
  <2>3. /\ DOMAIN rows' = DOMAIN rows \cup {Len(rows) + 1}
        /\ \A i \in DOMAIN rows : rows'[i] = rows[i]
        /\ rows'[Len(rows) + 1] = row
    BY <2>1, AppendEffect
  <2>4. Selected' \subseteq Selected \cup {c}
    BY <2>2, <2>3, SelectedIs, SelectedIsNext
  <2>5. Selected \cup {c} \subseteq Selected'
    BY <2>2, <2>3, SelectedIs, SelectedIsNext
  <2> QED BY <2>2, <2>3, <2>4, <2>5 DEF FreshRolled, Fresh
<1> QED BY <1>1, <1>2

LEMMA OthersEffect ==
    ASSUME TypeOK, NEW r \in Requests, SelectOthers(r)
    PROVE  Selected' = Selected \ req[r].snap /\ FreshRolled' = FreshRolled
<1>1. /\ DOMAIN rows' = DOMAIN rows
      /\ \A i \in DOMAIN rows :
            /\ rows'[i].chan = rows[i].chan
            /\ rows'[i].fresh = rows[i].fresh
            /\ rows'[i].rolled = rows[i].rolled
            /\ rows'[i].selected <=> rows[i].selected /\ rows[i].chan \notin req[r].snap
  BY DeselectedIs DEF SelectOthers
<1>2. Selected' \subseteq Selected \ req[r].snap
  BY <1>1, SelectedIs, SelectedIsNext
<1>3. Selected \ req[r].snap \subseteq Selected'
  BY <1>1, SelectedIs, SelectedIsNext
<1> QED BY <1>1, <1>2, <1>3 DEF FreshRolled, Fresh

LEMMA AgeEffect ==
    ASSUME TypeOK, Age
    PROVE  Selected' = Selected /\ FreshRolled' \subseteq FreshRolled
<1>1. /\ DOMAIN rows' = DOMAIN rows
      /\ \A i \in DOMAIN rows :
            /\ rows'[i].chan = rows[i].chan
            /\ rows'[i].fresh => rows[i].fresh
            /\ rows'[i].rolled = rows[i].rolled
            /\ rows'[i].selected = rows[i].selected
  BY RowTyped DEF Age, Channel
<1>2. Selected' \subseteq Selected
  BY <1>1, SelectedIs, SelectedIsNext
<1>3. Selected \subseteq Selected'
  BY <1>1, SelectedIs, SelectedIsNext
<1> QED BY <1>1, <1>2, <1>3 DEF FreshRolled, Fresh

(* A row goes, and those after it move up. *)
LEMMA DeleteEffect ==
    ASSUME TypeOK, NEW c \in ChanIds, DeleteChannel(c)
    PROVE  /\ Selected' \subseteq Selected /\ Selected \ {c} \subseteq Selected'
           /\ FreshRolled = {} => FreshRolled' = {}
           /\ (\A i, k \in FreshRolled : i = k) => \A i, k \in FreshRolled' : i = k
<1>1. PICK i \in Row(c) :
        rows' = SubSeq(rows, 1, i - 1) \o SubSeq(rows, i + 1, Len(rows))
  BY DEF DeleteChannel
<1>2. /\ i \in 1 .. Len(rows) /\ rows[i].chan = c
      /\ rows \in Seq(Channel) /\ Len(rows) \in Nat
  BY RowTyped DEF Row, TypeOK
<1> DEFINE n == Len(rows)
           old(j) == IF j < i THEN j ELSE j + 1
<1>3. /\ DOMAIN rows' = 1 .. (n - 1)
      /\ \A j \in 1 .. (n - 1) : rows'[j] = rows[old(j)]
  <2> DEFINE A == SubSeq(rows, 1, i - 1)
             B == SubSeq(rows, i + 1, Len(rows))
  <2>1. /\ A \in Seq(Channel) /\ Len(A) = i - 1
        /\ \A j \in 1 .. (i - 1) : A[j] = rows[j]
    BY <1>2, SubSeqProperties
  <2>2. /\ B \in Seq(Channel) /\ Len(B) = n - i
        /\ \A j \in 1 .. (n - i) : B[j] = rows[i + j]
    BY <1>2, SubSeqProperties
  <2>3. n \in Nat /\ i \in 1 .. n /\ rows' = A \o B
    BY <1>1, <1>2
  <2> HIDE DEF n, A, B
  <2>4. /\ DOMAIN rows' = 1 .. (n - 1)
        /\ \A j \in 1 .. (n - 1) : rows'[j] = IF j <= i - 1 THEN A[j] ELSE B[j - (i - 1)]
    BY <2>1, <2>2, <2>3
  <2>5. ASSUME NEW j \in 1 .. (n - 1) PROVE rows'[j] = rows[old(j)]
    <3>1. CASE j < i
      <4>1. j \in 1 .. (i - 1) /\ j <= i - 1 /\ old(j) = j
        BY <2>3, <2>5, <3>1
      <4> QED BY <2>1, <2>4, <4>1
    <3>2. CASE ~(j < i)
      <4>1. /\ j - (i - 1) \in 1 .. (n - i) /\ ~(j <= i - 1)
            /\ i + (j - (i - 1)) = j + 1 /\ old(j) = j + 1
        BY <2>3, <2>5, <3>2
      <4> HIDE DEF old
      <4>2. rows'[j] = B[j - (i - 1)]
        BY <2>4, <4>1
      <4>3. B[j - (i - 1)] = rows[i + (j - (i - 1))]
        BY <2>2, <4>1
      <4> QED BY <4>1, <4>2, <4>3
    <3> QED BY <3>1, <3>2
  <2> QED BY <2>4, <2>5
<1>4. \A j \in 1 .. (n - 1) : old(j) \in 1 .. n
  BY <1>2
<1>5. DOMAIN rows = 1 .. n
  BY <1>2
<1>6. \A k \in 1 .. n : k # i => \E j \in 1 .. (n - 1) : old(j) = k
  <2> TAKE k \in 1 .. n
  <2> HAVE k # i
  <2>1. CASE k < i
    <3>1. k \in 1 .. (n - 1) /\ old(k) = k
      BY <1>2, <2>1
    <3> QED BY <3>1
  <2>2. CASE ~(k < i)
    <3>1. k - 1 \in 1 .. (n - 1) /\ old(k - 1) = k
      BY <1>2, <2>2
    <3> QED BY <3>1
  <2> QED BY <2>1, <2>2
<1>7. \A j, k \in 1 .. (n - 1) : old(j) = old(k) => j = k
  BY <1>2
<1> HIDE DEF n, old
<1>8. Selected' \subseteq Selected
  BY <1>3, <1>4, <1>5, SelectedIs, SelectedIsNext
<1>9. Selected \ {c} \subseteq Selected'
  BY <1>2, <1>3, <1>5, <1>6, SelectedIs, SelectedIsNext
<1>10. \A j \in FreshRolled' : j \in 1 .. (n - 1) /\ old(j) \in FreshRolled
  BY <1>3, <1>4, <1>5 DEF FreshRolled, Fresh
<1> QED BY <1>7, <1>8, <1>9, <1>10
-----------------------------------------------------------------------------
(* What the steps do to the requests *)

LEMMA Setting ==
    ASSUME TypeOK, NEW r \in Requests, NEW v, SetReq(r, v)
    PROVE  req'[r] = v /\ \A q \in Requests : q # r => req'[q] = req[q]
BY DEF SetReq, TypeOK

LEMMA GoingTo ==
    ASSUME TypeOK, NEW r \in Requests, NEW pc, Goto(r, pc)
    PROVE  /\ req'[r].op = req[r].op /\ req'[r].pc = pc /\ req'[r].server = req[r].server
           /\ req'[r].chan = req[r].chan /\ req'[r].snap = req[r].snap
           /\ req'[r].old = req[r].old
           /\ \A q \in Requests : q # r => req'[q] = req[q]
BY DEF Goto, TypeOK, Request

LEMMA Finishing ==
    ASSUME TypeOK, NEW r \in Requests, NEW pc
    PROVE  LET v == Finished(r, pc) IN
           /\ v.op = req[r].op /\ v.pc = pc /\ v.server = req[r].server
           /\ v.chan = NoChan /\ v.snap = {} /\ v.old = req[r].old
BY DEF Finished, TypeOK, Request

LEMMA Changing ==
    ASSUME NEW s, NEW new \in [Requests -> Request], Changes(s, new)
    PROVE  /\ \A q \in Requests :
                /\ req'[q].op = new[q].op /\ req'[q].pc = new[q].pc
                /\ req'[q].server = new[q].server
                /\ req'[q].chan = new[q].chan /\ req'[q].snap = new[q].snap
                /\ req'[q].pc = "store" => req'[q].old
           /\ stale' = stale \cup (Caches \ {CacheOf[s]})
<1>1. /\ req' = [q \in Requests |-> [new[q] EXCEPT !.old = @ \/ new[q].pc = "store"]]
      /\ stale' = stale \cup (Caches \ {CacheOf[s]})
  BY DEF Changes
<1>2. \A q \in Requests : new[q] \in Request
  OBVIOUS
<1> QED BY <1>1, <1>2 DEF Request

-----------------------------------------------------------------------------
(* One rollover in ten seconds *)

(* Steps that bring no rollover in and make no channel. *)
LEMMA WindowStep ==
    ASSUME WindowInv, lost => lost', shared => shared',
           \A q \in Requests : req'[q].pc = req[q].pc \/ ~InRollover(q)' \/
              (InRollover(q) /\ (Making(req'[q].pc) =>
                                   Making(req[q].pc) \/ FreshRolled = {})),
           FreshRolled = {} => FreshRolled' = {},
           (\A i, k \in FreshRolled : i = k) => \A i, k \in FreshRolled' : i = k
    PROVE  WindowInv'
<1> SUFFICES ASSUME ~lost', ~shared'
    PROVE  /\ \A r, q \in Requests : InRollover(r)' /\ InRollover(q)' => r = q
           /\ (\E r \in Requests : Making(req'[r].pc)) => FreshRolled' = {}
           /\ \A i, k \in FreshRolled' : i = k
  BY DEF WindowInv
<1>1. \A q \in Requests : InRollover(q)' => InRollover(q)
  BY DEF InRollover
<1>2. \A q \in Requests : Making(req'[q].pc) => InRollover(q)'
  BY DEF InRollover, Making
<1> QED BY <1>1, <1>2 DEF WindowInv

LEMMA WindowIdle ==
    ASSUME WindowInv, lost => lost', shared => shared', UNCHANGED rows,
           \A q \in Requests : req'[q].pc = req[q].pc \/ ~InRollover(q)' \/
              (InRollover(q) /\ (Making(req'[q].pc) =>
                                   Making(req[q].pc) \/ FreshRolled = {}))
    PROVE  WindowInv'
<1>1. FreshRolled' = FreshRolled
  BY DEF FreshRolled, Fresh
<1> QED BY <1>1, WindowStep

LEMMA OutOfRolloverWindow ==
    ASSUME TypeOK, WindowInv, NEW r \in Requests,
           \/ \E s \in Servers : Upload(r, s) \/ Add(r, s)
           \/ FetchRead(r) \/ FetchStore(r) \/ StoreFails(r) \/ CheckLimit(r)
           \/ SelectSnap(r) \/ SelectFails(r) \/ SelectSet(r) \/ CacheFails(r)
    PROVE  WindowInv'
<1>1. UNCHANGED <<rows, lost, shared>>
  BY DEF Upload, Add, FetchRead, FetchStore, StoreFails, CheckLimit, SelectSnap,
         SelectFails, SelectSet, CacheFails, history, data
<1>2. ASSUME NEW v, v.pc \in {"idle", "fetch", "store", "check", "lock", "others", "set"},
             SetReq(r, v)
      PROVE  WindowInv'
  <2>1. req'[r].pc = v.pc /\ \A q \in Requests : q # r => req'[q] = req[q]
    BY <1>2, Setting
  <2> QED BY <1>1, <1>2, <2>1, WindowIdle DEF InRollover
<1>3. req[r] \in Request
  BY DEF TypeOK
<1>4. ASSUME NEW s \in Servers, Upload(r, s) \/ Add(r, s) PROVE WindowInv'
  <2> DEFINE v == [Idle EXCEPT !.op = "upload", !.server = s,
                      !.chan = cache[CacheOf[s]],
                      !.pc = IF cache[CacheOf[s]] = NoChan THEN "fetch" ELSE "check"]
             w == [Idle EXCEPT !.op = "add", !.server = s, !.pc = "lock"]
  <2>1. v.pc \in {"fetch", "check"} /\ w.pc = "lock" /\ (SetReq(r, v) \/ SetReq(r, w))
    BY <1>4 DEF Upload, Add, Idle
  <2> HIDE DEF v, w
  <2> QED BY <1>2, <2>1
<1>5. CASE FetchRead(r)
  <2>1. CASE Selected = {}
    <3>1. req'[r].pc = "lock" /\ \A q \in Requests : q # r => req'[q] = req[q]
      BY <1>5, <2>1, GoingTo DEF FetchRead
    <3> QED BY <1>1, <3>1, WindowIdle DEF InRollover
  <2>2. CASE Selected # {}
    <3>1. PICK c \in Selected : SetReq(r, [req[r] EXCEPT !.chan = c, !.pc = "store"])
      BY <1>5, <2>2 DEF FetchRead
    <3> DEFINE v == [req[r] EXCEPT !.chan = c, !.pc = "store"]
    <3>2. v.pc = "store" /\ SetReq(r, v)
      BY <1>3, <3>1 DEF Request
    <3> HIDE DEF v
    <3> QED BY <1>2, <3>2
  <2> QED BY <2>1, <2>2
<1>6. CASE FetchStore(r) \/ StoreFails(r)
  <2> DEFINE v == [req[r] EXCEPT !.pc = "check", !.old = FALSE]
  <2>1. v.pc = "check" /\ SetReq(r, v)
    BY <1>3, <1>6 DEF Request, FetchStore, StoreFails
  <2> HIDE DEF v
  <2> QED BY <1>2, <2>1
<1>7. CASE CheckLimit(r)
  <2> DEFINE v == [req[r] EXCEPT !.chan = NoChan, !.pc = "lock"]
  <2>1. v.pc = "lock" /\ Idle.pc = "idle" /\ (SetReq(r, v) \/ SetReq(r, Idle))
    BY <1>3, <1>7 DEF Request, Idle, CheckLimit
  <2> HIDE DEF v
  <2> QED BY <1>2, <2>1
<1>8. CASE SelectSnap(r)
  <2> DEFINE v == [req[r] EXCEPT !.pc = "others", !.snap = Listed \ {req[r].chan}]
  <2>1. v.pc = "others" /\ SetReq(r, v)
    BY <1>3, <1>8 DEF Request, SelectSnap
  <2> HIDE DEF v
  <2> QED BY <1>2, <2>1
<1>9. CASE SelectFails(r)
  <2> DEFINE v == [req[r] EXCEPT !.pc = "set", !.snap = {}]
  <2>1. v.pc = "set" /\ SetReq(r, v)
    BY <1>3, <1>9 DEF Request, SelectFails
  <2> HIDE DEF v
  <2> QED BY <1>2, <2>1
<1>10. CASE SelectSet(r)
  BY <1>2, <1>10 DEF SelectSet, Idle
<1>11. CASE CacheFails(r)
  <2>1. CASE req[r].pc = "set"
    BY <1>2, <1>11, <2>1 DEF CacheFails, Idle
  <2>2. CASE req[r].pc = "invalidate"
    <3>1. req'[r].pc = "unlock" /\ \A q \in Requests : q # r => req'[q] = req[q]
      BY <1>3, <1>11, <2>2 DEF CacheFails, SetReq, TypeOK, Request
    <3> QED BY <1>1, <2>2, <3>1, WindowIdle DEF InRollover, Making
  <2> QED BY <1>11, <2>1, <2>2 DEF CacheFails
<1> QED BY <1>4, <1>5, <1>6, <1>7, <1>8, <1>9, <1>10, <1>11

LEMMA RolloverWindow ==
    ASSUME TypeOK, WindowInv, NEW r \in Requests,
           \/ CheckRecent(r) \/ Create(r) \/ Fail(r) \/ Begin(r) \/ Deselect(r)
           \/ Invalidate(r) \/ \E k \in Conns : Release(r, k)
    PROVE  WindowInv'
<1>1. UNCHANGED <<rows, lost, shared>>
  BY DEF CheckRecent, Create, Fail, Begin, Deselect, Invalidate, Release, history, data
<1>2. req[r] \in Request /\ InRollover(r)
  BY DEF TypeOK, CheckRecent, Create, Fail, Begin, Deselect, Invalidate, Release, InRollover
<1>3. \A q \in Requests : q # r => req'[q] = req[q]
  BY DEF CheckRecent, Create, Fail, Begin, Deselect, Invalidate, Release, Goto, SetReq,
         TypeOK
<1>4. Making(req'[r].pc) => Making(req[r].pc) \/ FreshRolled = {}
  <2>1. CASE CheckRecent(r)
    <3>1. req'[r].pc = (IF Fresh = {} THEN "create" ELSE "unlock")
      BY <2>1, GoingTo DEF CheckRecent
    <3> QED BY <3>1 DEF Making, FreshRolled
  <2>2. CASE Create(r) \/ Begin(r) \/ Deselect(r)
    BY <2>2 DEF Create, Begin, Deselect, Making
  <2>3. CASE Fail(r)
    <3>1. req'[r].pc = "unlock"
      BY <2>3, Setting, Finishing DEF Fail
    <3> QED BY <3>1 DEF Making
  <2>4. CASE Invalidate(r)
    <3>1. req'[r].pc = "unlock"
      BY <2>4, GoingTo DEF Invalidate
    <3> QED BY <3>1 DEF Making
  <2>5. CASE \E k \in Conns : Release(r, k)
    <3>1. req'[r] = Idle
      BY <2>5, Setting DEF Release
    <3> QED BY <3>1 DEF Making, Idle
  <2> QED BY <2>1, <2>2, <2>3, <2>4, <2>5
<1> QED BY <1>1, <1>2, <1>3, <1>4, WindowIdle

(* The lock lets a second rollover in through the connection of the first   *)
(* one only.                                                                *)
LEMMA AcquireWindow ==
    ASSUME TypeOK, LockHeld, WindowInv, NEW r \in Requests, NEW k \in Conns, Acquire(r, k)
    PROVE  WindowInv'
<1>1. UNCHANGED <<rows, lost>> /\ FreshRolled' = FreshRolled
  BY DEF Acquire, data, FreshRolled, Fresh
<1>2. CASE ~CanLock(k)
  <2>1. req'[r] = Idle /\ \A q \in Requests : q # r => req'[q] = req[q]
    BY <1>2, Setting DEF Acquire
  <2>2. UNCHANGED shared
    BY <1>2 DEF Acquire
  <2> QED BY <1>1, <2>1, <2>2, WindowIdle DEF InRollover, Idle
<1>3. CASE CanLock(k)
  <2>1. /\ req'[r].pc = "recent" /\ \A q \in Requests : q # r => req'[q] = req[q]
        /\ shared' = (shared \/ (lock.conn = k /\ \E q \in Requests : InRollover(q)))
    BY <1>3, GoingTo DEF Acquire
  <2> SUFFICES ASSUME ~lost', ~shared'
      PROVE  /\ \A p, q \in Requests : InRollover(p)' /\ InRollover(q)' => p = q
             /\ (\E q \in Requests : Making(req'[q].pc)) => FreshRolled' = {}
             /\ \A i, j \in FreshRolled' : i = j
    BY DEF WindowInv
  <2>2. ~lost /\ ~shared
    BY <1>1, <2>1
  <2>3. \A q \in Requests : ~InRollover(q)
    <3> SUFFICES ASSUME NEW q \in Requests, InRollover(q) PROVE FALSE
      OBVIOUS
    <3>1. lock.conn # None
      BY <2>2 DEF LockHeld
    <3> QED BY <1>3, <2>1, <3>1 DEF CanLock
  <2>4. \A q \in Requests : InRollover(q)' => q = r
    BY <2>1, <2>3 DEF InRollover
  <2>5. \A q \in Requests : ~Making(req'[q].pc)
    BY <2>1, <2>3 DEF InRollover, Making
  <2> QED BY <1>1, <2>2, <2>4, <2>5 DEF WindowInv
<1> QED BY <1>2, <1>3

(* The row of a new channel. *)
LEMMA NewChannelWindow ==
    ASSUME TypeOK, WindowInv, NEW r \in Requests, Insert(r) \/ Commit(r)
    PROVE  WindowInv'
<1>1. /\ UNCHANGED <<lost, shared>> /\ Making(req[r].pc) /\ InRollover(r)
      /\ FreshRolled' = FreshRolled \cup {Len(rows) + 1}
  BY InsertEffect, CommitEffect DEF Insert, Commit, history, Making, InRollover
<1>2. /\ req'[r].pc \in {"unlock", "invalidate"}
      /\ \A q \in Requests : q # r => req'[q].pc = req[q].pc
  <2>1. CASE Insert(r)
    BY <2>1, Setting, Finishing DEF Insert
  <2>2. CASE Commit(r)
    <3> DEFINE v == Finished(r, "invalidate")
               new == [req EXCEPT ![r] = v]
    <3>1. v \in Request /\ v.pc = "invalidate"
      BY ZenonT(40) DEF Finished, TypeOK, Request, Pcs
    <3>2. new[r] = v /\ (\A q \in Requests : q # r => new[q] = req[q])
       /\ new \in [Requests -> Request] /\ Changes(req[r].server, new)
      BY <2>2, <3>1 DEF Commit, TypeOK
    <3> HIDE DEF v, new
    <3> QED BY <3>1, <3>2, Changing
  <2> QED BY <2>1, <2>2
<1> SUFFICES ASSUME ~lost', ~shared'
    PROVE  /\ \A p, q \in Requests : InRollover(p)' /\ InRollover(q)' => p = q
           /\ (\E q \in Requests : Making(req'[q].pc)) => FreshRolled' = {}
           /\ \A i, j \in FreshRolled' : i = j
  BY DEF WindowInv
<1>3. FreshRolled = {} /\ \A q \in Requests : InRollover(q) => q = r
  BY <1>1 DEF WindowInv
<1>4. \A q \in Requests : InRollover(q)' => q = r
  BY <1>2, <1>3 DEF InRollover
<1>5. \A q \in Requests : ~Making(req'[q].pc)
  BY <1>2, <1>3 DEF InRollover, Making
<1> QED BY <1>1, <1>3, <1>4, <1>5

LEMMA OtherRowsWindow ==
    ASSUME TypeOK, WindowInv,
           \/ \E r \in Requests, s \in Servers, c \in ChanIds : Select(r, s, c)
           \/ \E r \in Requests : SelectOthers(r)
           \/ \E c \in ChanIds : DeleteChannel(c)
           \/ CloseConn \/ Age
    PROVE  WindowInv'
<1>1. ASSUME NEW r \in Requests, NEW s \in Servers, NEW c \in ChanIds, Select(r, s, c)
      PROVE  WindowInv'
  <2> DEFINE v == [Idle EXCEPT !.op = "select", !.server = s, !.chan = c, !.pc = "snap"]
  <2>1. v \in Request /\ v.pc = "snap"
    BY DEF Idle, Request, Pcs
  <2> DEFINE new == [req EXCEPT ![r] = v]
  <2>2. new[r] = v /\ (\A q \in Requests : q # r => new[q] = req[q])
       /\ new \in [Requests -> Request] /\ Changes(s, new)
    BY <1>1, <2>1 DEF Select, TypeOK
  <2> HIDE DEF v, new
  <2>3. req'[r].pc = "snap" /\ \A q \in Requests : q # r => req'[q].pc = req[q].pc
    BY <2>1, <2>2, Changing
  <2>4. UNCHANGED <<lost, shared>> /\ FreshRolled' = FreshRolled
    BY <1>1, SelectEffect DEF Select
  <2> QED BY <2>3, <2>4, WindowStep DEF InRollover
<1>2. ASSUME NEW r \in Requests, SelectOthers(r) PROVE WindowInv'
  <2> DEFINE v == [req[r] EXCEPT !.pc = "set", !.snap = {}]
  <2>1. v \in Request /\ v.pc = "set"
    BY ZenonT(40) DEF TypeOK, Request, Pcs
  <2> DEFINE new == [req EXCEPT ![r] = v]
  <2>2. new[r] = v /\ (\A q \in Requests : q # r => new[q] = req[q])
       /\ new \in [Requests -> Request] /\ Changes(req[r].server, new)
    BY <1>2, <2>1 DEF SelectOthers, TypeOK
  <2> HIDE DEF v, new
  <2>3. req'[r].pc = "set" /\ \A q \in Requests : q # r => req'[q].pc = req[q].pc
    BY <2>1, <2>2, Changing
  <2>4. UNCHANGED <<lost, shared>> /\ FreshRolled' = FreshRolled
    BY <1>2, OthersEffect DEF SelectOthers
  <2> QED BY <2>3, <2>4, WindowStep DEF InRollover
<1>3. ASSUME NEW c \in ChanIds, DeleteChannel(c) PROVE WindowInv'
  <2>1. UNCHANGED <<lost, shared>> /\ \A q \in Requests : req'[q].pc = req[q].pc
    BY <1>3 DEF DeleteChannel, TypeOK, Request
  <2> QED BY <1>3, <2>1, DeleteEffect, WindowStep
<1>4. CASE CloseConn
  BY <1>4, WindowIdle DEF CloseConn, data
<1>5. CASE Age
  <2>1. UNCHANGED <<lost, shared, req>>
    BY <1>5 DEF Age, history
  <2> QED BY <1>5, <2>1, AgeEffect, WindowStep
<1> QED BY <1>1, <1>2, <1>3, <1>4, <1>5

LEMMA NextWindow == TypeOK /\ LockHeld /\ WindowInv /\ [Next]_vars => WindowInv'
<1> SUFFICES ASSUME TypeOK, LockHeld, WindowInv, [Next]_vars PROVE WindowInv'
  OBVIOUS
<1>1. CASE UNCHANGED vars
  BY <1>1, WindowIdle DEF vars, data, history
<1>2. CASE Next
  BY <1>2, OutOfRolloverWindow, RolloverWindow, AcquireWindow, NewChannelWindow,
     OtherRowsWindow DEF Next, Rollover
<1> QED BY <1>1, <1>2

LEMMA InitWindow == Init => WindowInv
<1> SUFFICES ASSUME Init PROVE WindowInv
  OBVIOUS
<1>1. \A r \in Requests : ~InRollover(r) /\ ~Making(req[r].pc)
  BY DEF Init, Idle, InRollover, Making
<1>2. FreshRolled = {}
  BY DEF Init, FreshRolled, Fresh
<1> QED BY <1>1, <1>2 DEF WindowInv

(* Unless a connection was closed under its lock or shared by two requests, *)
(* rollovers of all servers together make at most one channel in ten        *)
(* seconds: the next one finds the row of the first.                        *)
THEOREM OneChannelPerWindow == Spec => []OneRolloverPerWindow
<1>1. WindowInv => OneRolloverPerWindow
  BY DEF WindowInv, OneRolloverPerWindow, FreshRolled
<1>2. TypeOK /\ LockHeld /\ WindowInv /\ [Next]_vars => WindowInv'
  BY NextWindow
<1> QED BY <1>1, <1>2, InitWindow, Typed, LockIsHeld, PTL DEF Spec

-----------------------------------------------------------------------------
(* The selected channel and the caches *)

Quiet == ~(clash \/ shared \/ lost)
Swaps(pc) == pc \in {"deselect", "commit"}

(* The request of the operation and the point of v. *)
Matches(v) ==
    /\ v.op = "select" <=> v.pc \in {"snap", "others", "set"}
    /\ v.pc \in {"begin", "deselect", "commit"} => v.op = "upload"

LEMMA SelectingIs ==
    ASSUME OpsMatch, NEW r \in Requests
    PROVE  Selecting(r) <=> req[r].op = "select" \/ Swaps(req[r].pc)
BY DEF OpsMatch, Selecting, Swaps

LEMMA SelectingIsNext ==
    ASSUME OpsMatch', NEW r \in Requests
    PROVE  Selecting(r)' <=> req'[r].op = "select" \/ Swaps(req'[r].pc)
BY DEF OpsMatch, Selecting, Swaps

(* A request moves on and the selection and the caches stay as they are.     *)
LEMMA MoveSelection ==
    ASSUME TypeOK, SelectionInv, NEW r \in Requests, NEW v, req'[r] = v,
           \A q \in Requests : q # r => req'[q] = req[q],
           Selected' = Selected, UNCHANGED <<cache, stale>>,
           clash => clash', shared => shared', lost => lost',
           Matches(v),
           v.op = "select" => /\ req[r].op = "select" /\ v.server = req[r].server
                              /\ v.chan = req[r].chan /\ v.chan \notin v.snap,
           clash' \/ (req[r].op = "select" => v.op = "select"),
           v.pc = "store" => v.old \/ v.chan \in Selected,
           req[r].pc # "invalidate", v.pc # "invalidate",
           clash' \/ (v.pc = "others" => Selected \subseteq v.snap \cup {v.chan}),
           clash' \/ v.pc # "set",
           Swaps(v.pc) => \/ Swaps(req[r].pc) /\ v.snap = req[r].snap
                          \/ /\ Selected \subseteq v.snap
                             /\ clash' \/ \A q \in Requests : req[q].op # "select"
    PROVE  SelectionInv'
<1>1. OpsMatch'
  BY DEF SelectionInv, OpsMatch, Matches
<1>2. SelectAlone'
  <2> SUFFICES ASSUME ~clash', NEW q \in Requests, req'[q].op = "select"
      PROVE  /\ req'[q].chan \in Selected' /\ req'[q].chan \notin req'[q].snap
             /\ \A p \in Requests : Selecting(p)' => p = q
    BY DEF SelectAlone
  <2>1. /\ req[q].op = "select" /\ req'[q].chan = req[q].chan
        /\ req[q].chan \in Selected
        /\ \A p \in Requests : Selecting(p) => p = q
    BY DEF SelectionInv, SelectAlone
  <2>2. req'[q].chan \notin req'[q].snap
    BY DEF SelectionInv, SelectAlone
  <2>3. ASSUME NEW p \in Requests, Selecting(p)' PROVE Selecting(p)
    <3>1. CASE p # r
      BY <2>3, <3>1 DEF Selecting
    <3>2. CASE p = r
      <4>1. v.op = "select" \/ Swaps(v.pc)
        BY <1>1, <2>3, <3>2, SelectingIsNext
      <4>2. req[r].op = "select" \/ Swaps(req[r].pc)
        BY <2>1, <4>1
      <4> QED BY <3>2, <4>2, SelectingIs DEF SelectionInv
    <3> QED BY <3>1, <3>2
  <2> QED BY <2>1, <2>2, <2>3
<1>3. SnapshotsWhole'
  <2> SUFFICES ASSUME ~clash', ~shared', ~lost'
      PROVE  /\ \A q \in Requests :
                  /\ req'[q].pc = "others" =>
                        Selected' \subseteq req'[q].snap \cup {req'[q].chan}
                  /\ req'[q].pc = "set" => Selected' \subseteq {req'[q].chan}
                  /\ req'[q].pc \in {"deselect", "commit"} => Selected' \subseteq req'[q].snap
             /\ (\A q \in Requests : req'[q].op # "select") => \A c, d \in Selected' : c = d
    BY DEF SnapshotsWhole
  <2>1. ~clash /\ ~shared /\ ~lost
    OBVIOUS
  <2>2. ASSUME NEW q \in Requests, q # r
        PROVE  /\ req'[q].pc = "others" =>
                     Selected' \subseteq req'[q].snap \cup {req'[q].chan}
               /\ req'[q].pc = "set" => Selected' \subseteq {req'[q].chan}
               /\ req'[q].pc \in {"deselect", "commit"} => Selected' \subseteq req'[q].snap
    BY <2>1, <2>2 DEF SelectionInv, SnapshotsWhole
  <2>3. /\ req'[r].pc = "others" => Selected' \subseteq req'[r].snap \cup {req'[r].chan}
        /\ req'[r].pc # "set"
        /\ req'[r].pc \in {"deselect", "commit"} => Selected' \subseteq req'[r].snap
    BY <2>1 DEF SelectionInv, SnapshotsWhole, Swaps
  <2>4. (\A q \in Requests : req'[q].op # "select") => \A q \in Requests : req[q].op # "select"
    OBVIOUS
  <2> QED BY <2>1, <2>2, <2>3, <2>4 DEF SelectionInv, SnapshotsWhole
<1>4. ReadersRight'
  BY DEF SelectionInv, ReadersRight
<1>5. CachesRight'
  <2> SUFFICES ASSUME ~clash', NEW x \in Caches \ stale'
      PROVE  cache'[x] \in {NoChan} \cup Selected' \/ \E q \in Requests : Refreshes(q, x)'
    BY DEF CachesRight
  <2>1. cache[x] \in {NoChan} \cup Selected \/ \E q \in Requests : Refreshes(q, x)
    BY DEF SelectionInv, CachesRight
  <2>2. ASSUME NEW q \in Requests, Refreshes(q, x) PROVE Refreshes(q, x)'
    <3>1. CASE q # r
      BY <2>2, <3>1 DEF Refreshes
    <3>2. CASE q = r
      BY <2>2, <3>2 DEF Refreshes
    <3> QED BY <3>1, <3>2
  <2> QED BY <2>1, <2>2
<1> QED BY <1>1, <1>2, <1>3, <1>4, <1>5 DEF SelectionInv

(* Steps that only happen outside of selections. *)
LEMMA PlainMoveSelection ==
    ASSUME TypeOK, SelectionInv, NEW r \in Requests, NEW v, req'[r] = v,
           \A q \in Requests : q # r => req'[q] = req[q],
           Selected' = Selected, UNCHANGED <<cache, stale>>,
           clash => clash', shared => shared', lost => lost',
           v.op # "select", req[r].op # "select",
           v.pc \notin {"snap", "others", "set", "deselect", "commit", "invalidate"},
           v.pc = "begin" => v.op = "upload",
           v.pc = "store" => v.old \/ v.chan \in Selected,
           req[r].pc # "invalidate"
    PROVE  SelectionInv'
<1>1. Matches(v) /\ ~Swaps(v.pc)
  BY DEF Matches, Swaps
<1> QED BY <1>1, MoveSelection

LEMMA UploadSelection ==
    ASSUME TypeOK, SelectionInv, NEW r \in Requests,
           \/ \E s \in Servers : Upload(r, s) \/ Add(r, s)
           \/ FetchRead(r) \/ StoreFails(r) \/ CheckLimit(r)
    PROVE  SelectionInv'
<1>1. UNCHANGED <<cache, stale, clash, shared, lost>> /\ Selected' = Selected
  BY DEF Upload, Add, FetchRead, StoreFails, CheckLimit, history, data, Selected
<1>2. \A q \in Requests : q # r => req'[q] = req[q]
  BY DEF Upload, Add, FetchRead, StoreFails, CheckLimit, SetReq, Goto, TypeOK
<1>3. req[r] \in Request /\ Idle.op = "none" /\ Idle.pc = "idle"
  BY DEF TypeOK, Idle
<1>4. req[r].op # "select" /\ req[r].pc # "invalidate"
  <2>1. req[r].pc \in {"idle", "fetch", "store", "check"}
    BY <1>3 DEF Upload, Add, FetchRead, StoreFails, CheckLimit
  <2> QED BY <2>1 DEF SelectionInv, OpsMatch
<1>5. PICK v : /\ req'[r] = v /\ v.op # "select"
               /\ v.pc \in {"fetch", "check", "lock", "store", "idle"}
               /\ v.pc = "store" => v.chan \in Selected
  <2>1. ASSUME NEW s \in Servers, Upload(r, s) \/ Add(r, s)
        PROVE  /\ req'[r].op # "select"
               /\ req'[r].pc \in {"fetch", "check", "lock"}
    <3> DEFINE v == [Idle EXCEPT !.op = "upload", !.server = s,
                        !.chan = cache[CacheOf[s]],
                        !.pc = IF cache[CacheOf[s]] = NoChan THEN "fetch" ELSE "check"]
               w == [Idle EXCEPT !.op = "add", !.server = s, !.pc = "lock"]
    <3>1. /\ v.pc \in {"fetch", "check"} /\ w.pc = "lock" /\ v.op = "upload" /\ w.op = "add"
          /\ SetReq(r, v) \/ SetReq(r, w)
      BY <2>1 DEF Upload, Add, Idle
    <3> HIDE DEF v, w
    <3> QED BY <3>1, Setting
  <2>2. CASE FetchRead(r)
    <3>1. CASE Selected = {}
      BY <1>4, <2>2, <3>1, GoingTo DEF FetchRead
    <3>2. CASE Selected # {}
      <4>1. PICK c \in Selected : SetReq(r, [req[r] EXCEPT !.chan = c, !.pc = "store"])
        BY <2>2, <3>2 DEF FetchRead
      <4> DEFINE v == [req[r] EXCEPT !.chan = c, !.pc = "store"]
      <4>2. v.op = req[r].op /\ v.pc = "store" /\ v.chan = c /\ SetReq(r, v)
        BY <1>3, <4>1 DEF Request
      <4> HIDE DEF v
      <4> QED BY <1>4, <4>2, Setting
    <3> QED BY <3>1, <3>2
  <2>3. CASE CheckLimit(r)
    <3> DEFINE v == [req[r] EXCEPT !.chan = NoChan, !.pc = "lock"]
    <3>1. v.op = req[r].op /\ v.pc = "lock" /\ (SetReq(r, v) \/ SetReq(r, Idle))
      BY <1>3, <2>3 DEF CheckLimit, Request
    <3> HIDE DEF v
    <3> QED BY <1>3, <1>4, <3>1, Setting
  <2>4. CASE StoreFails(r)
    <3> DEFINE v == [req[r] EXCEPT !.pc = "check", !.old = FALSE]
    <3>1. v.op = req[r].op /\ v.pc = "check" /\ SetReq(r, v)
      BY <1>3, <2>4 DEF StoreFails, Request
    <3> HIDE DEF v
    <3> QED BY <1>4, <3>1, Setting
  <2> QED BY <2>1, <2>2, <2>3, <2>4
<1> QED BY <1>1, <1>2, <1>4, <1>5, PlainMoveSelection

(* What a rollover does up to its transaction, and after its commit.         *)
LEMMA RolloverSelection ==
    ASSUME TypeOK, SelectionInv, NEW r \in Requests,
           \/ CheckRecent(r) \/ Create(r) \/ Fail(r) \/ Insert(r)
           \/ \E k \in Conns : Acquire(r, k) \/ Release(r, k)
    PROVE  SelectionInv'
<1>1. UNCHANGED <<cache, stale, clash, lost>> /\ (shared => shared') /\ Selected' = Selected
  <2>1. CASE Insert(r)
    BY <2>1, InsertEffect DEF Insert, history
  <2>2. CASE ~Insert(r)
    <3>1. UNCHANGED <<rows, cache, stale, clash, lost>>
      BY <2>2 DEF CheckRecent, Create, Fail, Acquire, Release, history, data
    <3>2. shared => shared'
      BY <2>2 DEF CheckRecent, Create, Fail, Acquire, Release, history, TypeOK
    <3> QED BY <3>1, <3>2 DEF Selected
  <2> QED BY <2>1, <2>2
<1>2. \A q \in Requests : q # r => req'[q] = req[q]
  BY DEF CheckRecent, Create, Fail, Insert, Acquire, Release, SetReq, Goto, TypeOK
<1>3. req[r] \in Request /\ Idle.op = "none" /\ Idle.pc = "idle"
  BY DEF TypeOK, Idle
<1>4. req[r].op # "select" /\ req[r].pc # "invalidate"
  <2>1. req[r].pc \in {"recent", "create", "insert", "begin", "deselect", "commit",
                       "lock", "unlock"}
    BY DEF CheckRecent, Create, Fail, Insert, Acquire, Release
  <2> QED BY <2>1 DEF SelectionInv, OpsMatch
<1>5. PICK v : /\ req'[r] = v /\ v.op # "select"
               /\ v.pc \in {"idle", "recent", "create", "unlock", "begin", "insert"}
               /\ v.pc = "begin" => v.op = "upload"
  <2>1. CASE CheckRecent(r)
    BY <1>4, <2>1, GoingTo DEF CheckRecent
  <2>2. CASE Create(r)
    <3> DEFINE v == [req[r] EXCEPT !.chan = made + 1,
                       !.pc = IF req[r].op = "upload" THEN "begin" ELSE "insert"]
    <3>1. /\ v.op = req[r].op /\ SetReq(r, v)
          /\ v.pc = IF req[r].op = "upload" THEN "begin" ELSE "insert"
      BY <1>3, <2>2 DEF Create, Request
    <3> HIDE DEF v
    <3> QED BY <1>4, <3>1, Setting
  <2>3. CASE Fail(r) \/ Insert(r)
    <3> DEFINE v == Finished(r, "unlock")
    <3>1. v.op = req[r].op /\ v.pc = "unlock"
      BY Finishing
    <3>2. SetReq(r, v)
      BY <2>3 DEF Fail, Insert
    <3> HIDE DEF v
    <3> QED BY <1>4, <3>1, <3>2, Setting
  <2>4. ASSUME NEW k \in Conns, Acquire(r, k) \/ Release(r, k)
        PROVE  req'[r] = Idle \/ (req'[r].op = req[r].op /\ req'[r].pc = "recent")
    BY <2>4, Setting, GoingTo DEF Acquire, Release
  <2> QED BY <1>3, <1>4, <2>1, <2>2, <2>3, <2>4
<1> QED BY <1>1, <1>2, <1>4, <1>5, PlainMoveSelection

(* The snapshot of a rollover has every selected channel in it.              *)
LEMMA BeginSelection ==
    ASSUME TypeOK, SelectionInv, NEW r \in Requests, Begin(r) \/ Deselect(r)
    PROVE  SelectionInv'
<1>1. UNCHANGED <<cache, stale, shared, lost>> /\ (clash => clash') /\ Selected' = Selected
  <2>1. UNCHANGED <<rows, cache, stale, shared, lost>>
    BY DEF Begin, Deselect, history, data
  <2>2. clash => clash'
    BY DEF Begin, Deselect, Clashes, history, TypeOK
  <2> QED BY <2>1, <2>2 DEF Selected
<1>2. /\ req[r] \in Request /\ req[r].op = "upload"
      /\ req[r].pc \in {"begin", "deselect"}
  BY DEF TypeOK, SelectionInv, OpsMatch, Begin, Deselect
<1>3. CASE Begin(r)
  <2> DEFINE v == [req[r] EXCEPT !.pc = "deselect", !.snap = Listed]
  <2>1. v.op = "upload" /\ v.pc = "deselect" /\ v.snap = Listed
    BY <1>2 DEF Request
  <2>2. SetReq(r, v)
    BY <1>3 DEF Begin
  <2> HIDE DEF v
  <2>3. req'[r] = v /\ \A q \in Requests : q # r => req'[q] = req[q]
    BY <2>2, Setting
  <2>4. Selected \subseteq v.snap
    BY <2>1, RowTyped
  <2>5. clash' \/ \A q \in Requests : req[q].op # "select"
    BY <1>2, <1>3 DEF Begin, Clashes, Selecting
  <2>6. Matches(v)
    BY <2>1 DEF Matches
  <2> QED BY <1>1, <1>2, <2>1, <2>3, <2>4, <2>5, <2>6, MoveSelection
<1>4. CASE Deselect(r)
  <2>1. PICK v : v = req'[r]
    OBVIOUS
  <2>2. /\ v.op = "upload" /\ v.pc = "commit" /\ v.snap = req[r].snap
        /\ \A q \in Requests : q # r => req'[q] = req[q]
    BY <1>2, <1>4, <2>1, GoingTo DEF Deselect
  <2>3. Matches(v) /\ Swaps(req[r].pc)
    BY <1>4, <2>2 DEF Matches, Swaps, Deselect
  <2> QED BY <1>1, <1>2, <2>1, <2>2, <2>3, MoveSelection
<1> QED BY <1>3, <1>4

LEMMA SnapSelection ==
    ASSUME TypeOK, SelectionInv, NEW r \in Requests, SelectSnap(r) \/ SelectFails(r)
    PROVE  SelectionInv'
<1>1. UNCHANGED <<cache, stale, shared, lost>> /\ (clash => clash') /\ Selected' = Selected
  BY DEF SelectSnap, SelectFails, history, data, Selected
<1>2. /\ req[r] \in Request /\ req[r].op = "select" /\ req[r].pc # "invalidate"
  BY DEF TypeOK, SelectionInv, OpsMatch, SelectSnap, SelectFails
<1>3. CASE SelectSnap(r)
  <2> DEFINE v == [req[r] EXCEPT !.pc = "others", !.snap = Listed \ {req[r].chan}]
  <2>1. /\ v.op = "select" /\ v.pc = "others" /\ v.snap = Listed \ {req[r].chan}
        /\ v.chan = req[r].chan /\ v.server = req[r].server
    BY <1>2 DEF Request
  <2>2. SetReq(r, v)
    BY <1>3 DEF SelectSnap
  <2> HIDE DEF v
  <2>3. req'[r] = v /\ \A q \in Requests : q # r => req'[q] = req[q]
    BY <2>2, Setting
  <2>4. Selected \subseteq v.snap \cup {v.chan}
    BY <2>1, RowTyped
  <2>5. Matches(v) /\ ~Swaps(v.pc)
    BY <2>1 DEF Matches, Swaps
  <2> QED BY <1>1, <1>2, <2>1, <2>3, <2>4, <2>5, MoveSelection
<1>4. CASE SelectFails(r)
  <2> DEFINE v == [req[r] EXCEPT !.pc = "set", !.snap = {}]
  <2>1. /\ v.op = "select" /\ v.pc = "set" /\ v.snap = {}
        /\ v.chan = req[r].chan /\ v.server = req[r].server
    BY <1>2 DEF Request
  <2>2. SetReq(r, v) /\ clash' = TRUE
    BY <1>4 DEF SelectFails
  <2> HIDE DEF v
  <2>3. req'[r] = v /\ \A q \in Requests : q # r => req'[q] = req[q]
    BY <2>2, Setting
  <2>4. Matches(v) /\ ~Swaps(v.pc)
    BY <2>1 DEF Matches, Swaps
  <2> QED BY <1>1, <1>2, <2>1, <2>2, <2>3, <2>4, MoveSelection
<1> QED BY <1>3, <1>4

(* A step that writes its own cache: with a selected channel or with none,   *)
(* unless the cache is known to be stale.                                    *)
LEMMA CacheSelection ==
    ASSUME TypeOK, SelectionInv, NEW r \in Requests, NEW v, req'[r] = v,
           \A q \in Requests : q # r => req'[q] = req[q],
           Selected' = Selected, UNCHANGED <<clash, shared, lost>>,
           NEW x, x = CacheOf[req[r].server], NEW c, cache' = [cache EXCEPT ![x] = c],
           \/ stale' = stale \cup {x}
           \/ stale' = stale /\ c \in {NoChan} \cup Selected
           \/ stale' = stale \ {x} /\ (~clash => c \in {NoChan} \cup Selected),
           req[r].pc \in {"store", "invalidate", "set"},
           v.op # "select", v.pc \in {"check", "unlock", "idle"}
    PROVE  SelectionInv'
<1>1. OpsMatch'
  BY DEF SelectionInv, OpsMatch
<1>2. \A p \in Requests : Selecting(p)' => p # r /\ Selecting(p)
  <2> SUFFICES ASSUME NEW p \in Requests, Selecting(p)' PROVE p # r /\ Selecting(p)
    OBVIOUS
  <2>1. p # r
    BY <1>1, SelectingIsNext DEF Swaps
  <2> QED BY <2>1 DEF Selecting
<1>3. SelectAlone'
  BY <1>2 DEF SelectionInv, SelectAlone
<1>4. SnapshotsWhole'
  <2> SUFFICES ASSUME ~clash', ~shared', ~lost'
      PROVE  /\ \A q \in Requests :
                  /\ req'[q].pc = "others" =>
                        Selected' \subseteq req'[q].snap \cup {req'[q].chan}
                  /\ req'[q].pc = "set" => Selected' \subseteq {req'[q].chan}
                  /\ req'[q].pc \in {"deselect", "commit"} => Selected' \subseteq req'[q].snap
             /\ (\A q \in Requests : req'[q].op # "select") => \A d, e \in Selected' : d = e
    BY DEF SnapshotsWhole
  <2>1. ~clash /\ ~shared /\ ~lost
    OBVIOUS
  <2>2. \A q \in Requests :
                  /\ req'[q].pc = "others" =>
                        Selected' \subseteq req'[q].snap \cup {req'[q].chan}
                  /\ req'[q].pc = "set" => Selected' \subseteq {req'[q].chan}
                  /\ req'[q].pc \in {"deselect", "commit"} => Selected' \subseteq req'[q].snap
    BY <2>1 DEF SelectionInv, SnapshotsWhole
  <2>3. ASSUME \A q \in Requests : req'[q].op # "select"
        PROVE  \A d, e \in Selected' : d = e
    <3>1. CASE req[r].op = "select"
      <4>1. req[r].pc = "set"
        BY <3>1 DEF SelectionInv, OpsMatch
      <4> QED BY <2>1, <4>1 DEF SelectionInv, SnapshotsWhole
    <3>2. CASE req[r].op # "select"
      BY <2>1, <2>3, <3>2 DEF SelectionInv, SnapshotsWhole
    <3> QED BY <3>1, <3>2
  <2> QED BY <2>2, <2>3
<1>5. ReadersRight'
  BY DEF SelectionInv, ReadersRight
<1>6. CachesRight'
  <2> SUFFICES ASSUME ~clash', NEW y \in Caches \ stale'
      PROVE  cache'[y] \in {NoChan} \cup Selected' \/ \E q \in Requests : Refreshes(q, y)'
    BY DEF CachesRight
  <2>1. CASE y = x
    BY <2>1 DEF TypeOK
  <2>2. CASE y # x
    <3>1. y \notin stale /\ cache'[y] = cache[y]
      BY <2>2 DEF TypeOK
    <3>2. ASSUME NEW q \in Requests, Refreshes(q, y) PROVE Refreshes(q, y)'
      BY <2>2, <3>2 DEF Refreshes
    <3> QED BY <3>1, <3>2 DEF SelectionInv, CachesRight
  <2> QED BY <2>1, <2>2
<1> QED BY <1>1, <1>3, <1>4, <1>5, <1>6 DEF SelectionInv

LEMMA StoreSelection ==
    ASSUME TypeOK, SelectionInv, NEW r \in Requests,
           FetchStore(r) \/ Invalidate(r) \/ SelectSet(r)
    PROVE  SelectionInv'
<1>1. UNCHANGED <<rows, clash, shared, lost>> /\ Selected' = Selected
  BY DEF FetchStore, Invalidate, SelectSet, data, Selected
<1>2. /\ req[r] \in Request /\ Idle.op = "none" /\ Idle.pc = "idle"
      /\ \A q \in Requests : q # r => req'[q] = req[q]
  BY DEF TypeOK, Idle, FetchStore, Invalidate, SelectSet, SetReq, Goto
<1>3. PICK x : x = CacheOf[req[r].server]
  OBVIOUS
<1>4. CASE FetchStore(r)
  <2> DEFINE v == [req[r] EXCEPT !.pc = "check", !.old = FALSE]
  <2>1. v.op = req[r].op /\ v.pc = "check" /\ SetReq(r, v) /\ req[r].pc = "store"
    BY <1>2, <1>4 DEF FetchStore, Request
  <2> HIDE DEF v
  <2>2. req'[r] = v /\ v.op # "select"
    BY <2>1, Setting DEF SelectionInv, OpsMatch
  <2>3. cache' = [cache EXCEPT ![x] = req[r].chan]
    BY <1>3, <1>4 DEF FetchStore
  <2>4. \/ stale' = stale \cup {x}
        \/ stale' = stale \ {x} /\ req[r].chan \in Selected
    BY <1>3, <1>4 DEF FetchStore, SelectionInv, ReadersRight
  <2> QED BY <1>1, <1>2, <1>3, <2>1, <2>2, <2>3, <2>4, CacheSelection
<1>5. CASE Invalidate(r)
  <2>1. PICK v : v = req'[r]
    OBVIOUS
  <2>2. v.op = req[r].op /\ v.pc = "unlock" /\ req[r].pc = "invalidate"
    BY <1>5, <2>1, GoingTo DEF Invalidate
  <2>3. v.op # "select"
    BY <2>2 DEF SelectionInv, OpsMatch
  <2>4. cache' = [cache EXCEPT ![x] = NoChan] /\ stale' = stale \ {x}
    BY <1>3, <1>5 DEF Invalidate
  <2> QED BY <1>1, <1>2, <1>3, <2>1, <2>2, <2>3, <2>4, CacheSelection
<1>6. CASE SelectSet(r)
  <2>1. req'[r] = Idle /\ req[r].pc = "set"
    BY <1>6, Setting DEF SelectSet
  <2>2. cache' = [cache EXCEPT ![x] = req[r].chan] /\ stale' = stale \ {x}
    BY <1>3, <1>6 DEF SelectSet
  <2>3. ~clash => req[r].chan \in Selected
    BY <2>1 DEF SelectionInv, OpsMatch, SelectAlone
  <2> QED BY <1>1, <1>2, <1>3, <2>1, <2>2, <2>3, CacheSelection
<1> QED BY <1>4, <1>5, <1>6

(* A call of the cache that fails leaves the entry, which is right or known  *)
(* to be stale.                                                              *)
LEMMA CacheFailsSelection ==
    ASSUME TypeOK, SelectionInv, NEW r \in Requests, CacheFails(r)
    PROVE  SelectionInv'
<1>1. UNCHANGED <<rows, clash, shared, lost>> /\ Selected' = Selected
  BY DEF CacheFails, data, Selected
<1>2. /\ req[r] \in Request /\ Idle.op = "none" /\ Idle.pc = "idle"
      /\ \A q \in Requests : q # r => req'[q] = req[q]
  BY DEF TypeOK, Idle, CacheFails, SetReq
<1>3. PICK x : x = CacheOf[req[r].server]
  OBVIOUS
<1>4. PICK c : c = cache[x]
  OBVIOUS
<1>5. cache' = [cache EXCEPT ![x] = c]
  BY <1>4 DEF CacheFails, TypeOK
<1>6. \/ stale' = stale \cup {x}
      \/ stale' = stale /\ c \in {NoChan} \cup Selected
  BY <1>3, <1>4 DEF CacheFails
<1>7. PICK v : v = req'[r]
  OBVIOUS
<1>8. v.op # "select" /\ v.pc \in {"unlock", "idle"} /\ req[r].pc \in {"invalidate", "set"}
  <2>1. CASE req[r].pc = "set"
    BY <1>2, <1>7, <2>1, Setting DEF CacheFails
  <2>2. CASE req[r].pc = "invalidate"
    <3>1. v.op = req[r].op /\ v.pc = "unlock"
      BY <1>2, <1>7, <2>2 DEF CacheFails, SetReq, TypeOK, Request
    <3> QED BY <2>2, <3>1 DEF SelectionInv, OpsMatch
  <2> QED BY <2>1, <2>2 DEF CacheFails
<1> QED BY <1>1, <1>2, <1>3, <1>5, <1>6, <1>7, <1>8, CacheSelection

(* A change of the selection reaches the cache of its server later, and that *)
(* of no other.                                                              *)
LEMMA ChangeCaches ==
    ASSUME NEW s, NEW r \in Requests, stale' = stale \cup (Caches \ {CacheOf[s]}),
           req'[r].server = s, req'[r].op = "select" \/ req'[r].pc = "invalidate"
    PROVE  CachesRight'
<1>1. \A x \in Caches \ stale' : Refreshes(r, x)'
  BY DEF Refreshes
<1> QED BY <1>1 DEF CachesRight

LEMMA CommitSelection ==
    ASSUME TypeOK, WindowInv, SelectionInv, NEW r \in Requests, Commit(r)
    PROVE  SelectionInv'
<1> DEFINE v == Finished(r, "invalidate")
           new == [req EXCEPT ![r] = v]
<1>1. /\ v \in Request /\ v.pc = "invalidate" /\ v.op = req[r].op
      /\ v.server = req[r].server
  <2>1. v \in Request
    BY ZenonT(40) DEF Finished, TypeOK, Request, Pcs
  <2> QED BY <2>1, Finishing
<1>2. /\ new[r] = v /\ (\A q \in Requests : q # r => new[q] = req[q])
      /\ new \in [Requests -> Request] /\ Changes(req[r].server, new)
  BY <1>1 DEF Commit, TypeOK
<1> HIDE DEF v, new
<1>3. /\ \A q \in Requests : /\ req'[q].op = new[q].op /\ req'[q].pc = new[q].pc
                             /\ req'[q].server = new[q].server
                             /\ req'[q].chan = new[q].chan /\ req'[q].snap = new[q].snap
                             /\ req'[q].pc = "store" => req'[q].old
      /\ stale' = stale \cup (Caches \ {CacheOf[req[r].server]})
  BY <1>2, Changing
<1>4. /\ UNCHANGED <<clash, shared, lost>>
      /\ Selected' = (Selected \ req[r].snap) \cup {req[r].chan}
      /\ req[r].op = "upload" /\ req[r].pc = "commit"
  BY CommitEffect DEF Commit, SelectionInv, OpsMatch
<1>5. OpsMatch'
  BY <1>1, <1>2, <1>3, <1>4 DEF SelectionInv, OpsMatch
<1>6. clash \/ \A q \in Requests : req[q].op # "select"
  BY <1>4, SelectingIs DEF SelectionInv, SelectAlone, Swaps
<1>7. SelectAlone'
  BY <1>1, <1>2, <1>3, <1>4, <1>6 DEF SelectAlone
<1>8. SnapshotsWhole'
  <2> SUFFICES ASSUME ~clash, ~shared, ~lost PROVE SnapshotsWhole'
    BY <1>4 DEF SnapshotsWhole
  <2>1. Selected' = {req[r].chan}
    BY <1>4 DEF SelectionInv, SnapshotsWhole
  <2>2. \A q \in Requests : q # r => ~InRollover(q)
    BY <1>4 DEF WindowInv, InRollover
  <2>3. \A q \in Requests : req'[q].pc \notin {"others", "set", "deselect", "commit"}
    <3>1. \A q \in Requests : q # r => req[q].pc \notin {"others", "set", "deselect", "commit"}
      BY <1>6, <2>2 DEF InRollover, SelectionInv, OpsMatch
    <3> QED BY <1>1, <1>2, <1>3, <3>1
  <2> QED BY <2>1, <2>3 DEF SnapshotsWhole
<1>9. ReadersRight'
  BY <1>3 DEF ReadersRight
<1>10. CachesRight'
  BY <1>1, <1>2, <1>3, ChangeCaches
<1> QED BY <1>5, <1>7, <1>8, <1>9, <1>10 DEF SelectionInv

LEMMA SelectSelection ==
    ASSUME TypeOK, SelectionInv, NEW r \in Requests, NEW s \in Servers, NEW c \in ChanIds,
           Select(r, s, c)
    PROVE  SelectionInv'
<1> DEFINE v == [Idle EXCEPT !.op = "select", !.server = s, !.chan = c, !.pc = "snap"]
           new == [req EXCEPT ![r] = v]
<1>1. /\ v \in Request /\ v.pc = "snap" /\ v.op = "select" /\ v.server = s /\ v.chan = c
      /\ v.snap = {}
  BY DEF Idle, Request, Pcs
<1>2. /\ new[r] = v /\ (\A q \in Requests : q # r => new[q] = req[q])
      /\ new \in [Requests -> Request] /\ Changes(s, new)
  BY <1>1 DEF Select, TypeOK
<1> HIDE DEF v, new
<1>3. /\ \A q \in Requests : /\ req'[q].op = new[q].op /\ req'[q].pc = new[q].pc
                             /\ req'[q].server = new[q].server
                             /\ req'[q].chan = new[q].chan /\ req'[q].snap = new[q].snap
                             /\ req'[q].pc = "store" => req'[q].old
      /\ stale' = stale \cup (Caches \ {CacheOf[s]})
  BY <1>2, Changing
<1>4. /\ UNCHANGED <<shared, lost>> /\ Selected' = Selected \cup {c}
  BY SelectEffect DEF Select
<1>5. clash' \/ (~clash /\ \A q \in Requests : q # r => ~Selecting(q))
  BY DEF Select, Clashes
<1>6. OpsMatch'
  BY <1>1, <1>2, <1>3 DEF SelectionInv, OpsMatch
<1>7. clash' \/ \A q \in Requests : q # r =>
         req'[q].op # "select" /\ ~Swaps(req'[q].pc) /\ req'[q].pc \notin {"others", "set"}
  <2>1. clash' \/ \A q \in Requests : q # r =>
           req[q].op # "select" /\ ~Swaps(req[q].pc) /\ req[q].pc \notin {"others", "set"}
    BY <1>5, SelectingIs DEF SelectionInv, OpsMatch
  <2> QED BY <1>2, <1>3, <2>1
<1>8. SelectAlone'
  <2>1. clash' \/ \A q \in Requests : Selecting(q)' => q = r
    BY <1>6, <1>7, SelectingIsNext
  <2> QED BY <1>1, <1>2, <1>3, <1>4, <1>7, <2>1 DEF SelectAlone
<1>9. SnapshotsWhole'
  BY <1>1, <1>2, <1>3, <1>7 DEF SnapshotsWhole, Swaps
<1>10. ReadersRight'
  BY <1>3 DEF ReadersRight
<1>11. CachesRight'
  BY <1>1, <1>2, <1>3, ChangeCaches
<1> QED BY <1>6, <1>8, <1>9, <1>10, <1>11 DEF SelectionInv

LEMMA OthersSelection ==
    ASSUME TypeOK, SelectionInv, NEW r \in Requests, SelectOthers(r)
    PROVE  SelectionInv'
<1> DEFINE v == [req[r] EXCEPT !.pc = "set", !.snap = {}]
           new == [req EXCEPT ![r] = v]
<1>1. /\ v \in Request /\ v.pc = "set" /\ v.op = req[r].op /\ v.server = req[r].server
      /\ v.chan = req[r].chan /\ v.snap = {}
  BY DEF TypeOK, Request, Pcs
<1>2. /\ new[r] = v /\ (\A q \in Requests : q # r => new[q] = req[q])
      /\ new \in [Requests -> Request] /\ Changes(req[r].server, new)
  BY <1>1 DEF SelectOthers, TypeOK
<1> HIDE DEF v, new
<1>3. /\ \A q \in Requests : /\ req'[q].op = new[q].op /\ req'[q].pc = new[q].pc
                             /\ req'[q].server = new[q].server
                             /\ req'[q].chan = new[q].chan /\ req'[q].snap = new[q].snap
                             /\ req'[q].pc = "store" => req'[q].old
      /\ stale' = stale \cup (Caches \ {CacheOf[req[r].server]})
  BY <1>2, Changing
<1>4. /\ UNCHANGED <<clash, shared, lost>> /\ Selected' = Selected \ req[r].snap
      /\ req[r].pc = "others" /\ req[r].op = "select"
  BY OthersEffect DEF SelectOthers, SelectionInv, OpsMatch
<1>5. OpsMatch'
  BY <1>1, <1>2, <1>3, <1>4 DEF SelectionInv, OpsMatch
<1>6. clash \/ /\ req[r].chan \in Selected /\ req[r].chan \notin req[r].snap
               /\ \A q \in Requests : Selecting(q) => q = r
  BY <1>4 DEF SelectionInv, SelectAlone
<1>7. clash \/ \A q \in Requests : q # r =>
         req'[q].op # "select" /\ ~Swaps(req'[q].pc) /\ req'[q].pc \notin {"others", "set"}
  <2>1. clash \/ \A q \in Requests : q # r =>
           req[q].op # "select" /\ ~Swaps(req[q].pc) /\ req[q].pc \notin {"others", "set"}
    BY <1>6, SelectingIs DEF SelectionInv, OpsMatch
  <2> QED BY <1>2, <1>3, <2>1
<1>8. SelectAlone'
  <2>1. clash \/ \A q \in Requests : Selecting(q)' => q = r
    BY <1>5, <1>7, SelectingIsNext
  <2> QED BY <1>1, <1>2, <1>3, <1>4, <1>6, <1>7, <2>1 DEF SelectAlone
<1>9. SnapshotsWhole'
  <2>1. clash \/ shared \/ lost \/ Selected' \subseteq {req[r].chan}
    BY <1>4 DEF SelectionInv, SnapshotsWhole
  <2> QED BY <1>1, <1>2, <1>3, <1>4, <1>7, <2>1 DEF SnapshotsWhole, Swaps
<1>10. ReadersRight'
  BY <1>3 DEF ReadersRight
<1>11. CachesRight'
  BY <1>1, <1>2, <1>3, <1>4, ChangeCaches
<1> QED BY <1>5, <1>8, <1>9, <1>10, <1>11 DEF SelectionInv

LEMMA DeleteSelection ==
    ASSUME TypeOK, SelectionInv, NEW c \in ChanIds, DeleteChannel(c)
    PROVE  SelectionInv'
<1>1. /\ \A q \in Requests : /\ req'[q].op = req[q].op /\ req'[q].pc = req[q].pc
                             /\ req'[q].server = req[q].server
                             /\ req'[q].chan = req[q].chan /\ req'[q].snap = req[q].snap
                             /\ req'[q].pc = "store" => req'[q].old
      /\ stale' = Caches
  BY DEF DeleteChannel, TypeOK, Request
<1>2. /\ UNCHANGED <<shared, lost>> /\ Selected' \subseteq Selected
      /\ clash' \/ (~clash /\ \A q \in Requests : req[q].op # "select")
  BY DeleteEffect DEF DeleteChannel
<1>3. OpsMatch'
  BY <1>1 DEF SelectionInv, OpsMatch
<1>4. SelectAlone'
  BY <1>1, <1>2 DEF SelectAlone
<1>5. SnapshotsWhole'
  BY <1>1, <1>2 DEF SelectionInv, SnapshotsWhole
<1>6. ReadersRight' /\ CachesRight'
  BY <1>1 DEF ReadersRight, CachesRight
<1> QED BY <1>3, <1>4, <1>5, <1>6 DEF SelectionInv

LEMMA OutsideSelection ==
    ASSUME TypeOK, SelectionInv, CloseConn \/ Age \/ UNCHANGED vars
    PROVE  SelectionInv'
<1>1. UNCHANGED <<req, cache, stale, clash, shared>> /\ (lost => lost')
  BY DEF CloseConn, Age, vars, data, history, TypeOK
<1>2. Selected' = Selected
  <2>1. CASE UNCHANGED rows
    BY <2>1 DEF Selected
  <2> QED BY <2>1, AgeEffect DEF CloseConn, vars, data
<1>3. OpsMatch' /\ SelectAlone' /\ ReadersRight'
  BY <1>1, <1>2 DEF SelectionInv, OpsMatch, SelectAlone, ReadersRight, Selecting
<1>4. SnapshotsWhole'
  BY <1>1, <1>2 DEF SelectionInv, SnapshotsWhole
<1>5. CachesRight'
  BY <1>1, <1>2 DEF SelectionInv, CachesRight, Refreshes
<1> QED BY <1>3, <1>4, <1>5 DEF SelectionInv

LEMMA NextSelection == TypeOK /\ WindowInv /\ SelectionInv /\ [Next]_vars => SelectionInv'
<1> SUFFICES ASSUME TypeOK, WindowInv, SelectionInv, [Next]_vars PROVE SelectionInv'
  OBVIOUS
<1>1. CASE UNCHANGED vars
  BY <1>1, OutsideSelection
<1>2. CASE Next
  BY <1>2, UploadSelection, RolloverSelection, BeginSelection, SnapSelection,
     StoreSelection, CacheFailsSelection, CommitSelection, SelectSelection, OthersSelection, DeleteSelection,
     OutsideSelection DEF Next, Rollover
<1> QED BY <1>1, <1>2

LEMMA InitSelection == Init => SelectionInv
<1> SUFFICES ASSUME Init PROVE SelectionInv
  OBVIOUS
<1>1. Selected = {}
  BY DEF Init, Selected
<1>2. \A r \in Requests : req[r].op = "none" /\ req[r].pc = "idle"
  BY DEF Init, Idle
<1>3. \A x \in Caches : cache[x] = NoChan
  BY DEF Init
<1> QED BY <1>1, <1>2, <1>3
        DEF SelectionInv, OpsMatch, SelectAlone, SnapshotsWhole, ReadersRight, CachesRight

LEMMA SelectionHolds == Spec => [](TypeOK /\ WindowInv /\ SelectionInv)
<1>1. TypeOK /\ LockHeld /\ WindowInv /\ [Next]_vars => WindowInv'
  BY NextWindow
<1>2. TypeOK /\ WindowInv /\ SelectionInv /\ [Next]_vars => SelectionInv'
  BY NextSelection
<1> QED BY <1>1, <1>2, InitWindow, InitSelection, Typed, LockIsHeld, PTL DEF Spec

(* Once no selection is under way at most one channel is selected, unless   *)
(* selections overlapped or a rollover lost or shared its lock.             *)
THEOREM AtMostOneSelected == Spec => []OneSelected
<1>1. TypeOK /\ SelectionInv => OneSelected
  <2> SUFFICES ASSUME TypeOK, SelectionInv, Settled, ~clash, ~shared, ~lost
      PROVE  Cardinality(Selected) <= 1
    BY DEF OneSelected
  <2>1. \A c, d \in Selected : c = d
    BY DEF SelectionInv, SnapshotsWhole, Settled, Selecting
  <2>2. CASE Selected = {}
    BY <2>2, FS_EmptySet
  <2>3. CASE Selected # {}
    <3>1. PICK c \in Selected : TRUE
      BY <2>3
    <3>2. Selected = {c}
      BY <2>1, <3>1
    <3>3. Cardinality(Selected) = 1
      BY <3>2, FS_Singleton
    <3> QED BY <3>3
  <2> QED BY <2>2, <2>3
<1> QED BY <1>1, SelectionHolds, PTL

(* No step but the deletion of the selected channel takes the user's last   *)
(* selected channel away, unless selections overlap.                        *)
THEOREM SelectionIsKept == Spec => SelectionStays
<1>1. TypeOK /\ SelectionInv /\ [Next]_vars =>
        [Selected # {} /\ ~clash' => \/ Selected' # {}
                                     \/ \E c \in Selected : DeleteChannel(c)]_vars
  <2> SUFFICES ASSUME TypeOK, SelectionInv, Next, Selected # {}, ~clash'
      PROVE  Selected' # {} \/ \E c \in Selected : DeleteChannel(c)
    OBVIOUS
  <2>1. ASSUME NEW r \in Requests, SelectOthers(r) PROVE Selected' # {}
    <3>1. req[r].op = "select" /\ ~clash
      BY <2>1 DEF SelectOthers, SelectionInv, OpsMatch
    <3>2. req[r].chan \in Selected \ req[r].snap
      BY <3>1 DEF SelectionInv, SelectAlone
    <3> QED BY <2>1, <3>2, OthersEffect
  <2>2. ASSUME NEW c \in ChanIds, DeleteChannel(c)
        PROVE  Selected' # {} \/ \E d \in Selected : DeleteChannel(d)
    BY <2>2, DeleteEffect
  <2>3. CASE UNCHANGED rows
    BY <2>3 DEF Selected
  <2>4. \/ UNCHANGED rows \/ Age
        \/ \E r \in Requests :
              \/ Insert(r) \/ Commit(r) \/ SelectOthers(r)
              \/ \E s \in Servers, c \in ChanIds : Select(r, s, c)
        \/ \E c \in ChanIds : DeleteChannel(c)
    <3>1. ASSUME NEW r \in Requests,
                 \/ \E s \in Servers : Upload(r, s) \/ Add(r, s)
                 \/ FetchRead(r) \/ FetchStore(r) \/ StoreFails(r) \/ CheckLimit(r)
                 \/ CacheFails(r)
                 \/ \E k \in Conns : Acquire(r, k) \/ Release(r, k)
                 \/ CheckRecent(r) \/ Create(r) \/ Fail(r) \/ Begin(r) \/ Deselect(r)
                 \/ Invalidate(r) \/ SelectSnap(r) \/ SelectFails(r) \/ SelectSet(r)
          PROVE  UNCHANGED rows
      BY <3>1 DEF Upload, Add, FetchRead, FetchStore, StoreFails, CacheFails, CheckLimit,
           Acquire, Release,
           CheckRecent, Create, Fail, Begin, Deselect, Invalidate, SelectSnap, SelectFails,
           SelectSet, data
    <3>2. CASE CloseConn
      BY <3>2 DEF CloseConn, data
    <3> QED BY <3>1, <3>2 DEF Next, Rollover
  <2> QED BY <2>1, <2>2, <2>3, <2>4, InsertEffect, CommitEffect, SelectEffect, AgeEffect
<1> QED BY <1>1, SelectionHolds, PTL DEF Spec, SelectionStays

(* A cache that is out of date when no selection is under way missed a      *)
(* change of another server or a deletion, took a late read, failed when    *)
(* the selection was over, or saw selections overlap.                       *)
THEOREM StaleCachesExplained == Spec => []CacheStaleHasCause
<1>1. SelectionInv => CacheStaleHasCause
  BY DEF SelectionInv, CachesRight, CacheStaleHasCause, Refreshes, Selecting
<1> QED BY <1>1, SelectionHolds, PTL
=============================================================================
