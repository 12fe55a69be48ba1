------------------------ MODULE EventBroadcasterProofs ------------------------
(* Proofs about the event broadcasters, for every value of the constants:    *)
(* however many connections come and go, events are recorded, goroutines     *)
(* poll at the same time, and whatever the queue and the poll are limited to.*)
EXTENDS EventBroadcaster, FiniteSetTheorems, SequenceTheorems, TLAPS

-----------------------------------------------------------------------------
(* The inductive invariant *)

WalkShape ==
    [ evt : Events \cup {NoEvent}, list : Seq(Conns), next : Nat \ {0},
      shared : BOOLEAN, due : SUBSET Conns, left : SUBSET Conns ]
PollerShape ==
    [ pc : {"off", "waiting", "querying", "queried", "delivering"},
      now : 0 .. MaxTime, batch : SUBSET Events ]
ConnStates == {"none", "adding", "open", "removing", "draining", "closed"}

(* The list of subscribers is of the connections that have joined and not    *)
(* left, each once.                                                          *)
On(l, c) == \E k \in DOMAIN l : l[k] = c
ListIsOfMembers ==
    /\ conns \in [Conns -> ConnStates]
    /\ subs \in [list : Seq(Conns), cap : Nat] /\ Len(subs.list) <= subs.cap
    /\ \A c \in Conns : On(subs.list, c) <=> conns[c] \in {"adding", "open"}
    /\ \A i, k \in DOMAIN subs.list : subs.list[i] = subs.list[k] => i = k

(* What a walk sends to is on the list l of subscribers, or has left since   *)
(* it began.                                                                 *)
Covered(w, l) == \A k \in DOMAIN w.list : On(l, w.list[k]) \/ w.list[k] \in w.left

(* As long as nobody leaves, whoever is due is still ahead of the walk, and  *)
(* the list that it shares has only grown.                                   *)
Ahead(w, c) == \E k \in DOMAIN w.list : k >= w.next /\ w.list[k] = c
Whole(w, l) ==
    w.left = {} => /\ \A c \in w.due : Ahead(w, c)
                   /\ w.shared => Len(w.list) <= Len(l)

WalkRight(w, l) == /\ w \in WalkShape /\ w.next <= Len(w.list) + 1
                   /\ Covered(w, l) /\ Whole(w, l)

ListInv ==
    /\ ListIsOfMembers
    /\ sending \in [Actors -> WalkShape]
    /\ \A a \in Actors : WalkRight(sending[a], subs.list)

(* The rest of the state. *)
RestShapes ==
    /\ backend \in {"polling", "redis"} /\ backend \in Backends
    /\ up \in BOOLEAN /\ crashed \in BOOLEAN /\ clock \in 0 .. MaxTime
    /\ records \in [Events -> {"none", "sending", "publishing", "done"}]
    /\ created \in [Events -> 0 .. MaxTime]
    /\ queue \subseteq Events /\ db \subseteq Events /\ wire \subseteq Events
    /\ recent \subseteq Events /\ passed \subseteq Events
    /\ IsFiniteSet(queue) /\ Cardinality(queue) <= QueueSize
    /\ polling \in BOOLEAN /\ listening \in BOOLEAN
    /\ lastPollTime \in 0 .. MaxTime /\ started \in 0 .. MaxTime
    /\ pollers \in [Pollers -> PollerShape]
    /\ rounds \in [Events -> Nat]

(* An event has been sent once for its Record, in the polling broadcaster,   *)
(* and once for its mark in recentEvents.                                    *)
Recorded(e) == IF backend = "polling" /\ records[e] # "none" THEN 1 ELSE 0
Marked(e) == IF e \in recent THEN 1 ELSE 0
RoundsCounted == \A e \in Events : rounds[e] <= Recorded(e) + Marked(e)

(* A stored event that a poll has passed is accounted for.                   *)
Explained(e) == e \in recent \cup passed \/ \E p \in Pollers : e \in pollers[p].batch
StoredWereRecorded == \A e \in queue \cup db : records[e] # "none"
CreatedBefore == \A e \in Events : created[e] <= clock
BatchesEmpty == \A p \in Pollers : ~Polled(p) => pollers[p].batch = {}
CursorRight == \A e \in db :
    created[e] > started /\ created[e] <= lastPollTime => Explained(e)
(* What a poll that has its rows will move the cursor past, it has seen.     *)
PollsRight == \A p \in Pollers : pollers[p].pc = "queried" =>
    \A e \in db : created[e] > started /\ created[e] <= pollers[p].now => Explained(e)

CursorInv == /\ StoredWereRecorded /\ CreatedBefore /\ BatchesEmpty
             /\ CursorRight /\ PollsRight

EventsInv == ListInv /\ RestShapes /\ RoundsCounted /\ CursorInv

-----------------------------------------------------------------------------
(* The operators on the list *)

LEMMA RemoveAtIs ==
    ASSUME NEW S, NEW s \in Seq(S), NEW j \in 1 .. Len(s)
    PROVE  LET t == SX!RemoveAt(s, j) IN
           /\ t \in Seq(S) /\ Len(t) = Len(s) - 1
           /\ \A i \in 1 .. Len(s) - 1 : t[i] = IF i < j THEN s[i] ELSE s[i + 1]
  <1> DEFINE f == SubSeq(s, 1, j - 1)
             g == SubSeq(s, j + 1, Len(s))
  <1>1. f \in Seq(S) /\ Len(f) = j - 1 /\ \A i \in 1 .. j - 1 : f[i] = s[i]
    BY SubSeqProperties
  <1>2. g \in Seq(S) /\ Len(g) = Len(s) - j /\ \A i \in 1 .. Len(s) - j : g[i] = s[i + j]
    BY SubSeqProperties
  <1> HIDE DEF f, g
  <1>3. f \o g \in Seq(S) /\ Len(f \o g) = Len(f) + Len(g)
    BY <1>1, <1>2, ConcatProperties
  <1>4. Len(f \o g) = Len(s) - 1
    BY <1>1, <1>2, <1>3
  <1>5. \A i \in 1 .. Len(s) - 1 : (f \o g)[i] = IF i < j THEN s[i] ELSE s[i + 1]
    BY <1>1, <1>2, ConcatProperties
  <1> QED BY <1>3, <1>4, <1>5 DEF f, g, SX!RemoveAt

(* A subscriber is put at the end of the list. *)
LEMMA AppendedIs ==
    ASSUME ListInv, NEW c \in Conns
    PROVE  LET new == Appended(subs, c) IN
           /\ new \in [list : Seq(Conns), cap : Nat] /\ Len(new.list) <= new.cap
           /\ Len(new.list) = Len(subs.list) + 1 /\ new.list[Len(subs.list) + 1] = c
           /\ \A k \in 1 .. Len(subs.list) : new.list[k] = subs.list[k]
  <1> DEFINE l == Append(subs.list, c)
             n == IF Len(subs.list) < subs.cap THEN subs.cap
                  ELSE IF subs.cap = 0 THEN 1 ELSE 2 * subs.cap
             new == Appended(subs, c)
  <1>1. /\ subs.list \in Seq(Conns) /\ subs.cap \in Nat /\ Len(subs.list) <= subs.cap
        /\ Len(subs.list) \in Nat
    BY DEF ListInv, ListIsOfMembers
  <1>2. /\ l \in Seq(Conns) /\ Len(l) = Len(subs.list) + 1
        /\ l[Len(subs.list) + 1] = c
        /\ \A k \in 1 .. Len(subs.list) : l[k] = subs.list[k]
    BY <1>1
  <1>3. n \in Nat /\ Len(subs.list) + 1 <= n
    BY <1>1
  <1>4. new = [list |-> l, cap |-> n]
    BY DEF Appended
  <1> HIDE DEF l, n, new
  <1>5. new.list = l /\ new.cap = n /\ new \in [list : Seq(Conns), cap : Nat]
    BY <1>2, <1>3, <1>4
  <1> QED BY <1>2, <1>3, <1>5 DEF new

(* Of a list without repetitions just the one that leaves is taken.          *)
LEMMA RemovedIs ==
    ASSUME ListInv, NEW c \in Conns, On(subs.list, c)
    PROVE  LET new == Removed(subs, c) IN
           /\ new \in [list : Seq(Conns), cap : Nat] /\ Len(new.list) <= new.cap
           /\ Len(new.list) = Len(subs.list) - 1
           /\ \A i, k \in DOMAIN new.list : new.list[i] = new.list[k] => i = k
           /\ \A d \in Conns : (\E k \in DOMAIN new.list : new.list[k] = d)
                               <=> On(subs.list, d) /\ d # c
  <1> DEFINE s == subs.list
             j == Position(subs, c)
             new == Removed(subs, c)
  <1>1. /\ s \in Seq(Conns) /\ subs.cap \in Nat /\ Len(s) <= subs.cap /\ Len(s) \in Nat
        /\ subs \in [list : Seq(Conns), cap : Nat] /\ DOMAIN s = 1 .. Len(s)
        /\ \A i, k \in DOMAIN s : s[i] = s[k] => i = k
    BY DEF ListInv, ListIsOfMembers
  <1>2. j \in DOMAIN s /\ s[j] = c
    BY DEF Position, On
  <1> HIDE DEF j
  <1>3. CASE Len(s) = 1
    <2>1. new = [list |-> <<>>, cap |-> 0]
      BY <1>3 DEF Removed
    <2>2. \A d : On(s, d) => d = c
      BY <1>1, <1>2, <1>3 DEF On
    <2>3. new.list = <<>> /\ new.cap = 0 /\ Len(new.list) = 0 /\ DOMAIN new.list = {}
          /\ new \in [list : Seq(Conns), cap : Nat]
      BY <2>1
    <2> HIDE DEF new, s
    <2> QED BY <2>2, <2>3, <1>3 DEF new, s
  <1>4. CASE Len(s) # 1
    <2> DEFINE t == SX!RemoveAt(s, j)
    <2>1. /\ t \in Seq(Conns) /\ Len(t) = Len(s) - 1
          /\ \A i \in 1 .. Len(s) - 1 : t[i] = IF i < j THEN s[i] ELSE s[i + 1]
      <3>1. j \in 1 .. Len(s)
        BY <1>1, <1>2
      <3>2. s \in Seq(Conns)
        BY <1>1
      <3> HIDE DEF s
      <3> QED BY <3>1, <3>2, RemoveAtIs
    <2>2. new = [subs EXCEPT !.list = t]
      BY <1>4 DEF Removed, j
    <2> HIDE DEF t, new
    <2>3. new.list = t /\ new.cap = subs.cap /\ new \in [list : Seq(Conns), cap : Nat]
      BY <1>1, <2>1, <2>2
    <2>4. DOMAIN t = 1 .. Len(s) - 1
      BY <2>1
    <2>5. ASSUME NEW i \in DOMAIN t, NEW k \in DOMAIN t, t[i] = t[k] PROVE i = k
      <3> DEFINE At(n) == IF n < j THEN n ELSE n + 1
      <3>1. /\ At(i) \in DOMAIN s /\ s[At(i)] = t[i]
            /\ At(k) \in DOMAIN s /\ s[At(k)] = t[k]
        BY <2>1, <2>4, <1>1, <1>2
      <3>2. At(i) = At(k)
        BY <3>1, <2>5, <1>1
      <3> QED BY <3>2, <2>4, <1>1, <1>2
    <2>6. ASSUME NEW i \in DOMAIN t PROVE On(s, t[i]) /\ t[i] # c
      <3>1. CASE i < j
        BY <3>1, <2>1, <2>4, <1>1, <1>2 DEF On
      <3>2. CASE ~(i < j)
        <4>1. i + 1 \in DOMAIN s /\ t[i] = s[i + 1] /\ i + 1 # j
          BY <3>2, <2>1, <2>4, <1>1, <1>2
        <4> QED BY <4>1, <1>1, <1>2 DEF On
      <3> QED BY <3>1, <3>2
    <2>7. ASSUME NEW d \in Conns, On(s, d), d # c PROVE \E k \in DOMAIN t : t[k] = d
      <3>1. PICK i \in DOMAIN s : s[i] = d
        BY <2>7 DEF On
      <3>2. CASE i < j
        <4>1. i \in DOMAIN t /\ t[i] = d
          BY <3>1, <3>2, <2>1, <2>4, <1>1, <1>2
        <4> QED BY <4>1
      <3>3. CASE ~(i < j)
        <4>1. i - 1 \in 1 .. Len(s) - 1 /\ ~(i - 1 < j) /\ (i - 1) + 1 = i
          BY <3>1, <3>3, <2>7, <1>1, <1>2
        <4>2. t[i - 1] = d
          BY <4>1, <3>1, <2>1
        <4> QED BY <4>1, <4>2, <2>4
      <3> QED BY <3>2, <3>3
    <2>8. \A d \in Conns : (\E k \in DOMAIN t : t[k] = d) <=> On(s, d) /\ d # c
      BY <2>6, <2>7
    <2>9. Len(t) <= subs.cap
      BY <2>1, <1>1
    <2> QED BY <2>1, <2>3, <2>5, <2>8, <2>9 DEF new
  <1> QED BY <1>3, <1>4

-----------------------------------------------------------------------------
(* The walks *)

LEMMA IdleRight ==
    /\ Idle \in WalkShape /\ Idle.left = {} /\ Idle.due = {} /\ Idle.list = <<>>
    /\ \A l : WalkRight(Idle, l)
  BY DEF Idle, WalkShape, WalkRight, Covered, Whole, Ahead

(* A walk that an append passes by, or that sees it in its array. *)
LEMMA SeesAppendRight ==
    ASSUME ListInv, NEW c \in Conns, NEW w, WalkRight(w, subs.list)
    PROVE  LET v == SeesAppend(w, subs, c) IN
           WalkRight(v, Appended(subs, c).list) /\ v.left = w.left
  <1> DEFINE l == subs.list
             new == Appended(subs, c).list
             v == SeesAppend(w, subs, c)
  <1>1. /\ l \in Seq(Conns) /\ new \in Seq(Conns) /\ Len(new) = Len(l) + 1
        /\ new[Len(l) + 1] = c /\ \A k \in 1 .. Len(l) : new[k] = l[k]
        /\ Len(l) \in Nat /\ DOMAIN l = 1 .. Len(l) /\ DOMAIN new = 1 .. Len(l) + 1
    BY SMTT(30), AppendedIs DEF ListInv, ListIsOfMembers
  <1>2. /\ w \in WalkShape /\ w.next <= Len(w.list) + 1 /\ Covered(w, l) /\ Whole(w, l)
        /\ w.list \in Seq(Conns) /\ Len(w.list) \in Nat
    BY DEF WalkRight, WalkShape
  <1> HIDE DEF l, new
  <1>3. \A d : On(l, d) => On(new, d)
    BY <1>1 DEF On
  <1>4. On(new, c)
    BY <1>1 DEF On
  <1>5. Covered(w, new)
    BY <1>2, <1>3 DEF Covered
  <1>6. CASE v = w
    <2>1. Whole(w, new)
      BY <1>1, <1>2 DEF Whole
    <2> QED BY <1>2, <1>5, <1>6, <2>1 DEF WalkRight, new
  <1>7. CASE v = [w EXCEPT !.shared = FALSE]
    <2>1. /\ v \in WalkShape /\ v.list = w.list /\ v.next = w.next /\ v.left = w.left
          /\ v.due = w.due /\ ~v.shared
      BY <1>2, <1>7 DEF WalkShape
    <2> HIDE DEF v
    <2>2. Covered(v, new)
      BY <2>1, <1>5 DEF Covered
    <2>3. Whole(v, new)
      BY <2>1, <1>2 DEF Whole, Ahead
    <2> QED BY <2>1, <2>2, <2>3, <1>2 DEF WalkRight, new, v
  <1>8. CASE /\ w.shared /\ Len(w.list) > Len(l)
             /\ v = [w EXCEPT !.list[Len(l) + 1] = c]
    <2>1. w.left # {}
      BY <1>2, <1>8, <1>1 DEF Whole
    <2> DEFINE x == [w.list EXCEPT ![Len(l) + 1] = c]
    <2>2. /\ x \in Seq(Conns) /\ Len(x) = Len(w.list)
          /\ \A k \in DOMAIN x : x[k] = IF k = Len(l) + 1 THEN c ELSE w.list[k]
          /\ DOMAIN x = DOMAIN w.list
      BY <1>1, <1>2, <1>8
    <2>3. v = [w EXCEPT !.list = x]
      BY <1>2, <1>8 DEF WalkShape
    <2> HIDE DEF x, v
    <2>4. /\ v \in WalkShape /\ v.list = x /\ v.next = w.next /\ v.left = w.left
      BY <1>2, <2>2, <2>3 DEF WalkShape
    <2>5. Covered(v, new)
      BY <2>2, <2>4, <1>4, <1>5 DEF Covered
    <2>6. Whole(v, new)
      BY <2>1, <2>4 DEF Whole
    <2> QED BY <2>2, <2>4, <2>5, <2>6, <1>2 DEF WalkRight, new, v
  <1> QED BY <1>6, <1>7, <1>8 DEF SeesAppend, l

(* A walk that a removal passes by, or that sees the tail move down. *)
LEMMA SeesRemoveRight ==
    ASSUME ListInv, NEW c \in Conns, On(subs.list, c), NEW w, WalkRight(w, subs.list)
    PROVE  LET v == SeesRemove(w, subs, c) IN
           WalkRight(v, Removed(subs, c).list) /\ v.left = w.left \cup {c}
  <1> DEFINE l == subs.list
             new == Removed(subs, c).list
             v == SeesRemove(w, subs, c)
             gone == [w EXCEPT !.left = w.left \cup {c}]
  <1>1. /\ new \in Seq(Conns)
        /\ \A d \in Conns : On(new, d) <=> On(l, d) /\ d # c
    BY RemovedIs DEF On
  <1>2. /\ w \in WalkShape /\ w.next <= Len(w.list) + 1 /\ Covered(w, l)
        /\ w.list \in Seq(Conns) /\ \A k \in DOMAIN w.list : w.list[k] \in Conns
    BY DEF WalkRight, WalkShape
  <1> HIDE DEF l, new
  <1>3. /\ gone \in WalkShape /\ gone.list = w.list /\ gone.next = w.next
        /\ gone.left = w.left \cup {c}
    BY <1>2 DEF WalkShape
  <1>4. Covered(gone, new)
    BY <1>1, <1>2, <1>3 DEF Covered
  <1>5. v = gone \/ v = [gone EXCEPT !.shared = FALSE]
        \/ v = [gone EXCEPT !.list = [k \in DOMAIN w.list |->
                                        IF k \in DOMAIN new THEN new[k] ELSE w.list[k]]]
    BY DEF SeesRemove, new
  <1> HIDE DEF gone, v
  <1>6. CASE v = gone
    BY <1>2, <1>3, <1>4, <1>6 DEF WalkRight, Whole, v, new
  <1>7. CASE v = [gone EXCEPT !.shared = FALSE]
    <2>1. /\ v \in WalkShape /\ v.list = gone.list /\ v.next = gone.next
          /\ v.left = gone.left
      BY <1>3, <1>7 DEF WalkShape
    <2>2. Covered(v, new)
      BY <2>1, <1>4 DEF Covered
    <2> QED BY <2>1, <2>2, <1>2, <1>3 DEF WalkRight, Whole, v, new
  <1>8. CASE v = [gone EXCEPT !.list = [k \in DOMAIN w.list |->
                                          IF k \in DOMAIN new THEN new[k] ELSE w.list[k]]]
    <2> DEFINE x == [k \in DOMAIN w.list |-> IF k \in DOMAIN new THEN new[k] ELSE w.list[k]]
    <2>1. \A k \in DOMAIN new : new[k] \in Conns
      BY <1>1
    <2>2. x \in Seq(Conns) /\ Len(x) = Len(w.list) /\ DOMAIN x = DOMAIN w.list
      BY <2>1, <1>2
    <2>3. \A k \in DOMAIN x : x[k] = IF k \in DOMAIN new THEN new[k] ELSE w.list[k]
      OBVIOUS
    <2>4. v = [gone EXCEPT !.list = x]
      BY <1>8
    <2> HIDE DEF x
    <2>5. /\ v \in WalkShape /\ v.list = x /\ v.next = w.next /\ v.left = w.left \cup {c}
      BY <1>3, <2>2, <2>4 DEF WalkShape
    <2>6. Covered(v, new)
      <3> SUFFICES ASSUME NEW k \in DOMAIN x PROVE On(new, x[k]) \/ x[k] \in v.left
        BY <2>5 DEF Covered
      <3>1. CASE k \in DOMAIN new
        BY <3>1, <2>3 DEF On
      <3>2. CASE k \notin DOMAIN new
        BY <3>2, <2>2, <2>3, <2>5, <1>3, <1>4 DEF Covered
      <3> QED BY <3>1, <3>2
    <2> QED BY <2>2, <2>5, <2>6, <1>2 DEF WalkRight, Whole, v, new
  <1> QED BY <1>5, <1>6, <1>7, <1>8

-----------------------------------------------------------------------------
(* The list and its walks: the steps *)

LEMMA ListInit == Init => ListInv
  <1> SUFFICES ASSUME Init PROVE ListInv
    OBVIOUS
  <1>1. \A c \in Conns : ~On(subs.list, c) /\ conns[c] = "none"
    BY DEF Init, On
  <1>2. ListIsOfMembers
    BY <1>1 DEF Init, ListIsOfMembers, ConnStates
  <1>3. \A a \in Actors : sending[a] = Idle
    BY DEF Init
  <1>4. sending \in [Actors -> WalkShape]
    BY IdleRight DEF Init
  <1> QED BY <1>2, <1>3, <1>4, IdleRight DEF ListInv

LEMMA ListSame == ListInv /\ UNCHANGED <<conns, subs, sending>> => ListInv'
  BY DEF ListInv, ListIsOfMembers

(* A step of one walk. *)
LEMMA WalkStep ==
    ASSUME ListInv, NEW a \in Actors, NEW w, WalkRight(w, subs.list),
           sending' = [sending EXCEPT ![a] = w],
           UNCHANGED <<conns, subs>>
    PROVE  ListInv'
  <1>1. w \in WalkShape
    BY DEF WalkRight
  <1>2. /\ sending'[a] = w /\ \A b \in Actors \ {a} : sending'[b] = sending[b]
        /\ sending' \in [Actors -> WalkShape]
    BY <1>1 DEF ListInv
  <1>3. ListIsOfMembers'
    BY DEF ListInv, ListIsOfMembers
  <1>4. \A b \in Actors : WalkRight(sending'[b], subs'.list)
    BY <1>2 DEF ListInv
  <1> QED BY <1>2, <1>3, <1>4 DEF ListInv

LEMMA ReturnsList ==
    ASSUME ListInv, NEW a \in Actors, Returns(a), UNCHANGED <<conns, subs>> PROVE ListInv'
  BY IdleRight, WalkStep DEF Returns

LEMMA BroadcastList ==
    ASSUME ListInv, NEW a \in Actors, NEW e \in Events, Broadcast(a, e),
           UNCHANGED <<conns, subs>>
    PROVE  ListInv'
  <1> DEFINE l == subs.list
             w == IF l = <<>> THEN Idle
                  ELSE [evt |-> e, list |-> l, next |-> 1, shared |-> TRUE, left |-> {},
                        due |-> {l[k] : k \in DOMAIN l}]
  <1>1. l \in Seq(Conns) /\ Len(l) \in Nat /\ DOMAIN l = 1 .. Len(l)
    BY DEF ListInv, ListIsOfMembers
  <1>2. sending' = [sending EXCEPT ![a] = w]
    BY DEF Broadcast
  <1>3. CASE l # <<>>
    <2>1. /\ w \in WalkShape /\ w.list = l /\ w.next = 1 /\ w.due = {l[k] : k \in DOMAIN l}
      BY <1>1, <1>3 DEF WalkShape
    <2> HIDE DEF w, l
    <2>2. Covered(w, l)
      BY <2>1 DEF Covered, On
    <2>3. Whole(w, l)
      BY <2>1, <1>1 DEF Whole, Ahead
    <2>4. WalkRight(w, l)
      BY <2>1, <2>2, <2>3, <1>1 DEF WalkRight
    <2> QED BY <2>4, <1>2, WalkStep DEF l
  <1>4. CASE l = <<>>
    <2>1. w = Idle
      BY <1>4
    <2> HIDE DEF w
    <2> QED BY <2>1, <1>2, IdleRight, WalkStep
  <1> QED BY <1>3, <1>4

LEMMA SendList == ASSUME ListInv, NEW a \in Actors, Send(a) PROVE ListInv'
  <1> DEFINE w == sending[a]
             c == w.list[w.next]
             v == [w EXCEPT !.next = w.next + 1, !.due = w.due \ {c}]
  <1>1. /\ w \in WalkShape /\ WalkRight(w, subs.list) /\ w.next <= Len(w.list)
        /\ w.next \in Nat \ {0} /\ Len(w.list) \in Nat /\ DOMAIN w.list = 1 .. Len(w.list)
    BY DEF ListInv, Send, WalkShape
  <1>2. sending' = [sending EXCEPT ![a] = v] /\ UNCHANGED <<conns, subs>>
    BY DEF Send, ListInv
  <1> HIDE DEF w, c
  <1>3. /\ v \in WalkShape /\ v.list = w.list /\ v.next = w.next + 1
        /\ v.due = w.due \ {c} /\ v.left = w.left /\ v.shared = w.shared
    <2> DEFINE n == w.next + 1
               d == w.due \ {c}
    <2>1. n \in Nat \ {0} /\ d \in SUBSET Conns
      BY <1>1 DEF WalkShape
    <2>2. v = [w EXCEPT !.next = n, !.due = d]
      OBVIOUS
    <2>3. n = w.next + 1 /\ d = w.due \ {c}
      OBVIOUS
    <2> HIDE DEF n, d, v
    <2>4. /\ v \in WalkShape /\ v.list = w.list /\ v.next = n /\ v.due = d
          /\ v.left = w.left /\ v.shared = w.shared
      BY <1>1, <2>1, <2>2 DEF WalkShape
    <2> QED BY <2>3, <2>4
  <1> HIDE DEF v
  <1>4. Covered(v, subs.list)
    BY <1>1, <1>3 DEF WalkRight, Covered
  <1>5. Whole(v, subs.list)
    <2> SUFFICES ASSUME w.left = {}
                 PROVE  (\A d \in v.due : Ahead(v, d)) /\
                        (v.shared => Len(v.list) <= Len(subs.list))
      BY <1>3 DEF Whole
    <2>1. ASSUME NEW d \in v.due PROVE Ahead(v, d)
      <3>1. PICK k \in DOMAIN w.list : k >= w.next /\ w.list[k] = d
        BY <1>1, <1>3 DEF WalkRight, Whole, Ahead
      <3>2. k # w.next
        BY <1>3, <3>1 DEF c
      <3> QED BY <3>1, <3>2, <1>1, <1>3 DEF Ahead
    <2> QED BY <2>1, <1>1, <1>3 DEF WalkRight, Whole
  <1>6. WalkRight(v, subs.list)
    BY <1>1, <1>3, <1>4, <1>5 DEF WalkRight
  <1> QED BY <1>2, <1>6, WalkStep

(* A step that changes the state of one connection and not the list. *)
LEMMA ConnStep ==
    ASSUME ListInv, NEW c \in Conns, NEW st \in ConnStates,
           conns' = [conns EXCEPT ![c] = st],
           st \in {"adding", "open"} <=> conns[c] \in {"adding", "open"},
           UNCHANGED <<subs, sending>>
    PROVE  ListInv'
  <1>1. /\ conns' \in [Conns -> ConnStates] /\ conns'[c] = st
        /\ \A d \in Conns \ {c} : conns'[d] = conns[d]
    BY DEF ListInv, ListIsOfMembers
  <1>2. ListIsOfMembers'
    BY <1>1 DEF ListInv, ListIsOfMembers
  <1> QED BY <1>2 DEF ListInv

LEMMA SubscribeList == ASSUME ListInv, NEW c \in Conns, Subscribe(c) PROVE ListInv'
  <1> DEFINE new == Appended(subs, c)
             st == IF backend = "polling" /\ subs.list = <<>> THEN "adding" ELSE "open"
  <1>1. /\ new \in [list : Seq(Conns), cap : Nat] /\ Len(new.list) <= new.cap
        /\ Len(new.list) = Len(subs.list) + 1 /\ new.list[Len(subs.list) + 1] = c
        /\ \A k \in 1 .. Len(subs.list) : new.list[k] = subs.list[k]
    BY AppendedIs
  <1>2. subs' = new /\ conns' = [conns EXCEPT ![c] = st] /\ conns[c] = "none"
    BY DEF Subscribe
  <1>3. st \in {"adding", "open"}
    OBVIOUS
  <1> HIDE DEF new, st
  <1>4. /\ conns' \in [Conns -> ConnStates] /\ conns'[c] = st
        /\ \A d \in Conns \ {c} : conns'[d] = conns[d]
    BY <1>2, <1>3 DEF ListInv, ListIsOfMembers, ConnStates
  <1>5. /\ DOMAIN new.list = 1 .. Len(subs.list) + 1 /\ Len(subs.list) \in Nat
        /\ DOMAIN subs.list = 1 .. Len(subs.list)
    BY <1>1 DEF ListInv, ListIsOfMembers
  <1>6. ~On(subs.list, c)
    BY <1>2 DEF ListInv, ListIsOfMembers
  <1>7. ListIsOfMembers'
    <2>1. \A d \in Conns : On(new.list, d) <=> On(subs.list, d) \/ d = c
      BY <1>1, <1>5 DEF On
    <2>2. \A d \in Conns : On(new.list, d) <=> conns'[d] \in {"adding", "open"}
      BY <2>1, <1>3, <1>4 DEF ListInv, ListIsOfMembers
    <2>3. ASSUME NEW i \in DOMAIN new.list, NEW k \in DOMAIN new.list,
                 new.list[i] = new.list[k]
          PROVE  i = k
      <3>1. \A n \in 1 .. Len(subs.list) : new.list[n] # c
        BY <1>1, <1>5, <1>6 DEF On
      <3>2. CASE i = Len(subs.list) + 1 \/ k = Len(subs.list) + 1
        BY <3>1, <3>2, <2>3, <1>1, <1>5
      <3>3. CASE i \in 1 .. Len(subs.list) /\ k \in 1 .. Len(subs.list)
        BY <3>3, <2>3, <1>1, <1>5 DEF ListInv, ListIsOfMembers
      <3> QED BY <3>2, <3>3, <1>5
    <2> QED BY <2>2, <2>3, <1>1, <1>2, <1>4 DEF ListIsOfMembers
  <1>8. \A a \in Actors :
          WalkRight(sending'[a], new.list) /\ sending'[a] \in WalkShape
    <2> TAKE a \in Actors
    <2>1. CASE Sending(a)
      <3>1. sending'[a] = SeesAppend(sending[a], subs, c)
        BY <2>1 DEF Subscribe
      <3>2. WalkRight(sending[a], subs.list)
        BY DEF ListInv
      <3> QED BY <3>1, <3>2, SeesAppendRight DEF WalkRight, new
    <2>2. CASE ~Sending(a)
      <3>1. sending'[a] = Idle
        BY <2>2 DEF Subscribe
      <3> QED BY <3>1, IdleRight
    <2> QED BY <2>1, <2>2
  <1>9. sending' \in [Actors -> WalkShape]
    <2>1. sending' = [a \in Actors |-> sending'[a]]
      BY DEF Subscribe
    <2> QED BY <2>1, <1>8
  <1> QED BY <1>2, <1>7, <1>8, <1>9 DEF ListInv

LEMMA UnsubscribeList == ASSUME ListInv, NEW c \in Conns, Unsubscribe(c) PROVE ListInv'
  <1> DEFINE new == Removed(subs, c)
             st == IF backend = "polling" /\ new.list = <<>> THEN "removing" ELSE "draining"
  <1>1. On(subs.list, c) /\ conns[c] = "open"
    BY DEF ListInv, ListIsOfMembers, Unsubscribe
  <1>2. /\ new \in [list : Seq(Conns), cap : Nat] /\ Len(new.list) <= new.cap
        /\ \A i, k \in DOMAIN new.list : new.list[i] = new.list[k] => i = k
        /\ \A d \in Conns : On(new.list, d) <=> On(subs.list, d) /\ d # c
    BY <1>1, RemovedIs DEF On
  <1>3. subs' = new /\ conns' = [conns EXCEPT ![c] = st]
    BY DEF Unsubscribe
  <1>4. st \in {"removing", "draining"}
    OBVIOUS
  <1> HIDE DEF new, st
  <1>5. /\ conns' \in [Conns -> ConnStates] /\ conns'[c] = st
        /\ \A d \in Conns \ {c} : conns'[d] = conns[d]
    BY <1>3, <1>4 DEF ListInv, ListIsOfMembers, ConnStates
  <1>6. ListIsOfMembers'
    <2>1. \A d \in Conns : On(new.list, d) <=> conns'[d] \in {"adding", "open"}
      BY <1>2, <1>4, <1>5 DEF ListInv, ListIsOfMembers
    <2> QED BY <2>1, <1>2, <1>3, <1>5 DEF ListIsOfMembers
  <1>7. \A a \in Actors :
          WalkRight(sending'[a], new.list) /\ sending'[a] \in WalkShape
    <2> TAKE a \in Actors
    <2>1. CASE Sending(a)
      <3>1. sending'[a] = SeesRemove(sending[a], subs, c)
        BY <2>1 DEF Unsubscribe
      <3>2. WalkRight(sending[a], subs.list)
        BY DEF ListInv
      <3> QED BY <3>1, <3>2, <1>1, SeesRemoveRight DEF WalkRight, new
    <2>2. CASE ~Sending(a)
      <3>1. sending'[a] = Idle
        BY <2>2 DEF Unsubscribe
      <3> QED BY <3>1, IdleRight
    <2> QED BY <2>1, <2>2
  <1>8. sending' \in [Actors -> WalkShape]
    <2>1. sending' = [a \in Actors |-> sending'[a]]
      BY DEF Unsubscribe
    <2> QED BY <2>1, <1>7
  <1> QED BY <1>3, <1>6, <1>7, <1>8 DEF ListInv

-----------------------------------------------------------------------------
(* The types of the rest *)

LEMMA EnqueuedShape ==
    ASSUME RestShapes, NEW e \in Events
    PROVE  /\ Enqueued(e) \subseteq Events /\ IsFiniteSet(Enqueued(e))
           /\ Cardinality(Enqueued(e)) <= QueueSize
           /\ Enqueued(e) \subseteq queue \cup {e}
  <1>1. /\ queue \subseteq Events /\ IsFiniteSet(queue) /\ Cardinality(queue) <= QueueSize
        /\ QueueSize \in Nat
    BY BroadcasterAssumption DEF RestShapes
  <1>2. Cardinality(queue) \in Nat
    BY <1>1, FS_CardinalityType
  <1>3. CASE Cardinality(queue) < QueueSize
    <2>1. /\ IsFiniteSet(queue \cup {e})
          /\ Cardinality(queue \cup {e}) =
               IF e \in queue THEN Cardinality(queue) ELSE Cardinality(queue) + 1
      BY <1>1, FS_AddElement
    <2>2. Cardinality(queue \cup {e}) <= QueueSize
      BY <2>1, <1>1, <1>2, <1>3
    <2> QED BY <2>1, <2>2, <1>1, <1>3 DEF Enqueued
  <1>4. CASE ~(Cardinality(queue) < QueueSize)
    BY <1>1, <1>4 DEF Enqueued
  <1> QED BY <1>3, <1>4

LEMMA LessShape ==
    ASSUME RestShapes, NEW new \in SUBSET queue
    PROVE  IsFiniteSet(new) /\ Cardinality(new) <= QueueSize
  <1>1. /\ IsFiniteSet(new) /\ Cardinality(new) <= Cardinality(queue)
        /\ Cardinality(new) \in Nat /\ Cardinality(queue) \in Nat
    BY FS_Subset, FS_CardinalityType DEF RestShapes
  <1> QED BY <1>1, BroadcasterAssumption DEF RestShapes

LEMMA NoPollerShape ==
    /\ NoPoller \in PollerShape /\ NoPoller.batch = {} /\ NoPoller.pc = "off"
    /\ [NoPoller EXCEPT !.pc = "waiting"] \in PollerShape
    /\ [NoPoller EXCEPT !.pc = "waiting"].batch = {}
    /\ [NoPoller EXCEPT !.pc = "waiting"].pc = "waiting"
  BY BroadcasterAssumption DEF NoPoller, PollerShape

LEMMA RestInit == Init => RestShapes
  <1> SUFFICES ASSUME Init PROVE RestShapes
    OBVIOUS
  <1>1. /\ 0 \in 0 .. MaxTime /\ Cardinality({}) = 0 /\ IsFiniteSet({})
        /\ QueueSize \in Nat
    BY BroadcasterAssumption, FS_EmptySet
  <1>2. /\ backend \in {"polling", "redis"} /\ backend \in Backends /\ up \in BOOLEAN
        /\ crashed \in BOOLEAN /\ clock \in 0 .. MaxTime /\ lastPollTime \in 0 .. MaxTime
        /\ started \in 0 .. MaxTime /\ polling \in BOOLEAN /\ listening \in BOOLEAN
    BY <1>1, BroadcasterAssumption DEF Init
  <1>3. /\ records \in [Events -> {"none", "sending", "publishing", "done"}]
        /\ created \in [Events -> 0 .. MaxTime] /\ rounds \in [Events -> Nat]
        /\ pollers \in [Pollers -> PollerShape]
    BY <1>1, NoPollerShape DEF Init
  <1>4. queue = {} /\ db = {} /\ wire = {} /\ recent = {} /\ passed = {}
    BY DEF Init
  <1>5. IsFiniteSet(queue) /\ Cardinality(queue) <= QueueSize
    BY <1>1, <1>4
  <1> QED BY <1>2, <1>3, <1>4, <1>5 DEF RestShapes

(* What a broadcast counts. *)
LEMMA RoundsShape ==
    ASSUME RestShapes, NEW a \in Actors, NEW e \in Events, Broadcast(a, e)
    PROVE  /\ rounds' \in [Events -> Nat] /\ rounds'[e] = rounds[e] + 1
           /\ \A f \in Events \ {e} : rounds'[f] = rounds[f]
  BY DEF RestShapes, Broadcast

LEMMA ProcessShape ==
    ASSUME RestShapes, NEW a \in Actors, NEW e \in Events, ShouldProcess(a, e)
    PROVE  /\ rounds' \in [Events -> Nat] /\ recent' = recent \cup {e}
           /\ \A f \in Events :
                rounds'[f] = rounds[f] + IF f = e /\ e \notin recent THEN 1 ELSE 0
  <1>1. CASE e \in recent
    BY <1>1 DEF RestShapes, ShouldProcess
  <1>2. CASE e \notin recent
    <2>1. recent' = recent \cup {e} /\ Broadcast(a, e)
      BY <1>2 DEF ShouldProcess
    <2>2. \A f \in Events : rounds[f] \in Nat
      BY DEF RestShapes
    <2> QED BY <2>1, <2>2, <1>2, RoundsShape
  <1> QED BY <1>1, <1>2

LEMMA RestNext ==
    ASSUME RestShapes, Next PROVE RestShapes'
  <1> USE DEF time, store, poll, redis, walks
  <1>0. Events \subseteq Actors /\ Pollers \subseteq Actors /\ Loop \in Actors
    BY DEF Actors
  <1>1. ASSUME Tick PROVE RestShapes'
    BY <1>1, BroadcasterAssumption DEF Tick, RestShapes
  <1>2. ASSUME NEW c \in Conns, Subscribe(c) \/ Unsubscribe(c) \/ Close(c) PROVE RestShapes'
    BY <1>2 DEF Subscribe, Unsubscribe, Close, RestShapes
  <1>3. ASSUME NEW c \in Conns, StartPolling(c) PROVE RestShapes'
    <2>1. CASE polling
      BY <1>3, <2>1 DEF StartPolling, RestShapes
    <2>2. CASE ~polling
      <3>1. PICK p \in Pollers : pollers' = [pollers EXCEPT ![p].pc = "waiting"]
        BY <1>3, <2>2 DEF StartPolling
      <3>2. pollers' \in [Pollers -> PollerShape]
        BY <3>1 DEF RestShapes, PollerShape
      <3> QED BY <1>3, <2>2, <3>2 DEF StartPolling, RestShapes
    <2> QED BY <2>1, <2>2
  <1>4. ASSUME NEW c \in Conns, StopPolling(c) PROVE RestShapes'
    BY <1>4 DEF StopPolling, RestShapes
  <1>5. ASSUME NEW a \in Actors, Send(a) PROVE RestShapes'
    BY <1>5 DEF Send, RestShapes
  <1>20. ASSUME NEW a \in Actors, SendPanics(a) PROVE RestShapes'
    <2>1. crashed' \in BOOLEAN
      BY <1>20 DEF SendPanics
    <2>2. records' \in [Events -> {"none", "sending", "publishing", "done"}]
      BY <1>20 DEF SendPanics, RestShapes
    <2> QED BY <1>20, <2>1, <2>2 DEF SendPanics, RestShapes
  <1>6. ASSUME NEW e \in Events, RecordPolling(e) PROVE RestShapes'
    BY <1>6, <1>0, RoundsShape DEF RecordPolling, RestShapes
  <1>7. ASSUME NEW e \in Events, RecordQueue(e) PROVE RestShapes'
    BY <1>7, EnqueuedShape DEF RecordQueue, RestShapes
  <1>8. ASSUME NEW e \in Events, RecordRedis(e) PROVE RestShapes'
    BY <1>8, EnqueuedShape DEF RecordRedis, RestShapes
  <1>9. ASSUME NEW e \in Events, Publish(e) \/ PublishFails(e) PROVE RestShapes'
    BY <1>9 DEF Publish, PublishFails, RestShapes
  <1>10. ASSUME NEW e \in Events, Insert(e) PROVE RestShapes'
    <2>1. /\ queue' = queue \ {e} /\ e \in queue
          /\ db' \subseteq db \cup {e} /\ passed' \subseteq passed \cup {e}
      BY <1>10 DEF Insert
    <2>2. IsFiniteSet(queue') /\ Cardinality(queue') <= QueueSize
      BY <2>1, LessShape
    <2> QED BY <1>10, <2>1, <2>2 DEF Insert, RestShapes
  <1>11. ASSUME NEW e \in Events, ListenReceive(e) PROVE RestShapes'
    BY <1>11, <1>0, ProcessShape DEF ListenReceive, RestShapes
  <1>12. ASSUME NEW p \in Pollers, PollTick(p) \/ PollFails(p) PROVE RestShapes'
    <2>1. pollers' \in [Pollers -> PollerShape]
      BY <1>12, NoPollerShape DEF PollTick, PollFails, RestShapes, PollerShape
    <2> QED BY <1>12, <2>1 DEF PollTick, PollFails, RestShapes
  <1>13. ASSUME NEW p \in Pollers, PollQuery(p) PROVE RestShapes'
    <2> DEFINE found == {e \in db : created[e] > lastPollTime}
    <2>1. PICK batch \in SUBSET found :
             /\ pollers' = [pollers EXCEPT ![p].pc = "queried", ![p].batch = batch]
             /\ passed' = passed \cup (found \ batch)
      BY <1>13 DEF PollQuery
    <2>2. found \subseteq Events /\ batch \subseteq Events
      BY DEF RestShapes
    <2> HIDE DEF found
    <2>3. pollers' \in [Pollers -> PollerShape] /\ passed' \subseteq Events
      BY ZenonT(40), <2>1, <2>2 DEF RestShapes, PollerShape
    <2> QED BY <1>13, <2>3 DEF PollQuery, RestShapes
  <1>14. ASSUME NEW p \in Pollers, PollCursor(p) PROVE RestShapes'
    <2>1. pollers' \in [Pollers -> PollerShape] /\ lastPollTime' \in 0 .. MaxTime
      BY <1>14 DEF PollCursor, RestShapes, PollerShape
    <2> QED BY <1>14, <2>1 DEF PollCursor, RestShapes
  <1>15. ASSUME NEW p \in Pollers, PollDeliver(p) PROVE RestShapes'
    <2>1. PICK e \in pollers[p].batch :
             /\ pollers' = [pollers EXCEPT ![p].batch = @ \ {e}]
             /\ ShouldProcess(p, e)
      BY <1>15 DEF PollDeliver
    <2>2. e \in Events
      BY DEF RestShapes, PollerShape
    <2>3. pollers' \in [Pollers -> PollerShape]
      BY <2>1 DEF RestShapes, PollerShape
    <2>4. rounds' \in [Events -> Nat] /\ recent' \subseteq Events
      BY <2>1, <2>2, <1>0, ProcessShape DEF RestShapes
    <2> QED BY <1>15, <2>3, <2>4 DEF PollDeliver, RestShapes
  <1>16. ASSUME NEW p \in Pollers, PollEnd(p) PROVE RestShapes'
    BY <1>16, NoPollerShape DEF PollEnd, RestShapes
  <1>17. ASSUME Listen \/ ListenLost PROVE RestShapes'
    BY <1>17 DEF Listen, ListenLost, RestShapes
  <1>18. ASSUME Shutdown PROVE RestShapes'
    BY <1>18 DEF Shutdown, RestShapes
  <1>19. ASSUME WorkersEnd PROVE RestShapes'
    BY <1>19, LessShape DEF WorkersEnd, RestShapes
  <1> QED BY <1>1, <1>2, <1>3, <1>4, <1>5, <1>6, <1>7, <1>8, <1>9, <1>10, <1>11, <1>12, <1>13,
             <1>14, <1>15, <1>16, <1>17, <1>18, <1>19, <1>20 DEF Next, Step

LEMMA ListNext ==
    ASSUME ListInv, RestShapes, Next PROVE ListInv'
  <1> USE DEF time, store, poll, redis, walks
  <1>0. Events \subseteq Actors /\ Pollers \subseteq Actors /\ Loop \in Actors
    BY DEF Actors
  <1>1. ASSUME NEW c \in Conns, Close(c) PROVE ListInv'
    <2>1. /\ conns' = [conns EXCEPT ![c] = "closed"] /\ conns[c] = "draining"
          /\ "closed" \in ConnStates /\ UNCHANGED <<subs, sending>>
      BY <1>1 DEF Close, ConnStates
    <2> QED BY <2>1, ConnStep
  <1>2. ASSUME NEW c \in Conns, StartPolling(c) PROVE ListInv'
    <2>1. /\ conns' = [conns EXCEPT ![c] = "open"] /\ conns[c] = "adding"
          /\ "open" \in ConnStates /\ UNCHANGED <<subs, sending>>
      BY <1>2 DEF StartPolling, ConnStates
    <2> QED BY <2>1, ConnStep
  <1>3. ASSUME NEW c \in Conns, StopPolling(c) PROVE ListInv'
    <2>1. /\ conns' = [conns EXCEPT ![c] = "draining"] /\ conns[c] = "removing"
          /\ "draining" \in ConnStates /\ UNCHANGED <<subs, sending>>
      BY <1>3 DEF StopPolling, ConnStates
    <2> QED BY <2>1, ConnStep
  <1>4. ASSUME NEW e \in Events, RecordPolling(e) PROVE ListInv'
    BY <1>4, <1>0, BroadcastList DEF RecordPolling
  <1>5. ASSUME NEW e \in Events, RecordQueue(e) PROVE ListInv'
    BY <1>5, <1>0, ReturnsList DEF RecordQueue
  <1>6. ASSUME NEW p \in Pollers, PollEnd(p) PROVE ListInv'
    BY <1>6, <1>0, ReturnsList DEF PollEnd
  <1>7. ASSUME ListenLost PROVE ListInv'
    BY <1>7, <1>0, ReturnsList DEF ListenLost
  <1>8. ASSUME NEW a \in Actors, NEW e \in Events, ShouldProcess(a, e),
               UNCHANGED <<conns, subs>>
        PROVE  ListInv'
    BY <1>8, ReturnsList, BroadcastList DEF ShouldProcess
  <1>9. ASSUME NEW p \in Pollers, PollDeliver(p) PROVE ListInv'
    <2>1. PICK e \in pollers[p].batch : ShouldProcess(p, e)
      BY <1>9 DEF PollDeliver
    <2>2. e \in Events
      BY DEF RestShapes, PollerShape
    <2> QED BY <1>9, <2>1, <2>2, <1>0, <1>8 DEF PollDeliver
  <1>10. ASSUME NEW e \in Events, ListenReceive(e) PROVE ListInv'
    BY <1>10, <1>0, <1>8 DEF ListenReceive
  <1>11. ASSUME Tick \/ Listen \/ Shutdown \/ WorkersEnd PROVE ListInv'
    BY <1>11, ListSame DEF Tick, Listen, Shutdown, WorkersEnd
  <1>12. ASSUME NEW e \in Events, RecordRedis(e) \/ Publish(e) \/ PublishFails(e) \/ Insert(e)
         PROVE  ListInv'
    BY <1>12, ListSame DEF RecordRedis, Publish, PublishFails, Insert
  <1>13. ASSUME NEW p \in Pollers,
                PollTick(p) \/ PollQuery(p) \/ PollFails(p) \/ PollCursor(p)
         PROVE  ListInv'
    BY <1>13, ListSame DEF PollTick, PollQuery, PollFails, PollCursor
  <1>14. ASSUME NEW a \in Actors, SendPanics(a) PROVE ListInv'
    BY <1>14, ReturnsList DEF SendPanics
  <1> QED BY <1>1, <1>2, <1>3, <1>4, <1>5, <1>6, <1>7, <1>9, <1>10, <1>11, <1>12, <1>13,
             <1>14, SubscribeList, UnsubscribeList, SendList DEF Next, Step

-----------------------------------------------------------------------------
(* How often an event is sent *)

LEMMA RoundsNext ==
    ASSUME RestShapes, RoundsCounted, Next PROVE RoundsCounted'
  <1> USE DEF time, store, poll, redis, walks
  <1>0. Events \subseteq Actors /\ Pollers \subseteq Actors /\ Loop \in Actors
    BY DEF Actors
  (* A step that sends nothing may record an event, and no more. *)
  <1>1. ASSUME UNCHANGED <<rounds, recent, backend>>,
               \A e \in Events : records[e] # "none" => records'[e] # "none"
        PROVE  RoundsCounted'
    <2> SUFFICES ASSUME NEW e \in Events PROVE rounds[e] <= Recorded(e)' + Marked(e)'
      BY <1>1 DEF RoundsCounted
    <2>1. rounds[e] \in Nat /\ rounds[e] <= Recorded(e) + Marked(e)
      BY DEF RestShapes, RoundsCounted
    <2>2. Marked(e)' = Marked(e)
      BY <1>1 DEF Marked
    <2>3. Recorded(e) = 1 => Recorded(e)' = 1
      BY <1>1 DEF Recorded
    <2>4. Recorded(e) \in {0, 1} /\ Recorded(e)' \in {0, 1} /\ Marked(e) \in {0, 1}
      BY DEF Recorded, Marked
    <2> QED BY <2>1, <2>2, <2>3, <2>4
  <1>2. ASSUME NEW a \in Actors, NEW e \in Events, ShouldProcess(a, e),
               UNCHANGED <<backend, records>>
        PROVE  RoundsCounted'
    <2> SUFFICES ASSUME NEW f \in Events PROVE rounds'[f] <= Recorded(f)' + Marked(f)'
      BY DEF RoundsCounted
    <2>1. rounds[f] \in Nat /\ rounds[f] <= Recorded(f) + Marked(f)
      BY DEF RestShapes, RoundsCounted
    <2>2. Recorded(f)' = Recorded(f) /\ Recorded(f) \in {0, 1}
      BY <1>2 DEF Recorded
    <2>3. /\ rounds'[f] = rounds[f] + IF f = e /\ e \notin recent THEN 1 ELSE 0
          /\ recent' = recent \cup {e}
      BY <1>2, ProcessShape
    <2>4. Marked(f)' = Marked(f) + IF f = e /\ e \notin recent THEN 1 ELSE 0
      BY <2>3 DEF Marked
    <2>5. Marked(f) \in {0, 1}
      BY DEF Marked
    <2> QED BY <2>1, <2>2, <2>3, <2>4, <2>5
  <1>3. ASSUME NEW e \in Events, RecordPolling(e) PROVE RoundsCounted'
    <2> SUFFICES ASSUME NEW f \in Events PROVE rounds'[f] <= Recorded(f)' + Marked(f)'
      BY DEF RoundsCounted
    <2>1. rounds[f] \in Nat /\ rounds[f] <= Recorded(f) + Marked(f)
      BY DEF RestShapes, RoundsCounted
    <2>2. Marked(f)' = Marked(f) /\ Marked(f) \in {0, 1}
      BY <1>3 DEF RecordPolling, Marked
    <2>3. rounds'[f] = rounds[f] + IF f = e THEN 1 ELSE 0
      BY <1>0, <1>3, <2>1, RoundsShape DEF RecordPolling
    <2>4. records[e] = "none" /\ records' = [records EXCEPT ![e] = "sending"]
          /\ backend = "polling" /\ backend' = backend
      BY <1>3 DEF RecordPolling
    <2>5. Recorded(f)' = Recorded(f) + IF f = e THEN 1 ELSE 0
      BY <2>4 DEF RestShapes, Recorded
    <2>6. Recorded(f) \in {0, 1}
      BY DEF Recorded
    <2> QED BY <2>1, <2>2, <2>3, <2>5, <2>6
  <1>4. ASSUME NEW e \in Events, RecordQueue(e) \/ RecordRedis(e) \/ PublishFails(e)
                                   \/ Publish(e)
        PROVE  RoundsCounted'
    <2>1. PICK st \in {"publishing", "done"} : records' = [records EXCEPT ![e] = st]
      BY <1>4 DEF RecordQueue, RecordRedis, PublishFails, Publish
    <2>2. \A f \in Events : records[f] # "none" => records'[f] # "none"
      BY <2>1 DEF RestShapes
    <2> QED BY <1>1, <1>4, <2>2 DEF RecordQueue, RecordRedis, PublishFails, Publish
  <1>5. ASSUME NEW e \in Events, ListenReceive(e) PROVE RoundsCounted'
    BY <1>0, <1>2, <1>5 DEF ListenReceive
  <1>6. ASSUME NEW p \in Pollers, PollDeliver(p) PROVE RoundsCounted'
    <2>1. PICK e \in pollers[p].batch : ShouldProcess(p, e)
      BY <1>6 DEF PollDeliver
    <2>2. e \in Events
      BY DEF RestShapes, PollerShape
    <2> QED BY <1>6, <2>1, <2>2, <1>0, <1>2 DEF PollDeliver
  <1>7. ASSUME UNCHANGED <<rounds, recent, backend, records>> PROVE RoundsCounted'
    BY <1>1, <1>7
  <1>8. ASSUME Tick \/ Listen \/ ListenLost \/ Shutdown \/ WorkersEnd PROVE RoundsCounted'
    BY <1>7, <1>8 DEF Tick, Listen, ListenLost, Shutdown, WorkersEnd
  <1>9. ASSUME NEW c \in Conns, Subscribe(c) \/ Unsubscribe(c) \/ Close(c)
                                  \/ StartPolling(c) \/ StopPolling(c)
        PROVE  RoundsCounted'
    BY <1>7, <1>9 DEF Subscribe, Unsubscribe, Close, StartPolling, StopPolling
  <1>10. ASSUME NEW p \in Pollers, PollTick(p) \/ PollQuery(p) \/ PollFails(p)
                                     \/ PollCursor(p) \/ PollEnd(p)
         PROVE  RoundsCounted'
    BY <1>7, <1>10 DEF PollTick, PollQuery, PollFails, PollCursor, PollEnd
  <1>13. ASSUME NEW a \in Actors, SendPanics(a) PROVE RoundsCounted'
    <2>1. \A e \in Events : records[e] # "none" => records'[e] # "none"
      BY <1>13 DEF SendPanics, RestShapes
    <2> QED BY <1>13, <2>1, <1>1 DEF SendPanics
  <1>11. ASSUME NEW a \in Actors, Send(a) PROVE RoundsCounted'
    BY <1>7, <1>11 DEF Send
  <1>12. ASSUME NEW e \in Events, Insert(e) PROVE RoundsCounted'
    BY <1>7, <1>12 DEF Insert
  <1> QED BY <1>3, <1>4, <1>5, <1>6, <1>8, <1>9, <1>10, <1>11, <1>12,
             <1>13 DEF Next, Step

-----------------------------------------------------------------------------
(* What the cursor passes *)

LEMMA CursorInit == Init => CursorInv
  <1> SUFFICES ASSUME Init PROVE CursorInv
    OBVIOUS
  <1>1. /\ queue = {} /\ db = {} /\ \A p \in Pollers : pollers[p] = NoPoller
        /\ \A e \in Events : created[e] = 0
        /\ clock = 0
    BY DEF Init
  <1> QED BY <1>1, NoPollerShape DEF CursorInv, StoredWereRecorded, CreatedBefore, BatchesEmpty,
             CursorRight, PollsRight, Polled

(* A step that leaves the rows, the cursor and the polls alone. *)
LEMMA CursorFrame ==
    ASSUME RestShapes, CursorInv, UNCHANGED <<db, lastPollTime, started, pollers>>,
           recent \subseteq recent', passed \subseteq passed',
           \A e \in queue' \cup db : records'[e] # "none",
           \A e \in Events : created'[e] <= clock',
           \A e \in db : created'[e] = created[e]
    PROVE  CursorInv'
  <1>1. \A e : Explained(e) => Explained(e)'
    BY DEF Explained
  <1>2. StoredWereRecorded' /\ CreatedBefore' /\ BatchesEmpty'
    BY DEF CursorInv, StoredWereRecorded, CreatedBefore, BatchesEmpty, Polled
  <1>3. CursorRight' /\ PollsRight'
    BY <1>1 DEF CursorInv, CursorRight, PollsRight
  <1> QED BY <1>2, <1>3 DEF CursorInv

(* A step of a poller that keeps the rows: nothing it had is lost, and what  *)
(* its poll is to pass is explained.                                         *)
LEMMA PollerFrame ==
    ASSUME RestShapes, CursorInv, NEW p \in Pollers, NEW r \in PollerShape,
           pollers' = [pollers EXCEPT ![p] = r],
           UNCHANGED <<queue, db, records, created, clock, started>>,
           recent \subseteq recent', passed \subseteq passed',
           \A e \in pollers[p].batch : e \in r.batch \/ e \in recent',
           r.pc \notin {"queried", "delivering"} => r.batch = {},
           r.pc = "queried" => \A e \in db :
               created[e] > started /\ created[e] <= r.now => Explained(e)',
           \A e \in db : created[e] > started /\ created[e] <= lastPollTime' =>
               Explained(e)' \/ created[e] <= lastPollTime
    PROVE  CursorInv'
  <1>1. /\ pollers'[p] = r /\ \A q \in Pollers \ {p} : pollers'[q] = pollers[q]
    BY DEF RestShapes
  <1>2. ASSUME NEW e, Explained(e) PROVE Explained(e)'
    <2>1. CASE e \in recent \cup passed
      BY <2>1 DEF Explained
    <2>2. CASE e \notin recent \cup passed
      <3>1. PICK q \in Pollers : e \in pollers[q].batch
        BY <1>2, <2>2 DEF Explained
      <3>2. CASE q = p
        BY <3>1, <3>2, <1>1 DEF Explained
      <3>3. CASE q # p
        BY <3>1, <3>3, <1>1 DEF Explained
      <3> QED BY <3>2, <3>3
    <2> QED BY <2>1, <2>2
  <1>3. StoredWereRecorded' /\ CreatedBefore'
    BY DEF CursorInv, StoredWereRecorded, CreatedBefore
  <1>4. BatchesEmpty'
    BY <1>1 DEF CursorInv, BatchesEmpty, Polled
  <1>5. CursorRight'
    <2> SUFFICES ASSUME NEW e \in db, created[e] > started, created[e] <= lastPollTime'
                 PROVE  Explained(e)'
      BY DEF CursorRight
    <2> QED BY <1>2 DEF CursorInv, CursorRight
  <1>6. PollsRight'
    <2> SUFFICES ASSUME NEW q \in Pollers, pollers'[q].pc = "queried", NEW e \in db,
                        created[e] > started, created[e] <= pollers'[q].now
                 PROVE  Explained(e)'
      BY DEF PollsRight
    <2>1. CASE q = p
      BY <2>1, <1>1
    <2>2. CASE q # p
      BY <2>2, <1>1, <1>2 DEF CursorInv, PollsRight
    <2> QED BY <2>1, <2>2
  <1> QED BY <1>3, <1>4, <1>5, <1>6 DEF CursorInv

LEMMA InsertCursor ==
    ASSUME RestShapes, CursorInv, NEW e \in Events, Insert(e) PROVE CursorInv'
  <1>1. /\ e \in queue /\ queue' = queue \ {e} /\ db' \subseteq db \cup {e}
        /\ passed \subseteq passed'
        /\ UNCHANGED <<clock, records, created, lastPollTime, started, pollers, recent>>
    BY DEF Insert, time, poll
  <1>2. e \in db' \ db /\ (\/ created[e] <= lastPollTime
                           \/ \E p \in Pollers : Polled(p) /\ created[e] <= pollers[p].now)
        => e \in passed'
    BY DEF Insert
  <1>3. \A f : Explained(f) => Explained(f)'
    BY <1>1 DEF Explained
  <1>4. StoredWereRecorded' /\ CreatedBefore' /\ BatchesEmpty'
    BY <1>1 DEF CursorInv, StoredWereRecorded, CreatedBefore, BatchesEmpty, Polled
  <1>5. CursorRight'
    <2> SUFFICES ASSUME NEW f \in db', created[f] > started, created[f] <= lastPollTime
                 PROVE  Explained(f)'
      BY <1>1 DEF CursorRight
    <2>1. CASE f \in db
      BY <2>1, <1>3 DEF CursorInv, CursorRight
    <2>2. CASE f \notin db
      BY <2>2, <1>1, <1>2 DEF Explained
    <2> QED BY <2>1, <2>2
  <1>6. PollsRight'
    <2> SUFFICES ASSUME NEW q \in Pollers, pollers[q].pc = "queried", NEW f \in db',
                        created[f] > started, created[f] <= pollers[q].now
                 PROVE  Explained(f)'
      BY <1>1 DEF PollsRight
    <2>1. CASE f \in db
      BY <2>1, <1>3 DEF CursorInv, PollsRight
    <2>2. CASE f \notin db
      BY <2>2, <1>1, <1>2 DEF Explained, Polled
    <2> QED BY <2>1, <2>2
  <1> QED BY <1>4, <1>5, <1>6 DEF CursorInv

(* Polling begins at the present time: no event is younger. *)
LEMMA StartCursor ==
    ASSUME RestShapes, CursorInv, NEW c \in Conns, StartPolling(c) PROVE CursorInv'
  <1> USE DEF time, store, poll
  <1>1. CASE polling
    <2>1. UNCHANGED <<clock, db, queue, records, created, lastPollTime, started, pollers,
                      recent, passed>>
      BY <1>1 DEF StartPolling
    <2> QED BY <2>1, CursorFrame DEF CursorInv, StoredWereRecorded, CreatedBefore
  <1>2. CASE ~polling
    <2>1. /\ lastPollTime' = clock /\ started' = clock
          /\ UNCHANGED <<clock, db, queue, records, created, recent, passed>>
      BY <1>2 DEF StartPolling
    <2>2. PICK p \in Pollers : /\ pollers[p].pc = "off"
                               /\ pollers' = [pollers EXCEPT ![p].pc = "waiting"]
      BY <1>2 DEF StartPolling
    <2>3. /\ pollers'[p].pc = "waiting" /\ pollers'[p].batch = pollers[p].batch
          /\ \A q \in Pollers \ {p} : pollers'[q] = pollers[q]
      BY <2>2 DEF RestShapes, PollerShape
    <2>4. StoredWereRecorded' /\ CreatedBefore'
      BY <2>1 DEF CursorInv, StoredWereRecorded, CreatedBefore
    <2>5. BatchesEmpty'
      BY <2>2, <2>3 DEF CursorInv, BatchesEmpty, Polled
    <2>6. \A e \in db' : ~(created'[e] > started')
      <3>1. \A e \in db : created[e] <= clock /\ created[e] \in Nat /\ clock \in Nat
        BY BroadcasterAssumption DEF RestShapes, CursorInv, CreatedBefore
      <3> QED BY <3>1, <2>1
    <2> QED BY <2>4, <2>5, <2>6 DEF CursorInv, CursorRight, PollsRight
  <1> QED BY <1>1, <1>2

LEMMA PollQueryCursor ==
    ASSUME RestShapes, CursorInv, NEW p \in Pollers, PollQuery(p) PROVE CursorInv'
  <1> DEFINE found == {e \in db : created[e] > lastPollTime}
  <1>1. PICK batch \in SUBSET found :
           /\ pollers' = [pollers EXCEPT ![p].pc = "queried", ![p].batch = batch]
           /\ passed' = passed \cup (found \ batch)
    BY DEF PollQuery
  <1> DEFINE r == [pollers[p] EXCEPT !.pc = "queried", !.batch = batch]
  <1>2. /\ pollers[p].pc = "querying" /\ lastPollTime' = lastPollTime
        /\ UNCHANGED <<queue, db, records, created, clock, started, recent>>
    BY DEF PollQuery, time, store
  <1>3. pollers[p] \in PollerShape /\ batch \subseteq Events
    BY DEF RestShapes
  <1>4. r \in PollerShape /\ r.pc = "queried" /\ r.batch = batch /\ r.now = pollers[p].now
    BY <1>3 DEF PollerShape
  <1>5. pollers' = [pollers EXCEPT ![p] = r]
    BY <1>1 DEF RestShapes
  <1> HIDE DEF r
  <1>6. pollers[p].batch = {}
    BY <1>2 DEF CursorInv, BatchesEmpty, Polled
  <1>7. pollers'[p] = r /\ \A q \in Pollers \ {p} : pollers'[q] = pollers[q]
    BY <1>5 DEF RestShapes
  <1>8. \A e \in db : created[e] > started /\ created[e] <= r.now => Explained(e)'
    <2> SUFFICES ASSUME NEW e \in db, created[e] > started PROVE Explained(e)'
      OBVIOUS
    <2>1. CASE e \in found
      BY <2>1, <1>1, <1>4, <1>7 DEF Explained
    <2>2. CASE e \notin found
      <3>1. created[e] <= lastPollTime
        <4>1. created[e] \in Nat /\ lastPollTime \in Nat
          BY BroadcasterAssumption DEF RestShapes
        <4> QED BY <4>1, <2>2
      <3>2. Explained(e)
        BY <3>1 DEF CursorInv, CursorRight
      <3>3. CASE e \in recent \cup passed
        BY <3>3, <1>1, <1>2 DEF Explained
      <3>4. CASE \E q \in Pollers : e \in pollers[q].batch
        <4>1. PICK q \in Pollers : e \in pollers[q].batch
          BY <3>4
        <4>2. q # p
          BY <4>1, <1>6
        <4> QED BY <4>1, <4>2, <1>7 DEF Explained
      <3> QED BY <3>2, <3>3, <3>4 DEF Explained
    <2> QED BY <2>1, <2>2
  <1>9. passed \subseteq passed'
    BY <1>1
  <1> QED BY <1>2, <1>4, <1>5, <1>6, <1>8, <1>9, PollerFrame

LEMMA PollDeliverCursor ==
    ASSUME RestShapes, CursorInv, NEW p \in Pollers, PollDeliver(p) PROVE CursorInv'
  <1>1. PICK e \in pollers[p].batch :
           /\ pollers' = [pollers EXCEPT ![p].batch = @ \ {e}]
           /\ ShouldProcess(p, e)
    BY DEF PollDeliver
  <1> DEFINE r == [pollers[p] EXCEPT !.batch = @ \ {e}]
  <1>2. /\ pollers[p].pc = "delivering"
        /\ UNCHANGED <<queue, db, records, created, clock, started, lastPollTime, passed>>
    BY DEF PollDeliver, time, store
  <1>3. pollers[p] \in PollerShape
    BY DEF RestShapes
  <1>4. r \in PollerShape /\ r.pc = "delivering" /\ r.batch = pollers[p].batch \ {e}
    BY <1>2, <1>3 DEF PollerShape
  <1>5. pollers' = [pollers EXCEPT ![p] = r]
    BY <1>1 DEF RestShapes
  <1>6. recent' = recent \cup {e}
    <2>1. e \in Events /\ p \in Actors
      BY <1>3 DEF PollerShape, Actors
    <2> QED BY <1>1, <2>1, ProcessShape
  <1> HIDE DEF r
  <1> QED BY <1>2, <1>4, <1>5, <1>6, PollerFrame

LEMMA PollStepsCursor ==
    ASSUME RestShapes, CursorInv, NEW p \in Pollers,
           PollTick(p) \/ PollFails(p) \/ PollCursor(p) \/ PollEnd(p)
    PROVE  CursorInv'
  <1> USE DEF time, store
  <1>0. pollers[p] \in PollerShape
    BY DEF RestShapes
  <1>1. CASE PollTick(p)
    <2>1. PICK r \in {[pollers[p] EXCEPT !.pc = "querying", !.now = clock], NoPoller} :
             pollers' = [pollers EXCEPT ![p] = r]
      BY <1>1 DEF PollTick, RestShapes
    <2>2. /\ pollers[p].pc = "waiting" /\ pollers[p].batch = {}
          /\ UNCHANGED <<queue, db, records, created, clock, started, lastPollTime, passed,
                         recent>>
      BY <1>1 DEF PollTick, CursorInv, BatchesEmpty, Polled
    <2>3. r \in PollerShape /\ r.pc \notin {"queried", "delivering"} /\ r.batch = {}
      BY <1>0, <2>1, <2>2, NoPollerShape DEF PollerShape, RestShapes
    <2> QED BY <2>1, <2>2, <2>3, PollerFrame
  <1>2. CASE PollFails(p)
    <2>1. /\ pollers[p].pc = "querying" /\ pollers[p].batch = {}
          /\ pollers' = [pollers EXCEPT ![p] = [NoPoller EXCEPT !.pc = "waiting"]]
          /\ UNCHANGED <<queue, db, records, created, clock, started, lastPollTime, passed,
                         recent>>
      BY <1>2 DEF PollFails, CursorInv, BatchesEmpty, Polled
    <2> QED BY <2>1, NoPollerShape, PollerFrame
  <1>3. CASE PollCursor(p)
    <2> DEFINE r == [pollers[p] EXCEPT !.pc = "delivering"]
    <2>1. /\ pollers[p].pc = "queried" /\ lastPollTime' = pollers[p].now
          /\ pollers' = [pollers EXCEPT ![p] = r]
          /\ UNCHANGED <<queue, db, records, created, clock, started, passed, recent>>
      BY <1>3 DEF PollCursor, RestShapes
    <2>2. r \in PollerShape /\ r.pc = "delivering" /\ r.batch = pollers[p].batch
      BY <1>0 DEF PollerShape
    <2> HIDE DEF r
    <2>3. \A q \in Pollers : pollers'[q].batch = pollers[q].batch
      BY <2>1, <2>2 DEF RestShapes
    <2>4. \A e : Explained(e) => Explained(e)'
      BY <2>1, <2>3 DEF Explained
    <2>5. \A e \in db : created[e] > started /\ created[e] <= lastPollTime' => Explained(e)'
      BY <2>1, <2>4 DEF CursorInv, PollsRight
    <2> QED BY <2>1, <2>2, <2>5, PollerFrame
  <1>4. CASE PollEnd(p)
    <2>1. /\ pollers[p].batch = {}
          /\ pollers' = [pollers EXCEPT ![p] = [NoPoller EXCEPT !.pc = "waiting"]]
          /\ UNCHANGED <<queue, db, records, created, clock, started, lastPollTime, passed,
                         recent>>
      BY <1>4 DEF PollEnd
    <2> QED BY <2>1, NoPollerShape, PollerFrame
  <1> QED BY <1>1, <1>2, <1>3, <1>4

LEMMA RecordCursor ==
    ASSUME RestShapes, CursorInv, NEW e \in Events,
           RecordPolling(e) \/ RecordQueue(e) \/ RecordRedis(e) \/ Publish(e) \/ PublishFails(e)
    PROVE  CursorInv'
  <1> USE DEF time, store, poll
  <1>1. UNCHANGED <<clock, db, lastPollTime, started, pollers, recent, passed>>
    BY DEF RecordPolling, RecordQueue, RecordRedis, Publish, PublishFails
  <1>2. PICK st \in {"sending", "publishing", "done"} : records' = [records EXCEPT ![e] = st]
    BY DEF RecordPolling, RecordQueue, RecordRedis, Publish, PublishFails
  <1>3. queue' \subseteq queue \cup {e}
    BY EnqueuedShape DEF RecordPolling, RecordQueue, RecordRedis, Publish, PublishFails
  <1>4. queue \cup db \subseteq Events
    BY DEF RestShapes
  <1>5. \A f \in queue' \cup db : records'[f] # "none"
    BY <1>2, <1>3, <1>4 DEF RestShapes, CursorInv, StoredWereRecorded
  <1>6. created' = created \/ (records[e] = "none" /\ created' = [created EXCEPT ![e] = clock])
    BY DEF RecordPolling, RecordQueue, RecordRedis, Publish, PublishFails
  <1>7. \A f \in db : created'[f] = created[f]
    BY <1>4, <1>6 DEF RestShapes, CursorInv, StoredWereRecorded
  <1>8. \A f \in Events : created'[f] <= clock'
    <2>1. clock \in Nat
      BY BroadcasterAssumption DEF RestShapes
    <2> QED BY <2>1, <1>1, <1>6 DEF RestShapes, CursorInv, CreatedBefore
  <1> QED BY <1>1, <1>5, <1>7, <1>8, CursorFrame

LEMMA CursorNext ==
    ASSUME RestShapes, CursorInv, Next PROVE CursorInv'
  <1> USE DEF time, store, poll, redis
  <1>1. ASSUME UNCHANGED <<db, lastPollTime, started, pollers, passed, records, created>>,
               recent \subseteq recent', queue' \subseteq queue,
               \A e \in Events : created[e] <= clock'
        PROVE  CursorInv'
    BY <1>1, CursorFrame DEF CursorInv, StoredWereRecorded
  <1>2. \A e \in Events : created[e] <= clock
    BY DEF CursorInv, CreatedBefore
  <1>3. ASSUME Tick PROVE CursorInv'
    <2>1. \A e \in Events : created[e] <= clock + 1
      <3>1. clock \in Nat /\ \A e \in Events : created[e] \in Nat
        BY BroadcasterAssumption DEF RestShapes
      <3> QED BY <3>1, <1>2
    <2> QED BY <1>1, <1>3, <2>1 DEF Tick
  <1>4. ASSUME Listen \/ ListenLost \/ Shutdown \/ WorkersEnd PROVE CursorInv'
    BY <1>1, <1>2, <1>4 DEF Listen, ListenLost, Shutdown, WorkersEnd
  <1>5. ASSUME NEW c \in Conns, Subscribe(c) \/ Unsubscribe(c) \/ Close(c) \/ StopPolling(c)
        PROVE  CursorInv'
    BY <1>1, <1>2, <1>5 DEF Subscribe, Unsubscribe, Close, StopPolling
  <1>6. ASSUME NEW a \in Actors, Send(a) PROVE CursorInv'
    BY <1>1, <1>2, <1>6 DEF Send
  <1>8. ASSUME NEW a \in Actors, SendPanics(a) PROVE CursorInv'
    <2>1. /\ UNCHANGED <<db, lastPollTime, started, pollers, passed, created, clock, recent,
                         queue>>
          /\ \A e \in Events : records[e] # "none" => records'[e] # "none"
      BY <1>8 DEF SendPanics, RestShapes
    <2>2. \A e \in queue' \cup db : records'[e] # "none"
      BY <2>1 DEF RestShapes, CursorInv, StoredWereRecorded
    <2> QED BY <1>2, <2>1, <2>2, CursorFrame
  <1>7. ASSUME NEW e \in Events, ListenReceive(e) PROVE CursorInv'
    <2>1. recent \subseteq recent'
      BY <1>7, ProcessShape DEF ListenReceive, Actors
    <2> QED BY <1>1, <1>2, <1>7, <2>1 DEF ListenReceive
  <1> QED BY <1>3, <1>4, <1>5, <1>6, <1>7, <1>8, InsertCursor, StartCursor, PollQueryCursor,
             PollDeliverCursor, PollStepsCursor, RecordCursor DEF Next, Step

-----------------------------------------------------------------------------
(* The theorems *)

LEMMA EventsInit_Inv == Init => EventsInv
  <1>1. Init => RoundsCounted
    BY DEF Init, RoundsCounted, Recorded, Marked
  <1> QED BY <1>1, ListInit, RestInit, CursorInit DEF EventsInv

LEMMA EventsNext_Inv == EventsInv /\ [Next]_vars => EventsInv'
  <1> SUFFICES ASSUME EventsInv, [Next]_vars PROVE EventsInv'
    OBVIOUS
  <1>1. CASE Next
    BY <1>1, ListNext, RestNext, RoundsNext, CursorNext DEF EventsInv
  <1>2. CASE UNCHANGED vars
    <2> USE <1>2 DEF vars, time, store, poll, redis, walks
    <2>1. ListInv'
      BY ListSame DEF EventsInv
    <2>2. RestShapes'
      BY DEF EventsInv, RestShapes
    <2>3. RoundsCounted'
      BY DEF EventsInv, RoundsCounted, Recorded, Marked
    <2>4. CursorInv'
      BY CursorFrame DEF EventsInv, CursorInv, StoredWereRecorded, CreatedBefore
    <2> QED BY <2>1, <2>2, <2>3, <2>4 DEF EventsInv
  <1> QED BY <1>1, <1>2

LEMMA EventsInvHolds == Spec => []EventsInv
  BY EventsInit_Inv, EventsNext_Inv, PTL DEF Spec

(* The queue of the database workers keeps to its capacity, the list of      *)
(* subscribers to that of its array, and every walk to the list it took.     *)
THEOREM EventsTypes == Spec => []TypeOK
  <1>1. EventsInv => TypeOK
    <2> SUFFICES ASSUME EventsInv PROVE TypeOK
      OBVIOUS
    <2>1. ListIsOfMembers /\ RestShapes /\ sending \in [Actors -> WalkShape]
          /\ \A a \in Actors : sending[a].next <= Len(sending[a].list) + 1
      BY DEF EventsInv, ListInv, WalkRight
    <2>2. \A a \in Actors :
            /\ sending[a].evt \in Events \cup {NoEvent} /\ sending[a].list \in Seq(Conns)
            /\ sending[a].next \in 1 .. Len(sending[a].list) + 1
      BY <2>1 DEF WalkShape
    <2>3. subs.list \in Seq(Conns) /\ Len(subs.list) <= subs.cap
      BY <2>1 DEF ListIsOfMembers
    <2>4. conns \in [Conns -> {"none", "adding", "open", "removing", "draining", "closed"}]
      BY <2>1 DEF ListIsOfMembers, ConnStates
    <2> QED BY <2>1, <2>2, <2>3, <2>4 DEF RestShapes, PollerShape, TypeOK
  <1> QED BY <1>1, EventsInvHolds, PTL

(* However many connections come and go while however many walks are under   *)
(* way over the same array, and whenever the 100 ms of one that left are     *)
(* over: a walk has a closed channel ahead of it only when its connection    *)
(* left during that walk (broadcast, Subscribe, Unsubscribe).                *)
THEOREM ClosedSendsExplained == Spec => []ClosedSendHasCause
  <1>1. EventsInv => ClosedSendHasCause
    <2> SUFFICES ASSUME EventsInv, NEW a \in Actors,
                        NEW k \in sending[a].next .. Len(sending[a].list),
                        conns[sending[a].list[k]] = "closed"
                 PROVE  sending[a].list[k] \in sending[a].left
      BY DEF ClosedSendHasCause
    <2> DEFINE c == sending[a].list[k]
    <2>1. /\ sending[a] \in WalkShape /\ Covered(sending[a], subs.list)
          /\ ListIsOfMembers
      BY DEF EventsInv, ListInv, WalkRight
    <2>2. k \in DOMAIN sending[a].list /\ c \in Conns
      BY <2>1 DEF WalkShape
    <2>3. On(subs.list, c) \/ c \in sending[a].left
      BY <2>1, <2>2 DEF Covered
    <2> QED BY <2>1, <2>2, <2>3 DEF ListIsOfMembers
  <1> QED BY <1>1, EventsInvHolds, PTL

(* When nobody leaves while an event is sent, everyone who was subscribed is *)
(* offered it, whoever subscribes in the meantime (broadcast).               *)
THEOREM BroadcastIsComplete == Spec => []BroadcastComplete
  <1>1. EventsInv => BroadcastComplete
    <2> SUFFICES ASSUME EventsInv, NEW a \in Actors, Finished(a), sending[a].left = {},
                        NEW c \in sending[a].due
                 PROVE  FALSE
      BY DEF BroadcastComplete
    <2>1. sending[a] \in WalkShape /\ Whole(sending[a], subs.list)
      BY DEF EventsInv, ListInv, WalkRight
    <2>2. PICK k \in DOMAIN sending[a].list : k >= sending[a].next
      BY <2>1 DEF Whole, Ahead
    <2>3. sending[a].next > Len(sending[a].list) /\ sending[a].next \in Nat
          /\ Len(sending[a].list) \in Nat /\ k \in 1 .. Len(sending[a].list)
      BY <2>1, <2>2 DEF Finished, WalkShape
    <2> QED BY <2>2, <2>3
  <1> QED BY <1>1, EventsInvHolds, PTL

(* However many goroutines poll and however often Redis delivers a message,  *)
(* an event is sent once for its mark in recentEvents, and by the polling    *)
(* broadcaster once before, in Record (shouldProcess).                       *)
THEOREM ProcessedOnceHolds == Spec => []ProcessedOnce
  <1>1. EventsInv => ProcessedOnce
    <2> SUFFICES ASSUME EventsInv, NEW e \in Events
                 PROVE  rounds[e] <= IF backend = "redis" THEN 1 ELSE 2
      BY DEF ProcessedOnce
    <2>1. rounds[e] \in Nat /\ rounds[e] <= Recorded(e) + Marked(e)
      BY DEF EventsInv, RestShapes, RoundsCounted
    <2>2. Recorded(e) \in {0, 1} /\ Marked(e) \in {0, 1}
          /\ (backend = "redis" => Recorded(e) = 0)
      BY DEF Recorded, Marked
    <2> QED BY <2>1, <2>2
  <1> QED BY <1>1, EventsInvHolds, PTL

(* However many polls overlap and polling is stopped and started again, the  *)
(* cursor passes no stored event but those that a poll has in hand, that     *)
(* were processed, that were stored too late for the poll they belonged to,  *)
(* or that LIMIT cut off (checkForNewEvents).                                *)
THEOREM CursorIsSound == Spec => []CursorSound
  <1>1. EventsInv => CursorSound
    BY DEF EventsInv, CursorInv, CursorRight, CursorSound, Explained
  <1> QED BY <1>1, EventsInvHolds, PTL
===============================================================================
