----------------------------- MODULE ServerProofs -----------------------------
(* Proofs about what a server keeps in memory and in its cache - sessions,   *)
(* shares, deduplication jobs, the slots and archives of zip downloads, the  *)
(* counters of the bots - for every value of the constants: however many     *)
(* hashes, shares, users, requests, files and bots there are.                *)
EXTENDS MCServer, ZipDownload,
        FiniteSetTheorems, SequenceTheorems, WellFoundedInduction, TLAPS

-----------------------------------------------------------------------------
(* Sessions: the inductive invariant *)

Idents == Hashes \ {"user", "list"}

CallShape ==
    [ op : {"none", "lookup", "login", "logout", "remove"},
      pc : {"idle", "load", "store", "write", "clean"}, key : SessionKeys,
      hash : Hashes \cup {NoHash}, val : SUBSET Hashes, todo : SUBSET SessionKeys ]

(* A request that is to write has what it writes. *)
Writes(r) == r.hash \in Hashes /\ r.op \in {"login", "logout", "remove"}

SessionShapes ==
    /\ sessions \in Seq(Hashes)
    /\ sessionCache \in [SessionKeys -> [hit : BOOLEAN, val : SUBSET Hashes]]
    /\ call \in [Calls -> CallShape]
    /\ outdated \subseteq SessionKeys
    /\ \A c \in Calls : call[c].pc = "write" => Writes(call[c])

(* Entries to delete are those of requests that have written, ... *)
TodoWhenClean == \A c \in Calls : call[c].pc # "clean" => call[c].todo = {}

(* ... and under a hash there is the session with that hash. *)
EntriesByHash ==
    /\ \A h \in Idents : sessionCache[h].hit => sessionCache[h].val = {h}
    /\ \A c \in Calls : call[c].pc = "store" /\ call[c].key \in Idents =>
           call[c].val = {call[c].key}

SessionsInv == SessionShapes /\ TodoWhenClean /\ EntriesByHash /\ StaleSessionHasCause

-----------------------------------------------------------------------------
(* What the writes do to the rows *)

LEMMA FoundTypes ==
    ASSUME NEW rows \in Seq(Hashes), NEW k \in SessionKeys
    PROVE  Found(rows, k) \subseteq Hashes
  <1>1. \A i \in DOMAIN rows : rows[i] \in Hashes
    OBVIOUS
  <1>2. rows # <<>> => Len(rows) \in DOMAIN rows
    OBVIOUS
  <1> QED BY <1>1, <1>2 DEF Found

LEMMA FoundByHash ==
    ASSUME NEW rows \in Seq(Hashes), NEW k \in Idents
    PROVE  Found(rows, k) = IF \E i \in DOMAIN rows : rows[i] = k THEN {k} ELSE {}
  BY DEF Found, Idents

(* A login adds a row with its hash ... *)
LEMMA AppendRows ==
    ASSUME NEW rows \in Seq(Hashes), NEW h \in Hashes
    PROVE  /\ Append(rows, h) \in Seq(Hashes)
           /\ \A k \in Idents \ {h} : Found(Append(rows, h), k) = Found(rows, k)
           /\ h \in Idents => Found(Append(rows, h), h) = {h}
  <1> DEFINE new == Append(rows, h)
  <1>1. /\ new \in Seq(Hashes) /\ Len(new) = Len(rows) + 1
        /\ \A i \in 1 .. Len(rows) : new[i] = rows[i]
        /\ new[Len(rows) + 1] = h
    OBVIOUS
  <1> HIDE DEF new
  <1>2. /\ DOMAIN new = 1 .. Len(rows) + 1 /\ DOMAIN rows = 1 .. Len(rows)
        /\ Len(rows) \in Nat
    BY <1>1
  <1>3. ASSUME NEW k \in Idents \ {h}
        PROVE (\E i \in DOMAIN new : new[i] = k) <=> (\E i \in DOMAIN rows : rows[i] = k)
    BY <1>1, <1>2
  <1>4. \E i \in DOMAIN new : new[i] = h
    BY <1>1, <1>2
  <1>5. ASSUME NEW k \in Idents \ {h} PROVE Found(new, k) = Found(rows, k)
    <2>1. /\ Found(new, k) = IF \E i \in DOMAIN new : new[i] = k THEN {k} ELSE {}
          /\ Found(rows, k) = IF \E i \in DOMAIN rows : rows[i] = k THEN {k} ELSE {}
      BY <1>1, FoundByHash
    <2> QED BY <2>1, <1>3
  <1>6. h \in Idents => Found(new, h) = {h}
    BY <1>1, <1>4, FoundByHash
  <1> QED BY <1>1, <1>5, <1>6 DEF new

LEMMA RemoveAtIs ==
    ASSUME NEW S, NEW s \in Seq(S), NEW j \in 1 .. Len(s)
    PROVE  LET t == SX!RemoveAt(s, j) IN
           /\ t \in Seq(S) /\ Len(t) = Len(s) - 1
           /\ \A i \in 1 .. Len(s) - 1 : t[i] = IF i < j THEN s[i] ELSE s[i + 1]
  <1> DEFINE f == SubSeq(s, 1, j - 1)
             g == SubSeq(s, j + 1, Len(s))
  <1>1. f \in Seq(S) /\ Len(f) = j - 1 /\ \A i \in 1 .. j - 1 : f[i] = s[i]
    BY SubSeqProperties
  <1>2. g \in Seq(S) /\ Len(g) = Len(s) - j /\ \A i \in 1 .. Len(s) - j : g[i] = s[i + j]
    BY SubSeqProperties
  <1> HIDE DEF f, g
  <1>3. f \o g \in Seq(S) /\ Len(f \o g) = Len(f) + Len(g)
    BY <1>1, <1>2, ConcatProperties
  <1>4. Len(f \o g) = Len(s) - 1
    BY <1>1, <1>2, <1>3
  <1>5. \A i \in 1 .. Len(s) - 1 : (f \o g)[i] = IF i < j THEN s[i] ELSE s[i + 1]
    BY <1>1, <1>2, ConcatProperties
  <1> QED BY <1>3, <1>4, <1>5 DEF f, g, SX!RemoveAt

(* ... and a removal takes none away but that of its hash. *)
LEMMA WithoutRows ==
    ASSUME sessions \in Seq(Hashes), NEW h \in Hashes
    PROVE  /\ Without(h) \in Seq(Hashes)
           /\ \A k \in Idents \ {h} : Found(Without(h), k) = Found(sessions, k)
  <1>1. CASE ~InRow(h)
    BY <1>1 DEF Without
  <1>2. CASE InRow(h)
    <2> DEFINE j == Position(h)
               t == SX!RemoveAt(sessions, j)
    <2>1. j \in 1 .. Len(sessions) /\ sessions[j] = h
      BY <1>2 DEF InRow, Position
    <2> HIDE DEF j
    <2>2. /\ t \in Seq(Hashes) /\ Len(t) = Len(sessions) - 1
          /\ \A i \in 1 .. Len(sessions) - 1 :
               t[i] = IF i < j THEN sessions[i] ELSE sessions[i + 1]
      BY <2>1, RemoveAtIs
    <2> HIDE DEF t
    <2>3. DOMAIN t = 1 .. Len(sessions) - 1 /\ DOMAIN sessions = 1 .. Len(sessions)
      BY <2>2
    <2>4. ASSUME NEW k \in Idents \ {h}
          PROVE (\E i \in DOMAIN t : t[i] = k) <=> (\E i \in DOMAIN sessions : sessions[i] = k)
      <3>1. ASSUME NEW i \in DOMAIN t, t[i] = k PROVE \E n \in DOMAIN sessions : sessions[n] = k
        BY <3>1, <2>1, <2>2, <2>3
      <3>2. ASSUME NEW i \in DOMAIN sessions, sessions[i] = k PROVE \E n \in DOMAIN t : t[n] = k
        <4>1. i # j
          BY <3>2, <2>1
        <4>2. CASE i < j
          BY <4>2, <3>2, <2>1, <2>2, <2>3
        <4>3. CASE i > j
          <5>1. i - 1 \in 1 .. Len(sessions) - 1 /\ ~(i - 1 < j) /\ (i - 1) + 1 = i
            BY <4>3, <2>1, <2>3
          <5>2. t[i - 1] = k
            BY <5>1, <2>2, <3>2
          <5> QED BY <5>1, <5>2, <2>3
        <4> QED BY <4>1, <4>2, <4>3, <2>1, <2>3
      <3> QED BY <3>1, <3>2
    <2>5. ASSUME NEW k \in Idents \ {h} PROVE Found(t, k) = Found(sessions, k)
      <3>1. /\ Found(t, k) = IF \E i \in DOMAIN t : t[i] = k THEN {k} ELSE {}
            /\ Found(sessions, k) =
                 IF \E i \in DOMAIN sessions : sessions[i] = k THEN {k} ELSE {}
        BY <2>2, FoundByHash
      <3> QED BY <3>1, <2>4
    <2> QED BY <1>2, <2>2, <2>5 DEF Without, t, j
  <1> QED BY <1>1, <1>2

-----------------------------------------------------------------------------
(* Sessions: the proof *)

LEMMA SessionsInit_Inv == SessionsInit => SessionsInv
  BY DEF SessionsInit, SessionsInv, SessionShapes, CallShape, IdleCall, Absent,
         TodoWhenClean, EntriesByHash, StaleSessionHasCause, Differs, Idents, SessionKeys

(* The steps that only start or give up a request. *)
LEMMA CallStep ==
    ASSUME SessionsInv, NEW c \in Calls, NEW r \in CallShape,
           call' = [call EXCEPT ![c] = r],
           call[c].pc # "clean", r.todo = {}, r.pc # "clean",
           r.pc = "write" => Writes(r),
           r.pc = "store" /\ r.key \in Idents => r.val = {r.key},
           UNCHANGED <<sessions, sessionCache, outdated>>
    PROVE  SessionsInv'
  <1> USE DEF SessionsInv
  <1>1. SessionShapes'
    BY DEF SessionShapes
  <1>2. /\ call'[c] = r
        /\ \A d \in Calls \ {c} : call'[d] = call[d]
    BY DEF SessionShapes
  <1>3. TodoWhenClean'
    BY <1>2 DEF TodoWhenClean
  <1>4. EntriesByHash'
    BY <1>2 DEF EntriesByHash
  <1>5. StaleSessionHasCause'
    <2> SUFFICES ASSUME NEW k \in SessionKeys,
                        sessionCache[k].hit, sessionCache[k].val # Found(sessions, k),
                        k \notin outdated
                 PROVE  \E d \in Calls : k \in call'[d].todo
      BY DEF StaleSessionHasCause, Differs
    <2>1. PICK d \in Calls : k \in call[d].todo
      BY DEF StaleSessionHasCause, Differs
    <2>2. d # c
      BY <2>1 DEF TodoWhenClean
    <2> QED BY <2>1, <2>2, <1>2
  <1> QED BY <1>1, <1>3, <1>4, <1>5

(* The steps that change the entry under one key. *)
LEMMA EntryStep ==
    ASSUME SessionsInv, NEW c \in Calls, NEW k \in SessionKeys, NEW r \in CallShape,
           NEW e \in [hit : BOOLEAN, val : SUBSET Hashes],
           sessionCache' = [sessionCache EXCEPT ![k] = e],
           call' = [call EXCEPT ![c] = r],
           r.pc # "clean" => r.todo = {}, r.pc \notin {"write", "store"},
           call[c].todo \subseteq r.todo \cup {k},
           outdated' \subseteq SessionKeys, outdated \subseteq outdated' \cup {k},
           e.hit /\ k \in Idents => e.val = {k},
           e.hit /\ e.val # Found(sessions, k) => k \in outdated',
           sessions' = sessions
    PROVE  SessionsInv'
  <1> USE DEF SessionsInv
  <1>1. SessionShapes'
    BY DEF SessionShapes
  <1>2. /\ call'[c] = r /\ \A d \in Calls \ {c} : call'[d] = call[d]
        /\ sessionCache'[k] = e
        /\ \A m \in SessionKeys \ {k} : sessionCache'[m] = sessionCache[m]
    BY DEF SessionShapes
  <1>3. TodoWhenClean'
    BY <1>2 DEF TodoWhenClean
  <1>4. EntriesByHash'
    <2>1. \A h \in Idents : sessionCache'[h].hit => sessionCache'[h].val = {h}
      BY <1>2 DEF EntriesByHash, Idents, SessionKeys
    <2>2. \A d \in Calls : call'[d].pc = "store" /\ call'[d].key \in Idents =>
             call'[d].val = {call'[d].key}
      BY <1>2 DEF EntriesByHash
    <2> QED BY <2>1, <2>2 DEF EntriesByHash
  <1>5. StaleSessionHasCause'
    <2> SUFFICES ASSUME NEW m \in SessionKeys,
                        sessionCache'[m].hit, sessionCache'[m].val # Found(sessions, m),
                        m \notin outdated'
                 PROVE  \E d \in Calls : m \in call'[d].todo
      BY DEF StaleSessionHasCause, Differs
    <2>1. m # k
      BY <1>2
    <2>2. PICK d \in Calls : m \in call[d].todo
      BY <2>1, <1>2 DEF StaleSessionHasCause, Differs
    <2> QED BY <2>1, <2>2, <1>2
  <1> QED BY <1>1, <1>3, <1>4, <1>5

LEMMA LookupStore_Inv ==
    ASSUME SessionsInv, NEW c \in Calls, LookupStore(c) PROVE SessionsInv'
  <1> DEFINE k == call[c].key
             e == [hit |-> TRUE, val |-> call[c].val]
  <1>1. /\ call[c] \in CallShape /\ call[c].todo = {} /\ k \in SessionKeys
        /\ outdated \subseteq SessionKeys
    BY DEF SessionsInv, SessionShapes, CallShape, LookupStore, TodoWhenClean
  <1>2. e \in [hit : BOOLEAN, val : SUBSET Hashes] /\ e.hit /\ e.val = call[c].val
    BY <1>1 DEF CallShape
  <1>3. k \in Idents => e.val = {k}
    BY DEF SessionsInv, EntriesByHash, LookupStore
  <1>4. /\ IdleCall \in CallShape /\ IdleCall.todo = {} /\ IdleCall.pc = "idle"
    BY DEF IdleCall, CallShape, SessionKeys
  <1>5. /\ outdated' \subseteq SessionKeys /\ outdated \subseteq outdated' \cup {k}
        /\ e.val # Found(sessions, k) => k \in outdated'
    BY <1>1, <1>2 DEF LookupStore
  <1>6. /\ sessionCache' = [sessionCache EXCEPT ![k] = e]
        /\ call' = [call EXCEPT ![c] = IdleCall] /\ sessions' = sessions
    BY DEF LookupStore
  <1> HIDE DEF e, k
  <1> QED BY <1>1, <1>2, <1>3, <1>4, <1>5, <1>6, EntryStep

(* A request ends, and its entries are gone, or those of them that differ    *)
(* are noted.                                                                *)
LEMMA DeleteKeys_Inv ==
    ASSUME SessionsInv, NEW c \in Calls, DeleteKeys(c) \/ DeleteKeysFails(c)
    PROVE  SessionsInv'
  <1>1. /\ IdleCall \in CallShape /\ IdleCall.todo = {} /\ IdleCall.pc = "idle"
        /\ Absent \in [hit : BOOLEAN, val : SUBSET Hashes] /\ ~Absent.hit
    BY DEF IdleCall, CallShape, SessionKeys, Absent
  <1>2. /\ call[c] \in CallShape /\ call[c].todo \subseteq SessionKeys
        /\ call \in [Calls -> CallShape] /\ outdated \subseteq SessionKeys
        /\ sessionCache \in [SessionKeys -> [hit : BOOLEAN, val : SUBSET Hashes]]
    BY DEF SessionsInv, SessionShapes, CallShape
  <1>3. /\ sessions' = sessions /\ call' = [call EXCEPT ![c] = IdleCall]
        /\ outdated' \subseteq SessionKeys
    BY <1>2 DEF DeleteKeys, DeleteKeysFails
  <1>4. call'[c] = IdleCall /\ \A d \in Calls \ {c} : call'[d] = call[d]
    BY <1>2, <1>3
  <1>5. \A k \in SessionKeys :
          sessionCache'[k] = sessionCache[k] \/ (k \in call[c].todo /\ sessionCache'[k] = Absent)
    BY <1>2 DEF DeleteKeys, DeleteKeysFails
  <1>6. sessionCache' \in [SessionKeys -> [hit : BOOLEAN, val : SUBSET Hashes]]
    BY <1>1, <1>2 DEF DeleteKeys, DeleteKeysFails
  <1>7. ASSUME NEW k \in SessionKeys, Differs(k)'
        PROVE  /\ sessionCache'[k] = sessionCache[k] /\ Differs(k)
               /\ k \in outdated => k \in outdated'
               /\ k \in call[c].todo => k \in outdated'
    <2>1. sessionCache'[k] = sessionCache[k]
      BY <1>1, <1>5, <1>7 DEF Differs
    <2>2. Differs(k)
      BY <2>1, <1>3, <1>7 DEF Differs
    <2>3. CASE DeleteKeys(c)
      <3>1. k \notin call[c].todo
        BY <1>1, <1>7, <2>3 DEF DeleteKeys, Differs
      <3> QED BY <2>1, <2>2, <2>3, <3>1 DEF DeleteKeys
    <2>4. CASE DeleteKeysFails(c)
      BY <2>1, <2>2, <2>4 DEF DeleteKeysFails
    <2> QED BY <2>3, <2>4
  <1>8. SessionShapes'
    BY <1>1, <1>2, <1>3, <1>4, <1>6 DEF SessionsInv, SessionShapes
  <1>9. TodoWhenClean'
    BY <1>1, <1>4 DEF SessionsInv, TodoWhenClean
  <1>10. EntriesByHash'
    <2>1. \A h \in Idents : sessionCache'[h].hit => sessionCache'[h].val = {h}
      BY <1>1, <1>5 DEF SessionsInv, EntriesByHash, Idents, SessionKeys
    <2>2. \A d \in Calls : call'[d].pc = "store" /\ call'[d].key \in Idents =>
             call'[d].val = {call'[d].key}
      BY <1>1, <1>4 DEF SessionsInv, EntriesByHash
    <2> QED BY <2>1, <2>2 DEF EntriesByHash
  <1>11. StaleSessionHasCause'
    <2> SUFFICES ASSUME NEW k \in SessionKeys, Differs(k)', k \notin outdated'
                 PROVE  \E d \in Calls : k \in call'[d].todo
      BY DEF StaleSessionHasCause
    <2>1. PICK d \in Calls : k \in call[d].todo
      BY <1>7 DEF SessionsInv, StaleSessionHasCause
    <2> QED BY <2>1, <1>4, <1>7
  <1> QED BY <1>8, <1>9, <1>10, <1>11 DEF SessionsInv

(* A write changes what a lookup finds only under the keys it will delete,   *)
(* or under the hash of a session that is removed, which is noted.           *)
LEMMA WriteRow_Inv ==
    ASSUME SessionsInv, NEW c \in Calls, WriteRow(c) PROVE SessionsInv'
  <1> DEFINE h == call[c].hash
             gone == Invalidated(call[c].op, h)
             r == [call[c] EXCEPT !.pc = "clean", !.todo = gone]
  <1>1. call[c] \in CallShape /\ h \in Hashes /\ call[c].pc = "write" /\ call[c].todo = {}
        /\ call \in [Calls -> CallShape] /\ sessions \in Seq(Hashes)
    BY DEF SessionsInv, SessionShapes, Writes, WriteRow, TodoWhenClean
  <1>2. gone \subseteq SessionKeys /\ {"list", "user"} \subseteq gone
        /\ (call[c].op = "logout" => h \in gone)
    BY <1>1 DEF Invalidated, SessionKeys
  <1>3. call' = [call EXCEPT ![c] = r]
    BY <1>1 DEF WriteRow
  <1>4. r \in CallShape /\ r.pc = "clean" /\ r.todo = gone
    BY <1>1, <1>2 DEF CallShape
  <1> HIDE DEF r, gone
  <1>5. call'[c] = r /\ \A d \in Calls \ {c} : call'[d] = call[d]
    BY <1>1, <1>3
  <1>6. /\ sessions' \in Seq(Hashes)
        /\ \A k \in Idents \ {h} : Found(sessions', k) = Found(sessions, k)
        /\ h \in Idents /\ call[c].op = "login" => Found(sessions', h) = {h}
    BY <1>1, AppendRows, WithoutRows DEF WriteRow
  <1>7. /\ outdated \subseteq outdated' /\ outdated' \subseteq SessionKeys
        /\ call[c].op = "remove" /\ sessionCache[h].hit => h \in outdated'
    BY <1>1 DEF WriteRow, SessionsInv, SessionShapes, SessionKeys
  <1>8. sessionCache' = sessionCache
    BY DEF WriteRow
  <1>9. SessionShapes'
    BY <1>1, <1>3, <1>4, <1>5, <1>6, <1>7, <1>8 DEF SessionsInv, SessionShapes
  <1>10. TodoWhenClean'
    BY <1>4, <1>5 DEF SessionsInv, TodoWhenClean
  <1>11. EntriesByHash'
    BY <1>4, <1>5, <1>8 DEF SessionsInv, EntriesByHash
  <1>12. StaleSessionHasCause'
    <2> SUFFICES ASSUME NEW k \in SessionKeys,
                        sessionCache[k].hit, sessionCache[k].val # Found(sessions', k),
                        k \notin outdated'
                 PROVE  \E d \in Calls : k \in call'[d].todo
      BY <1>8 DEF StaleSessionHasCause, Differs
    <2>1. CASE k \in gone
      BY <2>1, <1>4, <1>5
    <2>2. CASE k \notin gone
      <3>1. k \in Idents
        BY <2>2, <1>2 DEF Idents, SessionKeys
      <3>2. k # h
        <4>1. sessionCache[k].val = {k}
          BY <3>1 DEF SessionsInv, EntriesByHash
        <4>2. call[c].op \in {"login", "logout", "remove"}
          BY <1>1 DEF SessionsInv, SessionShapes, Writes
        <4> QED BY <4>1, <4>2, <3>1, <2>2, <1>2, <1>6, <1>7 DEF WriteRow
      <3>3. sessionCache[k].val # Found(sessions, k) /\ k \notin outdated
        BY <3>1, <3>2, <1>6, <1>7
      <3>4. PICK d \in Calls : k \in call[d].todo
        BY <3>3 DEF SessionsInv, StaleSessionHasCause, Differs
      <3> QED BY <3>4, <1>1, <1>5
    <2> QED BY <2>1, <2>2
  <1> QED BY <1>9, <1>10, <1>11, <1>12 DEF SessionsInv

LEMMA DeleteFails_Inv ==
    ASSUME SessionsInv, NEW c \in Calls, DeleteFails(c) PROVE SessionsInv'
  <1> DEFINE gone == Invalidated(call[c].op, call[c].hash)
             r == [call[c] EXCEPT !.pc = "clean", !.todo = gone]
  <1>1. call[c] \in CallShape /\ Writes(call[c]) /\ call[c].todo = {}
        /\ call \in [Calls -> CallShape]
    BY DEF SessionsInv, SessionShapes, DeleteFails, TodoWhenClean
  <1>2. gone \subseteq SessionKeys
    BY <1>1 DEF Invalidated, SessionKeys, Writes
  <1>3. call' = [call EXCEPT ![c] = r]
    BY <1>1 DEF DeleteFails
  <1>4. r \in CallShape /\ r.pc = "clean"
    BY <1>1, <1>2 DEF CallShape
  <1> HIDE DEF r, gone
  <1>5. call'[c] = r /\ \A d \in Calls \ {c} : call'[d] = call[d]
    BY <1>1, <1>3
  <1>6. UNCHANGED <<sessions, sessionCache, outdated>>
    BY DEF DeleteFails
  <1>7. SessionShapes'
    BY <1>1, <1>3, <1>4, <1>5, <1>6 DEF SessionsInv, SessionShapes
  <1>8. TodoWhenClean'
    BY <1>4, <1>5 DEF SessionsInv, TodoWhenClean
  <1>9. EntriesByHash'
    BY <1>4, <1>5, <1>6 DEF SessionsInv, EntriesByHash
  <1>10. StaleSessionHasCause'
    <2> SUFFICES ASSUME NEW k \in SessionKeys, sessionCache[k].hit,
                        sessionCache[k].val # Found(sessions, k), k \notin outdated
                 PROVE  \E d \in Calls : k \in call'[d].todo
      BY <1>6 DEF StaleSessionHasCause, Differs
    <2>1. PICK d \in Calls : k \in call[d].todo
      BY DEF SessionsInv, StaleSessionHasCause, Differs
    <2> QED BY <2>1, <1>1, <1>5
  <1> QED BY <1>7, <1>8, <1>9, <1>10 DEF SessionsInv

LEMMA LookupMiss_Inv ==
    ASSUME SessionsInv, NEW c \in Calls, NEW k \in SessionKeys, LookupMiss(c, k)
    PROVE  SessionsInv'
  <1> DEFINE r == [IdleCall EXCEPT !.op = "lookup", !.pc = "load", !.key = k]
  <1>1. r \in CallShape /\ r.todo = {} /\ r.pc = "load"
    BY DEF IdleCall, CallShape
  <1>2. /\ call' = [call EXCEPT ![c] = r] /\ call[c].pc = "idle"
        /\ UNCHANGED <<sessions, sessionCache, outdated>>
    BY DEF LookupMiss, Free
  <1> HIDE DEF r
  <1> QED BY <1>1, <1>2, CallStep

LEMMA LookupLoad_Inv ==
    ASSUME SessionsInv, NEW c \in Calls, LookupLoad(c) PROVE SessionsInv'
  <1> DEFINE k == call[c].key
             found == Found(sessions, k)
             r == IF found = {} /\ k # "list" THEN IdleCall
                  ELSE [call[c] EXCEPT !.pc = "store", !.val = found]
  <1>1. /\ call[c] \in CallShape /\ call[c].todo = {} /\ k \in SessionKeys
        /\ sessions \in Seq(Hashes)
    BY DEF SessionsInv, SessionShapes, CallShape, LookupLoad, TodoWhenClean
  <1>2. found \subseteq Hashes
    BY <1>1, FoundTypes
  <1>3. k \in Idents => found \in {{}, {k}}
    BY <1>1, FoundByHash
  <1>4. IdleCall \in CallShape /\ IdleCall.todo = {} /\ IdleCall.pc = "idle"
    BY DEF IdleCall, CallShape, SessionKeys
  <1>5. call' = [call EXCEPT ![c] = r] /\ call[c].pc = "load"
        /\ UNCHANGED <<sessions, sessionCache, outdated>>
    BY DEF LookupLoad
  <1> HIDE DEF found
  <1>6. r \in CallShape /\ r.todo = {} /\ r.pc \in {"idle", "store"}
    BY <1>1, <1>2, <1>4 DEF CallShape
  <1>7. r.pc = "store" /\ r.key \in Idents => r.val = {r.key}
    BY <1>1, <1>3, <1>4 DEF CallShape, Idents
  <1> HIDE DEF r
  <1> QED BY <1>5, <1>6, <1>7, CallStep

LEMMA StartWrite_Inv ==
    ASSUME SessionsInv, NEW c \in Calls, NEW h \in Hashes,
           LoginStart(c, h) \/ LogoutStart(c, h) \/ RemoveStart(c, h)
    PROVE  SessionsInv'
  <1>1. PICK op \in {"login", "logout", "remove"} :
           call' = [call EXCEPT ![c] =
             [IdleCall EXCEPT !.op = op, !.pc = "write", !.hash = h]]
    BY DEF LoginStart, LogoutStart, RemoveStart
  <1> DEFINE r == [IdleCall EXCEPT !.op = op, !.pc = "write", !.hash = h]
  <1>2. r \in CallShape /\ r.todo = {} /\ r.pc = "write" /\ Writes(r)
    BY DEF IdleCall, CallShape, SessionKeys, Writes
  <1>3. call[c].pc = "idle" /\ UNCHANGED <<sessions, sessionCache, outdated>>
    BY DEF LoginStart, LogoutStart, RemoveStart, Free
  <1>4. call' = [call EXCEPT ![c] = r]
    BY <1>1
  <1> HIDE DEF r
  <1> QED BY <1>2, <1>3, <1>4, CallStep

LEMMA CallFails_Inv ==
    ASSUME SessionsInv, NEW c \in Calls, CallFails(c) PROVE SessionsInv'
  <1>1. IdleCall \in CallShape /\ IdleCall.todo = {} /\ IdleCall.pc = "idle"
    BY DEF IdleCall, CallShape, SessionKeys
  <1>2. /\ call' = [call EXCEPT ![c] = IdleCall] /\ call[c].pc \in {"load", "write"}
        /\ UNCHANGED <<sessions, sessionCache, outdated>>
    BY DEF CallFails
  <1> QED BY <1>1, <1>2, CallStep

LEMMA SessionsNext_Inv ==
    ASSUME SessionsInv, [SessionsNext]_sessionVars PROVE SessionsInv'
  <1>1. CASE UNCHANGED sessionVars
    BY <1>1 DEF sessionVars, SessionsInv, SessionShapes, TodoWhenClean, EntriesByHash,
                StaleSessionHasCause, Differs
  <1>2. CASE SessionsNext
    BY <1>2, LookupMiss_Inv, DeleteKeys_Inv, LookupLoad_Inv, LookupStore_Inv, CallFails_Inv,
       WriteRow_Inv, DeleteFails_Inv, StartWrite_Inv DEF SessionsNext
  <1> QED BY <1>1, <1>2

(* The types of the sessions' state, in every behaviour (Sessions). *)
THEOREM SessionsTypes == SessionsSpec => []SessionsTypeOK
  <1>1. SessionsInv => SessionsTypeOK
    BY DEF SessionsInv, SessionShapes, CallShape, SessionsTypeOK
  <1> QED BY <1>1, SessionsInit_Inv, SessionsNext_Inv, PTL DEF SessionsSpec

(* However many sessions there are and requests overlap, a cache entry that  *)
(* is not what the rows say is about to be deleted, was stored by a lookup   *)
(* that a change overtook, was left by a deletion that failed, or is that of *)
(* a session another one removed (GetSessionByHash, AuthLogin, AuthLogout,   *)
(* UsersRemoveSession).                                                      *)
THEOREM StaleSessionsExplained == SessionsSpec => []StaleSessionHasCause
  <1>1. SessionsInv => StaleSessionHasCause
    BY DEF SessionsInv
  <1> QED BY <1>1, SessionsInit_Inv, SessionsNext_Inv, PTL DEF SessionsSpec

-----------------------------------------------------------------------------
(* Shares: the inductive invariant *)

OwnerShape == [ pc : {"idle", "write", "clean"}, id : ShareIds \cup {0}, seen : ShareRow,
                req : EditRequests, todo : Seq(ShareKeys) ]
VisitShape == [ pc : {"idle", "load", "store"}, key : ShareKeys \cup {NoCode},
                row : ShareRow ]

ShareShapes ==
    /\ shares \in [ShareIds -> ShareRow] /\ shareCache \in [ShareKeys -> ShareRow]
    /\ owner \in [Owners -> OwnerShape] /\ visit \in [Visitors -> VisitShape]
    /\ late \in BOOLEAN /\ excused \subseteq ShareKeys

(* One of the two flags of a share excludes the other. *)
NeverBoth(table) == \A s \in ShareIds : ~(table[s].block /\ table[s].always)

(* A request to be written is about a share, a lookup under way has a key,   *)
(* and just the requests that have written have entries to delete.           *)
RequestsMatch ==
    /\ \A o \in Owners : /\ owner[o].pc = "write" => owner[o].id \in ShareIds
                         /\ owner[o].pc = "clean" <=> owner[o].todo # <<>>
    /\ \A v \in Visitors : visit[v].pc # "idle" => visit[v].key \in ShareKeys

(* What is cached is the row as a lookup would find it, but for a cause: of  *)
(* the whole row, not of the answers to visitors alone.                      *)
EntryRight(k) ==
    shareCache[k].live /\ shareCache[k] # Lookup(shares, k) => k \in excused \/ Awaited(k)

SharesInv == /\ ShareShapes /\ NeverBoth(shares) /\ RequestsMatch
             /\ \A k \in ShareKeys : EntryRight(k)

-----------------------------------------------------------------------------
(* What a lookup finds *)

Hits(table, k) == {s \in ShareIds : table[s].live /\ k \in {s, table[s].code}}

LEMMA NoShare_Row == NoShare \in ShareRow /\ ~NoShare.live
  BY DEF NoShare, ShareRow

LEMMA LookupRow ==
    ASSUME NEW table \in [ShareIds -> ShareRow], NEW k
    PROVE  Lookup(table, k) \in ShareRow
  <1>1. Hits(table, k) # {} =>
           (CHOOSE s \in Hits(table, k) : TRUE) \in ShareIds
    BY DEF Hits
  <1> QED BY <1>1, NoShare_Row DEF Lookup, Hits

LEMMA LookupNothing ==
    ASSUME NEW table, NEW k, Hits(table, k) = {}
    PROVE  Lookup(table, k) = NoShare
  BY DEF Lookup, Hits

LEMMA LookupSame ==
    ASSUME NEW table, NEW new, NEW k, Hits(table, k) = Hits(new, k),
           \A s \in Hits(table, k) : new[s] = table[s]
    PROVE  Lookup(new, k) = Lookup(table, k)
  <1>1. CASE Hits(table, k) = {}
    BY <1>1, LookupNothing
  <1>2. CASE Hits(table, k) # {}
    <2>1. (CHOOSE s \in Hits(table, k) : TRUE) \in Hits(table, k)
      BY <1>2
    <2> QED BY <1>2, <2>1 DEF Lookup, Hits
  <1> QED BY <1>1, <1>2

(* A write to the row of one share is seen only under its id and its codes.  *)
LEMMA LookupElsewhere ==
    ASSUME NEW table \in [ShareIds -> ShareRow], NEW new \in [ShareIds -> ShareRow],
           NEW s \in ShareIds, \A t \in ShareIds \ {s} : new[t] = table[t],
           NEW k, k # s, ~table[s].live \/ k # table[s].code, k # new[s].code
    PROVE  Lookup(new, k) = Lookup(table, k)
  <1>1. Hits(table, k) = Hits(new, k) /\ s \notin Hits(table, k)
    BY DEF Hits
  <1>2. \A t \in Hits(table, k) : new[t] = table[t]
    BY <1>1 DEF Hits
  <1> QED BY <1>1, <1>2, LookupSame

(* An edit leaves a row whose flags exclude each other. *)
LEMMA EditedRow ==
    ASSUME NEW row \in ShareRow, NEW seen \in ShareRow, NEW q \in EditRequests,
           ~(row.block /\ row.always)
    PROVE  /\ Edited(row, seen, q) \in ShareRow
           /\ ~(Edited(row, seen, q).block /\ Edited(row, seen, q).always)
           /\ Edited(row, seen, q).code \in {row.code, q.code, NoCode}
  <1>1. /\ q.block \in Flag /\ q.always \in Flag
        /\ q.code \in {"keep", "clear"} \cup Codes
    BY DEF EditRequests, Flag
  <1>2. /\ Wanted_Flag(q.block, seen.block) \in BOOLEAN
        /\ Wanted_Flag(q.always, seen.always) \in BOOLEAN
    BY <1>1 DEF Wanted_Flag, ShareRow
  <1> DEFINE block == Wanted_Flag(q.block, seen.block)
             always == Wanted_Flag(q.always, seen.always) /\ ~block
             named == q.block # "keep" \/ q.always # "keep"
             cleared == [row EXCEPT !.code = NoCode, !.block = FALSE, !.always = FALSE,
                                    !.zip = FALSE]
             written == [row EXCEPT !.code = IF q.code = "keep" THEN @ ELSE q.code,
                                    !.block = IF named THEN block ELSE @,
                                    !.always = IF named THEN always ELSE @]
  <1>3. /\ cleared \in ShareRow /\ ~cleared.block /\ cleared.code = NoCode
    BY DEF ShareRow
  <1>4. block \in BOOLEAN /\ always \in BOOLEAN /\ named \in BOOLEAN /\ ~(block /\ always)
    BY <1>2
  <1> HIDE DEF block, always, named
  <1>5. ASSUME q.code # "clear"
        PROVE  /\ written \in ShareRow /\ ~(written.block /\ written.always)
               /\ written.code \in {row.code, q.code}
    BY <1>1, <1>4, <1>5 DEF ShareRow
  <1>6. Edited(row, seen, q) = IF q.code = "clear" THEN cleared ELSE written
    BY DEF Edited, block, always, named
  <1> QED BY <1>3, <1>5, <1>6

-----------------------------------------------------------------------------
(* Shares: the proof *)

LEMMA NoRequest_Shape ==
    /\ NoRequest \in OwnerShape /\ NoRequest.pc = "idle" /\ NoRequest.todo = <<>>
    /\ NoVisit \in VisitShape /\ NoVisit.pc = "idle"
  <1>1. [block |-> "keep", always |-> "keep", code |-> "keep"] \in EditRequests
    BY DEF EditRequests, Flag
  <1> QED BY <1>1, NoShare_Row DEF NoRequest, NoVisit, OwnerShape, VisitShape

LEMMA SharesInit_Inv == SharesInit => SharesInv
  <1> SUFFICES ASSUME SharesInit PROVE SharesInv
    OBVIOUS
  <1>1. \A s \in ShareIds : shares[s] \in ShareRow /\ ~(shares[s].block /\ shares[s].always)
    <2>1. \A new \in NewShares : /\ new.block \in BOOLEAN /\ new.always \in BOOLEAN
                                 /\ new.zip \in BOOLEAN /\ new.ends \in BOOLEAN
      BY SharesAssumption
    <2>2. \A row \in StartShares : row \in ShareRow /\ ~(row.block /\ row.always)
      <3> TAKE row \in StartShares
      <3>1. CASE row = NoShare
        BY <3>1, NoShare_Row DEF NoShare
      <3>2. CASE row # NoShare
        <4>1. PICK code \in Codes \cup {NoCode}, new \in NewShares :
                 row = [live |-> TRUE, code |-> code, block |-> new.block,
                        always |-> new.always /\ ~new.block, zip |-> new.zip,
                        ends |-> new.ends]
          BY <3>2 DEF StartShares
        <4> QED BY <2>1, <4>1 DEF ShareRow
      <3> QED BY <3>1, <3>2
    <2> QED BY <2>2 DEF SharesInit
  <1>2. shares \in [ShareIds -> ShareRow]
    BY <1>1 DEF SharesInit
  <1>3. ShareShapes
    BY <1>2, NoRequest_Shape, NoShare_Row DEF SharesInit, ShareShapes
  <1>4. RequestsMatch
    BY NoRequest_Shape DEF SharesInit, RequestsMatch
  <1>5. \A k \in ShareKeys : EntryRight(k)
    BY NoShare_Row DEF SharesInit, EntryRight
  <1> QED BY <1>1, <1>3, <1>4, <1>5 DEF SharesInv, NeverBoth

(* An entry that a step leaves alone stays right when the step knows of      *)
(* every lookup it changes.                                                  *)
LEMMA EntryKept ==
    ASSUME NEW k \in ShareKeys, EntryRight(k), shareCache'[k] = shareCache[k],
           shareCache[k].live /\ Lookup(shares, k)' # Lookup(shares, k) =>
               k \in excused' \/ Awaited(k)' \/ shareCache[k] # Lookup(shares, k),
           k \in excused => k \in excused' \/ Awaited(k)',
           Awaited(k) => k \in excused' \/ Awaited(k)'
    PROVE  EntryRight(k)'
  BY DEF EntryRight

(* A request that awaited nothing may go on.                                 *)
LEMMA AwaitedKept ==
    ASSUME owner \in [Owners -> OwnerShape], NEW o \in Owners, NEW r,
           owner' = [owner EXCEPT ![o] = r], owner[o].todo = <<>>
    PROVE  \A k : Awaited(k) => Awaited(k)'
  <1> SUFFICES ASSUME NEW k, Awaited(k) PROVE Awaited(k)'
    OBVIOUS
  <1>1. PICK p \in Owners : \E i \in DOMAIN owner[p].todo : owner[p].todo[i] = k
    BY DEF Awaited
  <1>2. p # o
    BY <1>1
  <1>3. owner'[p] = owner[p]
    BY <1>2
  <1> QED BY <1>1, <1>3 DEF Awaited

LEMMA LookupStays ==
    ASSUME shares' = shares, late' = late, NEW k
    PROVE  Lookup(shares, k)' = Lookup(shares, k)
  BY DEF Lookup

(* Lookups of visitors. *)
LEMMA VisitStep ==
    ASSUME SharesInv, NEW v \in Visitors, NEW w \in VisitShape,
           visit' = [visit EXCEPT ![v] = w], w.pc # "idle" => w.key \in ShareKeys,
           UNCHANGED <<shares, shareCache, owner, late, excused>>
    PROVE  SharesInv'
  <1>1. ShareShapes' /\ NeverBoth(shares)' /\ RequestsMatch'
    BY DEF SharesInv, ShareShapes, NeverBoth, RequestsMatch
  <1>2. \A k \in ShareKeys : EntryRight(k)'
    <2> TAKE k \in ShareKeys
    <2>1. Lookup(shares, k)' = Lookup(shares, k)
      BY LookupStays
    <2>2. Awaited(k)' = Awaited(k)
      BY DEF Awaited
    <2> QED BY <2>1, <2>2 DEF SharesInv, EntryRight
  <1> QED BY <1>1, <1>2 DEF SharesInv

LEMMA VisitMiss_Inv ==
    ASSUME SharesInv, NEW v \in Visitors, NEW k \in ShareKeys, VisitMiss(v, k)
    PROVE  SharesInv'
  <1> DEFINE w == [pc |-> "load", key |-> k, row |-> NoShare]
  <1>1. w \in VisitShape /\ w.key = k
    BY NoShare_Row DEF VisitShape
  <1>2. /\ visit' = [visit EXCEPT ![v] = w]
        /\ UNCHANGED <<shares, shareCache, owner, late, excused>>
    BY DEF VisitMiss
  <1> HIDE DEF w
  <1> QED BY <1>1, <1>2, VisitStep

LEMMA VisitLoad_Inv ==
    ASSUME SharesInv, NEW v \in Visitors, VisitLoad(v) PROVE SharesInv'
  <1> DEFINE row == Lookup(shares, visit[v].key)
             w == IF row.live THEN [pc |-> "store", key |-> visit[v].key, row |-> row]
                              ELSE NoVisit
  <1>1. visit[v].key \in ShareKeys /\ shares \in [ShareIds -> ShareRow]
    BY DEF SharesInv, ShareShapes, RequestsMatch, VisitLoad
  <1>2. row \in ShareRow
    BY <1>1, LookupRow
  <1>3. /\ visit' = [visit EXCEPT ![v] = w]
        /\ UNCHANGED <<shares, shareCache, owner, late, excused>>
    BY DEF VisitLoad
  <1> HIDE DEF row
  <1>4. w \in VisitShape /\ (w.pc # "idle" => w.key \in ShareKeys)
    BY <1>1, <1>2, NoRequest_Shape DEF VisitShape
  <1> HIDE DEF w
  <1> QED BY <1>3, <1>4, VisitStep

(* The steps that store or delete the entry under one key.                   *)
LEMMA KeyStep ==
    ASSUME SharesInv, NEW k \in ShareKeys, NEW row \in ShareRow,
           shareCache' = [shareCache EXCEPT ![k] = row],
           row.live /\ row # Lookup(shares, k) => k \in excused',
           excused' \subseteq ShareKeys, excused \subseteq excused' \cup {k},
           \A m \in ShareKeys \ {k} : Awaited(m) => Awaited(m)',
           UNCHANGED <<shares, late>>,
           owner' \in [Owners -> OwnerShape], visit' \in [Visitors -> VisitShape],
           RequestsMatch'
    PROVE  SharesInv'
  <1>1. /\ shareCache'[k] = row
        /\ \A m \in ShareKeys \ {k} : shareCache'[m] = shareCache[m]
    BY DEF SharesInv, ShareShapes
  <1>2. ShareShapes' /\ NeverBoth(shares)'
    BY DEF SharesInv, ShareShapes, NeverBoth
  <1>3. \A m : Lookup(shares, m)' = Lookup(shares, m)
    BY LookupStays
  <1>4. ASSUME NEW m \in ShareKeys PROVE EntryRight(m)'
    <2>1. CASE m = k
      BY <2>1, <1>1, <1>3 DEF EntryRight
    <2>2. CASE m # k
      BY <2>2, <1>1, <1>3 DEF SharesInv, EntryRight
    <2> QED BY <2>1, <2>2
  <1> QED BY <1>2, <1>4 DEF SharesInv

LEMMA VisitStore_Inv ==
    ASSUME SharesInv, NEW v \in Visitors, VisitStore(v) PROVE SharesInv'
  <1>1. /\ visit[v].key \in ShareKeys /\ visit[v].row \in ShareRow
        /\ excused \subseteq ShareKeys
    BY DEF SharesInv, ShareShapes, RequestsMatch, VisitStore, VisitShape
  <1>2. \A m : Awaited(m)' = Awaited(m)
    BY DEF VisitStore, Awaited
  <1>3. owner' \in [Owners -> OwnerShape] /\ visit' \in [Visitors -> VisitShape]
    BY NoRequest_Shape DEF SharesInv, ShareShapes, VisitStore
  <1>4. RequestsMatch'
    BY NoRequest_Shape DEF SharesInv, ShareShapes, VisitStore, RequestsMatch
  <1>5. /\ excused' \subseteq ShareKeys /\ excused \subseteq excused' \cup {visit[v].key}
        /\ visit[v].row # Lookup(shares, visit[v].key) => visit[v].key \in excused'
    BY <1>1 DEF VisitStore
  <1>6. /\ shareCache' = [shareCache EXCEPT ![visit[v].key] = visit[v].row]
        /\ UNCHANGED <<shares, late>>
    BY DEF VisitStore
  <1> QED BY <1>1, <1>2, <1>3, <1>4, <1>5, <1>6, KeyStep

LEMMA EvictShare_Inv ==
    ASSUME SharesInv, NEW k \in ShareKeys, EvictShare(k) PROVE SharesInv'
  <1>1. \A m : Awaited(m)' = Awaited(m)
    BY DEF EvictShare, Awaited
  <1>2. /\ owner' \in [Owners -> OwnerShape] /\ visit' \in [Visitors -> VisitShape]
        /\ RequestsMatch'
    BY DEF SharesInv, ShareShapes, EvictShare, RequestsMatch
  <1>3. excused' \subseteq ShareKeys /\ excused \subseteq excused' \cup {k}
    BY DEF SharesInv, ShareShapes, EvictShare
  <1>4. shareCache' = [shareCache EXCEPT ![k] = NoShare] /\ UNCHANGED <<shares, late>>
    BY DEF EvictShare
  <1> QED BY <1>1, <1>2, <1>3, <1>4, NoShare_Row, KeyStep

(* The entry is gone, or it stays and is noted when it is not right.         *)
LEMMA DeleteEntry_Inv ==
    ASSUME SharesInv, NEW o \in Owners, DeleteEntry(o) \/ DeleteEntryFails(o)
    PROVE  SharesInv'
  <1> DEFINE todo == owner[o].todo
             k == Head(todo)
             r == IF Len(todo) = 1 THEN NoRequest ELSE [owner[o] EXCEPT !.todo = Tail(todo)]
  <1>1. /\ owner \in [Owners -> OwnerShape] /\ owner[o] \in OwnerShape
        /\ owner[o].pc = "clean" /\ todo \in Seq(ShareKeys) /\ todo # <<>>
    BY DEF SharesInv, ShareShapes, RequestsMatch, DeleteEntry, DeleteEntryFails, OwnerShape
  <1>2. /\ k \in ShareKeys /\ Tail(todo) \in Seq(ShareKeys)
        /\ Len(todo) # 1 => Tail(todo) # <<>>
        /\ \A i \in DOMAIN todo : todo[i] = k \/ \E n \in DOMAIN Tail(todo) : Tail(todo)[n] = todo[i]
    <2>1. /\ k \in ShareKeys /\ Tail(todo) \in Seq(ShareKeys) /\ Len(Tail(todo)) = Len(todo) - 1
          /\ \A n \in 1 .. Len(todo) - 1 : Tail(todo)[n] = todo[n + 1]
          /\ k = todo[1] /\ Len(todo) \in Nat \ {0}
      BY <1>1
    <2>2. ASSUME NEW i \in DOMAIN todo, i # 1
          PROVE  \E n \in DOMAIN Tail(todo) : Tail(todo)[n] = todo[i]
      <3>1. i - 1 \in 1 .. Len(todo) - 1 /\ (i - 1) + 1 = i
        BY <2>1, <2>2, <1>1
      <3>2. DOMAIN Tail(todo) = 1 .. Len(todo) - 1
        BY <2>1
      <3>3. Tail(todo)[i - 1] = todo[i]
        BY <2>1, <3>1
      <3> QED BY <3>1, <3>2, <3>3
    <2>3. \A i \in DOMAIN todo : i = 1 => todo[i] = k
      BY <2>1
    <2>4. ASSUME Len(todo) # 1 PROVE Tail(todo) # <<>>
      <3>1. Len(todo) - 1 # 0
        BY <2>1, <2>4
      <3>2. Len(<<>>) = 0
        OBVIOUS
      <3> QED BY <2>1, <3>1, <3>2
    <2>5. \A i \in DOMAIN todo :
             todo[i] = k \/ \E n \in DOMAIN Tail(todo) : Tail(todo)[n] = todo[i]
      BY <2>2, <2>3
    <2> QED BY <2>1, <2>4, <2>5
  <1>3. owner' = [owner EXCEPT ![o] = r]
    BY <1>1 DEF DeleteEntry, DeleteEntryFails, NextEntry
  <1>4. r \in OwnerShape /\ (r.pc = "clean" <=> r.todo # <<>>) /\ r.pc # "write"
    BY <1>1, <1>2, NoRequest_Shape DEF OwnerShape
  <1>5. Len(todo) = 1 \/ r.todo = Tail(todo)
    BY <1>1 DEF OwnerShape
  <1> HIDE DEF r
  <1>6. owner'[o] = r /\ \A p \in Owners \ {o} : owner'[p] = owner[p]
    BY <1>1, <1>3
  <1>7. ASSUME NEW m \in ShareKeys \ {k}, Awaited(m) PROVE Awaited(m)'
    <2>1. PICK p \in Owners : \E i \in DOMAIN owner[p].todo : owner[p].todo[i] = m
      BY <1>7 DEF Awaited
    <2>2. CASE p # o
      BY <2>1, <2>2, <1>6 DEF Awaited
    <2>3. CASE p = o
      <3>1. \E n \in DOMAIN Tail(todo) : Tail(todo)[n] = m
        BY <2>1, <2>3, <1>2
      <3>2. Len(todo) # 1
        BY <1>1, <3>1
      <3> QED BY <3>1, <3>2, <1>5, <1>6 DEF Awaited
    <2> QED BY <2>2, <2>3
  <1>8. owner' \in [Owners -> OwnerShape] /\ visit' \in [Visitors -> VisitShape]
    BY <1>1, <1>3, <1>4 DEF SharesInv, ShareShapes, DeleteEntry, DeleteEntryFails
  <1>9. RequestsMatch'
    BY <1>4, <1>6 DEF SharesInv, RequestsMatch, DeleteEntry, DeleteEntryFails
  <1>10. /\ excused' \subseteq ShareKeys /\ excused \subseteq excused' \cup {k}
         /\ UNCHANGED <<shares, late>>
    BY <1>2 DEF SharesInv, ShareShapes, DeleteEntry, DeleteEntryFails
  <1>11. PICK row \in ShareRow : /\ shareCache' = [shareCache EXCEPT ![k] = row]
                                 /\ row.live /\ row # Lookup(shares, k) => k \in excused'
    <2>1. CASE DeleteEntry(o)
      BY <2>1, NoShare_Row DEF DeleteEntry
    <2>2. CASE DeleteEntryFails(o)
      <3>1. shareCache[k] \in ShareRow /\ shareCache \in [ShareKeys -> ShareRow]
        BY <1>2 DEF SharesInv, ShareShapes
      <3>2. /\ shareCache' = [shareCache EXCEPT ![k] = shareCache[k]]
            /\ shareCache[k].live /\ shareCache[k] # Lookup(shares, k) => k \in excused'
        BY <2>2, <3>1 DEF DeleteEntryFails
      <3> QED BY <3>1, <3>2
    <2> QED BY <2>1, <2>2
  <1> HIDE DEF k
  <1> QED BY <1>2, <1>7, <1>8, <1>9, <1>10, <1>11, KeyStep

(* The expiry date passes: who has one is noted. *)
LEMMA Expire_Inv == SharesInv /\ Expire => SharesInv'
  <1> SUFFICES ASSUME SharesInv, Expire PROVE SharesInv'
    OBVIOUS
  <1>1. ShareShapes' /\ NeverBoth(shares)' /\ RequestsMatch'
    BY DEF SharesInv, ShareShapes, NeverBoth, RequestsMatch, Expire
  <1>2. ASSUME NEW k \in ShareKeys PROVE EntryRight(k)'
    <2>1. shareCache' = shareCache /\ shares' = shares /\ Awaited(k)' = Awaited(k)
      BY DEF Expire, Awaited
    <2>2. excused \subseteq excused'
          /\ (shareCache[k].live /\ shareCache[k].ends => k \in excused')
      BY DEF Expire
    <2>3. CASE ~shareCache[k].live \/ shareCache[k] # Lookup(shares, k)
      BY <2>1, <2>2, <2>3 DEF SharesInv, EntryRight
    <2>4. CASE /\ shareCache[k].live /\ shareCache[k] = Lookup(shares, k)
               /\ ~shareCache[k].ends
      <3>1. Lookup(shares, k).live /\ ~Lookup(shares, k).ends
        BY <2>4
      <3>2. Lookup(shares, k)' = Lookup(shares, k)
        BY <3>1, <2>1, NoShare_Row DEF Lookup
      <3> QED BY <3>2, <2>1, <2>4 DEF EntryRight
    <2> QED BY <2>1, <2>2, <2>3, <2>4 DEF EntryRight
  <1> QED BY <1>1, <1>2 DEF SharesInv

(* A request of the owner that starts, or that gives up. *)
LEMMA OwnerStep ==
    ASSUME SharesInv, NEW o \in Owners, NEW r \in OwnerShape,
           owner' = [owner EXCEPT ![o] = r], owner[o].todo = <<>>, r.todo = <<>>,
           r.pc # "clean", r.pc = "write" => r.id \in ShareIds,
           UNCHANGED <<shares, shareCache, visit, late, excused>>
    PROVE  SharesInv'
  <1>1. ShareShapes' /\ NeverBoth(shares)'
    BY DEF SharesInv, ShareShapes, NeverBoth
  <1>2. owner'[o] = r /\ \A p \in Owners \ {o} : owner'[p] = owner[p]
    BY DEF SharesInv, ShareShapes
  <1>3. RequestsMatch'
    BY <1>2 DEF SharesInv, RequestsMatch
  <1>4. \A k : Awaited(k) => Awaited(k)'
    BY AwaitedKept DEF SharesInv, ShareShapes
  <1>5. \A k : Lookup(shares, k)' = Lookup(shares, k)
    BY LookupStays
  <1>6. \A k \in ShareKeys : EntryRight(k)'
    BY <1>4, <1>5 DEF SharesInv, EntryRight
  <1> QED BY <1>1, <1>3, <1>6 DEF SharesInv

(* A set of numbers that is not empty has a least one. *)
LEMMA LeastShare ==
    ASSUME NEW S \in SUBSET Nat, S # {}
    PROVE  \E t \in S : \A u \in S : t <= u
  <1> DEFINE R == {p \in Nat \X Nat : p[1] < p[2]}
  <1>1. IsWellFoundedOn(R, Nat)
    BY NatLessThanWellFounded DEF OpToRel
  <1> HIDE DEF R
  <1>2. PICK t \in S : \A u \in S : ~(<<u, t>> \in R)
    BY <1>1, WFMin
  <1>3. \A u \in S : ~(u < t)
    BY <1>2 DEF R
  <1> QED BY <1>3

LEMMA EditRead_Inv ==
    ASSUME SharesInv, NEW o \in Owners, NEW q \in EditRequests, EditRead(o, q)
    PROVE  SharesInv'
  <1>1. PICK s : /\ s = CHOOSE t \in LiveShares : \A u \in LiveShares : t <= u
                 /\ owner' = [owner EXCEPT ![o] =
                      [NoRequest EXCEPT !.pc = "write", !.id = s, !.seen = shares[s],
                                        !.req = q]]
    BY DEF EditRead
  <1> DEFINE r == [NoRequest EXCEPT !.pc = "write", !.id = s, !.seen = shares[s], !.req = q]
  <1>2. s \in ShareIds
    <2>1. LiveShares # {} /\ LiveShares \subseteq Nat /\ LiveShares \subseteq ShareIds
      BY SharesAssumption DEF EditRead, LiveShares
    <2>2. \E t \in LiveShares : \A u \in LiveShares : t <= u
      BY <2>1, LeastShare
    <2> QED BY <1>1, <2>1, <2>2
  <1>3. owner[o].pc = "idle" /\ UNCHANGED <<shares, shareCache, visit, late, excused>>
    BY DEF EditRead, Asks
  <1>4. owner[o].todo = <<>>
    BY <1>3 DEF SharesInv, RequestsMatch
  <1>5. r \in OwnerShape /\ r.pc = "write" /\ r.todo = <<>> /\ r.id = s
    BY <1>2, NoRequest_Shape DEF SharesInv, ShareShapes, OwnerShape
  <1>6. owner' = [owner EXCEPT ![o] = r]
    BY <1>1
  <1> HIDE DEF r
  <1> QED BY <1>2, <1>3, <1>4, <1>5, <1>6, OwnerStep

(* A step that writes rows: every lookup it changes is one whose entry was   *)
(* wrong before, is noted, or is about to be deleted.                        *)
LEMMA RowStep ==
    ASSUME SharesInv, NEW o \in Owners, NEW r \in OwnerShape,
           NEW table \in [ShareIds -> ShareRow], NeverBoth(table), shares' = table,
           owner' = [owner EXCEPT ![o] = r], owner[o].todo = <<>>,
           r.pc # "write", r.pc = "clean" <=> r.todo # <<>>,
           excused \subseteq excused', excused' \subseteq ShareKeys,
           \A k \in ShareKeys : Lookup(table, k) # Lookup(shares, k) /\ shareCache[k].live =>
               \/ k \in excused' \/ shareCache[k] # Lookup(shares, k)
               \/ \E i \in DOMAIN r.todo : r.todo[i] = k,
           UNCHANGED <<shareCache, visit, late>>
    PROVE  SharesInv'
  <1>1. ShareShapes' /\ NeverBoth(shares)'
    BY DEF SharesInv, ShareShapes, NeverBoth
  <1>2. owner'[o] = r /\ \A p \in Owners \ {o} : owner'[p] = owner[p]
    BY DEF SharesInv, ShareShapes
  <1>3. RequestsMatch'
    BY <1>2 DEF SharesInv, RequestsMatch
  <1>4. \A k : Awaited(k) => Awaited(k)'
    BY AwaitedKept DEF SharesInv, ShareShapes
  <1>5. \A k : (\E i \in DOMAIN r.todo : r.todo[i] = k) => Awaited(k)'
    BY <1>2 DEF Awaited
  <1>6. \A k : Lookup(shares, k)' = Lookup(table, k)
    BY DEF Lookup
  <1>7. \A k \in ShareKeys : EntryRight(k)'
    BY <1>4, <1>5, <1>6 DEF SharesInv, EntryRight
  <1> QED BY <1>1, <1>3, <1>7 DEF SharesInv

LEMMA CreateShare_Inv ==
    ASSUME SharesInv, NEW o \in Owners, NEW s \in ShareIds,
           NEW code \in Codes \cup {NoCode}, NEW new \in NewShares,
           CreateShare(o, s, code, new)
    PROVE  SharesInv'
  <1> DEFINE row == [live |-> TRUE, code |-> code, block |-> new.block,
                     always |-> new.always /\ ~new.block, zip |-> new.zip,
                     ends |-> new.ends]
             table == [shares EXCEPT ![s] = row]
             r == owner[o]
  <1>1. /\ new.block \in BOOLEAN /\ new.always \in BOOLEAN
        /\ new.zip \in BOOLEAN /\ new.ends \in BOOLEAN
    BY SharesAssumption
  <1>2. row \in ShareRow /\ ~(row.block /\ row.always) /\ row.code = code
    BY <1>1 DEF ShareRow
  <1>3. /\ shares \in [ShareIds -> ShareRow] /\ ~shares[s].live
        /\ CodeFree(shares, s, code) /\ shares' = table
        /\ UNCHANGED <<shareCache, owner, visit, late, excused>>
    BY NoShare_Row DEF SharesInv, ShareShapes, CreateShare
  <1> HIDE DEF row
  <1>4. /\ table \in [ShareIds -> ShareRow] /\ table[s] = row
        /\ \A t \in ShareIds \ {s} : table[t] = shares[t]
    BY <1>2, <1>3
  <1> HIDE DEF table
  <1>5. NeverBoth(table)
    BY <1>2, <1>4 DEF NeverBoth, SharesInv
  <1>6. ASSUME NEW k \in ShareKeys, Lookup(table, k) # Lookup(shares, k),
               shareCache[k].live
        PROVE  shareCache[k] # Lookup(shares, k)
    <2>1. k = s \/ k = code
      BY <1>2, <1>3, <1>4, <1>6, LookupElsewhere
    <2>2. Hits(shares, k) = {}
      <3> SUFFICES ASSUME NEW t \in ShareIds, shares[t].live, k \in {t, shares[t].code}
                   PROVE  FALSE
        BY DEF Hits
      <3>1. t # s /\ shares[t].code \in Codes \cup {NoCode}
        BY <1>3 DEF ShareRow
      <3>2. k \notin Codes => k \in ShareIds
        BY DEF ShareKeys
      <3>3. CASE k = s
        BY <3>1, <3>3, SharesAssumption
      <3>4. CASE k = code /\ k # s
        <4>1. k \in Codes /\ k # NoCode
          BY <3>2, <3>4, SharesAssumption
        <4>2. shares[t].code = k
          BY <4>1, SharesAssumption
        <4> QED BY <1>3, <3>1, <3>4, <4>1, <4>2 DEF CodeFree
      <3> QED BY <2>1, <3>3, <3>4
    <2>3. ~Lookup(shares, k).live
      BY <2>2, LookupNothing, NoShare_Row
    <2> QED BY <1>6, <2>3
  <1>7. /\ r \in OwnerShape /\ r.pc = "idle" /\ r.todo = <<>>
        /\ owner' = [owner EXCEPT ![o] = r] /\ excused' \subseteq ShareKeys
    BY <1>3 DEF SharesInv, ShareShapes, RequestsMatch, CreateShare, Asks
  <1> HIDE DEF r
  <1>8. owner[o].todo = <<>> /\ excused \subseteq excused'
    BY <1>3, <1>7 DEF r
  <1> QED BY <1>3, <1>4, <1>5, <1>6, <1>7, <1>8, RowStep

(* The keys of an edit are its share, the code as it was read and the new    *)
(* one; those of a deletion are a share and its code.                        *)
LEMMA EditKeysAre ==
    ASSUME NEW s \in ShareIds, NEW seen \in ShareRow, NEW q \in EditRequests
    PROVE  LET keys == EditKeys(s, seen, q) IN
           /\ keys \in Seq(ShareKeys) /\ keys # <<>>
           /\ \A k : k = s \/ (k = seen.code /\ k # NoCode) \/ (k = q.code /\ k \in Codes) =>
                 \E i \in DOMAIN keys : keys[i] = k
  <1>1. s \in ShareKeys /\ (seen.code # NoCode => seen.code \in ShareKeys)
        /\ Codes \subseteq ShareKeys
    BY DEF ShareKeys, ShareRow
  <1> DEFINE old == IF seen.code = NoCode THEN <<>> ELSE <<seen.code>>
             new == IF q.code \in Codes THEN <<q.code>> ELSE <<>>
             keys == <<s>> \o old \o new
  <1>2. old \in Seq(ShareKeys) /\ new \in Seq(ShareKeys) /\ <<s>> \in Seq(ShareKeys)
    BY <1>1
  <1>3. /\ Len(<<s>>) = 1 /\ <<s>>[1] = s
        /\ IF seen.code = NoCode THEN Len(old) = 0 ELSE Len(old) = 1 /\ old[1] = seen.code
        /\ IF q.code \in Codes THEN Len(new) = 1 /\ new[1] = q.code ELSE Len(new) = 0
    OBVIOUS
  <1> HIDE DEF old, new
  <1> DEFINE both == <<s>> \o old
  <1>4. /\ both \in Seq(ShareKeys) /\ Len(both) = 1 + Len(old) /\ both[1] = s
        /\ Len(old) = 1 => both[2] = old[1]
    BY <1>2, <1>3, ConcatProperties
  <1> HIDE DEF both
  <1>5. /\ both \o new \in Seq(ShareKeys) /\ Len(both \o new) = Len(both) + Len(new)
        /\ \A i \in 1 .. Len(both) : (both \o new)[i] = both[i]
        /\ Len(new) = 1 => (both \o new)[Len(both) + 1] = new[1]
    BY <1>2, <1>3, <1>4, ConcatProperties
  <1>6. keys = both \o new /\ EditKeys(s, seen, q) = keys
    BY DEF both, old, new, EditKeys
  <1> HIDE DEF keys
  <1>7. keys \in Seq(ShareKeys) /\ DOMAIN keys = 1 .. Len(both) + Len(new)
    BY <1>5, <1>6
  <1>8. 1 \in DOMAIN keys /\ keys[1] = s
    BY <1>3, <1>4, <1>5, <1>6, <1>7
  <1>9. seen.code # NoCode => 2 \in DOMAIN keys /\ keys[2] = seen.code
    BY <1>3, <1>4, <1>5, <1>6, <1>7
  <1>10. q.code \in Codes =>
           Len(both) + 1 \in DOMAIN keys /\ keys[Len(both) + 1] = q.code
    BY <1>3, <1>4, <1>5, <1>6, <1>7
  <1>11. keys # <<>>
    BY <1>8
  <1> QED BY <1>6, <1>7, <1>8, <1>9, <1>10, <1>11

LEMMA EditWrite_Inv ==
    ASSUME SharesInv, NEW o \in Owners, EditWrite(o) PROVE SharesInv'
  <1> DEFINE old == owner[o]
             s == old.id
             q == old.req
             keys == EditKeys(s, old.seen, q)
             known == {keys[i] : i \in DOMAIN keys}
             row == Edited(shares[s], old.seen, q)
             table == [shares EXCEPT ![s] =
                         IF shares[s].live THEN Edited(@, old.seen, q) ELSE @]
             r == [old EXCEPT !.pc = "clean", !.todo = keys]
  <1>1. /\ old \in OwnerShape /\ old.pc = "write" /\ s \in ShareIds /\ old.todo = <<>>
        /\ shares \in [ShareIds -> ShareRow] /\ NeverBoth(shares)
        /\ owner \in [Owners -> OwnerShape] /\ excused \subseteq ShareKeys
    BY DEF SharesInv, ShareShapes, RequestsMatch, EditWrite
  <1>2. /\ keys \in Seq(ShareKeys) /\ keys # <<>>
        /\ \A k : k = s \/ (k = old.seen.code /\ k # NoCode) \/ (k = q.code /\ k \in Codes) =>
              \E i \in DOMAIN keys : keys[i] = k
    BY <1>1, EditKeysAre DEF OwnerShape
  <1>3. /\ row \in ShareRow /\ ~(row.block /\ row.always)
        /\ row.code \in {shares[s].code, q.code, NoCode}
    <2>1. shares[s] \in ShareRow /\ ~(shares[s].block /\ shares[s].always)
      BY <1>1 DEF NeverBoth
    <2>2. old.seen \in ShareRow /\ q \in EditRequests
      BY <1>1 DEF OwnerShape
    <2> QED BY <2>1, <2>2, EditedRow
  <1>4. UNCHANGED <<shareCache, visit, late>>
    BY DEF EditWrite
  <1>5. CASE ~shares[s].live \/ CodeFree(shares, s, q.code)
    <2>1. /\ shares' = table
          /\ owner' = [owner EXCEPT ![o].pc = "clean", ![o].todo = keys]
          /\ excused' = excused \cup
               (IF shares[s].code = old.seen.code THEN {} ELSE Unforeseen(table, known))
      BY <1>5 DEF EditWrite
    <2>2. owner' = [owner EXCEPT ![o] = r]
      BY <1>1, <2>1
    <2> HIDE DEF keys, row
    <2>3. r \in OwnerShape /\ r.pc = "clean" /\ r.todo = keys
      BY <1>1, <1>2 DEF OwnerShape
    <2> HIDE DEF r
    <2>4. /\ table \in [ShareIds -> ShareRow]
          /\ table[s] = IF shares[s].live THEN row ELSE shares[s]
          /\ \A t \in ShareIds \ {s} : table[t] = shares[t]
      BY <1>1, <1>3 DEF row
    <2> HIDE DEF table
    <2>5. NeverBoth(table)
      BY <1>1, <1>3, <2>4 DEF NeverBoth
    <2>6. ASSUME NEW k \in ShareKeys, Lookup(table, k) # Lookup(shares, k),
                 shareCache[k].live
          PROVE  k \in excused' \/ \E i \in DOMAIN keys : keys[i] = k
      <3>1. CASE k \in known
        BY <3>1
      <3>2. CASE k \notin known /\ shares[s].code # old.seen.code
        BY <3>2, <2>1, <2>6 DEF Unforeseen
      <3>3. CASE k \notin known /\ shares[s].code = old.seen.code
        <4>1. k # NoCode
          BY SharesAssumption DEF ShareKeys
        <4>2. k # s /\ k # shares[s].code
          BY <1>2, <3>3, <4>1
        <4>3. k # table[s].code
          <5>1. CASE ~shares[s].live
            BY <5>1, <4>2, <2>4
          <5>2. CASE shares[s].live
            <6>1. table[s].code \in {shares[s].code, q.code, NoCode}
                  /\ table[s].code \in Codes \cup {NoCode}
              BY <5>2, <2>4, <1>3 DEF ShareRow
            <6> QED BY <6>1, <4>1, <4>2, <1>2, <3>3
          <5> QED BY <5>1, <5>2
        <4>4. Lookup(table, k) = Lookup(shares, k)
          BY <1>1, <2>4, <4>2, <4>3, LookupElsewhere
        <4> QED BY <4>4, <2>6
      <3> QED BY <3>1, <3>2, <3>3
    <2>7. excused \subseteq excused' /\ excused' \subseteq ShareKeys
      BY <1>1, <2>1 DEF Unforeseen
    <2>8. \A k \in ShareKeys : Lookup(table, k) # Lookup(shares, k) /\ shareCache[k].live =>
             \/ k \in excused' \/ shareCache[k] # Lookup(shares, k)
             \/ \E i \in DOMAIN r.todo : r.todo[i] = k
      BY <2>3, <2>6
    <2> HIDE DEF known
    <2> QED BY <1>1, <1>2, <1>4, <2>1, <2>2, <2>3, <2>4, <2>5, <2>7, <2>8, RowStep
  <1>6. CASE ~(~shares[s].live \/ CodeFree(shares, s, q.code))
    <2>1. /\ owner' = [owner EXCEPT ![o] = NoRequest]
          /\ UNCHANGED <<shares, shareCache, visit, late, excused>>
      BY <1>6 DEF EditWrite
    <2> QED BY <1>1, <2>1, NoRequest_Shape, OwnerStep
  <1> QED BY <1>5, <1>6

LEMMA PairOf ==
    ASSUME NEW S, NEW x \in S, NEW y \in S
    PROVE  LET p == <<x>> \o <<y>> IN
           p \in Seq(S) /\ DOMAIN p = 1 .. 2 /\ p[1] = x /\ p[2] = y
  OBVIOUS

LEMMA DeleteShares_Inv ==
    ASSUME SharesInv, NEW o \in Owners, NEW s \in ShareIds, DeleteShares(o, s)
    PROVE  SharesInv'
  <1> DEFINE keys == <<s>> \o (IF shares[s].code = NoCode THEN <<>> ELSE <<shares[s].code>>)
             known == {keys[i] : i \in DOMAIN keys}
             table == NoneLeft
             r == [NoRequest EXCEPT !.pc = "clean", !.id = s, !.todo = keys]
  <1>1. /\ shares \in [ShareIds -> ShareRow] /\ NeverBoth(shares)
        /\ owner[o].todo = <<>> /\ excused \subseteq ShareKeys
    BY DEF SharesInv, ShareShapes, RequestsMatch, DeleteShares, Asks
  <1>2. /\ keys \in Seq(ShareKeys) /\ keys # <<>>
        /\ \A k : k = s \/ (k = shares[s].code /\ k # NoCode) =>
              \E i \in DOMAIN keys : keys[i] = k
    <2>1. s \in ShareKeys /\ (shares[s].code # NoCode => shares[s].code \in ShareKeys)
      BY <1>1 DEF ShareKeys, ShareRow
    <2>2. CASE shares[s].code = NoCode
      <3>1. keys = <<s>>
        BY <2>2
      <3> QED BY <3>1, <2>1, <2>2
    <2>3. CASE shares[s].code # NoCode
      <3>1. keys = <<s>> \o <<shares[s].code>>
        BY <2>3
      <3> HIDE DEF keys
      <3>2. /\ keys \in Seq(ShareKeys) /\ DOMAIN keys = 1 .. 2
            /\ keys[1] = s /\ keys[2] = shares[s].code
        BY <2>1, <2>3, <3>1, PairOf
      <3>3. keys # <<>> /\ 1 \in DOMAIN keys /\ 2 \in DOMAIN keys
        <4>1. 1 \in DOMAIN keys /\ 2 \in DOMAIN keys
          BY <3>2
        <4> QED BY <4>1
      <3> QED BY <3>2, <3>3
    <2> QED BY <2>2, <2>3
  <1>3. /\ shares' = table /\ shares[s].live
        /\ owner' = [owner EXCEPT ![o] = r]
        /\ excused' = excused \cup
             (IF LiveShares = {s} THEN {} ELSE Unforeseen(table, known))
        /\ UNCHANGED <<shareCache, visit, late>>
    BY DEF DeleteShares, Live_Share
  <1> HIDE DEF keys
  <1>4. r \in OwnerShape /\ r.pc = "clean" /\ r.todo = keys
    BY <1>2, NoRequest_Shape DEF OwnerShape
  <1> HIDE DEF r
  <1>5. /\ table \in [ShareIds -> ShareRow]
        /\ \A t \in ShareIds : /\ ~table[t].live /\ table[t].block = shares[t].block
                               /\ table[t].always = shares[t].always
    BY <1>1 DEF ShareRow, NoneLeft
  <1> HIDE DEF table
  <1>6. NeverBoth(table)
    BY <1>1, <1>5 DEF NeverBoth
  <1>7. ASSUME NEW k \in ShareKeys, Lookup(table, k) # Lookup(shares, k),
               shareCache[k].live
        PROVE  k \in excused' \/ \E i \in DOMAIN keys : keys[i] = k
    <2>1. CASE k \in known
      BY <2>1
    <2>2. CASE k \notin known /\ LiveShares # {s}
      BY <2>2, <1>3, <1>7 DEF Unforeseen
    <2>3. CASE k \notin known /\ LiveShares = {s}
      <3>1. Hits(table, k) = {}
        BY <1>5 DEF Hits
      <3>2. k # NoCode
        BY SharesAssumption DEF ShareKeys
      <3>3. k # s /\ k # shares[s].code
        BY <1>2, <2>3, <3>2
      <3>4. Hits(shares, k) = {}
        BY <2>3, <3>3 DEF Hits, LiveShares
      <3> QED BY <3>1, <3>4, <1>7, LookupNothing
    <2> QED BY <2>1, <2>2, <2>3
  <1>8. excused \subseteq excused' /\ excused' \subseteq ShareKeys
    BY <1>1, <1>3 DEF Unforeseen
  <1>9. \A k \in ShareKeys : Lookup(table, k) # Lookup(shares, k) /\ shareCache[k].live =>
           \/ k \in excused' \/ shareCache[k] # Lookup(shares, k)
           \/ \E i \in DOMAIN r.todo : r.todo[i] = k
    BY <1>4, <1>7
  <1> HIDE DEF known
  <1> QED BY <1>1, <1>2, <1>3, <1>4, <1>5, <1>6, <1>8, <1>9, RowStep

(* The shares go with their file: every entry whose lookup changes is noted. *)
LEMMA FileRemoved_Inv == SharesInv /\ FileRemoved => SharesInv'
  <1> SUFFICES ASSUME SharesInv, FileRemoved PROVE SharesInv'
    OBVIOUS
  <1>1. /\ shares' \in [ShareIds -> ShareRow]
        /\ \A t \in ShareIds : /\ shares'[t].block = shares[t].block
                               /\ shares'[t].always = shares[t].always
    BY DEF SharesInv, ShareShapes, FileRemoved, NoneLeft, ShareRow
  <1>2. /\ UNCHANGED <<shareCache, owner, visit, late>> /\ excused \subseteq excused'
        /\ excused' \subseteq ShareKeys /\ shares' = NoneLeft
    BY DEF SharesInv, ShareShapes, FileRemoved, Unforeseen
  <1>3. ShareShapes' /\ NeverBoth(shares)' /\ RequestsMatch'
    BY <1>1, <1>2 DEF SharesInv, ShareShapes, NeverBoth, RequestsMatch
  <1>4. ASSUME NEW k \in ShareKeys PROVE EntryRight(k)'
    <2>1. Awaited(k)' = Awaited(k) /\ Lookup(shares, k)' = Lookup(NoneLeft, k)
      BY <1>2 DEF Awaited, Lookup
    <2>2. shareCache[k].live /\ Lookup(NoneLeft, k) # Lookup(shares, k) => k \in excused'
      BY DEF FileRemoved, Unforeseen
    <2> QED BY <1>2, <2>1, <2>2 DEF SharesInv, EntryRight
  <1> QED BY <1>3, <1>4 DEF SharesInv

LEMMA SharesNext_Inv ==
    ASSUME SharesInv, [SharesNext]_shareVars PROVE SharesInv'
  <1>1. CASE UNCHANGED shareVars
    <2>1. \A k : Awaited(k)' = Awaited(k) /\ Lookup(shares, k)' = Lookup(shares, k)
      BY <1>1 DEF shareVars, Awaited, Lookup
    <2> QED BY <1>1, <2>1 DEF shareVars, SharesInv, ShareShapes, NeverBoth, RequestsMatch,
                              EntryRight
  <1>2. CASE SharesNext
    <2>1. ASSUME NEW v \in Visitors, NEW k \in ShareKeys, VisitHit(v, k) PROVE SharesInv'
      BY <2>1, <1>1 DEF VisitHit
    <2> QED BY <1>2, <2>1, VisitMiss_Inv, VisitLoad_Inv, VisitStore_Inv, EvictShare_Inv,
               Expire_Inv, CreateShare_Inv, EditRead_Inv, EditWrite_Inv, DeleteEntry_Inv,
               DeleteShares_Inv, FileRemoved_Inv DEF SharesNext
  <1> QED BY <1>1, <1>2

(* The row of the file goes or stays. *)
LEMMA SharesFileRow ==
    ASSUME [SharesNext]_shareVars PROVE fileRow' \in {fileRow, FALSE}
  <1>1. CASE UNCHANGED shareVars
    BY <1>1 DEF shareVars
  <1>2. ASSUME NEW v \in Visitors, NEW k \in ShareKeys, VisitHit(v, k) \/ VisitMiss(v, k)
        PROVE  fileRow' \in {fileRow, FALSE}
    BY <1>2 DEF VisitHit, VisitMiss, shareVars
  <1>3. ASSUME NEW v \in Visitors, VisitLoad(v) \/ VisitStore(v)
        PROVE  fileRow' \in {fileRow, FALSE}
    BY <1>3 DEF VisitLoad, VisitStore
  <1>4. ASSUME NEW k \in ShareKeys, EvictShare(k) PROVE fileRow' \in {fileRow, FALSE}
    BY <1>4 DEF EvictShare
  <1>5. CASE Expire \/ FileRemoved
    BY <1>5 DEF Expire, FileRemoved
  <1>6. ASSUME NEW o \in Owners, NEW s \in ShareIds, NEW code \in Codes \cup {NoCode},
               NEW new \in NewShares, CreateShare(o, s, code, new)
        PROVE  fileRow' \in {fileRow, FALSE}
    BY <1>6 DEF CreateShare
  <1>7. ASSUME NEW o \in Owners, NEW req \in EditRequests, EditRead(o, req)
        PROVE  fileRow' \in {fileRow, FALSE}
    BY <1>7 DEF EditRead
  <1>8. ASSUME NEW o \in Owners, EditWrite(o) \/ DeleteEntry(o) \/ DeleteEntryFails(o)
        PROVE  fileRow' \in {fileRow, FALSE}
    BY <1>8 DEF EditWrite, DeleteEntry, DeleteEntryFails
  <1>9. ASSUME NEW o \in Owners, NEW s \in ShareIds, DeleteShares(o, s)
        PROVE  fileRow' \in {fileRow, FALSE}
    BY <1>9 DEF DeleteShares
  <1> QED BY <1>1, <1>2, <1>3, <1>4, <1>5, <1>6, <1>7, <1>8, <1>9 DEF SharesNext

(* The row of the file is there, or it is gone. *)
FileRowOK == fileRow \in BOOLEAN

LEMMA FileRowIsFlag == SharesSpec => []FileRowOK
  <1>1. SharesInit => FileRowOK
    BY DEF SharesInit, FileRowOK
  <1>2. FileRowOK /\ [SharesNext]_shareVars => FileRowOK'
    <2> SUFFICES ASSUME fileRow \in BOOLEAN, [SharesNext]_shareVars
                 PROVE  fileRow' \in BOOLEAN
      BY DEF FileRowOK
    <2>1. fileRow' \in {fileRow, FALSE}
      BY SharesFileRow
    <2> QED BY <2>1
  <1> QED BY <1>1, <1>2, PTL DEF SharesSpec

(* The types of the shares' state; and block_direct_link and                 *)
(* always_direct_link are never both set, whatever edits overlap.            *)
THEOREM SharesTypes == SharesSpec => []SharesTypeOK
  <1>1. SharesInv /\ FileRowOK => SharesTypeOK
    BY DEF SharesInv, ShareShapes, NeverBoth, OwnerShape, SharesTypeOK, FileRowOK
  <1> QED BY <1>1, SharesInit_Inv, SharesNext_Inv, FileRowIsFlag, PTL DEF SharesSpec

(* However many shares, owners and visitors there are, a visitor is answered *)
(* from the cache as the row would have it, but for the causes that          *)
(* StaleShareHasCause names (FetchArg, FilesEditShare, FilesDeleteShare).    *)
THEOREM StaleSharesExplained == SharesSpec => []StaleShareHasCause
  <1>1. SharesInv => StaleShareHasCause
    BY DEF SharesInv, EntryRight, StaleShareHasCause, SameAnswers
  <1> QED BY <1>1, SharesInit_Inv, SharesNext_Inv, PTL DEF SharesSpec

-----------------------------------------------------------------------------
(* Deduplication jobs: the inductive invariant *)

StatusOf(run) == CASE run = "queued" -> "pending" [] run = "core" -> "running"
                   [] OTHER -> run

(* Jobs that nobody asked for are not in the list, the list of a user is not *)
(* longer than MaxJobs, and the clock has not gone back.                     *)
ListsShort ==
    /\ \A j \in JobIds : ~Created(j) => ~dedupJobs[j].kept
    /\ \A u \in JobUsers : Cardinality(Kept(dedupJobs, u)) <= MaxJobs
    /\ \A j \in JobIds : Created(j) => dedupJobs[j].started <= clock

(* A job that was dropped left a full list of jobs that began no earlier.    *)
DroppedForOthers ==
    \A j \in JobIds : Created(j) /\ ~dedupJobs[j].kept =>
        /\ Cardinality(Kept(dedupJobs, dedupJobs[j].user)) = MaxJobs
        /\ \A k \in Kept(dedupJobs, dedupJobs[j].user) :
              dedupJobs[k].started >= dedupJobs[j].started

StatusRight ==
    \A j \in JobIds : Created(j) /\ dedupJobs[j].kept =>
        dedupJobs[j].status = StatusOf(runs[j])

JobsInv == /\ JobsTypeOK /\ clock \in 0 .. MaxClock
           /\ ListsShort /\ DroppedForOthers /\ StatusRight

LEMMA KeptFinite ==
    ASSUME NEW v, NEW u PROVE IsFiniteSet(Kept(v, u)) /\ Cardinality(Kept(v, u)) \in Nat
  <1>1. IsFiniteSet(JobIds)
    BY DedupJobsAssumption, FS_Interval DEF JobIds
  <1>2. IsFiniteSet(Kept(v, u))
    BY <1>1, FS_Subset DEF Kept
  <1> QED BY <1>2, FS_CardinalityType

LEMMA JobsInit_Inv == JobsInit => JobsInv
  <1> SUFFICES ASSUME JobsInit PROVE JobsInv
    OBVIOUS
  <1>1. (CHOOSE v \in JobUsers : TRUE) \in JobUsers
    BY DedupJobsAssumption
  <1>2. JobsTypeOK /\ clock \in 0 .. MaxClock
    BY <1>1, DedupJobsAssumption DEF JobsInit, JobsTypeOK, JobRecord, RunState
  <1>3. \A j \in JobIds : ~Created(j) /\ ~dedupJobs[j].kept
    BY DEF JobsInit, Created
  <1>4. \A u \in JobUsers : Cardinality(Kept(dedupJobs, u)) <= MaxJobs
    <2> TAKE u \in JobUsers
    <2>1. Kept(dedupJobs, u) = {}
      BY <1>3 DEF Kept
    <2>2. Cardinality(Kept(dedupJobs, u)) = 0
      BY <2>1, FS_EmptySet
    <2> QED BY <2>2, DedupJobsAssumption
  <1> QED BY <1>2, <1>3, <1>4 DEF JobsInv, ListsShort, DroppedForOthers, StatusRight

(* What a run does to its own entry leaves the lists alone. *)
LEMMA JobStep_Inv ==
    ASSUME JobsInv, NEW j \in JobIds, NEW status \in {"running"} \cup JobEnded,
           NEW run \in {"core"} \cup JobEnded, StatusOf(run) = status,
           Created(j), UpdateJob(j, status), runs' = [runs EXCEPT ![j] = run],
           clock' = clock
    PROVE  JobsInv'
  <1>1. /\ dedupJobs \in [JobIds -> JobRecord] /\ runs \in [JobIds -> RunState]
        /\ runs[j] # "none"
    BY DEF JobsInv, JobsTypeOK, Created
  <1>2. /\ runs'[j] = run /\ \A k \in JobIds \ {j} : runs'[k] = runs[k]
        /\ run # "none" /\ runs' \in [JobIds -> RunState]
    BY <1>1 DEF JobEnded, RunState
  <1>3. dedupJobs' \in [JobIds -> JobRecord]
    BY <1>1 DEF UpdateJob, JobRecord
  <1>4. \A k \in JobIds : /\ dedupJobs'[k].kept = dedupJobs[k].kept
                          /\ dedupJobs'[k].user = dedupJobs[k].user
                          /\ dedupJobs'[k].started = dedupJobs[k].started
    BY <1>1 DEF UpdateJob, JobRecord
  <1>5. \A k \in JobIds : dedupJobs'[k].status =
           IF k = j /\ dedupJobs[j].kept THEN status ELSE dedupJobs[k].status
    BY <1>1 DEF UpdateJob, JobRecord
  <1>6. \A u : Kept(dedupJobs', u) = Kept(dedupJobs, u)
    BY <1>4 DEF Kept
  <1>7. \A k \in JobIds : Created(k)' <=> Created(k)
    BY <1>1, <1>2 DEF Created
  <1>8. ListsShort'
    BY <1>4, <1>6, <1>7 DEF JobsInv, ListsShort
  <1>9. DroppedForOthers'
    <2> SUFFICES ASSUME NEW k \in JobIds, Created(k)', ~dedupJobs'[k].kept
                 PROVE  /\ Cardinality(Kept(dedupJobs', dedupJobs'[k].user)) = MaxJobs
                        /\ \A m \in Kept(dedupJobs', dedupJobs'[k].user) :
                              dedupJobs'[m].started >= dedupJobs'[k].started
      BY DEF DroppedForOthers
    <2>1. Kept(dedupJobs', dedupJobs'[k].user) = Kept(dedupJobs, dedupJobs[k].user)
      BY <1>4, <1>6
    <2>2. /\ Cardinality(Kept(dedupJobs, dedupJobs[k].user)) = MaxJobs
          /\ \A m \in Kept(dedupJobs, dedupJobs[k].user) :
                dedupJobs[m].started >= dedupJobs[k].started
      BY <1>4, <1>7 DEF JobsInv, DroppedForOthers
    <2>3. Kept(dedupJobs, dedupJobs[k].user) \subseteq JobIds
      BY DEF Kept
    <2> QED BY <2>1, <2>2, <2>3, <1>4
  <1>10. StatusRight'
    BY <1>2, <1>4, <1>5, <1>7 DEF JobsInv, StatusRight
  <1> QED BY <1>2, <1>3, <1>8, <1>9, <1>10 DEF JobsInv, JobsTypeOK

(* A new job is entered, and the list of its user loses an oldest entry when *)
(* it has become too long.                                                   *)
LEMMA StartJob_Inv ==
    ASSUME JobsInv, NEW j \in JobIds, NEW u \in JobUsers, NEW now \in 0 .. MaxClock,
           StartJob(u, j, now)
    PROVE  JobsInv'
  <1> DEFINE job == [kept |-> TRUE, user |-> u, started |-> now, status |-> "pending"]
             v == [dedupJobs EXCEPT ![j] = job]
             old == Kept(dedupJobs, u)
             owned == Kept(v, u)
  <1>1. /\ dedupJobs \in [JobIds -> JobRecord] /\ runs \in [JobIds -> RunState]
        /\ ~Created(j) /\ ~dedupJobs[j].kept /\ runs[j] = "none"
        /\ clock \in Nat /\ now \in Nat /\ clock <= now /\ clock' = now
        /\ dedupJobs' \in Pruned(v, u) /\ runs' = [runs EXCEPT ![j] = "queued"]
    BY DedupJobsAssumption DEF JobsInv, JobsTypeOK, ListsShort, StartJob, Created
  <1>2. /\ job \in JobRecord /\ job.kept /\ job.user = u /\ job.started = now
        /\ job.status = "pending"
    BY DEF JobRecord
  <1> HIDE DEF job
  <1>3. /\ v \in [JobIds -> JobRecord] /\ v[j] = job
        /\ \A k \in JobIds \ {j} : v[k] = dedupJobs[k]
    BY <1>1, <1>2
  <1> HIDE DEF v
  <1>4. /\ \A w \in JobUsers \ {u} : Kept(v, w) = Kept(dedupJobs, w)
        /\ owned = old \cup {j} /\ j \notin old
    BY <1>1, <1>2, <1>3 DEF Kept
  <1>5. /\ IsFiniteSet(old) /\ Cardinality(old) \in Nat
        /\ Cardinality(owned) = Cardinality(old) + 1
    BY ZenonT(40), <1>4, KeptFinite, FS_AddElement
  <1>6. Cardinality(old) <= MaxJobs /\ MaxJobs \in Nat
    BY DedupJobsAssumption DEF JobsInv, ListsShort
  <1>7. /\ runs'[j] = "queued" /\ \A k \in JobIds \ {j} : runs'[k] = runs[k]
        /\ runs' \in [JobIds -> RunState]
    BY <1>1 DEF RunState
  <1>8. \A k \in JobIds : Created(k)' <=> k = j \/ Created(k)
    BY <1>7 DEF Created
  (* Nothing that was created began after the new job. *)
  <1>9. \A k \in JobIds : Created(k)' => v[k].started \in Nat /\ v[k].started <= now
    <2> TAKE k \in JobIds
    <2>1. CASE k = j
      BY <2>1, <1>1, <1>2, <1>3
    <2>2. CASE k # j
      <3>1. v[k] = dedupJobs[k] /\ dedupJobs[k].started \in 0 .. MaxClock
        BY <2>2, <1>1, <1>3 DEF JobRecord
      <3>2. Created(k) => dedupJobs[k].started <= clock
        BY DEF JobsInv, ListsShort
      <3> QED BY <2>2, <3>1, <3>2, <1>1, <1>8, DedupJobsAssumption
    <2> QED BY <2>1, <2>2
  <1> DEFINE Whole(w) ==
        /\ w \in [JobIds -> JobRecord]
        /\ \A k \in JobIds : /\ w[k].user = v[k].user /\ w[k].started = v[k].started
                             /\ w[k].status = v[k].status /\ (w[k].kept => v[k].kept)
        /\ \A x \in JobUsers \ {u} : Kept(w, x) = Kept(dedupJobs, x)
        /\ Cardinality(Kept(w, u)) <= MaxJobs
        /\ \A k \in JobIds : Created(k)' /\ v[k].user = u /\ ~w[k].kept =>
              /\ Cardinality(Kept(w, u)) = MaxJobs
              /\ \A m \in Kept(w, u) : v[m].started >= v[k].started
  <1>10. Whole(dedupJobs')
    <2>1. CASE Cardinality(owned) <= MaxJobs
      <3>1. dedupJobs' = v
        BY <2>1, <1>1 DEF Pruned
      <3>2. ASSUME NEW k \in JobIds, Created(k)', v[k].user = u, ~v[k].kept PROVE FALSE
        <4>1. k # j /\ Created(k) /\ dedupJobs[k].user = u /\ ~dedupJobs[k].kept
          BY <3>2, <1>2, <1>3, <1>8
        <4>2. Cardinality(old) = MaxJobs
          BY <4>1 DEF JobsInv, DroppedForOthers
        <4> QED BY <4>2, <2>1, <1>5, <1>6
      <3> QED BY <3>1, <3>2, <2>1, <1>3, <1>4
    <2>2. CASE ~(Cardinality(owned) <= MaxJobs)
      <3>1. PICK d \in OldestOf(v, owned) : dedupJobs' = Drop(v, d)
        BY <2>2, <1>1 DEF Pruned
      <3>2. d \in owned /\ d \in JobIds /\ \A k \in owned : v[d].started <= v[k].started
        BY <3>1 DEF OldestOf, Kept
      <3> DEFINE w == Drop(v, d)
      <3>3. /\ w \in [JobIds -> JobRecord] /\ ~w[d].kept
            /\ \A k \in JobIds : /\ w[k].user = v[k].user /\ w[k].started = v[k].started
                                 /\ w[k].status = v[k].status
            /\ \A k \in JobIds \ {d} : w[k].kept = v[k].kept
        BY <1>3, <3>2 DEF Drop, JobRecord
      <3> HIDE DEF w
      <3>4. v[d].user = u /\ v[d].kept
        BY <3>2 DEF Kept
      <3>5. Kept(w, u) = owned \ {d}
        BY <3>3, <3>2 DEF Kept
      <3>6. \A x \in JobUsers \ {u} : Kept(w, x) = Kept(v, x)
        BY <3>3, <3>4 DEF Kept
      <3>7. IsFiniteSet(owned) /\ Cardinality(owned \ {d}) = Cardinality(owned) - 1
        BY <3>2, KeptFinite, FS_RemoveElement
      <3>8. Cardinality(Kept(w, u)) = MaxJobs
        BY <3>5, <3>7, <2>2, <1>5, <1>6
      <3>9. ASSUME NEW k \in JobIds, Created(k)', v[k].user = u, ~w[k].kept,
                   NEW m \in Kept(w, u)
            PROVE  v[m].started >= v[k].started
        <4>1. m \in owned /\ m \in JobIds
          BY <3>5 DEF Kept
        <4>2. CASE k = d
          BY <4>1, <4>2, <3>2
        <4>3. CASE k # d
          <5>1. k # j /\ Created(k) /\ dedupJobs[k].user = u /\ ~dedupJobs[k].kept
                /\ v[k] = dedupJobs[k]
            BY <4>3, <3>9, <3>3, <1>2, <1>3, <1>8
          <5>2. CASE m = j
            BY <5>2, <3>9, <1>9, <1>2, <1>3
          <5>3. CASE m # j
            <6>1. m \in old /\ v[m] = dedupJobs[m]
              BY <5>3, <4>1, <1>3, <1>4
            <6> QED BY <5>1, <6>1 DEF JobsInv, DroppedForOthers
          <5> QED BY <5>2, <5>3
        <4> QED BY <4>2, <4>3
      <3>10. \A k \in JobIds : w[k].kept => v[k].kept
        BY <3>3
      <3>11. dedupJobs' = w
        BY <3>1 DEF w
      <3>12. \A k \in JobIds : Created(k)' /\ v[k].user = u /\ ~w[k].kept =>
                /\ Cardinality(Kept(w, u)) = MaxJobs
                /\ \A m \in Kept(w, u) : v[m].started >= v[k].started
        BY <3>8, <3>9
      <3>13. Cardinality(Kept(w, u)) <= MaxJobs
        BY <3>8, <1>6
      <3> QED BY <3>3, <3>6, <3>10, <3>11, <3>12, <3>13, <1>4
    <2> QED BY <2>1, <2>2
  <1>11. \A k \in JobIds : v[k].user \in JobUsers
    BY <1>3 DEF JobRecord
  <1>12. ListsShort'
    <2>1. \A k \in JobIds : ~Created(k)' => ~dedupJobs'[k].kept
      BY <1>3, <1>8, <1>10 DEF JobsInv, ListsShort
    <2>2. \A x \in JobUsers : Cardinality(Kept(dedupJobs', x)) <= MaxJobs
      BY <1>10 DEF JobsInv, ListsShort
    <2>3. \A k \in JobIds : Created(k)' => dedupJobs'[k].started <= clock'
      BY <1>1, <1>9, <1>10
    <2> QED BY <2>1, <2>2, <2>3 DEF ListsShort
  <1>13. DroppedForOthers'
    <2> SUFFICES ASSUME NEW k \in JobIds, Created(k)', ~dedupJobs'[k].kept
                 PROVE  /\ Cardinality(Kept(dedupJobs', dedupJobs'[k].user)) = MaxJobs
                        /\ \A m \in Kept(dedupJobs', dedupJobs'[k].user) :
                              dedupJobs'[m].started >= dedupJobs'[k].started
      BY DEF DroppedForOthers
    <2>1. dedupJobs'[k].user = v[k].user /\ dedupJobs'[k].started = v[k].started
      BY <1>10
    <2>2. \A x, m : m \in Kept(dedupJobs', x) =>
             m \in JobIds /\ dedupJobs'[m].started = v[m].started
      BY <1>10 DEF Kept
    <2>3. CASE v[k].user = u
      BY <2>1, <2>2, <2>3, <1>10
    <2>4. CASE v[k].user # u
      <3>1. k # j /\ Created(k) /\ v[k] = dedupJobs[k]
        BY <2>4, <1>2, <1>3, <1>8
      <3>2. /\ \A x \in JobUsers \ {u} : Kept(dedupJobs', x) = Kept(dedupJobs, x)
            /\ v[k].user \in JobUsers
        BY <1>10, <1>11
      <3>3. ~dedupJobs[k].kept
        <4>1. CASE dedupJobs[k].kept
          <5>1. k \in Kept(dedupJobs, v[k].user)
            BY <3>1, <4>1 DEF Kept
          <5>2. k \in Kept(dedupJobs', v[k].user)
            BY <5>1, <3>2, <2>4
          <5> QED BY <5>2 DEF Kept
        <4> QED BY <4>1
      <3>4. /\ Cardinality(Kept(dedupJobs, v[k].user)) = MaxJobs
            /\ \A m \in Kept(dedupJobs, v[k].user) :
                  dedupJobs[m].started >= dedupJobs[k].started
        BY <3>1, <3>3 DEF JobsInv, DroppedForOthers
      <3>5. \A m \in Kept(dedupJobs, v[k].user) : m # j /\ m \in JobIds
        BY <1>1 DEF Kept
      <3> QED BY <3>1, <3>2, <3>4, <3>5, <2>1, <2>2, <2>4, <1>3
    <2> QED BY <2>3, <2>4
  <1>14. StatusRight'
    <2> SUFFICES ASSUME NEW k \in JobIds, Created(k)', dedupJobs'[k].kept
                 PROVE  dedupJobs'[k].status = StatusOf(runs'[k])
      BY DEF StatusRight
    <2>1. CASE k = j
      BY <2>1, <1>2, <1>3, <1>7, <1>10 DEF StatusOf
    <2>2. CASE k # j
      BY <2>2, <1>3, <1>7, <1>8, <1>10 DEF JobsInv, StatusRight
    <2> QED BY <2>1, <2>2
  <1>15. clock' \in 0 .. MaxClock
    BY <1>1
  <1> HIDE DEF Whole
  <1>16. dedupJobs' \in [JobIds -> JobRecord]
    BY <1>10 DEF Whole
  <1> QED BY <1>7, <1>12, <1>13, <1>14, <1>15, <1>16 DEF JobsInv, JobsTypeOK

LEMMA JobsNext_Inv ==
    ASSUME JobsInv, [JobsNext]_jobVars PROVE JobsInv'
  <1>1. CASE UNCHANGED jobVars
    BY <1>1 DEF jobVars, JobsInv, JobsTypeOK, ListsShort, DroppedForOthers, StatusRight,
                Created, Kept
  <1>2. CASE JobsNext
    <2>1. ASSUME NEW j \in JobIds, RunBegins(j) PROVE JobsInv'
      <3>1. StatusOf("core") = "running" /\ Created(j)
        BY <2>1 DEF StatusOf, RunBegins, Created
      <3> QED BY <2>1, <3>1, JobStep_Inv DEF RunBegins
    <2>2. ASSUME NEW j \in JobIds, NEW r \in JobEnded, RunEnds(j, r) PROVE JobsInv'
      <3>1. StatusOf(r) = r /\ Created(j)
        BY <2>2 DEF StatusOf, RunEnds, Created, JobEnded
      <3> QED BY <2>2, <3>1, JobStep_Inv DEF RunEnds
    <2> QED BY <1>2, <2>1, <2>2, StartJob_Inv DEF JobsNext, JobStep
  <1> QED BY <1>1, <1>2

(* The types of the list of jobs (dedupManager). *)
THEOREM JobsTypes == JobsSpec => []JobsTypeOK
  <1>1. JobsInv => JobsTypeOK
    BY DEF JobsInv
  <1> QED BY <1>1, JobsInit_Inv, JobsNext_Inv, PTL DEF JobsSpec

(* Whatever the number of users, jobs and entries that are kept: a job is in *)
(* the list unless MaxJobs others of its user are there that began no        *)
(* earlier, and its entry says what its run has come to (dedupManager).      *)
THEOREM JobsLedgerHolds == JobsSpec => []JobsLedger
  <1>1. JobsInv => JobsLedger
    <2> SUFFICES ASSUME JobsInv, NEW j \in JobIds, Created(j)
                 PROVE  /\ dedupJobs[j].kept =>
                             dedupJobs[j].status = StatusOf(runs[j])
                        /\ ~dedupJobs[j].kept =>
                             Cardinality({k \in Kept(dedupJobs, dedupJobs[j].user) :
                               dedupJobs[k].started >= dedupJobs[j].started}) = MaxJobs
      BY DEF JobsLedger, StatusOf
    <2>1. dedupJobs[j].kept => dedupJobs[j].status = StatusOf(runs[j])
      BY DEF JobsInv, StatusRight
    <2>2. ASSUME ~dedupJobs[j].kept
          PROVE  {k \in Kept(dedupJobs, dedupJobs[j].user) :
                    dedupJobs[k].started >= dedupJobs[j].started}
                 = Kept(dedupJobs, dedupJobs[j].user)
      BY <2>2 DEF JobsInv, DroppedForOthers
    <2>3. ~dedupJobs[j].kept => Cardinality(Kept(dedupJobs, dedupJobs[j].user)) = MaxJobs
      BY DEF JobsInv, DroppedForOthers
    <2> QED BY <2>1, <2>2, <2>3
  <1> QED BY <1>1, JobsInit_Inv, JobsNext_Inv, PTL DEF JobsSpec

-----------------------------------------------------------------------------
(* Zip downloads: the inductive invariant *)

FileNames == {file.name : file \in ZipFiles}
EntryNames == [base : {name.base : name \in FileNames}, nums : Seq(Nat)]
NameCounts == UNION {[seen -> Nat] : seen \in SUBSET FileNames}

ZipShape ==
    [ pc : {"idle", "refused", "client", "stream", "over", "done"},
      files : Seq(ZipFiles), next : Nat, used : NameCounts,
      entries : Seq(EntryNames), archive : {"open", "broken", "closed"} ]

(* The files before the one in turn are written, the map counts their names, *)
(* and a number in an entry is no larger than the count of its name.         *)
Written(r) ==
    LET Own(i) == r.entries[i] = r.files[i].name IN
    /\ r.next \in 1 .. Len(r.files) + 1 /\ Len(r.entries) = r.next - 1
    /\ DOMAIN r.used = {r.files[i].name : i \in 1 .. r.next - 1}
    /\ \A x \in DOMAIN r.used : r.used[x] <= r.next - 2
    /\ \A i \in 1 .. r.next - 1 :
          Own(i) \/ \E n \in 1 .. i - 1 : /\ n <= r.used[r.files[i].name]
                                          /\ r.entries[i] = NumberedName(r.files[i].name, n)
    /\ \A i, j \in 1 .. r.next - 1 :
          i < j /\ r.entries[i] = r.entries[j] => Own(i) # Own(j)
    /\ r.archive = "closed" => r.next = Len(r.files) + 1

(* A request that has no client yet has written nothing.                     *)
Untouched(r) == r.pc \in {"idle", "client"} => r.next = 1 /\ r.archive = "open"

ZipInv ==
    /\ zip \in [Zips -> ZipShape]
    /\ \A z \in Zips : Written(zip[z]) /\ Untouched(zip[z])

-----------------------------------------------------------------------------
(* Names *)

LEMMA NamesAre ==
    /\ FileNames \subseteq EntryNames
    /\ \A file \in ZipFiles : file.name \in FileNames
  <1>1. \A file \in ZipFiles : file.name \in FileNames
    BY DEF FileNames
  <1>2. ASSUME NEW file \in ZipFiles PROVE file.name \in EntryNames
    <2>1. /\ file.name = [base |-> file.name.base, nums |-> file.name.nums]
          /\ file.name.nums \in Seq(Nat)
      BY ZipAssumption
    <2>2. file.name.base \in {name.base : name \in FileNames}
      BY <1>1
    <2> QED BY <2>1, <2>2 DEF EntryNames
  <1> QED BY <1>1, <1>2 DEF FileNames

LEMMA NumberedIsName ==
    ASSUME NEW x \in EntryNames, NEW n \in Nat
    PROVE  /\ NumberedName(x, n) \in EntryNames /\ NumberedName(x, n) # x
           /\ NumberedName(x, n).nums = Append(x.nums, n) /\ NumberedName(x, n).base = x.base
  <1>1. x.nums \in Seq(Nat) /\ x = [base |-> x.base, nums |-> x.nums]
    BY DEF EntryNames
  <1>2. /\ Append(x.nums, n) \in Seq(Nat)
        /\ Len(Append(x.nums, n)) = Len(x.nums) + 1 /\ Len(x.nums) \in Nat
    BY <1>1
  <1>3. NumberedName(x, n).nums = Append(x.nums, n) /\ NumberedName(x, n).base = x.base
    BY <1>1 DEF NumberedName
  <1>4. NumberedName(x, n) \in EntryNames
    BY <1>2 DEF NumberedName, EntryNames
  <1>5. NumberedName(x, n) # x
    BY <1>2, <1>3
  <1> QED BY <1>3, <1>4, <1>5

LEMMA NumbersDiffer ==
    ASSUME NEW x \in EntryNames, NEW y \in EntryNames, NEW n \in Nat, NEW m \in Nat,
           NumberedName(x, n) = NumberedName(y, m)
    PROVE  x = y /\ n = m
  <1>1. /\ x.nums \in Seq(Nat) /\ y.nums \in Seq(Nat)
        /\ x = [base |-> x.base, nums |-> x.nums] /\ y = [base |-> y.base, nums |-> y.nums]
    BY DEF EntryNames
  <1> DEFINE a == NumberedName(x, n)
             b == NumberedName(y, m)
  <1>4. a.nums = Append(x.nums, n) /\ a.base = x.base
    BY NumberedIsName
  <1>5. b.nums = Append(y.nums, m) /\ b.base = y.base
    BY NumberedIsName
  <1>6. a = b
    OBVIOUS
  <1> HIDE DEF a, b
  <1>2. Append(x.nums, n) = Append(y.nums, m) /\ x.base = y.base
    BY <1>4, <1>5, <1>6
  <1>3. x.nums = y.nums /\ n = m
    BY <1>1, <1>2, AppendInjective
  <1> QED BY <1>1, <1>2, <1>3

-----------------------------------------------------------------------------
(* Steps *)

LEMMA SetZip ==
    ASSUME ZipInv, NEW z \in Zips, NEW r \in ZipShape, Written(r), Untouched(r),
           zip' = [zip EXCEPT ![z] = r]
    PROVE  ZipInv'
  <1>1. zip' \in [Zips -> ZipShape]
    BY DEF ZipInv
  <1>2. \A y \in Zips : zip'[y] = IF y = z THEN r ELSE zip[y]
    BY DEF ZipInv
  <1>3. \A y \in Zips : Written(zip'[y]) /\ Untouched(zip'[y])
    BY <1>2 DEF ZipInv
  <1> QED BY <1>1, <1>3 DEF ZipInv

LEMMA NoZipIs ==
    LET refused == [NoZip EXCEPT !.pc = "refused"] IN
    /\ NoZip \in ZipShape /\ Written(NoZip) /\ Untouched(NoZip)
    /\ refused \in ZipShape /\ Written(refused) /\ Untouched(refused)
  <1>1. <<>> \in NameCounts /\ DOMAIN <<>> = {}
    <2>1. <<>> \in [1 .. 0 -> Nat] /\ 1 .. 0 = {}
      OBVIOUS
    <2> QED BY <2>1 DEF NameCounts
  <1>2. <<>> \in Seq(ZipFiles) /\ <<>> \in Seq(EntryNames) /\ Len(<<>>) = 0
    OBVIOUS
  <1>3. NoZip \in ZipShape /\ [NoZip EXCEPT !.pc = "refused"] \in ZipShape
    BY <1>1, <1>2 DEF NoZip, ZipShape
  <1>4. ASSUME NEW r, r.next = 1, r.files = <<>>, r.used = <<>>, r.entries = <<>>,
               r.archive = "open"
        PROVE  Written(r)
    <2>1. 1 .. r.next - 1 = {}
      BY <1>4
    <2>2. {r.files[i].name : i \in 1 .. r.next - 1} = {}
      BY <2>1
    <2> QED BY <1>1, <1>4, <2>1, <2>2 DEF Written
  <1>5. Written(NoZip)
    BY <1>4 DEF NoZip
  <1>6. Written([NoZip EXCEPT !.pc = "refused"])
    <2> DEFINE r == [NoZip EXCEPT !.pc = "refused"]
    <2>1. r.next = 1 /\ r.files = <<>> /\ r.used = <<>> /\ r.entries = <<>> /\ r.archive = "open"
      BY DEF NoZip
    <2> HIDE DEF r
    <2>2. Written(r)
      BY <2>1, <1>4
    <2> QED BY <2>2 DEF r
  <1>7. Untouched(NoZip) /\ Untouched([NoZip EXCEPT !.pc = "refused"])
    BY DEF Untouched, NoZip
  <1> QED BY <1>3, <1>5, <1>6, <1>7

(* A request that changes its place, and its archive only at the end, keeps  *)
(* what it has written.                                                      *)
LEMMA MoveZip ==
    ASSUME ZipInv, NEW z \in Zips,
           NEW pc \in {"stream", "over", "done"},
           NEW archive \in {"open", "broken", "closed"},
           archive = "closed" => zip[z].next = Len(zip[z].files) + 1,
           zip' = [zip EXCEPT ![z] = [zip[z] EXCEPT !.pc = pc, !.archive = archive]]
    PROVE  ZipInv'
  <1> DEFINE r == [zip[z] EXCEPT !.pc = pc, !.archive = archive]
  <1>1. zip[z] \in ZipShape /\ Written(zip[z])
    BY DEF ZipInv
  <1>2. /\ r \in ZipShape /\ r.files = zip[z].files /\ r.next = zip[z].next
        /\ r.used = zip[z].used /\ r.entries = zip[z].entries /\ r.archive = archive
        /\ r.pc = pc
    BY <1>1 DEF ZipShape
  <1>3. zip' = [zip EXCEPT ![z] = r]
    OBVIOUS
  <1> HIDE DEF r
  <1>4. Written(r)
    BY <1>1, <1>2 DEF Written
  <1>5. Untouched(r)
    BY <1>2 DEF Untouched
  <1> QED BY <1>2, <1>3, <1>4, <1>5, SetZip

LEMMA StreamOver_Inv ==
    ASSUME ZipInv, NEW z \in Zips, NEW failed \in BOOLEAN,
           ~failed => zip[z].next = Len(zip[z].files) + 1,
           zip' = StreamOver(z, failed)
    PROVE  ZipInv'
  <1> DEFINE archive == IF failed \/ zclient[z] = "gone" THEN "broken" ELSE "closed"
  <1>1. zip[z] \in ZipShape /\ zip \in [Zips -> ZipShape]
    BY DEF ZipInv
  <1>2. archive \in {"open", "broken", "closed"} /\ (archive = "closed" => ~failed)
    OBVIOUS
  <1>3. zip' = [zip EXCEPT ![z] = [zip[z] EXCEPT !.pc = "over", !.archive = archive]]
    BY <1>1 DEF StreamOver, ZipShape
  <1> HIDE DEF archive
  <1> QED BY <1>2, <1>3, MoveZip

LEMMA NumberedIs ==
    ASSUME NEW used \in NameCounts, NEW name \in FileNames
    PROVE  LET named == Numbered(used, name)
               n == IF name \in DOMAIN used THEN used[name] + 1 ELSE 0
           IN  /\ n \in Nat /\ named.used \in NameCounts
               /\ DOMAIN named.used = DOMAIN used \cup {name}
               /\ named.used[name] = n
               /\ \A x \in DOMAIN used \ {name} : named.used[x] = used[x]
               /\ name \in DOMAIN used => named.name = NumberedName(name, n)
               /\ name \notin DOMAIN used => named.name = name
  <1>1. PICK seen \in SUBSET FileNames : used \in [seen -> Nat]
    BY DEF NameCounts
  <1> DEFINE n == IF name \in DOMAIN used THEN used[name] + 1 ELSE 0
             next == [x \in DOMAIN used \cup {name} |-> IF x = name THEN n ELSE used[x]]
  <1>2. n \in Nat
    BY <1>1
  <1>3. Numbered(used, name) =
          [name |-> IF name \in DOMAIN used THEN NumberedName(name, n) ELSE name, used |-> next]
    BY DEF Numbered
  <1> HIDE DEF n
  <1>4. next \in [seen \cup {name} -> Nat] /\ seen \cup {name} \in SUBSET FileNames
    BY <1>1, <1>2
  <1>5. next \in NameCounts
    BY <1>4 DEF NameCounts
  <1>6. /\ DOMAIN next = DOMAIN used \cup {name} /\ next[name] = n
        /\ \A x \in DOMAIN used \ {name} : next[x] = used[x]
    OBVIOUS
  <1> HIDE DEF next
  <1>7. /\ Numbered(used, name).used = next
        /\ Numbered(used, name).name =
              IF name \in DOMAIN used THEN NumberedName(name, n) ELSE name
    BY <1>3
  <1> QED BY <1>2, <1>5, <1>6, <1>7 DEF n

LEMMA WrittenOn ==
    ASSUME NEW r \in ZipShape, Written(r), NEW new \in ZipShape,
           NEW j \in 1 .. Len(r.files), j = r.next,
           NEW name, name = r.files[j].name,
           NEW e \in EntryNames, e = Numbered(r.used, name).name,
           NEW u \in NameCounts, u = Numbered(r.used, name).used,
           new.files = r.files, new.next = j + 1, new.used = u,
           new.entries = Append(r.entries, e), new.archive = r.archive
    PROVE  Written(new)
  <1>2. /\ r.files \in Seq(ZipFiles) /\ r.next \in Nat /\ r.used \in NameCounts
        /\ r.entries \in Seq(EntryNames) /\ j \in Nat
    BY DEF ZipShape
  <1>3. /\ Len(r.entries) = j - 1 /\ Len(r.files) \in Nat
        /\ DOMAIN r.used = {r.files[i].name : i \in 1 .. j - 1}
        /\ \A x \in DOMAIN r.used : r.used[x] <= j - 2
    BY <1>2 DEF Written
  <1>4. \A i \in 1 .. Len(r.files) : r.files[i] \in ZipFiles /\ r.files[i].name \in FileNames
    BY <1>2, NamesAre
  <1>5. name \in FileNames /\ name \in EntryNames
    BY <1>4, NamesAre
  <1>6. PICK n \in Nat :
           /\ name \in DOMAIN r.used => n = r.used[name] + 1
           /\ name \notin DOMAIN r.used => n = 0
           /\ DOMAIN u = DOMAIN r.used \cup {name}
           /\ u[name] = n /\ \A x \in DOMAIN r.used \ {name} : u[x] = r.used[x]
           /\ name \in DOMAIN r.used => e = NumberedName(name, n)
           /\ name \notin DOMAIN r.used => e = name
    <2> DEFINE m == IF name \in DOMAIN r.used THEN r.used[name] + 1 ELSE 0
               named == Numbered(r.used, name)
    <2>1. /\ m \in Nat /\ DOMAIN named.used = DOMAIN r.used \cup {name}
          /\ named.used[name] = m
          /\ \A x \in DOMAIN r.used \ {name} : named.used[x] = r.used[x]
          /\ name \in DOMAIN r.used => named.name = NumberedName(name, m)
          /\ name \notin DOMAIN r.used => named.name = name
      BY <1>2, <1>5, NumberedIs
    <2>2. u = named.used /\ e = named.name
      OBVIOUS
    <2>3. /\ name \in DOMAIN r.used => m = r.used[name] + 1
          /\ name \notin DOMAIN r.used => m = 0
      OBVIOUS
    <2> HIDE DEF m, named
    <2> QED BY <2>1, <2>2, <2>3
  <1>7. (\A x \in DOMAIN r.used : r.used[x] \in Nat) /\ (\A x \in DOMAIN u : u[x] \in Nat)
    <2>1. PICK seen \in SUBSET FileNames : r.used \in [seen -> Nat]
      BY <1>2 DEF NameCounts
    <2>2. PICK seen2 \in SUBSET FileNames : u \in [seen2 -> Nat]
      BY DEF NameCounts
    <2> QED BY <2>1, <2>2
  <1>9. /\ Len(Append(r.entries, e)) = j
        /\ \A i \in 1 .. j - 1 : Append(r.entries, e)[i] = r.entries[i]
        /\ Append(r.entries, e)[j] = e
    BY <1>2, <1>3, AppendProperties
  <1>10. /\ new.files = r.files /\ new.next = j + 1
         /\ new.used = u /\ new.entries = Append(r.entries, e) /\ new.archive = r.archive
    OBVIOUS
  <1>11. \A i \in 1 .. j : i \in 1 .. j - 1 \/ i = j
    BY <1>2
  <1>12. /\ new.entries[j] = e
         /\ \A i \in 1 .. j - 1 : new.entries[i] = r.entries[i]
    BY <1>9, <1>10
  <1>13. name \in DOMAIN r.used => n <= j - 1 /\ n >= 1
    <2> SUFFICES ASSUME name \in DOMAIN r.used PROVE n <= j - 1 /\ n >= 1
      OBVIOUS
    <2> DEFINE count == r.used[name]
    <2>1. count <= j - 2 /\ count \in Nat
      BY <1>3, <1>7
    <2>2. n = count + 1
      BY <1>6
    <2> HIDE DEF count
    <2> QED BY <2>1, <2>2, <1>2
  <1>14. DOMAIN new.used = {new.files[i].name : i \in 1 .. new.next - 1}
    <2>1. new.next - 1 = j
      BY <1>2
    <2>2. {r.files[i].name : i \in 1 .. j} = {r.files[i].name : i \in 1 .. j - 1} \cup {name}
      BY <1>2, <1>11
    <2>3. DOMAIN u = {r.files[i].name : i \in 1 .. j}
      BY <1>3, <1>6, <2>2
    <2> QED BY <1>10, <2>1, <2>3
  <1>15. \A x \in DOMAIN new.used : new.used[x] <= new.next - 2
    <2>1. n <= j - 1
      <3>1. CASE name \in DOMAIN r.used
        BY <3>1, <1>13
      <3>2. CASE name \notin DOMAIN r.used
        <4>1. n = 0
          BY <1>6, <3>2
        <4> QED BY <4>1, <1>2
      <3> QED BY <3>1, <3>2
    <2>2. \A x \in DOMAIN r.used \ {name} : u[x] <= j - 2 /\ u[x] \in Nat
      BY <1>2, <1>3, <1>6, <1>7
    <2>3. ASSUME NEW x \in DOMAIN u PROVE u[x] <= j - 1
      <3>1. CASE x = name
        BY <3>1, <2>1, <1>6
      <3>2. CASE x # name
        <4>1. x \in DOMAIN r.used \ {name}
          BY <3>2, <1>6
        <4> QED BY SMTT(30), <4>1, <2>2, <1>2
      <3> QED BY <3>1, <3>2
    <2> QED BY <2>3, <1>2, <1>10
  <1>16. \A x \in DOMAIN r.used : r.used[x] <= u[x] /\ r.used[x] \in Nat /\ u[x] \in Nat
    <2>1. \A x \in DOMAIN r.used : r.used[x] \in Nat
      BY <1>7
    <2>2. name \in DOMAIN r.used => u[name] = r.used[name] + 1
      BY <1>6
    <2>3. \A x \in DOMAIN r.used \ {name} : u[x] = r.used[x]
      BY <1>6
    <2>4. \A x \in DOMAIN r.used : u[x] \in Nat
      BY <1>6, <1>7
    <2>5. ASSUME NEW x \in DOMAIN r.used PROVE r.used[x] <= u[x]
      <3>1. CASE x = name
        BY <3>1, <2>1, <2>2
      <3>2. CASE x # name
        BY <3>2, <2>1, <2>3
      <3> QED BY <3>1, <3>2
    <2> QED BY <2>1, <2>4, <2>5
  <1>17. ASSUME NEW i \in 1 .. j - 1
         PROVE  /\ i \in 1 .. Len(r.files) /\ r.files[i].name \in FileNames
                /\ r.files[i].name \in DOMAIN r.used
                /\ r.entries[i] = r.files[i].name
                   \/ \E k \in 1 .. i - 1 :
                        /\ k <= r.used[r.files[i].name]
                        /\ r.entries[i] = NumberedName(r.files[i].name, k)
    BY <1>2, <1>3, <1>4 DEF Written
  <1>18. ASSUME NEW i \in 1 .. j - 1
         PROVE  new.entries[i] = new.files[i].name
                \/ \E k \in 1 .. i - 1 :
                     /\ k <= new.used[new.files[i].name]
                     /\ new.entries[i] = NumberedName(new.files[i].name, k)
    <2>1. CASE r.entries[i] = r.files[i].name
      BY <2>1, <1>10, <1>12
    <2>2. CASE \E k \in 1 .. i - 1 :
                     /\ k <= r.used[r.files[i].name]
                     /\ r.entries[i] = NumberedName(r.files[i].name, k)
      <3>1. PICK k \in 1 .. i - 1 :
                     /\ k <= r.used[r.files[i].name]
                     /\ r.entries[i] = NumberedName(r.files[i].name, k)
        BY <2>2
      <3>2. /\ r.used[r.files[i].name] <= u[r.files[i].name]
            /\ r.used[r.files[i].name] \in Nat /\ u[r.files[i].name] \in Nat
        BY <1>16, <1>17
      <3>3. k <= u[r.files[i].name]
        BY <3>1, <3>2
      <3> QED BY <3>1, <3>3, <1>10, <1>12
    <2> QED BY <2>1, <2>2, <1>17
  <1>19. new.entries[j] = new.files[j].name
         \/ \E k \in 1 .. j - 1 : /\ k <= new.used[new.files[j].name]
                                  /\ new.entries[j] = NumberedName(new.files[j].name, k)
    <2>1. CASE name \notin DOMAIN r.used
      BY <2>1, <1>6, <1>10, <1>12
    <2>2. CASE name \in DOMAIN r.used
      <3>1. n \in 1 .. j - 1 /\ n <= n
        <4>1. n \in Nat
          BY <1>6
        <4>2. n <= j - 1 /\ n >= 1
          BY <2>2, <1>13
        <4> QED BY <4>1, <4>2, <1>2
      <3>2. new.used[name] = n /\ e = NumberedName(name, n)
        BY <2>2, <1>6, <1>10
      <3> QED BY <3>1, <3>2, <1>10, <1>12
    <2> QED BY <2>1, <2>2
  <1>20. ASSUME NEW i \in 1 .. j - 1, new.entries[i] = e
         PROVE  (new.entries[i] = new.files[i].name) # (e = name)
    <2>1. new.entries[i] = r.entries[i] /\ new.files[i] = r.files[i]
      BY <1>10, <1>12
    <2>2. CASE name \notin DOMAIN r.used
      <3>1. e = name /\ r.files[i].name # name
        BY <2>2, <1>6, <1>17
      <3> QED BY <3>1, <2>1, <1>20
    <2>3. CASE name \in DOMAIN r.used
      <3>1. e = NumberedName(name, n) /\ name \in EntryNames
        BY <2>3, <1>5, <1>6, NamesAre
      <3>2. e # name
        <4>1. n \in Nat
          BY <1>6
        <4>2. NumberedName(name, n) # name
          BY <4>1, <3>1, NumberedIsName
        <4> QED BY <3>1, <4>2
      <3>3. r.entries[i] = r.files[i].name
        <4>1. SUFFICES ASSUME NEW k \in 1 .. i - 1, k <= r.used[r.files[i].name],
                              r.entries[i] = NumberedName(r.files[i].name, k)
                       PROVE  FALSE
          BY <1>17
        <4>2. k \in Nat /\ r.files[i].name \in EntryNames
          BY <1>17, NamesAre
        <4>3. NumberedName(r.files[i].name, k) = NumberedName(name, n)
          BY <4>1, <3>1, <2>1, <1>20
        <4>4. r.files[i].name = name /\ k = n
          <5>1. n \in Nat
            BY <1>6
          <5> QED BY SMTT(30), <5>1, <4>2, <4>3, <3>1, NumbersDiffer
        <4>5. n = r.used[name] + 1 /\ r.used[name] \in Nat
          BY <2>3, <1>6, <1>7
        <4>6. n <= r.used[name]
          BY <4>1, <4>4
        <4> QED BY SMTT(30), <4>5, <4>6
      <3> QED BY <3>2, <3>3, <2>1
    <2> QED BY <2>2, <2>3
  <1>21. ASSUME NEW i \in 1 .. j, NEW k \in 1 .. j, i < k, new.entries[i] = new.entries[k]
         PROVE  (new.entries[i] = new.files[i].name) # (new.entries[k] = new.files[k].name)
    <2>1. i \in 1 .. j - 1
      BY <1>2, <1>21
    <2>2. CASE k = j
      BY <2>1, <2>2, <1>10, <1>12, <1>20, <1>21
    <2>3. CASE k # j
      <3>1. k \in 1 .. j - 1
        BY <2>3, <1>2
      <3>2. r.entries[i] = r.entries[k]
        BY <2>1, <3>1, <1>12, <1>21
      <3>3. (r.entries[i] = r.files[i].name) # (r.entries[k] = r.files[k].name)
        BY <2>1, <3>1, <3>2, <1>21 DEF Written
      <3> QED BY <3>3, <2>1, <3>1, <1>10, <1>12
    <2> QED BY <2>2, <2>3
  <1>22. new.archive # "closed"
    <2>1. r.archive = "closed" => r.next = Len(r.files) + 1
      BY DEF Written
    <2> QED BY <2>1, <1>2, <1>3, <1>10
  <1>23. /\ new.next \in 1 .. Len(new.files) + 1 /\ Len(new.entries) = new.next - 1
         /\ new.next - 1 = j
    BY <1>2, <1>3, <1>9, <1>10
  <1>24. \A i \in 1 .. j :
            new.entries[i] = new.files[i].name
            \/ \E k \in 1 .. i - 1 : /\ k <= new.used[new.files[i].name]
                                     /\ new.entries[i] = NumberedName(new.files[i].name, k)
    BY <1>11, <1>18, <1>19
  <1>25. Written(new)
    <2>1. \A i, k \in 1 .. new.next - 1 :
             i < k /\ new.entries[i] = new.entries[k] =>
                (new.entries[i] = new.files[i].name) # (new.entries[k] = new.files[k].name)
      BY <1>21, <1>23
    <2>2. \A i \in 1 .. new.next - 1 :
            new.entries[i] = new.files[i].name
            \/ \E k \in 1 .. i - 1 : /\ k <= new.used[new.files[i].name]
                                     /\ new.entries[i] = NumberedName(new.files[i].name, k)
      BY <1>23, <1>24
    <2> QED BY <1>14, <1>15, <1>22, <1>23, <2>1, <2>2 DEF Written
  <1> QED BY <1>25

LEMMA WriteEntry_Inv ==
    ASSUME ZipInv, NEW z \in Zips, NEW failed \in BOOLEAN, WriteEntry(z, failed)
    PROVE  ZipInv'
  <1>1. CASE failed
    BY <1>1, StreamOver_Inv DEF WriteEntry
  <1>2. CASE ~failed
    <2> DEFINE r == zip[z]
               e == Numbered(r.used, r.files[r.next].name).name
               u == Numbered(r.used, r.files[r.next].name).used
               new == [r EXCEPT !.used = u, !.next = r.next + 1,
                                !.entries = Append(r.entries, e)]
    <2>1. r \in ZipShape /\ Written(r) /\ zip \in [Zips -> ZipShape]
      BY DEF ZipInv
    <2>2. /\ r.files \in Seq(ZipFiles) /\ r.next \in Nat /\ r.used \in NameCounts
          /\ r.entries \in Seq(EntryNames)
      BY <2>1 DEF ZipShape
    <2>3. r.next \in 1 .. Len(r.files)
      BY <1>2, <2>1, <2>2 DEF WriteEntry, Written
    <2>4. r.files[r.next].name \in FileNames /\ r.files[r.next].name \in EntryNames
      BY <2>2, <2>3, NamesAre
    <2>5. zip' = [zip EXCEPT ![z] = new]
      BY <1>2, <2>1 DEF WriteEntry, ZipShape
    <2>6. u \in NameCounts /\ e \in EntryNames
      <3> DEFINE name == r.files[r.next].name
                 n == IF name \in DOMAIN r.used THEN r.used[name] + 1 ELSE 0
      <3>1. /\ n \in Nat /\ u \in NameCounts
            /\ name \in DOMAIN r.used => e = NumberedName(name, n)
            /\ name \notin DOMAIN r.used => e = name
        BY <2>2, <2>4, NumberedIs
      <3>2. name \in EntryNames
        BY <2>4
      <3> HIDE DEF name, n, e, u
      <3>3. NumberedName(name, n) \in EntryNames
        BY <3>1, <3>2, NumberedIsName
      <3> QED BY <3>1, <3>2, <3>3
    <2> HIDE DEF u, e
    <2>7. Append(r.entries, e) \in Seq(EntryNames) /\ r.next + 1 \in Nat
      BY <2>2, <2>6
    <2>8. /\ new \in ZipShape /\ new.files = r.files /\ new.next = r.next + 1
          /\ new.used = u /\ new.entries = Append(r.entries, e) /\ new.archive = r.archive
      BY <2>1, <2>6, <2>7 DEF ZipShape
    <2> HIDE DEF new
    <2>10. Untouched(new)
      <3>1. new.pc = "stream"
        BY <1>2, <2>1 DEF WriteEntry, ZipShape, new
      <3> QED BY <3>1 DEF Untouched
    <2>9. Written(new)
      <3> HIDE DEF r
      <3> QED BY <2>1, <2>3, <2>6, <2>8, WrittenOn DEF e, u
    <2> QED BY <2>5, <2>8, <2>9, <2>10, SetZip
  <1> QED BY <1>1, <1>2

LEMMA Refused_Inv ==
    ASSUME ZipInv, NEW z \in Zips, Refused(z)
    PROVE  ZipInv'
  <1> DEFINE r == [NoZip EXCEPT !.pc = "refused"]
  <1>1. r \in ZipShape /\ Written(r) /\ Untouched(r) /\ zip' = [zip EXCEPT ![z] = r]
    BY NoZipIs DEF Refused
  <1> HIDE DEF r
  <1> QED BY <1>1, SetZip

LEMMA AskZip_Inv ==
    ASSUME ZipInv, NEW z \in Zips, NEW n \in Nat, NEW files \in [1 .. n -> ZipFiles],
           AskZip(z, files)
    PROVE  ZipInv'
  <1>1. CASE Refused(z)
    BY <1>1, Refused_Inv
  <1>2. CASE zip' = [zip EXCEPT ![z].pc = "client", ![z].files = files]
    <2> DEFINE r == [zip[z] EXCEPT !.pc = "client", !.files = files]
    <2>1. zip[z] \in ZipShape /\ Written(zip[z]) /\ zip \in [Zips -> ZipShape]
      BY DEF ZipInv
    <2>2. zip[z].pc = "idle"
      BY DEF AskZip
    <2>3. files \in Seq(ZipFiles) /\ Len(files) \in Nat
      OBVIOUS
    <2>4. /\ r \in ZipShape /\ r.files = files /\ r.next = zip[z].next
          /\ r.used = zip[z].used /\ r.entries = zip[z].entries /\ r.archive = zip[z].archive
      BY <2>1, <2>3 DEF ZipShape
    <2>5. zip' = [zip EXCEPT ![z] = r]
      BY <1>2, <2>1 DEF ZipShape
    <2> HIDE DEF r
    <2>6. zip[z].next = 1 /\ zip[z].archive = "open"
      BY <2>1, <2>2 DEF ZipInv, Untouched
    <2>7. 1 .. r.next - 1 = {} /\ 1 .. zip[z].next - 1 = {} /\ r.next = 1
      BY <2>4, <2>6
    <2>8. {r.files[i].name : i \in 1 .. r.next - 1} = {}
      BY <2>7
    <2>9. DOMAIN zip[z].used = {}
      BY <2>1, <2>7 DEF Written
    <2>10. r.next \in 1 .. Len(r.files) + 1 /\ Len(r.entries) = r.next - 1
      BY <2>1, <2>3, <2>4, <2>6 DEF Written
    <2>11. DOMAIN r.used = {} /\ r.archive # "closed"
      BY <2>4, <2>6, <2>9
    <2>12. Written(r)
      BY <2>7, <2>8, <2>10, <2>11 DEF Written
    <2>13. Untouched(r)
      BY <2>1, <2>2, <2>4, <2>6 DEF Untouched
    <2> QED BY <2>4, <2>5, <2>12, <2>13, SetZip
  <1> QED BY <1>1, <1>2 DEF AskZip

LEMMA TakeClient_Inv ==
    ASSUME ZipInv, NEW z \in Zips, NEW found \in BOOLEAN, TakeClient(z, found)
    PROVE  ZipInv'
  <1>1. CASE found
    <2>1. zip[z] \in ZipShape /\ zip[z].pc = "client" /\ Untouched(zip[z])
      BY DEF ZipInv, TakeClient
    <2>2. zip' = [zip EXCEPT ![z] = [zip[z] EXCEPT !.pc = "stream", !.archive = zip[z].archive]]
      BY <1>1, <2>1 DEF TakeClient, ZipShape
    <2>3. zip[z].archive \in {"open", "broken", "closed"} /\ zip[z].archive # "closed"
      BY <2>1 DEF ZipShape, Untouched
    <2> QED BY <2>2, <2>3, MoveZip
  <1>2. CASE ~found
    BY <1>2, Refused_Inv DEF TakeClient
  <1> QED BY <1>1, <1>2

LEMMA EndStream_Inv ==
    ASSUME ZipInv, NEW z \in Zips, EndStream(z)
    PROVE  ZipInv'
  <1>1. zip[z] \in ZipShape /\ Written(zip[z])
    BY DEF ZipInv
  <1>2. zip' = [zip EXCEPT ![z] = [zip[z] EXCEPT !.pc = "done", !.archive = zip[z].archive]]
    BY <1>1 DEF EndStream, ZipShape
  <1>3. /\ zip[z].archive \in {"open", "broken", "closed"}
        /\ zip[z].archive = "closed" => zip[z].next = Len(zip[z].files) + 1
    BY <1>1 DEF ZipShape, Written
  <1> QED BY <1>2, <1>3, MoveZip

LEMMA ZipNext_Inv == ZipInv /\ [ZipNext]_zipVars => ZipInv'
  <1> SUFFICES ASSUME ZipInv, [ZipNext]_zipVars PROVE ZipInv'
    OBVIOUS
  <1>1. CASE zip' = zip
    BY <1>1 DEF ZipInv
  <1>2. ASSUME NEW z \in Zips, NEW n \in 0 .. MaxEntries, NEW files \in [1 .. n -> ZipFiles],
               AskZip(z, files)
        PROVE  ZipInv'
    <2>1. n \in Nat
      BY ZipAssumption
    <2> QED BY <1>2, <2>1, AskZip_Inv
  <1>3. ASSUME NEW z \in Zips, ZipGoroutine(z) PROVE ZipInv'
    <2>1. CASE \E found \in BOOLEAN : TakeClient(z, found)
      BY <2>1, TakeClient_Inv
    <2>2. CASE \E failed \in BOOLEAN : WriteEntry(z, failed)
      BY <2>2, WriteEntry_Inv
    <2>3. CASE ClientFails(z)
      BY <2>3, StreamOver_Inv DEF ClientFails
    <2>4. CASE CloseArchive(z)
      BY <2>4, StreamOver_Inv DEF CloseArchive
    <2>5. CASE EndStream(z)
      BY <2>5, EndStream_Inv
    <2> QED BY <1>3, <2>1, <2>2, <2>3, <2>4, <2>5 DEF ZipGoroutine
  <1>4. ASSUME NEW z \in Zips, Stall(z) \/ HangUp(z) PROVE ZipInv'
    BY <1>1, <1>4 DEF Stall, HangUp
  <1> QED BY <1>1, <1>2, <1>3, <1>4 DEF ZipNext, zipVars

(* An archive that a client can open is whole, however many downloads there  *)
(* are and whatever names their files have (ArchiveWhole).                   *)
THEOREM ArchiveIsWhole == ZipSpec => []ArchiveWhole
  <1>1. ZipInit => ZipInv
    BY NoZipIs DEF ZipInit, ZipInv
  <1>2. ZipInv => ArchiveWhole
    <2> SUFFICES ASSUME ZipInv, NEW z \in Zips, zip[z].archive = "closed"
                 PROVE  LET files == zip[z].files
                            entries == zip[z].entries
                            Own(i) == entries[i] = files[i].name
                        IN  /\ Len(entries) = Len(files)
                            /\ \A i \in DOMAIN files :
                                  Own(i) \/ \E n \in 1 .. i - 1 : entries[i] = NumberedName(files[i].name, n)
                            /\ \A i, j \in DOMAIN files :
                                  i < j /\ entries[i] = entries[j] => Own(i) # Own(j)
      BY DEF ArchiveWhole
    <2>1. zip[z] \in ZipShape /\ Written(zip[z])
      BY DEF ZipInv
    <2>2. zip[z].files \in Seq(ZipFiles)
      BY <2>1 DEF ZipShape
    <2>3. zip[z].next = Len(zip[z].files) + 1 /\ Len(zip[z].files) \in Nat
      BY <2>1, <2>2 DEF Written
    <2>4. zip[z].next - 1 = Len(zip[z].files) /\ DOMAIN zip[z].files = 1 .. zip[z].next - 1
      BY <2>2, <2>3
    <2> QED BY <2>1, <2>4 DEF Written
  <1> QED BY <1>1, <1>2, ZipNext_Inv, PTL DEF ZipSpec
-----------------------------------------------------------------------------
(* Zip downloads: the slots *)

Holding == {z \in Zips : zip[z].pc \in {"client", "stream", "over"}}

(* A slot is taken for every download under way, and for nothing else.       *)
SlotsMatch ==
    /\ zslots \in Nat /\ IsFiniteSet(Holding)
    /\ IF ZipCounted THEN zslots = Cardinality(Holding) /\ zslots <= ZipSlots
                     ELSE zslots = 0

LEMMA PlaceOf ==
    ASSUME ZipInv, NEW z \in Zips, NEW r, zip' = [zip EXCEPT ![z] = r]
    PROVE  Holding' = IF r.pc \in {"client", "stream", "over"}
                      THEN Holding \cup {z} ELSE Holding \ {z}
  <1>1. \A y \in Zips : zip'[y] = IF y = z THEN r ELSE zip[y]
    BY DEF ZipInv
  <1> QED BY <1>1 DEF Holding

LEMMA Slots_Kept ==
    ASSUME SlotsMatch, zslots' = zslots, Holding' = Holding
    PROVE  SlotsMatch'
  BY DEF SlotsMatch, ZipCounted

LEMMA Slots_Taken ==
    ASSUME SlotsMatch, NEW z \in Zips, z \notin Holding, Holding' = Holding \cup {z},
           ~(ZipCounted /\ zslots = ZipSlots),
           zslots' = IF ZipCounted THEN zslots + 1 ELSE zslots
    PROVE  SlotsMatch'
  <1>1. IsFiniteSet(Holding') /\ Cardinality(Holding') = Cardinality(Holding) + 1
    BY FS_AddElement DEF SlotsMatch
  <1>2. zslots \in Nat /\ ZipSlots \in Nat
    BY ZipAssumption DEF SlotsMatch
  <1> QED BY <1>1, <1>2 DEF SlotsMatch, ZipCounted

LEMMA Slots_Released ==
    ASSUME SlotsMatch, NEW z \in Holding, Holding' = Holding \ {z}, ReleaseSlot
    PROVE  SlotsMatch'
  <1>1. IsFiniteSet(Holding') /\ Cardinality(Holding') = Cardinality(Holding) - 1
    BY FS_RemoveElement DEF SlotsMatch
  <1>2. Cardinality(Holding') \in Nat
    BY <1>1, FS_CardinalityType
  <1>3. zslots \in Nat /\ ZipSlots \in Nat
    BY ZipAssumption DEF SlotsMatch
  <1> QED BY <1>1, <1>2, <1>3 DEF SlotsMatch, ZipCounted, ReleaseSlot

LEMMA ZipNext_Slots == ZipInv /\ SlotsMatch /\ [ZipNext]_zipVars => SlotsMatch'
  <1> SUFFICES ASSUME ZipInv, SlotsMatch, [ZipNext]_zipVars PROVE SlotsMatch'
    OBVIOUS
  <1> USE DEF Holding
  <1>1. CASE zip' = zip /\ zslots' = zslots
    BY <1>1, Slots_Kept
  <1>2. ASSUME NEW z \in Zips, NEW files, AskZip(z, files)
        PROVE  SlotsMatch'
    <2>1. z \notin Holding
      BY <1>2 DEF AskZip
    <2>2. CASE Refused(z) /\ zslots' = zslots
      <3>1. Holding' = Holding \ {z}
        <4> DEFINE r == [NoZip EXCEPT !.pc = "refused"]
        <4>1. zip' = [zip EXCEPT ![z] = r] /\ r.pc = "refused"
          BY <2>2 DEF Refused, NoZip
        <4> HIDE DEF r
        <4> QED BY <4>1, PlaceOf
      <3> QED BY <2>1, <2>2, <3>1, Slots_Kept
    <2>3. CASE /\ ~(ZipCounted /\ zslots = ZipSlots)
               /\ zip' = [zip EXCEPT ![z].pc = "client", ![z].files = files]
               /\ zslots' = IF ZipCounted THEN zslots + 1 ELSE zslots
      <3> DEFINE r == [zip[z] EXCEPT !.pc = "client", !.files = files]
      <3>1. zip' = [zip EXCEPT ![z] = r] /\ r.pc = "client"
        BY <2>3 DEF ZipInv, ZipShape
      <3> HIDE DEF r
      <3>2. Holding' = Holding \cup {z}
        BY <3>1, PlaceOf
      <3> QED BY <2>1, <2>3, <3>2, Slots_Taken
    <2> QED BY <1>2, <2>2, <2>3 DEF AskZip
  <1>3. ASSUME NEW z \in Zips, NEW found \in BOOLEAN, TakeClient(z, found) PROVE SlotsMatch'
    <2>1. z \in Holding
      BY <1>3 DEF TakeClient
    <2>2. CASE found
      <3> DEFINE r == [zip[z] EXCEPT !.pc = "stream"]
      <3>1. zip' = [zip EXCEPT ![z] = r] /\ r.pc = "stream" /\ zslots' = zslots
        BY <1>3, <2>2 DEF TakeClient, ZipInv, ZipShape
      <3> HIDE DEF r
      <3>2. Holding' = Holding \cup {z}
        BY <3>1, PlaceOf
      <3> QED BY <2>1, <3>1, <3>2, Slots_Kept
    <2>3. CASE ~found
      <3>1. Refused(z) /\ ReleaseSlot
        BY <1>3, <2>3 DEF TakeClient
      <3>2. Holding' = Holding \ {z}
        <4> DEFINE r == [NoZip EXCEPT !.pc = "refused"]
        <4>1. zip' = [zip EXCEPT ![z] = r] /\ r.pc = "refused"
          BY <3>1 DEF Refused, NoZip
        <4> HIDE DEF r
        <4> QED BY <4>1, PlaceOf
      <3> QED BY <2>1, <3>1, <3>2, Slots_Released
    <2> QED BY <2>2, <2>3
  <1>4. ASSUME NEW z \in Zips, zip[z].pc = "stream", zslots' = zslots,
               NEW failed, zip' = StreamOver(z, failed)
        PROVE  SlotsMatch'
    <2> DEFINE r == [zip[z] EXCEPT !.pc = "over",
                         !.archive = IF failed \/ zclient[z] = "gone" THEN "broken" ELSE "closed"]
    <2>1. zip' = [zip EXCEPT ![z] = r] /\ r.pc = "over"
      BY <1>4 DEF StreamOver, ZipInv, ZipShape
    <2> HIDE DEF r
    <2>2. Holding' = Holding \cup {z}
      BY <2>1, PlaceOf
    <2> QED BY <1>4, <2>2, Slots_Kept
  <1>5. ASSUME NEW z \in Zips, NEW failed \in BOOLEAN, WriteEntry(z, failed) PROVE SlotsMatch'
    <2>1. CASE failed
      BY <1>4, <1>5, <2>1 DEF WriteEntry
    <2>2. CASE ~failed
      <3> DEFINE named == Numbered(zip[z].used, zip[z].files[zip[z].next].name)
                 r == [zip[z] EXCEPT !.used = named.used, !.next = @ + 1,
                                     !.entries = Append(@, named.name)]
      <3>1. zip' = [zip EXCEPT ![z] = r] /\ r.pc = "stream" /\ zslots' = zslots
        BY <1>5, <2>2 DEF WriteEntry, ZipInv, ZipShape
      <3> HIDE DEF r
      <3>2. Holding' = Holding \cup {z} /\ z \in Holding
        BY <1>5, <3>1, PlaceOf DEF WriteEntry
      <3> QED BY <3>1, <3>2, Slots_Kept
    <2> QED BY <2>1, <2>2
  <1>6. ASSUME NEW z \in Zips, EndStream(z) PROVE SlotsMatch'
    <2> DEFINE r == [zip[z] EXCEPT !.pc = "done"]
    <2>1. zip' = [zip EXCEPT ![z] = r] /\ r.pc = "done" /\ z \in Holding /\ ReleaseSlot
      BY <1>6 DEF EndStream, ZipInv, ZipShape
    <2> HIDE DEF r
    <2>2. Holding' = Holding \ {z}
      BY <2>1, PlaceOf
    <2> QED BY <2>1, <2>2, Slots_Released
  <1>7. ASSUME NEW z \in Zips, ZipGoroutine(z) PROVE SlotsMatch'
    BY <1>3, <1>4, <1>5, <1>6, <1>7 DEF ZipGoroutine, ClientFails, CloseArchive
  <1> QED BY <1>1, <1>2, <1>7 DEF ZipNext, zipVars, Stall, HangUp

(* Whatever fails on the way, a download gives back the slot it took, and    *)
(* only that: the slots taken are the downloads under way, never more than   *)
(* files.zip-max-concurrent.                                                 *)
THEOREM SlotsAreDownloads == ZipSpec => []SlotsMatch
  <1>1. ZipInit => ZipInv
    BY NoZipIs DEF ZipInit, ZipInv
  <1>2. ZipInit => SlotsMatch
    <2> SUFFICES ASSUME ZipInit PROVE SlotsMatch
      OBVIOUS
    <2>1. Holding = {}
      BY DEF ZipInit, Holding, NoZip
    <2>2. IsFiniteSet(Holding) /\ Cardinality(Holding) = 0
      BY <2>1, FS_EmptySet
    <2> QED BY <2>2, ZipAssumption DEF SlotsMatch, ZipInit
  <1> QED BY <1>1, <1>2, ZipNext_Inv, ZipNext_Slots, PTL DEF ZipSpec

-----------------------------------------------------------------------------
(* The bot selector: the inductive invariant *)

PickShape == [idx : Nat, of : Nat \ {0}]

(* The counter in memory is the place after the last bot chosen, the one in  *)
(* Redis one more than what that bot was computed from.                      *)
CounterFollows(s, counter) ==
    LET last == s[Len(s)] IN
    IF s = <<>> THEN counter = 0
    ELSE IF backend = "memory" THEN counter = (last.idx + 1) % last.of
    ELSE counter > 0 /\ last.idx = (counter - 1) % last.of

(* While the list stays the same, the bots come in the order of the list.    *)
InTurn(s) ==
    \A i, j \in 1 .. Len(s) :
       /\ i <= j /\ s[i].idx < s[i].of /\ j - i < s[i].of
       /\ \A k \in i .. j : s[k].of = s[i].of
       => /\ s[j].idx < s[i].of
          /\ \/ s[j].idx = s[i].idx + (j - i)
             \/ s[j].idx = s[i].idx + (j - i) - s[i].of

OnlyAfterShrinking(s) ==
    \A i \in 1 .. Len(s) : s[i].idx >= s[i].of =>
        backend = "memory" /\ i > 1 /\ s[i - 1].of > s[i].of

BotsInv ==
    /\ backend \in {"memory", "redis"} /\ botCount \in Nat
    /\ currIdx \in [BotOps -> Nat] /\ picks \in [BotOps -> Seq(PickShape)]
    /\ \A op \in BotOps : /\ CounterFollows(picks[op], currIdx[op])
                          /\ InTurn(picks[op]) /\ OnlyAfterShrinking(picks[op])

-----------------------------------------------------------------------------
(* Remainders *)

LEMMA Remainder ==
    ASSUME NEW a \in Nat, NEW m \in Nat \ {0}
    PROVE  /\ a % m \in 0 .. m - 1 /\ (a < m => a % m = a) /\ m % m = 0
  OBVIOUS

LEMMA Quotient ==
    ASSUME NEW a \in Nat, NEW m \in Nat \ {0}, NEW q \in Int, q = a \div m,
           NEW r \in Int, r = a % m
    PROVE  a = m * q + r
  OBVIOUS

LEMMA RemainderOf ==
    ASSUME NEW q \in Nat, NEW m \in Nat \ {0}, NEW r \in 0 .. m - 1
    PROVE  (m * q + r) % m = r
  OBVIOUS

LEMMA RemainderNext ==
    ASSUME NEW a \in Nat, NEW m \in Nat \ {0}
    PROVE  (a + 1) % m = IF (a % m) + 1 = m THEN 0 ELSE (a % m) + 1
  <1> DEFINE q == a \div m
             r == a % m
  <1>1. q \in Nat /\ r \in 0 .. m - 1
    OBVIOUS
  <1>2. q \in Int /\ r \in Int
    BY <1>1
  <1>3. a = m * q + r
    BY <1>2, Quotient
  <1> HIDE DEF q, r
  <1>4. CASE r + 1 = m
    <2>1. a + 1 = m * (q + 1) + 0
      BY <1>1, <1>3, <1>4
    <2>2. q + 1 \in Nat /\ 0 \in 0 .. m - 1
      BY <1>1
    <2> QED BY <2>1, <2>2, <1>4, RemainderOf DEF r
  <1>5. CASE r + 1 # m
    <2>1. a + 1 = m * q + (r + 1)
      BY <1>1, <1>3
    <2>2. r + 1 \in 0 .. m - 1
      BY <1>1, <1>5
    <2> QED BY ZenonT(40), <2>1, <2>2, <1>1, <1>5, RemainderOf DEF r
  <1> QED BY <1>4, <1>5

-----------------------------------------------------------------------------
(* A call *)

LEMMA TurnOn ==
    ASSUME NEW s \in Seq(PickShape), InTurn(s), NEW new \in PickShape, NEW n \in Nat, n = Len(s),
           /\ n > 0 /\ new.of = s[n].of /\ s[n].idx < new.of
           => new.idx = IF s[n].idx + 1 = new.of THEN 0 ELSE s[n].idx + 1
    PROVE  InTurn(Append(s, new))
  <1> DEFINE t == Append(s, new)
  <1>1. /\ t \in Seq(PickShape) /\ Len(t) = n + 1 /\ t[n + 1] = new
        /\ \A i \in 1 .. n : t[i] = s[i]
    BY AppendProperties
  <1>2. /\ \A i \in 1 .. n : s[i].idx \in Nat /\ s[i].of \in Nat \ {0}
        /\ new.idx \in Nat /\ new.of \in Nat \ {0}
    <2>1. \A i \in 1 .. n : s[i] \in PickShape
      OBVIOUS
    <2> QED BY <2>1 DEF PickShape
  <1> HIDE DEF t
  <1>3. SUFFICES ASSUME NEW i \in 1 .. n + 1, NEW j \in 1 .. n + 1,
                        i <= j, t[i].idx < t[i].of, j - i < t[i].of,
                        \A k \in i .. j : t[k].of = t[i].of
                 PROVE  /\ t[j].idx < t[i].of
                        /\ \/ t[j].idx = t[i].idx + (j - i)
                           \/ t[j].idx = t[i].idx + (j - i) - t[i].of
    BY <1>1 DEF InTurn, t
  <1>4. CASE j <= n
    <2>1. i \in 1 .. n /\ j \in 1 .. n
      BY <1>3, <1>4
    <2>2. \A k \in i .. j : k \in 1 .. n /\ t[k] = s[k]
      BY <2>1, <1>1
    <2> QED BY ZenonT(40), <2>1, <2>2, <1>1, <1>3 DEF InTurn
  <1>5. CASE i = n + 1
    <2>1. j = i
      BY <1>3, <1>5
    <2>2. t[i].idx \in Nat
      BY <1>1, <1>2, <1>5
    <2> QED BY <1>3, <2>1, <2>2
  <1>6. CASE i <= n /\ j = n + 1
    <2>1. i \in 1 .. n /\ n \in 1 .. n /\ n > 0
      BY <1>6
    <2> DEFINE m == s[i].of
               x == s[i].idx
               y == s[n].idx
    <2>2. m \in Nat \ {0} /\ x \in Nat /\ y \in Nat /\ t[i] = s[i] /\ t[j] = new /\ t[n] = s[n]
      BY <2>1, <1>1, <1>2, <1>6
    <2>3. x < m /\ n + 1 - i < m /\ n - i < m
      BY <2>1, <2>2, <1>3, <1>6
    <2>4. n \in i .. j /\ j \in i .. j
      BY <2>1, <1>6
    <2>5. s[n].of = m /\ new.of = m
      BY <2>2, <2>4, <1>3
    <2>6. \A k \in i .. n : k \in 1 .. n /\ k \in i .. j
      BY <1>6
    <2>7. \A k \in i .. n : s[k].of = s[i].of
      BY <2>2, <2>6, <1>1, <1>3
    <2>8. y < m /\ (y = x + (n - i) \/ y = x + (n - i) - m)
      <3>1. i <= n /\ s[i].idx < s[i].of /\ n - i < s[i].of
        BY <2>1, <2>3
      <3>2. n \in 1 .. Len(s)
        BY <2>1
      <3>3. i \in 1 .. Len(s)
        BY <2>1
      <3> HIDE DEF x, y, m
      <3>4. /\ s[n].idx < s[i].of
            /\ s[n].idx = s[i].idx + (n - i) \/ s[n].idx = s[i].idx + (n - i) - s[i].of
        BY <3>1, <3>2, <3>3, <2>7 DEF InTurn
      <3> QED BY <3>4 DEF x, y, m
    <2>9. new.idx = IF y + 1 = m THEN 0 ELSE y + 1
      BY <2>1, <2>5, <2>8
    <2> HIDE DEF m, x, y
    <2>10. new.idx < m /\ (new.idx = x + (n + 1 - i) \/ new.idx = x + (n + 1 - i) - m)
      BY SMTT(30), <2>1, <2>2, <2>3, <2>8, <2>9
    <2> QED BY <2>2, <2>10, <1>6 DEF m, x
  <1> QED BY <1>4, <1>5, <1>6

LEMMA ShrinkingOn ==
    ASSUME NEW s \in Seq(PickShape), OnlyAfterShrinking(s), NEW new \in PickShape,
           NEW n \in Nat, n = Len(s),
           new.idx >= new.of => backend = "memory" /\ n > 0 /\ s[n].of > new.of,
           backend' = backend
    PROVE  OnlyAfterShrinking(Append(s, new))
  <1> DEFINE t == Append(s, new)
  <1>1. /\ Len(t) = n + 1 /\ t[n + 1] = new
        /\ \A i \in 1 .. n : t[i] = s[i]
    BY AppendProperties
  <1> HIDE DEF t
  <1>2. ASSUME NEW i \in 1 .. n + 1, t[i].idx >= t[i].of
        PROVE  backend = "memory" /\ i > 1 /\ t[i - 1].of > t[i].of
    <2>1. CASE i = n + 1
      <3>1. backend = "memory" /\ n > 0 /\ s[n].of > new.of
        BY <1>1, <1>2, <2>1
      <3>2. i - 1 = n /\ n \in 1 .. n
        BY <2>1, <3>1
      <3> QED BY <1>1, <2>1, <3>1, <3>2
    <2>2. CASE i \in 1 .. n
      <3>1. backend = "memory" /\ i > 1 /\ s[i - 1].of > s[i].of
        BY <1>1, <1>2, <2>2 DEF OnlyAfterShrinking
      <3>2. i - 1 \in 1 .. n
        BY <2>2, <3>1
      <3> QED BY <1>1, <2>2, <3>1, <3>2
    <2> QED BY <2>1, <2>2
  <1>3. OnlyAfterShrinking(t)
    BY <1>1, <1>2 DEF OnlyAfterShrinking
  <1> QED BY <1>3 DEF t

(* The place after the last bot, which both counters lead to.                *)
LEMMA NextPlace ==
    ASSUME NEW s \in Seq(PickShape), NEW counter \in Nat, CounterFollows(s, counter),
           NEW of \in Nat \ {0}, NEW idx,
           idx = IF backend = "memory" THEN counter ELSE counter % of,
           NEW n \in Nat, n = Len(s)
    PROVE  /\ idx \in Nat
           /\ n > 0 /\ of = s[n].of /\ s[n].idx < of
              => idx = IF s[n].idx + 1 = of THEN 0 ELSE s[n].idx + 1
           /\ idx >= of => backend = "memory" /\ n > 0 /\ s[n].of > of
  <1>1. counter % of \in 0 .. of - 1
    BY Remainder
  <1>2. idx \in Nat
    BY <1>1
  <1>3. CASE n = 0
    <2>1. s = <<>>
      BY <1>3, EmptySeq
    <2>2. counter = 0
      BY <2>1 DEF CounterFollows
    <2>3. idx < of /\ ~(n > 0)
      BY <1>1, <1>3, <2>2
    <2> QED BY <1>2, <2>3
  <1>4. CASE n > 0
    <2> DEFINE x == s[n].idx
               m == s[n].of
    <2>1. x \in Nat /\ m \in Nat \ {0} /\ s # <<>>
      <3>1. n \in 1 .. Len(s)
        BY <1>4
      <3>2. s[n] \in PickShape
        BY <3>1
      <3>3. s # <<>>
        BY <1>4, EmptySeq
      <3> QED BY <3>2, <3>3 DEF PickShape
    <2>2. /\ backend = "memory" => counter = (x + 1) % m
          /\ backend # "memory" => counter > 0 /\ x = (counter - 1) % m
      BY <2>1 DEF CounterFollows
    <2> HIDE DEF x, m
    <2>3. CASE backend = "memory"
      <3>1. idx = (x + 1) % m /\ x + 1 \in Nat
        BY <2>1, <2>2, <2>3
      <3>2. (x + 1) % m \in 0 .. m - 1 /\ (x + 1 < m => (x + 1) % m = x + 1) /\ m % m = 0
        <4> DEFINE a == x + 1
        <4>1. a \in Nat
          BY <2>1
        <4> HIDE DEF a
        <4>2. a % m \in 0 .. m - 1 /\ (a < m => a % m = a) /\ m % m = 0
          BY <2>1, <4>1, Remainder
        <4> QED BY <4>2 DEF a
      <3>3. of = m /\ x < of => idx = IF x + 1 = of THEN 0 ELSE x + 1
        BY <2>1, <3>1, <3>2
      <3>4. idx >= of => m > of
        BY <2>1, <3>1, <3>2
      <3> QED BY <1>2, <1>4, <2>3, <3>3, <3>4 DEF x, m
    <2>4. CASE backend # "memory"
      <3>1. idx = counter % of /\ idx < of
        BY <1>1, <2>4
      <3>2. counter - 1 \in Nat /\ (counter - 1) + 1 = counter
        BY <2>2, <2>4
      <3>3. counter % m = IF ((counter - 1) % m) + 1 = m THEN 0 ELSE ((counter - 1) % m) + 1
        BY ZenonT(40), <2>1, <3>2, RemainderNext
      <3>4. of = m => idx = IF x + 1 = of THEN 0 ELSE x + 1
        BY <2>2, <2>4, <3>1, <3>3
      <3> QED BY <1>2, <3>1, <3>4 DEF x, m
    <2> QED BY <2>3, <2>4
  <1> QED BY <1>3, <1>4

LEMMA NextBot_Inv ==
    ASSUME BotsInv, NEW op \in BotOps, NextBot(op)
    PROVE  BotsInv'
  <1> DEFINE s == picks[op]
             counter == currIdx[op]
             idx == IF backend = "memory" THEN counter ELSE counter % botCount
             new == [idx |-> idx, of |-> botCount]
             counter2 == IF backend = "memory" THEN (counter + 1) % botCount ELSE counter + 1
  <1>1. /\ s \in Seq(PickShape) /\ counter \in Nat /\ CounterFollows(s, counter)
        /\ InTurn(s) /\ OnlyAfterShrinking(s) /\ Len(s) \in Nat
    BY DEF BotsInv
  <1>2. botCount \in Nat \ {0} /\ backend' = backend /\ botCount' = botCount
    BY DEF BotsInv, NextBot
  <1>3. /\ currIdx' = [currIdx EXCEPT ![op] = counter2]
        /\ picks' = [picks EXCEPT ![op] = Append(s, new)]
    BY DEF BotsInv, NextBot, NextInMemory, NextInRedis, Picked
  <1>4. /\ idx \in Nat
        /\ Len(s) > 0 /\ botCount = s[Len(s)].of /\ s[Len(s)].idx < botCount
              => idx = IF s[Len(s)].idx + 1 = botCount THEN 0 ELSE s[Len(s)].idx + 1
        /\ idx >= botCount => backend = "memory" /\ Len(s) > 0 /\ s[Len(s)].of > botCount
    BY <1>1, <1>2, NextPlace
  <1>5. new \in PickShape /\ new.idx = idx /\ new.of = botCount
    BY <1>2, <1>4 DEF PickShape
  <1>6. counter2 \in Nat
    BY <1>1, <1>2
  <1>7. CounterFollows(Append(s, new), counter2)
    <2>1. /\ Append(s, new) # <<>> /\ Append(s, new)[Len(Append(s, new))] = new
      BY <1>1, <1>5, AppendProperties
    <2>2. backend = "memory" => counter2 = (idx + 1) % botCount
      OBVIOUS
    <2>3. backend # "memory" => counter2 > 0 /\ idx = (counter2 - 1) % botCount
      BY <1>1
    <2> HIDE DEF counter2, new, idx
    <2> QED BY <2>1, <2>2, <2>3, <1>5 DEF CounterFollows
  <1> HIDE DEF new, idx, counter2, s
  <1>8. InTurn(Append(s, new))
    BY <1>1, <1>4, <1>5, TurnOn
  <1>9. OnlyAfterShrinking(Append(s, new))
    BY <1>1, <1>2, <1>4, <1>5, ShrinkingOn
  <1>10. Append(s, new) \in Seq(PickShape)
    BY <1>1, <1>5
  <1>11. /\ currIdx' \in [BotOps -> Nat] /\ picks' \in [BotOps -> Seq(PickShape)]
         /\ \A o \in BotOps : currIdx'[o] = IF o = op THEN counter2 ELSE currIdx[o]
         /\ \A o \in BotOps : picks'[o] = IF o = op THEN Append(s, new) ELSE picks[o]
    BY <1>3, <1>6, <1>10 DEF BotsInv
  <1>12. ASSUME NEW o \in BotOps
         PROVE  /\ CounterFollows(picks'[o], currIdx'[o])
                /\ InTurn(picks'[o]) /\ OnlyAfterShrinking(picks'[o])
    BY <1>7, <1>8, <1>9, <1>11 DEF BotsInv
  <1> QED BY <1>2, <1>11, <1>12 DEF BotsInv, CounterFollows, OnlyAfterShrinking, InTurn

(* Calls that find the same list in a row choose each bot once in a turn,    *)
(* and a bot that is not on the list only right after the list has become    *)
(* shorter, in memory: for any number of bots, operations and calls          *)
(* (TurnsAreFair).                                                           *)
THEOREM TurnsAreFairHolds == BotSpec => []TurnsAreFair
  <1>1. BotInit => BotsInv
    <2> SUFFICES ASSUME BotInit PROVE BotsInv
      OBVIOUS
    <2>1. <<>> \in Seq(PickShape) /\ Len(<<>>) = 0 /\ 1 .. 0 = {}
      OBVIOUS
    <2>2. botCount \in Nat
      BY BotAssumption DEF BotInit
    <2>3. CounterFollows(<<>>, 0) /\ InTurn(<<>>) /\ OnlyAfterShrinking(<<>>)
      BY <2>1 DEF CounterFollows, InTurn, OnlyAfterShrinking
    <2> QED BY <2>1, <2>2, <2>3 DEF BotInit, BotsInv
  <1>2. BotsInv /\ [BotNext]_botVars => BotsInv'
    <2> SUFFICES ASSUME BotsInv, [BotNext]_botVars PROVE BotsInv'
      OBVIOUS
    <2>1. CASE \E op \in BotOps : NextBot(op)
      BY <2>1, NextBot_Inv
    <2>2. CASE ChangeBots \/ UNCHANGED botVars
      <3>1. /\ backend' = backend /\ currIdx' = currIdx /\ picks' = picks /\ botCount' \in Nat
        BY <2>2, BotAssumption DEF ChangeBots, botVars, BotsInv
      <3> QED BY <3>1 DEF BotsInv, CounterFollows, OnlyAfterShrinking, InTurn
    <2> QED BY <2>1, <2>2 DEF BotNext
  <1>3. BotsInv => TurnsAreFair
    <2> SUFFICES ASSUME BotsInv, NEW op \in BotOps, NEW i \in DOMAIN picks[op],
                        NEW j \in DOMAIN picks[op]
                 PROVE  LET seen == picks[op] IN
                        /\ seen[i].idx >= seen[i].of =>
                              backend = "memory" /\ i > 1 /\ seen[i - 1].of > seen[i].of
                        /\ i < j /\ j - i < seen[i].of /\ seen[i].idx < seen[i].of
                           /\ (\A k \in i .. j : seen[k].of = seen[i].of)
                              => seen[i].idx # seen[j].idx
      BY DEF TurnsAreFair
    <2> DEFINE s == picks[op]
    <2>1. /\ s \in Seq(PickShape) /\ InTurn(s) /\ OnlyAfterShrinking(s)
          /\ i \in 1 .. Len(s) /\ j \in 1 .. Len(s)
      BY DEF BotsInv
    <2>2. s[i] \in PickShape /\ s[j] \in PickShape
      BY <2>1
    <2>3. s[i].idx \in Nat /\ s[i].of \in Nat /\ s[j].idx \in Nat
      BY <2>2 DEF PickShape
    <2> HIDE DEF s
    <2>4. s[i].idx >= s[i].of => backend = "memory" /\ i > 1 /\ s[i - 1].of > s[i].of
      BY <2>1 DEF OnlyAfterShrinking
    <2>5. ASSUME i < j, j - i < s[i].of, s[i].idx < s[i].of,
                 \A k \in i .. j : s[k].of = s[i].of
          PROVE  s[i].idx # s[j].idx
      <3>1. \/ s[j].idx = s[i].idx + (j - i)
            \/ s[j].idx = s[i].idx + (j - i) - s[i].of
        <4>1. i <= j
          BY <2>1, <2>5
        <4> QED BY <2>1, <2>5, <4>1 DEF InTurn
      <3> QED BY <2>1, <2>3, <2>5, <3>1
    <2> QED BY <2>4, <2>5 DEF s
  <1> QED BY <1>1, <1>2, <1>3, PTL DEF BotSpec

-----------------------------------------------------------------------------
(* The composition that is model-checked *)

(* Its behaviours are behaviours of each component: one that is not looked   *)
(* at stays in an initial state of its own.                                  *)
LEMMA RunsShares == MCSpec => SharesSpec
  <1>1. MCInit => SharesInit
    BY DEF MCInit, NoShares
  <1>2. [MCNext]_serverVars => [SharesNext]_shareVars
    BY DEF MCNext, serverVars
  <1> QED BY <1>1, <1>2, PTL DEF MCSpec, SharesSpec

LEMMA RunsSessions == MCSpec => SessionsSpec
  <1>1. MCInit => SessionsInit
    BY DEF MCInit
  <1>2. [MCNext]_serverVars => [SessionsNext]_sessionVars
    BY DEF MCNext, serverVars
  <1> QED BY <1>1, <1>2, PTL DEF MCSpec, SessionsSpec

LEMMA RunsJobs == MCSpec => JobsSpec
  <1>1. MCInit => JobsInit
    BY DEF MCInit
  <1>2. [MCNext]_serverVars => [JobsNext]_jobVars
    BY DEF MCNext, serverVars
  <1> QED BY <1>1, <1>2, PTL DEF MCSpec, JobsSpec

(* The shares, the sessions, the list of deduplication jobs and what the     *)
(* requests on them hold stay within their types, and no share has both of   *)
(* the flags that shortlink.go:49 takes to exclude each other.               *)
THEOREM ServerTyped == MCSpec => []ServerTypeOK
  <1> QED BY RunsShares, RunsSessions, RunsJobs, SharesTypes, SessionsTypes, JobsTypes,
             PTL DEF ServerTypeOK
=============================================================================
