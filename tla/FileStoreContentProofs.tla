------------------------ MODULE FileStoreContentProofs ------------------------
(* What becomes of the contents of the files.  What a file reads as is what  *)
(* was last written to it: the proof that ContentInv of FileStore is         *)
(* inductive in the deployments of Plain, for every value of the other       *)
(* constants.  For every value of the constants: what a deduplication run    *)
(* leaves of the files it found alike; and that no active file loses its     *)
(* content without a known cause, since LossInv is inductive.                *)
EXTENDS FileStoreProofs

(* What ContentInv says of one row and of one request.                       *)
RowRight(f) ==
    /\ Present(f) => Sent(files[f].part)
    /\ Present(f) /\ ~files[f].enc /\ files[f].hash # None /\ files[f].part # NoPart
       => msgs[files[f].part].data = files[f].hash /\ ~msgs[files[f].part].enc
    /\ Present(f) /\ files[f].empty => intent[f] = Empty
    /\ Present(f) /\ ~files[f].empty /\ Readable(f) =>
          msgs[files[f].part].data = intent[f] /\ msgs[files[f].part].enc = files[f].enc

RequestRight(c) == Sent(req[c].part) /\ WriteMatches(req[c])

LEMMA ContentParts ==
    ContentInv <=> /\ \A f \in FileIds : RowRight(f)
                   /\ \A c \in Clients : RequestRight(c)
                   /\ NoJobs /\ UploadsMatch
BY DEF ContentInv, HashMatchesContent, NeverWrongContent, PartsSent, RowRight, RequestRight

(* The same after a step.                                                    *)
LEMMA ContentPartsNext ==
    ASSUME \A f \in FileIds : RowRight(f)', \A c \in Clients : RequestRight(c)',
           NoJobs', UploadsMatch'
    PROVE  ContentInv'
BY DEF ContentInv, HashMatchesContent, NeverWrongContent, PartsSent, RowRight,
       RequestRight

-----------------------------------------------------------------------------
(* A message that was sent keeps what is in it, and once deleted stays so.   *)
MessagesKept ==
    \A m \in MsgIds : msgs[m].state # "unsent" =>
        /\ msgs'[m].data = msgs[m].data /\ msgs'[m].enc = msgs[m].enc
        /\ msgs'[m].state # "unsent"
        /\ msgs'[m].state = "stored" => msgs[m].state = "stored"

LEMMA RemoveKeeps == ASSUME TypeOK, NEW S, msgs' = Remove(S) PROVE MessagesKept
BY DEF MessagesKept, Remove, TypeOK, Message

LEMMA SendKeeps ==
    ASSUME TypeOK, NEW m \in MsgIds, NEW e, FreshMsg(m), msgs' = [msgs EXCEPT ![m] = e]
    PROVE  MessagesKept
BY DEF MessagesKept, FreshMsg, TypeOK

LEMMA RowKept ==
    ASSUME TypeOK, MessagesKept, NEW f \in FileIds, RowRight(f),
           intent'[f] = intent[f], files'[f].part = files[f].part,
           files'[f].hash = files[f].hash, files'[f].enc = files[f].enc,
           files'[f].empty = files[f].empty,
           Present(f)' => Present(f), Active(f)' => Active(f)
    PROVE  RowRight(f)'
<1>1. files[f].part \in MsgIds \cup {NoPart}
  BY DEF TypeOK, Row
<1>2. Present(f)' => Present(f) /\ Sent(files[f].part)
  BY DEF RowRight
<1>3. Active(f)' => Present(f)'
  BY DEF Active, Present
<1> QED BY <1>1, <1>2, <1>3 DEF RowRight, MessagesKept, Sent, Readable

LEMMA RequestKept ==
    ASSUME TypeOK, MessagesKept, NEW c \in Clients, RequestRight(c), req'[c] = req[c]
    PROVE  RequestRight(c)'
<1>1. req[c].part \in MsgIds \cup {NoPart}
  BY DEF TypeOK, Request
<1> QED BY <1>1 DEF RequestRight, MessagesKept, Sent, WriteMatches

LEMMA IdleRight ==
    ASSUME NEW c \in Clients, req'[c] = IdleRequest PROVE RequestRight(c)'
BY DEF RequestRight, IdleRequest, WriteMatches, Sent, CreateOps

LEMMA UploadsKept ==
    ASSUME TypeOK, MessagesKept, UploadsMatch, NoJobs, UNCHANGED <<uploads, jobs>>,
           \A s \in Sessions : /\ sessions'[s].data = sessions[s].data
                               /\ sessions'[s].enc = sessions[s].enc
                               /\ sessions'[s].sent = "open" => sessions[s].sent = "open"
    PROVE  UploadsMatch' /\ NoJobs'
<1>1. \A u \in uploads : u.part \in MsgIds /\ u.sid \in Sessions
  BY DEF TypeOK, UploadRow
<1>2. \A u \in uploads : msgs[u.part].state # "unsent"
  BY FileStoreAssumption, <1>1 DEF UploadsMatch, Sent, MsgIds, NoPart
<1> QED BY <1>1, <1>2 DEF UploadsMatch, MessagesKept, SessionRows, NoJobs, jobs, Sent

(* The steps of a request that only change its own record.                   *)
LEMMA RequestStepContent ==
    ASSUME TypeOK, ContentInv, NEW c \in Clients, NEW r, SetReq(c, r), Sent(r.part),
           WriteMatches(r), UNCHANGED <<server, msgs, sessions, jobs, history>>
    PROVE  ContentInv'
<1>1. UNCHANGED <<files, uploads, msgs, sessions, intent>> /\ MessagesKept
  BY DEF server, history, MessagesKept
<1>2. req'[c] = r /\ \A d \in Clients : d # c => req'[d] = req[d]
  BY DEF SetReq, TypeOK
<1>3. \A f \in FileIds : RowRight(f)'
  BY <1>1, ContentParts DEF RowRight, Present, Active, Sent, Readable
<1>4. \A d \in Clients : RequestRight(d)'
  BY <1>1, <1>2, ContentParts DEF RequestRight, Sent, WriteMatches
<1>5. NoJobs' /\ UploadsMatch'
  BY <1>1, ContentParts, UploadsKept
<1> QED BY <1>3, <1>4, <1>5, ContentPartsNext

-----------------------------------------------------------------------------
(* Requests *)

(* What an open session has: a row whose message holds what was sent.        *)
LEMMA SessionFinds ==
    ASSUME TypeOK, ContentInv, NEW s \in Sessions, sessions[s].sent = "open"
    PROVE  LET m == SessionPart(s) IN
           /\ m \in MsgIds /\ m # NoPart /\ Sent(m) /\ SessionRows(s) # {}
           /\ SessionHash(s) = sessions[s].data /\ sessions[s].data # None
           /\ msgs[m].data = sessions[s].data /\ msgs[m].enc = sessions[s].enc
<1>1. SessionRows(s) # {}
  BY DEF ContentInv, UploadsMatch
<1>2. PICK u \in SessionRows(s) : SessionPart(s) = u.part
  BY <1>1 DEF SessionPart
<1>3. u \in uploads /\ u.sid = s /\ u.part \in MsgIds
  BY <1>2 DEF SessionRows, TypeOK, UploadRow
<1>4. /\ u.hashed /\ Sent(u.part)
      /\ msgs[u.part].data = sessions[u.sid].data /\ msgs[u.part].data # None
      /\ msgs[u.part].enc = sessions[u.sid].enc
  BY <1>3 DEF ContentInv, UploadsMatch
<1>5. SessionHash(s) = sessions[s].data
  BY <1>2, <1>4 DEF SessionHash
<1> QED BY <1>1, <1>2, <1>3, <1>4, <1>5 DEF MsgIds, NoPart

LEMMA LoadsContent ==
    ASSUME Plain, TypeOK, ContentInv, NEW c \in Clients,
           \/ \E s \in Sessions : CreateLoad(c, s)
           \/ \E s \in Sessions, h \in Contents \cup {None} : CreateDirectLoad(c, s, h)
           \/ \E n \in Names : CreateEmptyLoad(c, n)
           \/ \E s \in Sessions, f \in FileIds : UpdateLoad(c, s, f)
           \/ \E s \in Sessions, f \in FileIds : UpdateDirectLoad(c, s, f)
           \/ \E f \in FileIds : TruncateLoad(c, f)
    PROVE  ContentInv'
<1> USE FileStoreAssumption
<1>1. ASSUME NEW s \in Sessions, CreateLoad(c, s) PROVE ContentInv'
  <2> DEFINE r == [IdleRequest EXCEPT
            !.op = "create", !.pc = "loaded", !.sid = s, !.name = TargetOf[s],
            !.part = SessionPart(s), !.hash = SessionHash(s),
            !.enc = sessions[s].enc, !.meant = sessions[s].data]
  <2>1. sessions[s].sent = "open"
    BY <1>1 DEF CreateLoad, Plain
  <2>2. Sent(r.part) /\ WriteMatches(r)
    BY <2>1, SessionFinds DEF IdleRequest, WriteMatches, CreateOps
  <2> HIDE DEF r
  <2> QED BY <1>1, <2>2, RequestStepContent DEF CreateLoad, r
<1>2. ASSUME NEW s \in Sessions, NEW h \in Contents \cup {None},
             CreateDirectLoad(c, s, h)
      PROVE  ContentInv'
  <2> DEFINE r == [IdleRequest EXCEPT
                !.op = "createDirect", !.pc = "loaded", !.sid = s,
                !.name = TargetOf[s], !.part = SessionPart(s), !.hash = h,
                !.enc = sessions[s].enc, !.meant = sessions[s].data]
  <2>1. sessions[s].sent = "open" /\ (h = sessions[s].data \/ h = None)
    BY <1>2 DEF CreateDirectLoad
  <2>2. /\ r.op = "createDirect" /\ r.part = SessionPart(s) /\ r.hash = h
        /\ r.enc = sessions[s].enc /\ r.meant = sessions[s].data /\ ~r.empty
    BY DEF IdleRequest
  <2> HIDE DEF r
  <2>3. Sent(r.part) /\ WriteMatches(r)
    BY <2>1, <2>2, SessionFinds DEF WriteMatches
  <2> HIDE DEF r
  <2> QED BY <1>2, <2>3, RequestStepContent DEF CreateDirectLoad, r
<1>3. ASSUME NEW n \in Names, CreateEmptyLoad(c, n) PROVE ContentInv'
  <2> DEFINE r == [IdleRequest EXCEPT
            !.op = "createEmpty", !.pc = "loaded", !.name = n, !.hash = Empty,
            !.empty = TRUE, !.meant = Empty]
  <2>1. Sent(r.part) /\ WriteMatches(r)
    BY DEF IdleRequest, WriteMatches, Sent
  <2> HIDE DEF r
  <2> QED BY <1>3, <2>1, RequestStepContent DEF CreateEmptyLoad, r
<1>4. ASSUME NEW s \in Sessions, NEW f \in FileIds, UpdateLoad(c, s, f)
      PROVE  ContentInv'
  <2> DEFINE r == [IdleRequest EXCEPT
            !.op = "update", !.pc = "loaded", !.sid = s, !.fid = f,
            !.part = SessionPart(s), !.hash = SessionHash(s),
            !.enc = sessions[s].enc, !.empty = SessionRows(s) = {},
            !.meant = sessions[s].data]
  <2>1. sessions[s].sent = "open"
    BY <1>4 DEF UpdateLoad, Plain
  <2>2. /\ r.op = "update" /\ r.part = SessionPart(s) /\ r.hash = SessionHash(s)
        /\ r.enc = sessions[s].enc /\ r.meant = sessions[s].data
        /\ r.empty = (SessionRows(s) = {})
    BY DEF IdleRequest
  <2> HIDE DEF r
  <2>3. Sent(r.part) /\ WriteMatches(r)
    BY <2>1, <2>2, SessionFinds DEF WriteMatches, CreateOps
  <2> QED BY <1>4, <2>3, RequestStepContent DEF UpdateLoad, r
<1>5. ASSUME NEW f \in FileIds, TruncateLoad(c, f) PROVE ContentInv'
  <2> DEFINE r == [IdleRequest EXCEPT
            !.op = "truncate", !.pc = "loaded", !.fid = f,
            !.empty = TRUE, !.meant = Empty]
  <2>1. Sent(r.part) /\ WriteMatches(r)
    BY DEF IdleRequest, WriteMatches, Sent, CreateOps
  <2> HIDE DEF r
  <2> QED BY <1>5, <2>1, RequestStepContent DEF TruncateLoad, r
<1>6. ASSUME NEW s \in Sessions, NEW f \in FileIds, UpdateDirectLoad(c, s, f)
      PROVE  FALSE
  BY <1>6 DEF UpdateDirectLoad, Plain
<1> QED BY <1>1, <1>2, <1>3, <1>4, <1>5, <1>6

(* A create that finds a file takes over parts with the hash it looks for.   *)
LEMMA LookupsContent ==
    ASSUME TypeOK, ContentInv, NEW c \in Clients, CreateSelect(c) \/ UpdateRead(c)
    PROVE  ContentInv'
<1>1. req[c] \in Request /\ Sent(req[c].part) /\ WriteMatches(req[c])
  BY DEF TypeOK, ContentInv, PartsSent
<1>2. CASE CreateSelect(c)
  <2>1. PICK hit \in IF req[c].enc \/ req[c].hash = None THEN {NoRow}
                     ELSE First({f \in Candidates(req[c].hash) : ~Locked(f)}) :
          SetReq(c, [req[c] EXCEPT
              !.pc = "tx", !.hit = hit,
              !.part = IF hit = NoRow THEN @ ELSE files[hit].part])
    BY <1>2 DEF CreateSelect
  <2> DEFINE r == [req[c] EXCEPT !.pc = "tx", !.hit = hit,
              !.part = IF hit = NoRow THEN @ ELSE files[hit].part]
  <2>2. /\ r.op = req[c].op /\ r.op \in CreateOps /\ r.hash = req[c].hash
        /\ r.enc = req[c].enc /\ r.empty = req[c].empty /\ r.meant = req[c].meant
        /\ r.part = IF hit = NoRow THEN req[c].part ELSE files[hit].part
    BY <1>1, <1>2 DEF CreateSelect, Request
  <2>3. hit # NoRow => /\ hit \in FileIds /\ Active(hit) /\ ~files[hit].enc
                       /\ files[hit].hash = r.hash /\ r.hash # None /\ ~r.enc
    BY <2>1, <2>2 DEF First, Candidates
  <2> HIDE DEF r
  <2>4. r.op # "update" /\ r.op # "truncate" /\ r.op # "updateDirect"
    BY <2>2 DEF CreateOps
  <2>5. Sent(r.part) /\ WriteMatches(r)
    <3>1. CASE hit = NoRow
      BY <1>1, <2>2, <3>1 DEF WriteMatches
    <3>2. CASE hit # NoRow
      <4>1. Sent(files[hit].part)
        BY <2>3, <3>2 DEF ContentInv, PartsSent, Active, Present
      <4>2. files[hit].part # NoPart => msgs[files[hit].part].data = r.hash
                                        /\ ~msgs[files[hit].part].enc
        BY <2>3, <3>2 DEF ContentInv, HashMatchesContent, Present, Active
      <4>3. r.hash = r.meant /\ ~r.enc
        BY <1>1, <2>2, <2>3, <3>2 DEF WriteMatches
      <4>4. msgs[files[hit].part].enc \in BOOLEAN \/ files[hit].part = NoPart
        BY <2>3, <3>2 DEF TypeOK, Row, Message
      <4>5. r.enc \in BOOLEAN
        BY <1>1, <2>2 DEF Request
      <4> QED BY <1>1, <2>2, <2>4, <3>2, <4>1, <4>2, <4>3, <4>4, <4>5 DEF WriteMatches
    <3> QED BY <3>1, <3>2
  <2> QED BY <1>2, <2>1, <2>5, RequestStepContent DEF CreateSelect, r
<1>3. CASE UpdateRead(c)
  <2>1. PICK h, b : SetReq(c, [req[c] EXCEPT !.pc = "tx", !.hit = h, !.clear = b])
    BY <1>3 DEF UpdateRead
  <2> DEFINE r == [req[c] EXCEPT !.pc = "tx", !.hit = h, !.clear = b]
  <2>2. /\ r.op = req[c].op /\ r.hash = req[c].hash /\ r.enc = req[c].enc
        /\ r.empty = req[c].empty /\ r.meant = req[c].meant /\ r.part = req[c].part
    BY <1>1 DEF Request
  <2> HIDE DEF r
  <2>3. Sent(r.part) /\ WriteMatches(r)
    BY <1>1, <2>2 DEF WriteMatches
  <2> QED BY <1>3, <2>1, <2>3, RequestStepContent DEF UpdateRead, r
<1> QED BY <1>2, <1>3

LEMMA AbortContent ==
    ASSUME TypeOK, ContentInv, NEW c \in Clients, Abort(c) PROVE ContentInv'
<1>1. Sent(IdleRequest.part) /\ WriteMatches(IdleRequest)
  BY DEF IdleRequest, WriteMatches, Sent, CreateOps
<1> QED BY <1>1, RequestStepContent DEF Abort

(* A commit writes one row and ends its request; the rows of the session go  *)
(* only when it is no longer open.                                           *)
LEMMA CommitContent ==
    ASSUME TypeOK, ContentInv, NEW c \in Clients, NEW f \in FileIds, RowRight(f)',
           NEW t, t # "open",
           UNCHANGED <<msgs, jobs>>, SetReq(c, IdleRequest),
           \A g \in FileIds : g # f => files'[g] = files[g] /\ intent'[g] = intent[g],
           uploads' = uploads \/ uploads' = uploads \ SessionRows(req[c].sid),
           \A s \in Sessions : /\ sessions'[s].data = sessions[s].data
                               /\ sessions'[s].enc = sessions[s].enc
                               /\ sessions'[s].sent = IF s = req[c].sid THEN t
                                                      ELSE sessions[s].sent
    PROVE  ContentInv'
<1>1. MessagesKept
  BY DEF MessagesKept
<1>2. req'[c] = IdleRequest /\ \A d \in Clients : d # c => req'[d] = req[d]
  BY DEF SetReq, TypeOK
<1>3. \A g \in FileIds : RowRight(g)'
  <2>1. ASSUME NEW g \in FileIds, g # f PROVE RowRight(g)'
    BY <1>1, <2>1, RowKept, ContentParts DEF Present, Active
  <2> QED BY <2>1
<1>4. \A d \in Clients : RequestRight(d)'
  BY <1>1, <1>2, RequestKept, IdleRight, ContentParts
<1>5. uploads' \subseteq uploads /\ \A u \in uploads : u.sid \in Sessions
  BY DEF TypeOK, UploadRow
<1>6. NoJobs'
  BY <1>5 DEF ContentInv, NoJobs, jobs
<1>7. \A s \in Sessions : sessions'[s].sent = "open" =>
        sessions[s].sent = "open" /\ SessionRows(s)' = SessionRows(s)
  BY DEF SessionRows
<1>8. UploadsMatch'
  BY <1>5, <1>7 DEF ContentInv, UploadsMatch, Sent
<1> QED BY <1>3, <1>4, <1>6, <1>8, ContentPartsNext

LEMMA CreateCommitContent ==
    ASSUME TypeOK, ContentInv, NEW c \in Clients, CreateCommit(c)
    PROVE  ContentInv'
<1> USE FileStoreAssumption
<1>1. /\ req[c] \in Request /\ Sent(req[c].part) /\ WriteMatches(req[c])
      /\ req[c].op \in CreateOps
  BY DEF TypeOK, ContentInv, PartsSent, CreateCommit
<1>2. PICK f \in FileIds :
        /\ files'[f] = NewRow(req[c], req[c].hit) /\ intent'[f] = req[c].meant
        /\ \A g \in FileIds : g # f => files'[g] = files[g] /\ intent'[g] = intent[g]
  BY DEF CreateCommit, TypeOK
<1>3. UNCHANGED <<msgs, jobs>> /\ SetReq(c, IdleRequest)
  BY DEF CreateCommit
<1>4. RowRight(f)'
  BY <1>1, <1>2, <1>3 DEF NewRow, RowRight, WriteMatches, Sent, Readable
<1> DEFINE t == IF req[c].op = "create" THEN "create" ELSE "direct"
<1>5. \A s \in Sessions : /\ sessions'[s].data = sessions[s].data
                          /\ sessions'[s].enc = sessions[s].enc
                          /\ sessions'[s].sent = IF s = req[c].sid THEN t
                                                 ELSE sessions[s].sent
  <2>1. CASE req[c].sid = None
    BY <2>1 DEF CreateCommit
  <2>2. CASE req[c].sid # None
    <3>1. req[c].sid \in Sessions
      BY <1>1, <2>2 DEF Request
    <3>2. sessions' = [sessions EXCEPT ![req[c].sid].sent = t]
      BY <2>2 DEF CreateCommit
    <3> QED BY <3>1, <3>2 DEF TypeOK, Session
  <2> QED BY <2>1, <2>2
<1>6. uploads' = uploads \/ uploads' = uploads \ SessionRows(req[c].sid)
  BY DEF CreateCommit
<1>7. t # "open"
  OBVIOUS
<1> HIDE DEF t
<1> QED BY <1>2, <1>3, <1>4, <1>5, <1>6, <1>7, CommitContent

LEMMA UpdateCommitContent ==
    ASSUME TypeOK, ContentInv, NEW c \in Clients, UpdateCommit(c)
    PROVE  ContentInv'
<1> USE FileStoreAssumption
<1>1. /\ req[c] \in Request /\ Sent(req[c].part) /\ WriteMatches(req[c])
      /\ req[c].op \in {"update", "truncate"} /\ req[c].fid \in FileIds
  BY DEF TypeOK, ContentInv, PartsSent, WriteMatches, UpdateCommit, UpdateOps, Request
<1> PICK f \in FileIds : f = req[c].fid
  BY <1>1
<1>2. /\ files'[f] = UpdatedRow(files[f], req[c]) /\ intent'[f] = req[c].meant
      /\ \A g \in FileIds : g # f => files'[g] = files[g] /\ intent'[g] = intent[g]
  BY DEF TypeOK, UpdateCommit
<1>3. UNCHANGED <<msgs, jobs>> /\ SetReq(c, IdleRequest)
  BY DEF UpdateCommit
<1>4. /\ files'[f].status = files[f].status
      /\ files'[f].part = IF req[c].part = NoPart THEN files[f].part ELSE req[c].part
      /\ files'[f].hash = IF req[c].hash = None THEN files[f].hash ELSE req[c].hash
      /\ files'[f].empty = req[c].empty
      /\ files'[f].enc = IF req[c].op = "truncate" THEN files[f].enc ELSE req[c].enc
  BY <1>2 DEF UpdatedRow, TypeOK, Row
<1>5. RowRight(f)'
  <2>1. RowRight(f)
    BY ContentParts
  <2>2. CASE req[c].op = "truncate"
    BY <1>1, <1>2, <1>3, <1>4, <2>1, <2>2
       DEF RowRight, WriteMatches, Sent, Readable, Present, Active
  <2>3. CASE req[c].op = "update"
    BY <1>1, <1>2, <1>3, <1>4, <2>3
       DEF RowRight, WriteMatches, Sent, Readable, Present, Active
  <2> QED BY <1>1, <2>2, <2>3
<1> DEFINE t == IF req[c].op = "update" THEN "update" ELSE "direct"
<1>6. \A s \in Sessions : /\ sessions'[s].data = sessions[s].data
                          /\ sessions'[s].enc = sessions[s].enc
                          /\ sessions'[s].sent = IF s = req[c].sid THEN t
                                                 ELSE sessions[s].sent
  <2>1. CASE req[c].sid = None
    BY <2>1 DEF UpdateCommit
  <2>2. CASE req[c].sid # None
    <3>1. req[c].sid \in Sessions
      BY <1>1, <2>2 DEF Request
    <3>2. sessions' = [sessions EXCEPT ![req[c].sid].sent = t, ![req[c].sid].fid = f]
      BY <2>2 DEF UpdateCommit
    <3> QED BY <3>1, <3>2 DEF TypeOK, Session
  <2> QED BY <2>1, <2>2
<1>7. uploads' = uploads \/ uploads' = uploads \ SessionRows(req[c].sid)
  BY DEF UpdateCommit
<1>8. t # "open"
  OBVIOUS
<1> HIDE DEF t
<1> QED BY SMTT(30), <1>2, <1>3, <1>5, <1>6, <1>7, <1>8, CommitContent

(* A copy sends the same content again, encrypted as the original is.        *)
LEMMA CopyContent ==
    ASSUME TypeOK, ContentInv, NEW c \in Clients, Copy(c) PROVE ContentInv'
<1> USE FileStoreAssumption
<1>1. ASSUME NEW f \in FileIds, NEW n \in Names, CopySend(c, f, n) PROVE ContentInv'
  <2>1. PICK m \in MsgIds :
          /\ FreshMsg(m)
          /\ msgs' = [msgs EXCEPT ![m] = msgs[files[f].part]]
          /\ SetReq(c, [IdleRequest EXCEPT
                !.op = "copy", !.pc = "loaded", !.name = n, !.part = m,
                !.hash = files[f].hash, !.enc = files[f].enc,
                !.empty = files[f].empty, !.meant = intent[f]])
    BY <1>1 DEF CopySend
  <2>2. UNCHANGED <<files, uploads, sessions, intent, jobs>>
    BY <1>1 DEF CopySend, server, history
  <2>3. MessagesKept
    BY <2>1, SendKeeps
  <2>4. msgs'[m] = msgs[files[f].part] /\ msgs'[m].state = "stored"
    BY <1>1, <2>1 DEF CopySend, TypeOK
  <2>5. /\ req'[c].op = "copy" /\ req'[c].part = m /\ req'[c].hash = files[f].hash
        /\ req'[c].enc = files[f].enc /\ req'[c].empty = files[f].empty
        /\ req'[c].meant = intent[f]
        /\ \A d \in Clients : d # c => req'[d] = req[d]
    BY <2>1 DEF SetReq, TypeOK, IdleRequest
  <2>6. RowRight(f) /\ Present(f) /\ Readable(f)
    BY <1>1, ContentParts DEF CopySend, Readable
  <2>7. RequestRight(c)'
    BY <2>4, <2>5, <2>6 DEF RequestRight, RowRight, WriteMatches, Sent, Readable, CreateOps
  <2>8. \A d \in Clients : RequestRight(d)'
    BY <2>3, <2>5, <2>7, RequestKept, ContentParts
  <2>9. \A g \in FileIds : RowRight(g)'
    BY <2>2, <2>3, RowKept, ContentParts DEF Present, Active
  <2>10. UploadsMatch' /\ NoJobs'
    BY <2>2, <2>3, UploadsKept, ContentParts
  <2> QED BY <2>8, <2>9, <2>10, ContentPartsNext
<1>2. ASSUME CopyInsert(c) PROVE ContentInv'
  <2>1. Sent(req[c].part) /\ WriteMatches(req[c])
    BY DEF ContentInv, PartsSent
  <2>2. PICK f \in FileIds : /\ files' = [files EXCEPT ![f] = NewRow(req[c], NoRow)]
                             /\ intent' = [intent EXCEPT ![f] = req[c].meant]
    BY <1>2 DEF CopyInsert
  <2>3. /\ files'[f] = NewRow(req[c], NoRow) /\ intent'[f] = req[c].meant
        /\ \A g \in FileIds : g # f => files'[g] = files[g] /\ intent'[g] = intent[g]
    BY <2>2 DEF TypeOK
  <2>4. UNCHANGED <<msgs, uploads, sessions, jobs>> /\ SetReq(c, IdleRequest)
    BY <1>2 DEF CopyInsert
  <2>5. RowRight(f)'
    BY <2>1, <2>3, <2>4 DEF NewRow, RowRight, WriteMatches, Sent, Readable
  <2>6. MessagesKept
    BY <2>4 DEF MessagesKept
  <2>7. \A g \in FileIds : g # f => RowRight(g)'
    BY <2>3, <2>6, RowKept, ContentParts DEF Present, Active
  <2>8. \A d \in Clients : RequestRight(d)'
    BY <2>4, <2>6, RequestKept, IdleRight, ContentParts DEF SetReq, TypeOK
  <2>9. UploadsMatch' /\ NoJobs'
    BY <2>4, <2>6, UploadsKept, ContentParts
  <2> QED BY <2>5, <2>7, <2>8, <2>9, ContentPartsNext
<1> QED BY <1>1, <1>2 DEF Copy
-----------------------------------------------------------------------------
(* Deletes and the cleaners: rows change their status or go, messages go.    *)
LEMMA RowsGoContent ==
    ASSUME TypeOK, ContentInv, MessagesKept, UNCHANGED <<uploads, sessions, req>>,
           UNCHANGED intent, UNCHANGED <<upCleaner, dedup>>,
           \A f \in FileIds : (Present(f)' => /\ files'[f].part = files[f].part
                                              /\ files'[f].hash = files[f].hash
                                              /\ files'[f].enc = files[f].enc
                                              /\ files'[f].empty = files[f].empty
                                              /\ Present(f))
                              /\ (Active(f)' => Active(f))
    PROVE  ContentInv'
<1>1. ASSUME NEW f \in FileIds PROVE RowRight(f)'
  <2>1. CASE Present(f)'
    BY <2>1, RowKept, ContentParts
  <2>2. CASE ~Present(f)'
    BY <2>2 DEF RowRight, Present, Active
  <2> QED BY <2>1, <2>2
<1>2. \A c \in Clients : RequestRight(c)'
  BY RequestKept, ContentParts
<1>3. \A u \in uploads : u.part \in MsgIds /\ u.sid \in Sessions
  BY DEF TypeOK, UploadRow
<1>4. \A u \in uploads : msgs[u.part].state # "unsent"
  BY FileStoreAssumption, <1>3 DEF ContentInv, UploadsMatch, Sent, MsgIds, NoPart
<1>5. UploadsMatch' /\ NoJobs'
  BY <1>3, <1>4 DEF ContentInv, UploadsMatch, MessagesKept, SessionRows, NoJobs, Sent
<1> QED BY <1>1, <1>2, <1>5, ContentPartsNext

LEMMA DeleteContent ==
    ASSUME TypeOK, ContentInv, NEW f \in FileIds, Delete(f) PROVE ContentInv'
<1>1. UNCHANGED <<msgs, uploads, sessions, req, intent, upCleaner, dedup>>
  BY DEF Delete, jobs, history
<1>2. MessagesKept
  BY <1>1 DEF MessagesKept
<1>3. \A g \in FileIds : /\ files'[g].part = files[g].part
                         /\ files'[g].hash = files[g].hash
                         /\ files'[g].enc = files[g].enc
                         /\ files'[g].empty = files[g].empty
                         /\ (Present(g)' => Present(g)) /\ (Active(g)' => Active(g))
  BY DEF Delete, TypeOK, Row, Present, Active
<1> QED BY <1>1, <1>2, <1>3, RowsGoContent

LEMMA CleanContent == ASSUME TypeOK, ContentInv, Clean PROVE ContentInv'
<1>1. UNCHANGED <<uploads, sessions, req, intent, upCleaner, dedup>>
  BY DEF Clean, CleanSelect, CleanMessages, CleanFail, CleanRows, CleanCrash, server, history
<1>2. MessagesKept
  <2>1. CASE CleanMessages
    BY <2>1, RemoveKeeps DEF CleanMessages
  <2>2. ASSUME NEW S, CleanFail(S) PROVE MessagesKept
    BY <2>2, RemoveKeeps DEF CleanFail
  <2>3. CASE CleanSelect \/ CleanRows \/ CleanCrash
    BY <2>3 DEF CleanSelect, CleanRows, CleanCrash, MessagesKept
  <2> QED BY <2>1, <2>2, <2>3 DEF Clean
<1>3. \A g \in FileIds : (Present(g)' => /\ files'[g].part = files[g].part
                                         /\ files'[g].hash = files[g].hash
                                         /\ files'[g].enc = files[g].enc
                                         /\ files'[g].empty = files[g].empty
                                         /\ Present(g))
                         /\ (Active(g)' => Active(g))
  <2>1. CASE CleanRows
    <3> DEFINE ids == IdsOf(cleaner.rows)
    <3>1. files' = Purged(ids)
      BY <2>1 DEF CleanRows
    <3> HIDE DEF ids
    <3>2. ASSUME NEW g \in FileIds
          PROVE  /\ Present(g)' => /\ files'[g].part = files[g].part
                                  /\ files'[g].hash = files[g].hash
                                  /\ files'[g].enc = files[g].enc
                                  /\ files'[g].empty = files[g].empty
                                  /\ files'[g].status = files[g].status
                 /\ Active(g)' => files'[g].status = files[g].status
      <4>1. CASE g \in ids
        BY <3>1, <4>1 DEF Purged, FreeRow, Present, Active
      <4>2. CASE g \notin ids
        BY <3>1, <4>2 DEF Purged, TypeOK, Row, Present, Active
      <4> QED BY <4>1, <4>2
    <3> QED BY <3>2 DEF Present, Active
  <2>2. CASE UNCHANGED files
    BY <2>2 DEF Present, Active
  <2> QED BY <2>1, <2>2 DEF Clean, CleanSelect, CleanMessages, CleanFail, CleanCrash, server
<1> QED BY <1>1, <1>2, <1>3, RowsGoContent

(* There is nothing for the other jobs to do.                                *)
LEMMA JobsIdle ==
    ASSUME Plain, TypeOK, ContentInv, CleanUp \/ Dedup \/ \E u \in uploads : Expire(u)
    PROVE  FALSE
<1>1. /\ \A u \in uploads : ~u.expired
      /\ upCleaner.pc = "idle" /\ dedup.pc = "idle"
      /\ {"cleanUploads", "dedup", "backfill"} \cap Features = {}
  BY DEF ContentInv, NoJobs, Plain
<1>2. ~CleanUp
  BY <1>1 DEF CleanUp, UpSelect, UpMessages, UpFail, UpCrash, UpRows
<1>3. ~Dedup
  BY <1>1 DEF Dedup, DedupLoad, BackfillLoad, BackfillOne, BackfillSkip, DedupGroup,
              DedupLink, DedupSkip, DedupEnd
<1>4. \A u \in uploads : ~Expire(u)
  BY <1>1 DEF Expire
<1> QED BY <1>2, <1>3, <1>4

-----------------------------------------------------------------------------
(* Uploads *)

LEMMA UploadPartContent ==
    ASSUME Plain, TypeOK, ContentInv, NEW s \in Sessions, NEW d \in Contents,
           NEW h \in Hashing, NEW e \in Encryption, UploadPart(s, d, h, e)
    PROVE  ContentInv'
<1> USE FileStoreAssumption
<1>1. PICK m \in MsgIds :
        /\ FreshMsg(m)
        /\ msgs' = [msgs EXCEPT ![m] = [state |-> "stored", data |-> d, enc |-> e]]
        /\ uploads' = uploads \cup
             {[sid |-> s, part |-> m, hashed |-> h, expired |-> FALSE]}
  BY DEF UploadPart
<1>2. MessagesKept
  BY <1>1, SendKeeps
<1>3. msgs'[m].state = "stored" /\ msgs'[m].data = d /\ msgs'[m].enc = e
  BY <1>1 DEF TypeOK
<1>4. UNCHANGED <<files, req, intent, upCleaner, dedup>>
  BY DEF UploadPart, jobs, history
<1>5. /\ sessions'[s].data = d /\ sessions'[s].enc = e
      /\ \A t \in Sessions : t # s => sessions'[t] = sessions[t]
      /\ \A u \in uploads : u.sid # s
  BY DEF UploadPart, TypeOK, SessionRows
<1>6. \A f \in FileIds : RowRight(f)'
  BY <1>2, <1>4, RowKept, ContentParts DEF Present, Active
<1>7. \A c \in Clients : RequestRight(c)'
  BY <1>2, <1>4, RequestKept, ContentParts
<1>8. \A u \in uploads : /\ u.part \in MsgIds /\ u.sid \in Sessions
                         /\ msgs[u.part].state # "unsent"
  BY DEF TypeOK, UploadRow, ContentInv, UploadsMatch, Sent, MsgIds, NoPart
<1>9. NoJobs'
  BY <1>1, <1>4 DEF ContentInv, NoJobs
<1>10. UploadsMatch'
  <2>1. ASSUME NEW u \in uploads'
        PROVE  /\ u.hashed /\ Sent(u.part)'
               /\ msgs'[u.part].data = sessions'[u.sid].data /\ msgs'[u.part].data # None
               /\ msgs'[u.part].enc = sessions'[u.sid].enc
    <3>1. CASE u \in uploads
      BY <1>2, <1>5, <1>8, <3>1 DEF ContentInv, UploadsMatch, MessagesKept, Sent
    <3>2. CASE u \notin uploads
      <4>1. u = [sid |-> s, part |-> m, hashed |-> h, expired |-> FALSE]
        BY <1>1, <3>2
      <4>2. u.sid = s /\ u.part = m /\ u.hashed
        BY <4>1 DEF Plain
      <4> QED BY <1>3, <1>5, <4>2 DEF Sent
    <3> QED BY <3>1, <3>2
  <2>2. ASSUME NEW t \in Sessions, sessions'[t].sent = "open"
        PROVE  SessionRows(t)' # {}
    <3>1. PICK u \in uploads' : u.sid = t
      <4> DEFINE w == [sid |-> s, part |-> m, hashed |-> h, expired |-> FALSE]
      <4>1. w \in uploads' /\ w.sid = s
        BY <1>1
      <4>2. t # s => \E u \in uploads : u.sid = t
        BY <1>5, <2>2 DEF ContentInv, UploadsMatch, SessionRows
      <4> HIDE DEF w
      <4> QED BY <1>1, <4>1, <4>2
    <3> QED BY <3>1 DEF SessionRows
  <2> QED BY <2>1, <2>2 DEF UploadsMatch
<1> QED BY <1>6, <1>7, <1>9, <1>10, ContentPartsNext

LEMMA UploadsDeleteContent ==
    ASSUME TypeOK, ContentInv, NEW s \in Sessions, UploadsDelete(s) PROVE ContentInv'
<1>1. /\ UNCHANGED <<files, msgs, req, intent, upCleaner, dedup>>
      /\ uploads' = uploads \ SessionRows(s)
  BY DEF UploadsDelete, jobs, history
<1>2. MessagesKept
  BY <1>1 DEF MessagesKept
<1>3. /\ sessions'[s].sent # "open"
      /\ \A t \in Sessions : /\ sessions'[t].data = sessions[t].data
                             /\ sessions'[t].enc = sessions[t].enc
                             /\ t # s => sessions'[t] = sessions[t]
  BY DEF UploadsDelete, TypeOK, Session
<1>4. \A f \in FileIds : RowRight(f)'
  BY <1>1, <1>2, RowKept, ContentParts DEF Present, Active
<1>5. \A c \in Clients : RequestRight(c)'
  BY <1>1, <1>2, RequestKept, ContentParts
<1>6. \A u \in uploads : u.sid \in Sessions
  BY DEF TypeOK, UploadRow
<1>7. NoJobs'
  BY <1>1 DEF ContentInv, NoJobs
<1>8. UploadsMatch'
  BY <1>1, <1>3, <1>6 DEF ContentInv, UploadsMatch, SessionRows, Sent
<1> QED BY <1>4, <1>5, <1>7, <1>8, ContentPartsNext

-----------------------------------------------------------------------------
(* The theorems *)

LEMMA InitContent == Init => ContentInv
<1> SUFFICES ASSUME Init PROVE ContentInv
  OBVIOUS
<1>1. \A f \in FileIds : ~Present(f) /\ ~Active(f)
  BY DEF Init, FreeRow, Present, Active
<1>2. \A c \in Clients : Sent(req[c].part) /\ WriteMatches(req[c])
  BY DEF Init, IdleRequest, Sent, WriteMatches, CreateOps
<1>3. NoJobs
  BY DEF Init, NoJobs
<1>4. UploadsMatch
  BY DEF Init, UploadsMatch
<1> QED BY <1>1, <1>2, <1>3, <1>4
        DEF ContentInv, HashMatchesContent, NeverWrongContent, PartsSent

LEMMA StepContent ==
    ASSUME Plain PROVE TypeOK /\ ContentInv /\ [Next]_vars => ContentInv'
<1> SUFFICES ASSUME TypeOK, ContentInv, [Next]_vars PROVE ContentInv'
  OBVIOUS
<1>1. CASE UNCHANGED vars
  <2>1. MessagesKept
    BY <1>1 DEF vars, MessagesKept
  <2> QED BY <1>1, <2>1, RowsGoContent DEF vars, Present, Active
<1>2. CASE Next
  <2>1. ASSUME NEW c \in Clients, Create(c) \/ Update(c) \/ Copy(c) \/ Abort(c)
        PROVE  ContentInv'
    BY <2>1, LoadsContent, LookupsContent, CreateCommitContent, UpdateCommitContent,
       CopyContent, AbortContent DEF Create, Update
  <2>2. CASE Upload
    BY <2>2, UploadPartContent, UploadsDeleteContent, JobsIdle DEF Upload
  <2> QED BY <1>2, <2>1, <2>2, DeleteContent, CleanContent, JobsIdle DEF Next
<1> QED BY <1>1, <1>2

(* In a deployment of Plain the parts, hash, size and encryption of a file   *)
(* belong together, and so do those every request in flight is to write.     *)
THEOREM ContentInvHolds == ASSUME Plain PROVE Spec => []ContentInv
<1>1. TypeOK /\ ContentInv /\ [Next]_vars => ContentInv'
  BY StepContent
<1> QED BY InitContent, <1>1, TypeCorrect, PTL DEF Spec

(* In a deployment of Plain a file reads as what a client last wrote to it,  *)
(* although creates and updates take over the parts of other files.          *)
THEOREM ContentIsRight == ASSUME Plain PROVE Spec => []NeverWrongContent
<1>1. ContentInv => NeverWrongContent
  BY DEF ContentInv
<1> QED BY <1>1, ContentInvHolds, PTL

-----------------------------------------------------------------------------
(* Deduplication *)

(* As long as nobody writes over a file: one that stays active keeps its     *)
(* parts and its hash, but for what a deduplication run does to it.          *)
Undisturbed ==
    \A f \in FileIds :
       Active(f) /\ files'[f].status = "active" =>
          files'[f].part = files[f].part /\ files'[f].hash = files[f].hash

(* What a run has read of a row is what the row says, unless it is deleted.  *)
AsRead(x) ==
    /\ files[x.id].status # "free"
    /\ Active(x.id) => files[x.id].part = x.part

OneRowEach ==
    /\ \A x, y \in dedup.found : x.id = y.id => x = y
    /\ \A x, y \in dedup.todo : x.id = y.id => x = y
    /\ \A x \in dedup.found, y \in dedup.todo : x.id # y.id

(* Before the links are written, all rows are as they were read, and those   *)
(* of the first list have a hash, by which the second one passes them over.  *)
ReadRight ==
    /\ \A x \in dedup.found \cup dedup.todo : AsRead(x)
    /\ dedup.pc = "loaded" =>
          /\ dedup.todo = {}
          /\ \A x \in dedup.found : Active(x.id) => files[x.id].hash # None

(* While they are written: the row chosen for a hash is as it was read, the  *)
(* others of its hash are linked, skipped, or still to be linked to it.      *)
LinkRight(canon) ==
    LET Pair(x, k) == x \in dedup.found \ canon /\ k \in canon /\ x.hash = k.hash
    IN  /\ \A x \in dedup.found : \E k \in canon : k.hash = x.hash
        /\ \A x, y \in canon : x.hash = y.hash => x = y
        /\ \A k \in canon : AsRead(k)
        /\ \A x \in dedup.found : files[x.id].status # "free"
        /\ \A l \in dedup.links : \E x \in dedup.found, k \in canon :
              Pair(x, k) /\ l = [dup |-> x.id, canon |-> k.id, part |-> k.part]
        /\ \A x \in dedup.found, k \in canon : Pair(x, k) =>
              \/ x.id \in dedup.skipped
              \/ [dup |-> x.id, canon |-> k.id, part |-> k.part] \in dedup.links
              \/ Active(x.id) => files[x.id].part = k.part

DedupInv ==
    /\ OneRowEach
    /\ dedup.pc \in {"loaded", "backfill"} => ReadRight
    /\ dedup.pc = "link" => \E canon \in SUBSET dedup.found : LinkRight(canon)

Others ==
    \/ \E c \in Clients : Create(c) \/ Update(c) \/ Copy(c) \/ Abort(c)
    \/ Upload \/ (\E f \in FileIds : Delete(f)) \/ Clean \/ CleanUp

(* What everyone else does to a row that is there: it is not freed, and does *)
(* not come back.                                                            *)
GoesOn(f) ==
    files[f].status # "free" =>
       /\ files'[f].status # "free"
       /\ files'[f].status = "active" => Active(f)

LEMMA RowsGoOn ==
    ASSUME TypeOK, NEW f \in FileIds, Others
    PROVE  GoesOn(f)
<1>1. ASSUME NEW c \in Clients, CreateCommit(c) PROVE GoesOn(f)
  <2>1. PICK g \in FileIds :
          /\ g \in Named(req[c].name) \/ FreshRow(g)
          /\ files' = [files EXCEPT ![g] = NewRow(req[c], req[c].hit)]
    BY <1>1 DEF CreateCommit
  <2>2. Active(g) \/ files[g].status = "free"
    BY <2>1 DEF Named, FreshRow
  <2>3. NewRow(req[c], req[c].hit).status = "active"
    BY DEF NewRow
  <2>4. files'[f] = IF f = g THEN NewRow(req[c], req[c].hit) ELSE files[f]
    BY <2>1 DEF TypeOK
  <2>5. files'[f].status = IF f = g THEN "active" ELSE files[f].status
    BY <2>3, <2>4
  <2> QED BY <2>2, <2>5 DEF GoesOn, Active
<1>2. ASSUME NEW c \in Clients, UpdateCommit(c) PROVE GoesOn(f)
  <2>1. \A g \in FileIds : \/ files'[g] = files[g]
                           \/ files'[g] = UpdatedRow(files[g], req[c])
    BY <1>2 DEF UpdateCommit, TypeOK
  <2>2. UpdatedRow(files[f], req[c]).status = files[f].status
    BY DEF UpdatedRow, TypeOK, Row
  <2> QED BY <2>1, <2>2 DEF GoesOn, Active
<1>3. ASSUME NEW c \in Clients, CopyInsert(c) PROVE GoesOn(f)
  <2>1. PICK g \in FileIds :
          FreshRow(g) /\ files' = [files EXCEPT ![g] = NewRow(req[c], NoRow)]
    BY <1>3 DEF CopyInsert
  <2> QED BY <2>1 DEF GoesOn, FreshRow, TypeOK, Active
<1>4. ASSUME NEW g \in FileIds, Delete(g) PROVE GoesOn(f)
  BY <1>4 DEF Delete, TypeOK, Row, GoesOn, Active
<1>5. CASE CleanRows
  <2>1. files'[f].status \in {"removed", files[f].status}
    BY <1>5 DEF CleanRows, Purged, FreeRow, TypeOK, Row
  <2> QED BY <2>1 DEF GoesOn, Active
<1>6. CASE UNCHANGED files
  BY <1>6 DEF GoesOn, Active
<1> QED BY ZenonT(40), <1>1, <1>2, <1>3, <1>4, <1>5, <1>6
        DEF Others, Create, CreateLoad, CreateDirectLoad, CreateEmptyLoad, CreateSelect,
            Update, UpdateLoad, UpdateDirectLoad, TruncateLoad, UpdateRead,
            Copy, CopySend, Abort, Upload, UploadPart, UploadsDelete, Expire,
            Clean, CleanSelect, CleanMessages, CleanFail, CleanCrash, CleanUp, UpSelect,
            UpMessages, UpFail, UpCrash, UpRows, server

LEMMA OthersLeaveRun == ASSUME Others PROVE dedup' = dedup
  BY ZenonT(40) DEF Others, Create, CreateLoad, CreateDirectLoad, CreateEmptyLoad, CreateSelect,
         CreateCommit, Update, UpdateLoad, UpdateDirectLoad, TruncateLoad, UpdateRead,
         UpdateCommit, Copy, CopySend, CopyInsert, Abort, Upload, UploadPart,
         UploadsDelete, Expire, Delete, Clean, CleanSelect, CleanMessages, CleanFail,
         CleanRows, CleanCrash, CleanUp, UpSelect, UpMessages, UpFail, UpCrash, UpRows, jobs

LEMMA RunTypes ==
    ASSUME TypeOK
    PROVE  /\ \A x \in dedup.found \cup dedup.todo : x.id \in FileIds
           /\ dedup.found \subseteq Snapshot /\ dedup.todo \subseteq HashJob
           /\ dedup.links \subseteq Link
  BY DEF TypeOK, Snapshot, HashJob

LEMMA OthersDedup ==
    ASSUME TypeOK, DedupInv, Others, Undisturbed
    PROVE  DedupInv'
<1>1. dedup' = dedup
  BY OthersLeaveRun
<1>2. \A f \in FileIds : GoesOn(f)
  BY RowsGoOn
<1>3. ASSUME NEW x, x.id \in FileIds, AsRead(x) PROVE AsRead(x)'
  BY <1>2, <1>3 DEF AsRead, GoesOn, Undisturbed, Active
<1>4. OneRowEach'
  BY <1>1 DEF DedupInv, OneRowEach
<1>5. ASSUME dedup.pc \in {"loaded", "backfill"} PROVE ReadRight'
  <2>1. ReadRight
    BY <1>5 DEF DedupInv
  <2>2. \A x \in dedup.found \cup dedup.todo : AsRead(x)'
    BY <1>3, <2>1, RunTypes DEF ReadRight
  <2>3. ASSUME dedup.pc = "loaded", NEW x \in dedup.found, files'[x.id].status = "active"
        PROVE  files'[x.id].hash # None
    <3>1. x.id \in FileIds /\ files[x.id].status # "free"
      BY <2>1, RunTypes DEF ReadRight, AsRead
    <3>2. Active(x.id)
      BY <3>1, <2>3, <1>2 DEF GoesOn
    <3> QED BY <3>1, <3>2, <2>1, <2>3 DEF Undisturbed, ReadRight
  <2> QED BY <1>1, <2>1, <2>2, <2>3 DEF ReadRight, Active
<1>6. ASSUME NEW canon \in SUBSET dedup.found, LinkRight(canon) PROVE LinkRight(canon)'
  <2>1. \A k \in canon : AsRead(k)'
    BY <1>3, <1>6, RunTypes DEF LinkRight
  <2>2. \A x \in dedup.found : files'[x.id].status # "free"
    BY <1>2, <1>6, RunTypes DEF LinkRight, GoesOn
  <2>3. ASSUME NEW x \in dedup.found, NEW k \in canon, Active(x.id) => files[x.id].part = k.part
        PROVE  files'[x.id].status = "active" => files'[x.id].part = k.part
    <3>1. x.id \in FileIds /\ files[x.id].status # "free"
      BY <1>6, RunTypes DEF LinkRight
    <3> QED BY <2>3, <3>1, <1>2 DEF GoesOn, Undisturbed
  <2>4. \A x \in dedup.found, k \in canon :
           x \in dedup.found \ canon /\ x.hash = k.hash =>
              \/ x.id \in dedup.skipped
              \/ [dup |-> x.id, canon |-> k.id, part |-> k.part] \in dedup.links
              \/ files'[x.id].status = "active" => files'[x.id].part = k.part
    BY <1>6, <2>3 DEF LinkRight
  <2> QED BY <1>1, <1>6, <2>1, <2>2, <2>4 DEF LinkRight, Active
<1> QED BY <1>1, <1>4, <1>5, <1>6 DEF DedupInv

-----------------------------------------------------------------------------
(* The steps of the run                                                      *)

LEMMA LoadDedup ==
    ASSUME TypeOK, DedupLoad
    PROVE  DedupInv'
<1>1. /\ dedup'.pc = "loaded" /\ dedup'.todo = {} /\ files' = files
      /\ dedup'.found = {SnapshotOf(f) : f \in {g \in FileIds :
                            Active(g) /\ ~files[g].enc /\ files[g].hash # None}}
  BY DEF DedupLoad, server
<1>2. \A x \in dedup'.found : \E f \in FileIds :
         x = SnapshotOf(f) /\ x.id = f /\ x.part = files[f].part /\ Active(f)
         /\ files[f].hash # None
  BY <1>1 DEF SnapshotOf
<1>3. \A x, y \in dedup'.found : x.id = y.id => x = y
  BY <1>2
<1>4. \A x \in dedup'.found : AsRead(x)' /\ files[x.id].hash # None
  BY <1>1, <1>2 DEF AsRead, Active
<1> QED BY <1>1, <1>3, <1>4 DEF DedupInv, OneRowEach, ReadRight

LEMMA BackfillLoadDedup ==
    ASSUME TypeOK, DedupInv, BackfillLoad
    PROVE  DedupInv'
<1>1. /\ dedup.pc = "loaded" /\ dedup'.pc = "backfill" /\ dedup'.found = dedup.found
      /\ files' = files
      /\ dedup'.todo = {[id |-> f, part |-> files[f].part, empty |-> files[f].empty] :
                          f \in {g \in FileIds : Active(g) /\ ~files[g].enc
                                                 /\ files[g].hash = None}}
  BY DEF BackfillLoad, server, TypeOK
<1>2. \A y \in dedup'.todo : \E f \in FileIds :
         /\ y = [id |-> f, part |-> files[f].part, empty |-> files[f].empty]
         /\ y.id = f /\ y.part = files[f].part /\ Active(f) /\ files[f].hash = None
  BY <1>1
<1>3. ReadRight /\ OneRowEach
  BY <1>1 DEF DedupInv
<1>4. \A x, y \in dedup'.todo : x.id = y.id => x = y
  BY <1>2
<1>5. \A x \in dedup.found, y \in dedup'.todo : x.id # y.id
  BY <1>1, <1>2, <1>3 DEF ReadRight
<1>6. \A x \in dedup'.todo : AsRead(x)'
  BY <1>1, <1>2 DEF AsRead, Active
<1>7. \A x \in dedup.found : AsRead(x)'
  BY <1>1, <1>3 DEF AsRead, Active, ReadRight
<1> QED BY <1>1, <1>3, <1>4, <1>5, <1>6, <1>7 DEF DedupInv, OneRowEach, ReadRight

LEMMA BackfillOneDedup ==
    ASSUME TypeOK, DedupInv, NEW x \in dedup.todo, BackfillOne(x)
    PROVE  DedupInv'
<1>1. PICK h :
         /\ files' = IF Present(x.id) THEN [files EXCEPT ![x.id].hash = h] ELSE files
         /\ dedup' = [dedup EXCEPT
               !.todo = @ \ {x},
               !.found = @ \cup {[id |-> x.id, part |-> x.part, hash |-> h]}]
  BY DEF BackfillOne
<1> DEFINE z == [id |-> x.id, part |-> x.part, hash |-> h]
<1>2. /\ dedup.pc = "backfill" /\ dedup'.pc = "backfill"
      /\ dedup'.todo = dedup.todo \ {x} /\ dedup'.found = dedup.found \cup {z}
  BY <1>1 DEF BackfillOne, TypeOK
<1>3. z.id = x.id /\ z.part = x.part
  OBVIOUS
<1>4. ReadRight /\ OneRowEach
  BY <1>2 DEF DedupInv
<1>5. \A f \in FileIds : files'[f].status = files[f].status /\ files'[f].part = files[f].part
  BY <1>1 DEF TypeOK, Row
<1> HIDE DEF z
<1>6. ASSUME NEW y, y.id \in FileIds, AsRead(y) PROVE AsRead(y)'
  BY <1>5, <1>6 DEF AsRead, Active
<1>7. \A y \in dedup.found \cup dedup.todo : AsRead(y)'
  BY <1>4, <1>6, RunTypes DEF ReadRight
<1>8. AsRead(z)'
  BY <1>3, <1>7 DEF AsRead
<1>9. OneRowEach'
  BY <1>2, <1>3, <1>4 DEF OneRowEach
<1>10. ReadRight'
  BY <1>2, <1>7, <1>8 DEF ReadRight
<1> QED BY <1>2, <1>9, <1>10 DEF DedupInv

LEMMA BackfillSkipDedup ==
    ASSUME TypeOK, DedupInv, NEW x \in dedup.todo, BackfillSkip(x)
    PROVE  DedupInv'
<1>1. /\ dedup.pc = "backfill" /\ dedup'.pc = "backfill" /\ files' = files
      /\ dedup'.todo = dedup.todo \ {x} /\ dedup'.found = dedup.found
  BY DEF BackfillSkip, TypeOK, server
<1>2. ReadRight /\ OneRowEach
  BY <1>1 DEF DedupInv
<1>3. \A y \in dedup.found \cup dedup.todo : AsRead(y)'
  BY <1>1, <1>2 DEF ReadRight, AsRead, Active
<1> QED BY <1>1, <1>2, <1>3 DEF DedupInv, OneRowEach, ReadRight

LEMMA GroupDedup ==
    ASSUME TypeOK, DedupInv, NEW canon \in SUBSET dedup.found, DedupGroup(canon)
    PROVE  DedupInv'
<1>1. /\ dedup.pc \in {"loaded", "backfill"} /\ dedup'.pc = "link" /\ files' = files
      /\ dedup'.todo = dedup.todo /\ dedup'.found = dedup.found
      /\ dedup'.links = {l \in Link : \E x \in dedup.found \ canon, y \in canon :
                           /\ x.hash = y.hash
                           /\ l = [dup |-> x.id, canon |-> y.id, part |-> y.part]}
      /\ \A x \in dedup.found : \E y \in canon : y.hash = x.hash
      /\ \A x, y \in canon : x.hash = y.hash => x = y
  BY DEF DedupGroup, TypeOK, server
<1>2. ReadRight /\ OneRowEach
  BY <1>1 DEF DedupInv
<1>3. \A y \in dedup.found : AsRead(y)' /\ files'[y.id].status # "free"
  BY <1>1, <1>2 DEF ReadRight, AsRead, Active
<1>4. \A x \in dedup.found, k \in canon :
         [dup |-> x.id, canon |-> k.id, part |-> k.part] \in Link
  BY RunTypes DEF Link, Snapshot
<1>5. \A x \in dedup.found, k \in canon :
         x \in dedup.found \ canon /\ x.hash = k.hash =>
            [dup |-> x.id, canon |-> k.id, part |-> k.part] \in dedup'.links
  BY <1>1, <1>4
<1>6. \A l \in dedup'.links : \E x \in dedup.found, k \in canon :
         /\ x \in dedup.found \ canon /\ k \in canon /\ x.hash = k.hash
         /\ l = [dup |-> x.id, canon |-> k.id, part |-> k.part]
  BY <1>1
<1>7. LinkRight(canon)'
  BY <1>1, <1>3, <1>5, <1>6 DEF LinkRight
<1>8. OneRowEach'
  BY <1>1, <1>2 DEF OneRowEach
<1> QED BY <1>1, <1>7, <1>8 DEF DedupInv

LEMMA LinkDedup ==
    ASSUME TypeOK, DedupInv, NEW l \in dedup.links, DedupLink(l)
    PROVE  DedupInv'
<1>1. /\ dedup.pc = "link" /\ dedup'.pc = "link" /\ dedup'.todo = dedup.todo
      /\ dedup'.found = dedup.found /\ dedup'.skipped = dedup.skipped
      /\ dedup'.links = dedup.links \ {l}
  BY DEF DedupLink, TypeOK
<1>2. PICK canon \in SUBSET dedup.found : LinkRight(canon)
  BY <1>1 DEF DedupInv
<1>3. OneRowEach /\ OneRowEach'
  BY <1>1 DEF DedupInv, OneRowEach
<1>4. PICK d \in dedup.found \ canon, k \in canon :
         d.hash = k.hash /\ l = [dup |-> d.id, canon |-> k.id, part |-> k.part]
  BY <1>2 DEF LinkRight
<1>5. l.dup = d.id /\ l.part = k.part /\ d.id \in FileIds
  BY <1>4, RunTypes
<1>6. /\ \A f \in FileIds : files'[f].status = files[f].status
      /\ \A f \in FileIds \ {d.id} : files'[f].part = files[f].part
      /\ Active(d.id) => files'[d.id].part = k.part
  BY <1>5 DEF DedupLink, TypeOK, Row, Present, Active
<1>7. \A x \in dedup.found : x # d => x.id \in FileIds \ {d.id}
  BY <1>3, RunTypes DEF OneRowEach
<1>8. \A x \in canon : AsRead(x)'
  BY <1>2, <1>4, <1>6, <1>7 DEF LinkRight, AsRead, Active
<1>9. \A x \in dedup.found : files'[x.id].status # "free"
  BY <1>2, <1>6, RunTypes DEF LinkRight
<1>10. ASSUME NEW x \in dedup.found \ canon, NEW j \in canon, x.hash = j.hash
       PROVE  \/ x.id \in dedup'.skipped
              \/ [dup |-> x.id, canon |-> j.id, part |-> j.part] \in dedup'.links
              \/ files'[x.id].status = "active" => files'[x.id].part = j.part
  <2>1. CASE x = d
    <3>1. j = k
      BY <2>1, <1>2, <1>4, <1>10 DEF LinkRight
    <3> QED BY <2>1, <3>1, <1>5, <1>6 DEF Active
  <2>2. CASE x # d
    <3>1. x.id # d.id /\ x.id \in FileIds
      BY <1>7, <2>2
    <3>2. [dup |-> x.id, canon |-> j.id, part |-> j.part] # l
      BY <3>1, <1>5
    <3>3. \/ x.id \in dedup.skipped
          \/ [dup |-> x.id, canon |-> j.id, part |-> j.part] \in dedup.links
          \/ Active(x.id) => files[x.id].part = j.part
      BY <1>2, <1>10 DEF LinkRight
    <3> QED BY <3>1, <3>2, <3>3, <1>1, <1>6 DEF Active
  <2> QED BY <2>1, <2>2
<1>11. LinkRight(canon)'
  BY <1>1, <1>2, <1>8, <1>9, <1>10 DEF LinkRight, Active
<1> QED BY <1>1, <1>3, <1>11 DEF DedupInv

LEMMA SkipDedup ==
    ASSUME TypeOK, DedupInv, NEW l \in dedup.links, DedupSkip(l)
    PROVE  DedupInv'
<1>1. /\ dedup.pc = "link" /\ dedup'.pc = "link" /\ dedup'.todo = dedup.todo
      /\ dedup'.found = dedup.found /\ dedup'.skipped = dedup.skipped \cup {l.dup}
      /\ dedup'.links = dedup.links \ {l} /\ files' = files
  BY DEF DedupSkip, TypeOK, server
<1>2. PICK canon \in SUBSET dedup.found : LinkRight(canon)
  BY <1>1 DEF DedupInv
<1>3. OneRowEach'
  BY <1>1 DEF DedupInv, OneRowEach
<1>4. \A x \in canon : AsRead(x)'
  BY <1>1, <1>2 DEF LinkRight, AsRead, Active
<1>5. ASSUME NEW x \in dedup.found \ canon, NEW j \in canon, x.hash = j.hash
      PROVE  \/ x.id \in dedup'.skipped
             \/ [dup |-> x.id, canon |-> j.id, part |-> j.part] \in dedup'.links
             \/ files'[x.id].status = "active" => files'[x.id].part = j.part
  <2>1. \/ x.id \in dedup.skipped
        \/ [dup |-> x.id, canon |-> j.id, part |-> j.part] \in dedup.links
        \/ Active(x.id) => files[x.id].part = j.part
    BY <1>2, <1>5 DEF LinkRight
  <2> QED BY <2>1, <1>1 DEF Active
<1>6. LinkRight(canon)'
  BY <1>1, <1>2, <1>4, <1>5 DEF LinkRight, Active
<1> QED BY <1>1, <1>3, <1>6 DEF DedupInv

LEMMA DedupDedup ==
    ASSUME TypeOK, DedupInv, Dedup
    PROVE  DedupInv'
<1>1. CASE DedupEnd
  BY <1>1 DEF DedupEnd, DedupInv, OneRowEach
<1> QED BY <1>1, LoadDedup, BackfillLoadDedup, BackfillOneDedup, BackfillSkipDedup,
           GroupDedup, LinkDedup, SkipDedup DEF Dedup

(* As long as nobody writes over a file, a deduplication run that is through *)
(* its links leaves the files it found with the same hash, and neither       *)
(* skipped nor found deleted, with the same parts, whatever is uploaded,     *)
(* copied, deleted and purged beside it (RunDedupForUser, DedupCollapses).   *)
THEOREM UndisturbedRunCollapses ==
    Spec /\ [][Dedup \/ Undisturbed]_vars => []DedupCollapses
<1>1. Init => DedupInv
  BY DEF Init, DedupInv, OneRowEach
<1>2. TypeOK /\ DedupInv /\ [Next]_vars /\ [Dedup \/ Undisturbed]_vars => DedupInv'
  <2> SUFFICES ASSUME TypeOK, DedupInv, [Next]_vars, [Dedup \/ Undisturbed]_vars
               PROVE  DedupInv'
    OBVIOUS
  <2>1. CASE UNCHANGED vars
    <3>1. dedup' = dedup /\ files' = files
      BY <2>1 DEF vars
    <3>2. OneRowEach' /\ (ReadRight => ReadRight')
      BY <3>1 DEF DedupInv, OneRowEach, ReadRight, AsRead, Active
    <3>3. \A canon \in SUBSET dedup.found : LinkRight(canon) => LinkRight(canon)'
      BY <3>1 DEF LinkRight, AsRead, Active
    <3> QED BY <3>1, <3>2, <3>3 DEF DedupInv
  <2>2. CASE Dedup
    BY <2>2, DedupDedup
  <2>3. CASE Others /\ Undisturbed
    BY <2>3, OthersDedup
  <2> QED BY <2>1, <2>2, <2>3 DEF Next, Others
<1>3. DedupInv => DedupCollapses
  <2> SUFFICES ASSUME DedupInv, dedup.pc = "link", dedup.links = {},
                      NEW p \in dedup.found, NEW q \in dedup.found,
                      p.hash = q.hash, {p.id, q.id} \cap dedup.skipped = {},
                      Active(p.id), Active(q.id)
               PROVE  files[p.id].part = files[q.id].part
    BY DEF DedupCollapses
  <2>1. PICK canon \in SUBSET dedup.found : LinkRight(canon)
    BY DEF DedupInv
  <2>2. PICK k \in canon : k.hash = p.hash
    BY <2>1 DEF LinkRight
  <2>3. ASSUME NEW x \in dedup.found, x.hash = k.hash, x.id \notin dedup.skipped, Active(x.id)
        PROVE  files[x.id].part = k.part
    <3>1. CASE x \in canon
      BY <3>1, <2>1, <2>3 DEF LinkRight, AsRead
    <3>2. CASE x \notin canon
      BY <3>2, <2>1, <2>3 DEF LinkRight
    <3> QED BY <3>1, <3>2
  <2> QED BY <2>2, <2>3
<1> QED BY <1>1, <1>2, <1>3, TypeCorrect, PTL DEF Spec
-----------------------------------------------------------------------------
(* The steps of a request that only change its own record: the message it is *)
(* to write has to be backed by the upload it was loaded from.               *)

Backed(r) ==
    r.sid # None /\ (r.op \in UpdateOps \/ r.hit = NoRow) /\ ~Explained(r.part) =>
        /\ sessions[r.sid].sent = "open"
        /\ \E u \in uploads : u.sid = r.sid /\ u.part = r.part

Shaped(r) ==
    /\ r.op \in CreateOps /\ r.pc = "loaded" => r.hit = NoRow
    /\ r.sid = None /\ r.op # "copy" /\ (r.op \in UpdateOps \/ r.hit = NoRow)
       => r.part = NoPart

LEMMA RequestStepLoss ==
    ASSUME TypeOK, LossInv, NEW c \in Clients, NEW r \in Request, SetReq(c, r),
           UNCHANGED <<server, msgs, sessions, jobs, history>>,
           r.op # "copy", Backed(r), Shaped(r),
           r.sid # None => \A d \in Clients \ {c} : req[d].sid # r.sid
    PROVE  LossInv'
<1>1. /\ UNCHANGED <<files, uploads, msgs, sessions, cleaner, upCleaner, linked, aged>>
  BY DEF server, jobs, history
<1>2. /\ req'[c] = r
      /\ \A d \in Clients : d # c => req'[d] = req[d]
  BY DEF SetReq, TypeOK
<1>3. LossHasCause' /\ SharedIsLinked' /\ NothingLost' /\ UploadsDistinct'
      /\ CleanerRowsDoomed' /\ AgedUploads'
  BY <1>1 DEF LossInv, LossHasCause, SharedIsLinked, NothingLost, UploadsDistinct,
              CleanerRowsDoomed, AgedUploads, Explained, Active, Present, Holders
<1>4. MessagesSent'
  BY <1>1, <1>2 DEF LossInv, MessagesSent, Explained, Present
<1>5. SessionsSerial'
  BY <1>2 DEF LossInv, SessionsSerial
<1>6. UncommittedIsPrivate'
  BY <1>1, <1>2 DEF LossInv, UncommittedIsPrivate, UploadIsPrivate, Holders, PartsOf,
                    Explained, Present
<1>7. RequestsBacked'
  BY <1>1, <1>2 DEF LossInv, RequestsBacked, OwnPart, Backed, Explained
<1>8. RequestsShaped'
  BY <1>2 DEF LossInv, RequestsShaped, Shaped
<1> QED BY <1>3, <1>4, <1>5, <1>6, <1>7, <1>8 DEF LossInv

(* What a request finds of its session: no part, or one that backs it.       *)
LEMMA SessionPartBacks ==
    ASSUME NEW s \in Sessions
    PROVE  \/ SessionRows(s) = {} /\ SessionPart(s) = NoPart
           \/ \E u \in uploads : u.sid = s /\ u.part = SessionPart(s)
BY DEF SessionPart, SessionRows

(* The request is idle, and afterwards it is the only one of the session.    *)
LEMMA LoadLoss ==
    ASSUME TypeOK, LossInv, NEW c \in Clients, NEW r \in Request, SetReq(c, r),
           UNCHANGED <<server, msgs, sessions, jobs, history>>,
           r.op \in CreateOps \cup UpdateOps, r.hit = NoRow,
           \/ r.sid = None /\ r.part = NoPart
           \/ /\ r.sid \in Sessions /\ ~InFlight(r.sid) /\ r.part = SessionPart(r.sid)
              /\ sessions[r.sid].sent = "open" \/ SessionRows(r.sid) = {}
    PROVE  LossInv'
<1>1. CASE r.sid = None /\ r.part = NoPart
  <2>1. Backed(r) /\ Shaped(r) /\ r.op # "copy"
    BY <1>1 DEF Backed, Shaped, Explained, CreateOps, UpdateOps
  <2> QED BY <1>1, <2>1, RequestStepLoss
<1>2. CASE /\ r.sid \in Sessions /\ ~InFlight(r.sid) /\ r.part = SessionPart(r.sid)
           /\ sessions[r.sid].sent = "open" \/ SessionRows(r.sid) = {}
  <2>1. Backed(r) /\ r.op # "copy"
    BY <1>2, SessionPartBacks DEF Backed, Explained, CreateOps, UpdateOps, SessionPart
  <2>2. r.sid # None
    BY <1>2, FileStoreAssumption
  <2>3. Shaped(r)
    BY <2>2 DEF Shaped
  <2>4. \A d \in Clients : req[d].sid # r.sid
    BY <1>2 DEF InFlight
  <2> QED BY <2>1, <2>3, <2>4, RequestStepLoss
<1> QED BY <1>1, <1>2
LEMMA CreateLoadsLoss ==
    ASSUME TypeOK, LossInv, NEW c \in Clients,
           \/ \E s \in Sessions : CreateLoad(c, s)
           \/ \E s \in Sessions, h \in Contents \cup {None} : CreateDirectLoad(c, s, h)
           \/ \E n \in Names : CreateEmptyLoad(c, n)
    PROVE  LossInv'
<1> USE FileStoreAssumption
<1>1. ASSUME NEW s \in Sessions, CreateLoad(c, s) PROVE LossInv'
  <2> DEFINE r == [IdleRequest EXCEPT
            !.op = "create", !.pc = "loaded", !.sid = s, !.name = TargetOf[s],
            !.part = SessionPart(s), !.hash = SessionHash(s),
            !.enc = sessions[s].enc, !.meant = sessions[s].data]
  <2>1. /\ r \in Request /\ r.op = "create" /\ r.sid = s /\ r.part = SessionPart(s)
        /\ r.hit = NoRow
    BY SessionPartTyped DEF IdleRequest, Request, CreateOps
  <2> HIDE DEF r
  <2> QED BY <1>1, <2>1, LoadLoss DEF CreateLoad, r, CreateOps
<1>2. ASSUME NEW s \in Sessions, NEW h \in Contents \cup {None},
             CreateDirectLoad(c, s, h)
      PROVE  LossInv'
  <2> DEFINE r == [IdleRequest EXCEPT
                !.op = "createDirect", !.pc = "loaded", !.sid = s,
                !.name = TargetOf[s], !.part = SessionPart(s), !.hash = h,
                !.enc = sessions[s].enc, !.meant = sessions[s].data]
  <2>1. /\ r \in Request /\ r.op = "createDirect" /\ r.sid = s
        /\ r.part = SessionPart(s) /\ r.hit = NoRow
    BY SessionPartTyped DEF IdleRequest, Request, CreateOps, Datum
  <2> HIDE DEF r
  <2> QED BY <1>2, <2>1, LoadLoss DEF CreateDirectLoad, r, CreateOps
<1>3. ASSUME NEW n \in Names, CreateEmptyLoad(c, n) PROVE LossInv'
  <2> DEFINE r == [IdleRequest EXCEPT
            !.op = "createEmpty", !.pc = "loaded", !.name = n, !.hash = Empty,
            !.empty = TRUE, !.meant = Empty]
  <2>1. /\ r \in Request /\ r.op = "createEmpty" /\ r.sid = None /\ r.part = NoPart
        /\ r.hit = NoRow
    BY DEF IdleRequest, Request, CreateOps, Datum
  <2> HIDE DEF r
  <2> QED BY <1>3, <2>1, LoadLoss DEF CreateEmptyLoad, r, CreateOps
<1> QED BY <1>1, <1>2, <1>3

LEMMA UpdateLoadsLoss ==
    ASSUME TypeOK, LossInv, NEW c \in Clients, NEW f \in FileIds,
           \/ \E s \in Sessions : UpdateLoad(c, s, f)
           \/ \E s \in Sessions : UpdateDirectLoad(c, s, f)
           \/ TruncateLoad(c, f)
    PROVE  LossInv'
<1> USE FileStoreAssumption
<1>1. ASSUME NEW s \in Sessions, UpdateLoad(c, s, f) PROVE LossInv'
  <2> DEFINE r == [IdleRequest EXCEPT
            !.op = "update", !.pc = "loaded", !.sid = s, !.fid = f,
            !.part = SessionPart(s), !.hash = SessionHash(s),
            !.enc = sessions[s].enc, !.empty = SessionRows(s) = {},
            !.meant = sessions[s].data]
  <2>1. /\ r \in Request /\ r.op = "update" /\ r.sid = s /\ r.part = SessionPart(s)
        /\ r.hit = NoRow
    BY SessionPartTyped DEF IdleRequest, Request, UpdateOps
  <2> HIDE DEF r
  <2> QED BY ZenonT(40), <1>1, <2>1, LoadLoss DEF UpdateLoad, r, UpdateOps
<1>2. ASSUME NEW s \in Sessions, UpdateDirectLoad(c, s, f) PROVE LossInv'
  <2> DEFINE r == [IdleRequest EXCEPT
            !.op = "updateDirect", !.pc = "loaded", !.sid = s, !.fid = f,
            !.part = SessionPart(s), !.enc = sessions[s].enc,
            !.meant = sessions[s].data]
  <2>1. /\ r \in Request /\ r.op = "updateDirect" /\ r.sid = s
        /\ r.part = SessionPart(s) /\ r.hit = NoRow
    BY SessionPartTyped DEF IdleRequest, Request, UpdateOps, Datum
  <2> HIDE DEF r
  <2> QED BY <1>2, <2>1, LoadLoss DEF UpdateDirectLoad, r, UpdateOps
<1>3. ASSUME TruncateLoad(c, f) PROVE LossInv'
  <2> DEFINE r == [IdleRequest EXCEPT
            !.op = "truncate", !.pc = "loaded", !.fid = f,
            !.empty = TRUE, !.meant = Empty]
  <2>1. /\ r \in Request /\ r.op = "truncate" /\ r.sid = None /\ r.part = NoPart
        /\ r.hit = NoRow
    BY DEF IdleRequest, Request, UpdateOps, Datum
  <2> HIDE DEF r
  <2> QED BY <1>3, <2>1, LoadLoss DEF TruncateLoad, r, UpdateOps
<1> QED BY <1>1, <1>2, <1>3

(* The lookups of the transactions: what was backed stays so, and a create   *)
(* that found a file writes that file's parts instead.                       *)
LEMMA LookupsLoss ==
    ASSUME TypeOK, TypeOK', LossInv, NEW c \in Clients, CreateSelect(c) \/ UpdateRead(c)
    PROVE  LossInv'
<1> USE FileStoreAssumption
<1>1. req[c] \in Request /\ Backed(req[c]) /\ Shaped(req[c])
      /\ (req[c].sid # None => \A d \in Clients \ {c} : req[d].sid # req[c].sid)
  BY DEF LossInv, RequestsBacked, OwnPart, Backed, RequestsShaped, Shaped, SessionsSerial,
         TypeOK
<1>2. ASSUME NEW r, SetReq(c, r) PROVE r \in Request
  BY <1>2 DEF SetReq, TypeOK
<1>3. CASE CreateSelect(c)
  <2>1. PICK hit : SetReq(c, [req[c] EXCEPT
              !.pc = "tx", !.hit = hit,
              !.part = IF hit = NoRow THEN @ ELSE files[hit].part])
    BY <1>3 DEF CreateSelect
  <2> DEFINE r == [req[c] EXCEPT !.pc = "tx", !.hit = hit,
              !.part = IF hit = NoRow THEN @ ELSE files[hit].part]
  <2>2. r \in Request
    BY <1>2, <2>1
  <2>3. /\ r.op = req[c].op /\ r.pc = "tx" /\ r.hit = hit /\ r.sid = req[c].sid
        /\ hit = NoRow => r.part = req[c].part
        /\ req[c].op \in CreateOps /\ req[c].pc = "loaded"
    BY <1>1, <1>3 DEF CreateSelect, Request
  <2> HIDE DEF r
  <2>4. r.op # "copy" /\ r.op \notin UpdateOps
    BY <2>3 DEF CreateOps, UpdateOps
  <2>5. Backed(r)
    BY <1>1, <2>3, <2>4 DEF Backed, Shaped
  <2>6. Shaped(r)
    BY <1>1, <2>3, <2>4 DEF Shaped
  <2> QED BY <1>1, <1>3, <2>1, <2>2, <2>3, <2>4, <2>5, <2>6, RequestStepLoss
          DEF CreateSelect, r
<1>4. CASE UpdateRead(c)
  <2>1. PICK h, b : SetReq(c, [req[c] EXCEPT !.pc = "tx", !.hit = h, !.clear = b])
    BY <1>4 DEF UpdateRead
  <2> DEFINE r == [req[c] EXCEPT !.pc = "tx", !.hit = h, !.clear = b]
  <2>2. r \in Request
    BY <1>2, <2>1
  <2>3. /\ r.op = req[c].op /\ r.op \in UpdateOps /\ r.sid = req[c].sid
        /\ r.part = req[c].part
    BY <1>1, <1>4 DEF UpdateRead, Request
  <2> HIDE DEF r
  <2>4. r.op # "copy" /\ r.op \notin CreateOps
    BY <2>3 DEF CreateOps, UpdateOps
  <2>5. Backed(r) /\ Shaped(r)
    BY <1>1, <2>3, <2>4 DEF Backed, Shaped
  <2> QED BY <1>1, <1>4, <2>1, <2>2, <2>3, <2>4, <2>5, RequestStepLoss
          DEF UpdateRead, r
<1> QED BY <1>3, <1>4

LEMMA AbortLoss ==
    ASSUME TypeOK, LossInv, NEW c \in Clients, Abort(c) PROVE LossInv'
<1>1. IdleRequest \in Request /\ IdleRequest.op = "none" /\ IdleRequest.sid = None
      /\ IdleRequest.part = NoPart
  BY DEF IdleRequest, Request, Datum
<1>2. Backed(IdleRequest) /\ Shaped(IdleRequest)
  BY <1>1 DEF Backed, Shaped, CreateOps
<1> QED BY <1>1, <1>2, RequestStepLoss DEF Abort

-----------------------------------------------------------------------------
(* The steps that write the files table.  All rows but f keep their parts or *)
(* go; f may get the parts of others when that is explained afterwards, or a *)
(* message that belonged to one upload or copy until then.                   *)

Excused(m) == m \in linked' \cup aged' \cup {NoPart}

Kept(g) ==
    /\ Present(g)' => Present(g) /\ files'[g].part = files[g].part
    /\ Active(g)' => Active(g)

Doomed(g) == files[g].status \in {"pending_deletion", "removed"}

Handed(m) ==
    /\ UploadIsPrivate(m)
    /\ \A u \in uploads' : u.part = m => sessions'[u.sid].sent # "open"
    /\ \A d \in Clients : req'[d].op = "copy" => req'[d].part # m

RowsWritten(f) ==
    /\ \A g \in FileIds \ {f} : Kept(g)
    /\ f \in FileIds => Kept(f) \/ Excused(files'[f].part) \/ Handed(files'[f].part)
    /\ \A g \in FileIds : Doomed(g) => Doomed(g)'

(* What a commit, a job or nothing does to the uploads and the requests.     *)
OthersKeep ==
    /\ UNCHANGED <<msgs, upCleaner, aged>>
    /\ linked \subseteq linked' /\ uploads' \subseteq uploads
    /\ cleaner'.rows \subseteq cleaner.rows
    /\ \A u \in uploads' : sessions'[u.sid].sent = "open" => sessions[u.sid].sent = "open"
    /\ \A d \in Clients : req'[d] # IdleRequest =>
          /\ req'[d] = req[d]
          /\ req[d].sid # None => /\ sessions'[req[d].sid].sent = sessions[req[d].sid].sent
                                  /\ \A u \in uploads : u.sid = req[d].sid => u \in uploads'

LEMMA RowsWrittenLoss ==
    ASSUME TypeOK, TypeOK', LossInv, NEW f \in FileIds \cup {NoRow}, RowsWritten(f),
           OthersKeep
    PROVE  LossInv'
<1> USE FileStoreAssumption
<1>1. \A m : Explained(m) => Excused(m)
  BY DEF OthersKeep, Explained, Excused
<1>2. \A g \in FileIds : g = f \/ Kept(g)
  BY DEF RowsWritten
<1>3. /\ IdleRequest.op = "none" /\ IdleRequest.sid = None /\ IdleRequest.part = NoPart
      /\ "none" \notin CreateOps
  BY DEF IdleRequest, CreateOps
<1>4. ASSUME NEW g \in FileIds, Present(g)', ~Excused(files'[g].part)
      PROVE  \/ Kept(g)
             \/ g = f /\ Handed(files'[g].part)
  BY <1>4, <1>2 DEF RowsWritten
<1>5. ASSUME NEW m, Handed(m)
      PROVE  /\ msgs'[m].state = "stored"
             /\ \A h \in FileIds : Present(h) => files[h].part # m
             /\ \A x \in cleaner.rows : x.part = m => m = NoPart
  BY <1>5 DEF Handed, UploadIsPrivate, Holders, PartsOf, OthersKeep
<1>6. LossHasCause' /\ NothingLost'
  <2>1. ASSUME NEW g \in FileIds, Active(g)', ~Excused(files'[g].part)
        PROVE  msgs'[files'[g].part].state # "deleted"
    <3>1. Present(g)'
      BY <2>1 DEF Active, Present
    <3>2. CASE Kept(g)
      BY <1>1, <2>1, <3>1, <3>2 DEF Kept, LossInv, NothingLost, OthersKeep
    <3>3. CASE Handed(files'[g].part)
      BY <1>5, <3>3
    <3> QED BY <1>4, <2>1, <3>1, <3>2, <3>3
  <2> QED BY <2>1 DEF LossHasCause, NothingLost, Explained, Excused
<1>7. MessagesSent'
  <2>1. ASSUME NEW g \in FileIds, Present(g)', ~Excused(files'[g].part)
        PROVE  msgs'[files'[g].part].state # "unsent"
    <3>1. CASE Kept(g)
      BY <1>1, <2>1, <3>1 DEF Kept, LossInv, MessagesSent, OthersKeep
    <3>2. CASE Handed(files'[g].part)
      BY <1>5, <3>2
    <3> QED BY <1>4, <2>1, <3>1, <3>2
  <2> QED BY <1>1, <1>3, <2>1 DEF LossInv, MessagesSent, OthersKeep, Explained, Excused
<1>8. UploadsDistinct'
  BY <1>1 DEF LossInv, UploadsDistinct, OthersKeep, Explained, Excused
<1>9. SessionsSerial'
  BY <1>3 DEF LossInv, SessionsSerial, OthersKeep
<1>10. SharedIsLinked'
  <2>1. SUFFICES ASSUME NEW g \in FileIds, NEW h \in FileIds, Present(g)', Present(h)',
                        files'[g].part = files'[h].part, ~Excused(files'[g].part)
                 PROVE  g = h
    BY DEF SharedIsLinked, Explained, Excused
  <2>2. CASE Kept(g) /\ Kept(h)
    BY <1>1, <2>1, <2>2 DEF Kept, LossInv, SharedIsLinked
  <2>3. CASE Kept(g) /\ Handed(files'[h].part)
    BY <1>5, <2>1, <2>3 DEF Kept
  <2>4. CASE Handed(files'[g].part) /\ Kept(h)
    BY <1>5, <2>1, <2>4 DEF Kept
  <2> QED BY <1>4, <2>1, <2>2, <2>3, <2>4
<1>11. CleanerRowsDoomed'
  <2>1. SUFFICES ASSUME NEW x \in cleaner'.rows
                 PROVE  /\ Doomed(x.id)'
                        /\ ~Excused(x.part) => \A g \in Holders(x.part)' : ~Active(g)'
    BY DEF CleanerRowsDoomed, Doomed, Explained, Excused
  <2>2. x \in cleaner.rows /\ x.id \in FileIds
    BY <2>1 DEF OthersKeep, TypeOK, IdRow
  <2>3. Doomed(x.id)'
    BY <2>2 DEF RowsWritten, LossInv, CleanerRowsDoomed, Doomed
  <2>4. ASSUME NEW g \in FileIds, Present(g)', files'[g].part = x.part, ~Excused(x.part)
        PROVE  ~Active(g)'
    <3>1. CASE Kept(g)
      BY <1>1, <2>2, <2>4, <3>1 DEF Kept, LossInv, CleanerRowsDoomed, Holders
    <3>2. CASE Handed(x.part)
      BY <1>5, <2>2, <2>4, <3>2 DEF Excused
    <3> QED BY <1>4, <2>4, <3>1, <3>2
  <2> QED BY <2>3, <2>4 DEF Holders
<1>12. UncommittedIsPrivate'
  <2>1. ASSUME NEW m, ~Excused(m), UploadIsPrivate(m), ~Handed(m)
        PROVE  UploadIsPrivate(m)'
    <3>1. ASSUME NEW g \in FileIds, Present(g)', files'[g].part = m PROVE FALSE
      <4>1. Kept(g)
        BY <1>4, <2>1, <3>1
      <4> QED BY <2>1, <3>1, <4>1 DEF Kept, UploadIsPrivate, Holders
    <3>2. m \notin PartsOf(cleaner'.rows)
      BY <2>1 DEF UploadIsPrivate, PartsOf, OthersKeep
    <3> QED BY <2>1, <3>1, <3>2 DEF UploadIsPrivate, Holders, OthersKeep, PartsOf
  <2>2. ASSUME NEW u \in uploads', sessions'[u.sid].sent = "open", ~Excused(u.part)
        PROVE  UploadIsPrivate(u.part)'
    <3>1. UploadIsPrivate(u.part)
      BY <1>1, <2>2 DEF LossInv, UncommittedIsPrivate, OthersKeep
    <3>2. ~Handed(u.part)
      BY <2>2 DEF Handed
    <3> QED BY <2>1, <2>2, <3>1, <3>2
  <2>3. ASSUME NEW d \in Clients, req'[d].op = "copy", ~Excused(req'[d].part)
        PROVE  /\ UploadIsPrivate(req[d].part)'
               /\ \A u \in uploads' : u.part # req'[d].part
               /\ \A e \in Clients : req'[e].op = "copy" /\ req'[e].part = req'[d].part => d = e
    <3>1. req'[d] = req[d]
      BY <1>3, <2>3 DEF OthersKeep
    <3>2. /\ UploadIsPrivate(req[d].part)
          /\ \A u \in uploads : u.part # req[d].part
          /\ \A e \in Clients : req[e].op = "copy" /\ req[e].part = req[d].part => d = e
      BY <1>1, <2>3, <3>1 DEF LossInv, UncommittedIsPrivate
    <3>3. ~Handed(req'[d].part)
      BY <2>3 DEF Handed
    <3> QED BY <1>3, <2>1, <2>3, <3>1, <3>2, <3>3 DEF OthersKeep
  <2> QED BY <2>2, <2>3 DEF UncommittedIsPrivate, Explained, Excused
<1>13. RequestsBacked'
  BY <1>1, <1>3 DEF LossInv, RequestsBacked, OwnPart, OthersKeep, Explained, Excused
<1>14. AgedUploads'
  BY DEF LossInv, AgedUploads, OthersKeep
<1>15. RequestsShaped'
  BY <1>3 DEF LossInv, RequestsShaped, OthersKeep
<1> QED BY <1>6, <1>7, <1>8, <1>9, <1>10, <1>11, <1>12, <1>13, <1>14, <1>15 DEF LossInv

(* The message a create or an update brings along belongs to its upload, and *)
(* the commit takes it from the upload.                                      *)
LEMMA CommitHands ==
    ASSUME TypeOK, TypeOK', LossInv, NEW c \in Clients, Backed(req[c]),
           req[c].sid # None, req[c].op \in UpdateOps \/ req[c].hit = NoRow,
           ~Excused(req[c].part), linked \subseteq linked', aged \subseteq aged',
           uploads' \subseteq uploads, sessions'[req[c].sid].sent # "open",
           \A d \in Clients : req'[d] = IF d = c THEN IdleRequest ELSE req[d]
    PROVE  Handed(req[c].part)
<1>1. ~Explained(req[c].part)
  BY DEF Explained, Excused
<1>2. PICK u \in uploads : u.sid = req[c].sid /\ u.part = req[c].part
  BY <1>1 DEF Backed
<1>3. sessions[u.sid].sent = "open"
  BY <1>1, <1>2 DEF Backed
<1>4. UploadIsPrivate(req[c].part)
  BY <1>1, <1>2, <1>3 DEF LossInv, UncommittedIsPrivate
<1>5. \A v \in uploads : v.part = req[c].part => v = u
  BY <1>1, <1>2 DEF LossInv, UploadsDistinct
<1>6. \A d \in Clients : req[d].op = "copy" => req[d].part # req[c].part
  BY <1>1, <1>2 DEF LossInv, UncommittedIsPrivate
<1>7. IdleRequest.op = "none"
  BY DEF IdleRequest
<1> QED BY <1>2, <1>4, <1>5, <1>6, <1>7 DEF Handed

(* A commit ends its request and the upload session it was made for.         *)
LEMMA CommitOthers ==
    ASSUME TypeOK, LossInv, NEW c \in Clients, NEW t,
           UNCHANGED <<msgs, jobs, aged>>, linked \subseteq linked',
           uploads' = uploads \/ uploads' = uploads \ SessionRows(req[c].sid),
           \A s \in Sessions : sessions'[s].sent = IF s = req[c].sid THEN t
                                                   ELSE sessions[s].sent,
           t # "open",
           \A d \in Clients : req'[d] = IF d = c THEN IdleRequest ELSE req[d]
    PROVE  OthersKeep
<1>1. UNCHANGED <<upCleaner, cleaner>>
  BY DEF jobs
<1>2. \A u \in uploads : u.sid \in Sessions
  BY DEF TypeOK, UploadRow
<1>3. ASSUME NEW d \in Clients, req'[d] # IdleRequest, req[d].sid # None
      PROVE  /\ req[d].sid \in Sessions /\ req[d].sid # req[c].sid
             /\ \A u \in uploads : u.sid = req[d].sid => u \in uploads'
  <2>1. d # c
    BY <1>3
  <2>2. req[d].sid \in Sessions /\ req[d].sid # req[c].sid
    BY <1>3, <2>1 DEF LossInv, SessionsSerial, TypeOK, Request
  <2> QED BY <2>2 DEF SessionRows
<1> QED BY <1>1, <1>2, <1>3 DEF OthersKeep, SessionRows

LEMMA CreateCommitLoss ==
    ASSUME TypeOK, TypeOK', LossInv, NEW c \in Clients, CreateCommit(c)
    PROVE  LossInv'
<1> USE FileStoreAssumption
<1> DEFINE r == req[c]
<1>1. PICK f \in FileIds :
        /\ f \in Named(r.name) \/ FreshRow(f)
        /\ files' = [files EXCEPT ![f] = NewRow(r, r.hit)]
  BY DEF CreateCommit
<1>2. /\ files'[f].status = "active" /\ files'[f].part = r.part
      /\ \A g \in FileIds : g # f => files'[g] = files[g]
      /\ ~Doomed(f)
  BY <1>1 DEF NewRow, TypeOK, Named, Active, FreshRow, Doomed
<1>3. /\ r \in Request /\ r.op \in CreateOps /\ Backed(r) /\ Shaped(r)
      /\ r.op # "copy"
  BY DEF CreateCommit, LossInv, RequestsBacked, OwnPart, Backed, RequestsShaped, Shaped,
         TypeOK, CreateOps
<1>4. /\ linked \subseteq linked'
      /\ r.hit # NoRow => Excused(r.part)
      /\ UNCHANGED <<msgs, jobs, aged>>
  BY DEF CreateCommit, Excused
<1>5. \A d \in Clients : req'[d] = IF d = c THEN IdleRequest ELSE req[d]
  BY DEF CreateCommit, SetReq, TypeOK
<1>6. uploads' = uploads \/ uploads' = uploads \ SessionRows(r.sid)
  BY DEF CreateCommit
<1>7. PICK t : /\ t # "open"
               /\ \A s \in Sessions : sessions'[s].sent = IF s = r.sid THEN t
                                                          ELSE sessions[s].sent
  <2>1. CASE r.sid = None
    BY <2>1 DEF CreateCommit
  <2>2. CASE r.sid # None
    <3>1. r.sid \in Sessions
      BY <1>3, <2>2 DEF Request
    <3> DEFINE t == IF r.op = "create" THEN "create" ELSE "direct"
    <3>2. sessions' = [sessions EXCEPT ![r.sid].sent = t]
      BY <2>2 DEF CreateCommit
    <3>3. \A s \in Sessions : sessions'[s].sent = IF s = r.sid THEN t
                                                 ELSE sessions[s].sent
      BY <3>1, <3>2 DEF TypeOK, Session
    <3> QED BY <3>3
  <2> QED BY <2>1, <2>2
<1>8. OthersKeep
  BY <1>4, <1>5, <1>6, <1>7, CommitOthers
<1>9. Excused(r.part) \/ Handed(r.part)
  <2>1. CASE r.sid = None /\ r.hit = NoRow
    BY <1>3, <2>1 DEF Shaped, Excused
  <2>2. CASE r.sid # None /\ r.hit = NoRow /\ ~Excused(r.part)
    <3>1. sessions'[r.sid].sent # "open"
      BY <1>3, <1>7, <2>2 DEF Request
    <3> QED BY <1>3, <1>4, <1>5, <1>6, <2>2, <3>1, CommitHands
  <2> QED BY <1>4, <2>1, <2>2
<1>10. RowsWritten(f)
  BY <1>2, <1>9 DEF RowsWritten, Kept, Present, Active, Doomed
<1> QED BY <1>8, <1>10, RowsWrittenLoss

LEMMA UpdateCommitLoss ==
    ASSUME TypeOK, TypeOK', LossInv, NEW c \in Clients, UpdateCommit(c)
    PROVE  LossInv'
<1> USE FileStoreAssumption
<1> DEFINE r == req[c]
<1>1. /\ r \in Request /\ r.op \in UpdateOps /\ Backed(r) /\ Shaped(r)
      /\ r.op # "copy" /\ r.fid \in FileIds
  BY DEF UpdateCommit, LossInv, RequestsBacked, OwnPart, Backed, RequestsShaped, Shaped,
         TypeOK, UpdateOps, Request
<1> PICK f \in FileIds : f = r.fid
  BY <1>1
<1>2. /\ files'[f].status = files[f].status
      /\ files'[f].part = IF r.part = NoPart THEN files[f].part ELSE r.part
      /\ \A g \in FileIds : g # f => files'[g] = files[g]
  <2>1. files' = [files EXCEPT ![f] = UpdatedRow(files[f], r)] /\ files \in [FileIds -> Row]
    BY DEF UpdateCommit, TypeOK
  <2>2. files'[f] = UpdatedRow(files[f], r) /\ \A g \in FileIds : g # f => files'[g] = files[g]
    BY <2>1
  <2>3. files[f] \in Row
    BY <2>1
  <2> HIDE DEF r
  <2>4. /\ UpdatedRow(files[f], r).status = files[f].status
        /\ UpdatedRow(files[f], r).part = IF r.part = NoPart THEN files[f].part ELSE r.part
    BY <2>3 DEF UpdatedRow, Row
  <2> QED BY <2>2, <2>4
<1>3. UNCHANGED <<msgs, jobs, aged, linked>>
  BY DEF UpdateCommit
<1>4. \A d \in Clients : req'[d] = IF d = c THEN IdleRequest ELSE req[d]
  BY DEF UpdateCommit, SetReq, TypeOK
<1>5. uploads' = uploads \/ uploads' = uploads \ SessionRows(r.sid)
  BY DEF UpdateCommit
<1>6. PICK t : /\ t # "open"
               /\ \A s \in Sessions : sessions'[s].sent = IF s = r.sid THEN t
                                                          ELSE sessions[s].sent
  <2>1. CASE r.sid = None
    BY <2>1 DEF UpdateCommit
  <2>2. CASE r.sid # None
    <3>1. r.sid \in Sessions
      BY <1>1, <2>2 DEF Request
    <3> DEFINE t == IF r.op = "update" THEN "update" ELSE "direct"
    <3>2. sessions' = [sessions EXCEPT ![r.sid].sent = t, ![r.sid].fid = f]
      BY <2>2 DEF UpdateCommit
    <3>3. \A s \in Sessions : sessions'[s].sent = IF s = r.sid THEN t
                                                 ELSE sessions[s].sent
      BY <3>1, <3>2 DEF TypeOK, Session
    <3> QED BY <3>3
  <2> QED BY <2>1, <2>2
<1>7. OthersKeep
  BY <1>3, <1>4, <1>5, <1>6, CommitOthers
<1>8. Excused(r.part) \/ Handed(r.part)
  <2>1. CASE r.sid = None
    BY <1>1, <2>1 DEF Shaped, Excused
  <2>2. CASE r.sid # None /\ ~Excused(r.part)
    <3>1. sessions'[r.sid].sent # "open"
      BY <1>1, <1>6, <2>2 DEF Request
    <3> QED BY <1>1, <1>3, <1>4, <1>5, <2>2, <3>1, CommitHands
  <2> QED BY <2>1, <2>2
<1>9. Kept(f) \/ Excused(files'[f].part) \/ Handed(files'[f].part)
  <2>1. CASE r.part = NoPart
    BY <1>2, <2>1 DEF Kept, Present, Active
  <2>2. CASE r.part # NoPart
    BY <1>2, <1>8, <2>2
  <2> QED BY <2>1, <2>2
<1>10. RowsWritten(f)
  BY <1>2, <1>9 DEF RowsWritten, Kept, Present, Active, Doomed
<1> QED BY <1>1, <1>7, <1>10, RowsWrittenLoss

(* The copy owns the message it sent until its row is inserted.              *)
LEMMA CopyInsertLoss ==
    ASSUME TypeOK, TypeOK', LossInv, NEW c \in Clients, CopyInsert(c)
    PROVE  LossInv'
<1> DEFINE r == req[c]
<1>1. PICK f \in FileIds : FreshRow(f) /\ files' = [files EXCEPT ![f] = NewRow(r, NoRow)]
  BY DEF CopyInsert
<1>2. /\ files'[f].status = "active" /\ files'[f].part = r.part
      /\ \A g \in FileIds : g # f => files'[g] = files[g]
      /\ ~Doomed(f)
  BY <1>1 DEF NewRow, TypeOK, FreshRow, Doomed
<1>3. UNCHANGED <<uploads, msgs, sessions, cleaner, upCleaner, linked, aged>>
  BY DEF CopyInsert, jobs
<1>4. \A d \in Clients : req'[d] = IF d = c THEN IdleRequest ELSE req[d]
  BY DEF CopyInsert, SetReq, TypeOK
<1>5. OthersKeep
  BY <1>3, <1>4 DEF OthersKeep
<1>6. Excused(r.part) \/ Handed(r.part)
  <2>1. SUFFICES ASSUME ~Explained(r.part) PROVE Handed(r.part)
    BY <1>3 DEF Excused, Explained
  <2>2. /\ r.op = "copy" /\ UploadIsPrivate(r.part)
        /\ \A u \in uploads : u.part # r.part
        /\ \A d \in Clients : req[d].op = "copy" /\ req[d].part = r.part => c = d
    BY <2>1 DEF CopyInsert, LossInv, UncommittedIsPrivate
  <2>3. IdleRequest.op = "none"
    BY DEF IdleRequest
  <2> QED BY <1>3, <1>4, <2>2, <2>3 DEF Handed
<1>7. RowsWritten(f)
  BY <1>2, <1>6 DEF RowsWritten, Kept, Present, Active, Doomed
<1> QED BY <1>5, <1>7, RowsWrittenLoss

(* The new message of a copy is nobody else's.                               *)
LEMMA CopySendLoss ==
    ASSUME TypeOK, LossInv, NEW c \in Clients, NEW f \in FileIds, NEW n \in Names,
           CopySend(c, f, n)
    PROVE  LossInv'
<1> USE FileStoreAssumption
<1>1. PICK m \in MsgIds :
        /\ FreshMsg(m)
        /\ msgs' = [msgs EXCEPT ![m] = msgs[files[f].part]]
        /\ SetReq(c, [IdleRequest EXCEPT
                !.op = "copy", !.pc = "loaded", !.name = n, !.part = m,
                !.hash = files[f].hash, !.enc = files[f].enc,
                !.empty = files[f].empty, !.meant = intent[f]])
  BY DEF CopySend
<1>2. UNCHANGED <<files, uploads, sessions, cleaner, upCleaner, linked, aged>>
  BY DEF CopySend, server, jobs, history
<1>3. /\ req'[c].op = "copy" /\ req'[c].part = m /\ req'[c].sid = None
      /\ req'[c].pc = "loaded"
      /\ \A d \in Clients : d # c => req'[d] = req[d]
      /\ "copy" \notin CreateOps /\ "copy" \notin UpdateOps
  BY <1>1 DEF SetReq, TypeOK, IdleRequest, CreateOps, UpdateOps
<1>4. /\ msgs[m].state = "unsent" /\ msgs'[m].state = "stored"
      /\ \A k \in MsgIds : k # m => msgs'[k] = msgs[k]
  BY <1>1 DEF FreshMsg, CopySend, TypeOK
<1>5. \A k \in MsgIds : msgs[k].state # "unsent" => msgs'[k] = msgs[k]
  BY <1>4
<1>6. /\ \A g \in FileIds : files[g].part \in MsgIds \cup {NoPart}
      /\ \A u \in uploads : u.part \in MsgIds
      /\ \A x \in cleaner.rows : x.part \in MsgIds \cup {NoPart}
      /\ \A d \in Clients : req[d].part \in MsgIds \cup {NoPart}
  BY DEF TypeOK, Row, UploadRow, IdRow, Request
<1>7. ~Explained(m) =>
        /\ Holders(m) = {} /\ m \notin PartsOf(cleaner.rows)
        /\ \A u \in uploads : u.part # m
        /\ \A d \in Clients : req[d].op = "copy" => req[d].part # m
  BY <1>4 DEF LossInv, MessagesSent, Holders, PartsOf
<1>8. LossHasCause' /\ NothingLost'
  BY <1>2, <1>4, <1>6 DEF LossInv, LossHasCause, NothingLost, Explained, Active
<1>9. MessagesSent'
  BY <1>2, <1>3, <1>4, <1>6 DEF LossInv, MessagesSent, Explained, Present
<1>10. UploadsDistinct' /\ SharedIsLinked' /\ CleanerRowsDoomed' /\ AgedUploads'
  BY <1>2 DEF LossInv, UploadsDistinct, SharedIsLinked, CleanerRowsDoomed, AgedUploads,
              Explained, Active, Present, Holders
<1>11. SessionsSerial' /\ RequestsShaped'
  BY <1>3 DEF LossInv, SessionsSerial, RequestsShaped
<1>12. UncommittedIsPrivate'
  <2>1. ASSUME NEW k \in MsgIds, UploadIsPrivate(k) PROVE UploadIsPrivate(k)'
    BY <1>2, <1>5, <2>1 DEF UploadIsPrivate, Holders, Present, PartsOf
  <2>2. ~Explained(m) => UploadIsPrivate(m)'
    BY <1>2, <1>4, <1>7 DEF UploadIsPrivate, Holders, Present, PartsOf
  <2>3. ASSUME NEW u \in uploads', sessions'[u.sid].sent = "open", ~Explained(u.part)'
        PROVE  UploadIsPrivate(u.part)'
    <3>1. UploadIsPrivate(u.part) /\ u.part \in MsgIds
      BY <1>2, <1>6, <2>3 DEF LossInv, UncommittedIsPrivate, Explained
    <3> QED BY <2>1, <3>1
  <2>4. ASSUME NEW d \in Clients, req'[d].op = "copy",
               ~(req'[d].part \in linked' \cup aged' \cup {NoPart})
        PROVE  /\ UploadIsPrivate(req[d].part)'
               /\ \A u \in uploads' : u.part # req'[d].part
               /\ \A e \in Clients : req'[e].op = "copy" /\ req'[e].part = req'[d].part => d = e
    <3>1. CASE d = c
      <4>1. ~Explained(m)
        BY <1>2, <1>3, <2>4, <3>1 DEF Explained
      <4>2. UploadIsPrivate(req[d].part)'
        BY <1>3, <2>2, <3>1, <4>1 DEF UploadIsPrivate, Holders, Present, PartsOf
      <4> QED BY <1>2, <1>3, <1>7, <3>1, <4>1, <4>2
    <3>2. CASE d # c
      <4>1. /\ ~Explained(req[d].part) /\ req'[d] = req[d] /\ req[d].part \in MsgIds
            /\ req[d].op = "copy"
        BY <1>2, <1>3, <1>6, <2>4, <3>2 DEF Explained
      <4>2. /\ UploadIsPrivate(req[d].part)
            /\ \A u \in uploads : u.part # req[d].part
            /\ \A e \in Clients : req[e].op = "copy" /\ req[e].part = req[d].part => d = e
        BY <4>1 DEF LossInv, UncommittedIsPrivate
      <4>3. req[d].part # m
        BY <1>7, <4>1
      <4>4. UploadIsPrivate(req[d].part)'
        BY <2>1, <4>1, <4>2 DEF UploadIsPrivate, Holders, Present, PartsOf
      <4> QED BY <1>2, <1>3, <4>1, <4>2, <4>3, <4>4
    <3> QED BY <3>1, <3>2
  <2> QED BY <2>3, <2>4 DEF UncommittedIsPrivate, Explained
<1>13. RequestsBacked'
  BY <1>2, <1>3 DEF LossInv, RequestsBacked, OwnPart, Explained
<1> QED BY <1>8, <1>9, <1>10, <1>11, <1>12, <1>13 DEF LossInv

LEMMA RequestsLoss ==
    ASSUME TypeOK, TypeOK', LossInv, NEW c \in Clients,
           Create(c) \/ Update(c) \/ Copy(c) \/ Abort(c)
    PROVE  LossInv'
BY CreateLoadsLoss, UpdateLoadsLoss, LookupsLoss, CreateCommitLoss, UpdateCommitLoss,
   CopySendLoss, CopyInsertLoss, AbortLoss DEF Create, Update, Copy

-----------------------------------------------------------------------------
(* The steps of no request                                                   *)

(* A delete, a deduplication run and the purge leave everything but rows and *)
(* their history alone.                                                      *)
LEMMA JobRowsLoss ==
    ASSUME TypeOK, TypeOK', LossInv, NEW f \in FileIds \cup {NoRow}, RowsWritten(f),
           UNCHANGED <<uploads, msgs, sessions, req, upCleaner, aged>>,
           linked \subseteq linked', cleaner'.rows \subseteq cleaner.rows
    PROVE  LossInv'
BY RowsWrittenLoss DEF OthersKeep

LEMMA DeleteLoss ==
    ASSUME TypeOK, TypeOK', LossInv, NEW f \in FileIds, Delete(f) PROVE LossInv'
<1>1. /\ files'[f].status = "pending_deletion" /\ files'[f].part = files[f].part
      /\ files[f].status = "active"
      /\ \A g \in FileIds : g # f => files'[g] = files[g]
  BY DEF Delete, TypeOK, Row, Active
<1>2. RowsWritten(f)
  BY <1>1 DEF RowsWritten, Kept, Present, Active, Doomed
<1> QED BY <1>2, JobRowsLoss DEF Delete, jobs, history

LEMMA DedupLoss ==
    ASSUME TypeOK, TypeOK', LossInv, Dedup PROVE LossInv'
<1>1. ASSUME NEW x \in dedup.todo, BackfillOne(x) PROVE LossInv'
  <2>1. \A g \in FileIds : /\ files'[g].status = files[g].status
                           /\ files'[g].part = files[g].part
    BY <1>1 DEF BackfillOne, TypeOK, Row
  <2>2. RowsWritten(NoRow)
    BY <2>1, RowIds DEF RowsWritten, Kept, Present, Active, Doomed
  <2> QED BY <1>1, <2>2, JobRowsLoss DEF BackfillOne, history
<1>2. ASSUME NEW l \in dedup.links, DedupLink(l) PROVE LossInv'
  <2>1. CASE Present(l.dup)
    <3>1. PICK f \in FileIds : f = l.dup
      BY DEF TypeOK, Link
    <3>2. /\ files'[f].status = files[f].status /\ files'[f].part = l.part
          /\ \A g \in FileIds : g # f => files'[g] = files[g]
      BY <1>2, <2>1, <3>1 DEF DedupLink, TypeOK, Row
    <3>3. Excused(files'[f].part)
      BY <1>2, <2>1, <3>2 DEF DedupLink, Excused
    <3>4. RowsWritten(f)
      BY <3>2, <3>3 DEF RowsWritten, Kept, Present, Active, Doomed
    <3> QED BY <1>2, <2>1, <3>4, JobRowsLoss DEF DedupLink
  <2>2. CASE ~Present(l.dup)
    <3>1. RowsWritten(NoRow)
      BY <1>2, <2>2, RowIds DEF DedupLink, RowsWritten, Kept, Present, Active, Doomed
    <3> QED BY <1>2, <2>2, <3>1, JobRowsLoss DEF DedupLink
  <2> QED BY <2>1, <2>2
<1>3. CASE UNCHANGED <<server, msgs, sessions, req, cleaner, upCleaner, history>>
  <2>1. RowsWritten(NoRow)
    BY <1>3, RowIds DEF RowsWritten, Kept, Present, Active, Doomed, server
  <2> QED BY <1>3, <2>1, JobRowsLoss DEF server, history
<1> QED BY <1>1, <1>2, <1>3
        DEF Dedup, DedupLoad, BackfillLoad, BackfillSkip, DedupGroup, DedupSkip, DedupEnd

(* A step that deletes messages, none of them a message of an active file,   *)
(* of an upload or of a copy unless that is explained.                       *)
LEMMA RemovalLoss ==
    ASSUME TypeOK, LossInv, NEW S, msgs' = Remove(S),
           UNCHANGED <<files, uploads, sessions, req, linked, aged>>,
           cleaner'.rows \subseteq cleaner.rows, upCleaner'.parts \subseteq upCleaner.parts,
           \A m \in S : Explained(m) \/ m \in PartsOf(cleaner.rows)
    PROVE  LossInv'
<1> USE FileStoreAssumption
<1>1. \A m \in MsgIds : msgs'[m].state = IF m \in S THEN "deleted" ELSE msgs[m].state
  BY DEF Remove, TypeOK, Message
<1>2. /\ \A g \in FileIds : files[g].part \in MsgIds \cup {NoPart}
      /\ \A u \in uploads : u.part \in MsgIds
      /\ \A x \in cleaner.rows : x.part \in MsgIds \cup {NoPart}
      /\ \A d \in Clients : req[d].part \in MsgIds \cup {NoPart}
  BY DEF TypeOK, Row, UploadRow, IdRow, Request
<1>3. \A g \in FileIds : Active(g) /\ ~Explained(files[g].part) => files[g].part \notin S
  BY DEF LossInv, CleanerRowsDoomed, PartsOf, Holders, Active, Present
<1>4. LossHasCause' /\ NothingLost'
  BY <1>1, <1>2, <1>3 DEF LossInv, LossHasCause, NothingLost, Explained, Active
<1>5. MessagesSent'
  BY <1>1, <1>2 DEF LossInv, MessagesSent, Explained, Present
<1>6. UploadsDistinct' /\ SessionsSerial' /\ SharedIsLinked' /\ RequestsBacked'
      /\ RequestsShaped'
  BY DEF LossInv, UploadsDistinct, SessionsSerial, SharedIsLinked, RequestsBacked,
         RequestsShaped, OwnPart, Explained, Present
<1>7. CleanerRowsDoomed' /\ AgedUploads'
  BY DEF LossInv, CleanerRowsDoomed, AgedUploads, Explained, Active, Present, Holders
<1>8. ASSUME NEW m \in MsgIds, UploadIsPrivate(m), ~Explained(m) PROVE UploadIsPrivate(m)'
  <2>1. m \notin S
    BY <1>8 DEF UploadIsPrivate
  <2> QED BY <1>1, <1>8, <2>1 DEF UploadIsPrivate, Holders, Present, PartsOf
<1>9. UncommittedIsPrivate'
  <2>1. ASSUME NEW u \in uploads, sessions[u.sid].sent = "open", ~Explained(u.part)
        PROVE  UploadIsPrivate(u.part)'
    BY <1>2, <1>8, <2>1 DEF LossInv, UncommittedIsPrivate
  <2>2. ASSUME NEW d \in Clients, req[d].op = "copy", ~Explained(req[d].part)
        PROVE  UploadIsPrivate(req[d].part)'
    <3>1. req[d].part \in MsgIds /\ UploadIsPrivate(req[d].part)
      BY <1>2, <2>2 DEF Explained, LossInv, UncommittedIsPrivate
    <3> QED BY <1>8, <2>2, <3>1 DEF UploadIsPrivate, Holders, Present, PartsOf
  <2> QED BY <2>1, <2>2 DEF LossInv, UncommittedIsPrivate, Explained
<1> QED BY <1>4, <1>5, <1>6, <1>7, <1>9 DEF LossInv

(* cleanFiles: what it selects is doomed, and what it deletes it selected.   *)
LEMMA CleanLoss ==
    ASSUME TypeOK, TypeOK', LossInv, Clean PROVE LossInv'
<1>1. CASE CleanSelect
  <2>1. /\ UNCHANGED <<files, uploads, msgs, sessions, req, upCleaner, linked, aged>>
        /\ cleaner'.rows = PendingRows
    BY <1>1 DEF CleanSelect, server, history
  <2>2. \A x \in PendingRows : /\ x.id \in FileIds /\ x.part = files[x.id].part
                               /\ files[x.id].status = "pending_deletion"
    BY DEF PendingRows
  <2>3. ASSUME NEW x \in PendingRows, ~Explained(x.part)
        PROVE  /\ \A g \in Holders(x.part) : g = x.id /\ ~Active(g)
               /\ x.id \in Holders(x.part)
    BY <2>2, <2>3 DEF LossInv, SharedIsLinked, Holders, Present, Active
  <2>4. CleanerRowsDoomed'
    BY <2>1, <2>2, <2>3 DEF CleanerRowsDoomed, Explained, Active, Present, Holders
  <2>5. MessagesSent'
    BY <2>1, <2>2 DEF LossInv, MessagesSent, Explained, Present
  <2>6. ASSUME NEW m, UploadIsPrivate(m), ~Explained(m) PROVE UploadIsPrivate(m)'
    <3>1. \A x \in PendingRows : x.part # m
      BY <2>3, <2>6 DEF UploadIsPrivate
    <3> QED BY <2>1, <2>6, <3>1 DEF UploadIsPrivate, Holders, Present, PartsOf
  <2>7. UncommittedIsPrivate'
    <3>1. ASSUME NEW u \in uploads, sessions[u.sid].sent = "open", ~Explained(u.part)
          PROVE  UploadIsPrivate(u.part)'
      BY <2>6, <3>1 DEF LossInv, UncommittedIsPrivate
    <3>2. ASSUME NEW d \in Clients, req[d].op = "copy", ~Explained(req[d].part)
          PROVE  UploadIsPrivate(req[d].part)'
      <4>1. UploadIsPrivate(req[d].part)
        BY <3>2 DEF LossInv, UncommittedIsPrivate
      <4> QED BY <2>1, <2>6, <3>2, <4>1 DEF UploadIsPrivate, Holders, Present, PartsOf
    <3> QED BY <2>1, <3>1, <3>2 DEF LossInv, UncommittedIsPrivate, Explained
  <2> QED BY <2>1, <2>4, <2>5, <2>7
          DEF LossInv, LossHasCause, NothingLost, UploadsDistinct, SessionsSerial,
              SharedIsLinked, RequestsBacked, RequestsShaped, AgedUploads, OwnPart,
              Explained, Active, Present
<1>2. CASE CleanMessages
  BY <1>2, RemovalLoss DEF CleanMessages, server, history, TypeOK
<1>3. ASSUME NEW S \in SUBSET PartsOf(cleaner.rows), CleanFail(S) PROVE LossInv'
  BY <1>3, RemovalLoss DEF CleanFail, server, history
<1>4. CASE CleanRows
  <2>1. /\ UNCHANGED <<uploads, msgs, sessions, req, upCleaner, linked, aged>>
        /\ cleaner'.rows = {}
        /\ files' = Purged(IdsOf(cleaner.rows))
    BY <1>4 DEF CleanRows, history
  <2>2. ASSUME NEW g \in FileIds
        PROVE  \/ files'[g].status = "removed" /\ g \in IdsOf(cleaner.rows)
               \/ /\ files'[g].status = files[g].status
                  /\ files'[g].part = files[g].part
    BY <2>1 DEF Purged, FreeRow, TypeOK, Row
  <2>3. RowsWritten(NoRow)
    BY <2>2, RowIds DEF RowsWritten, Kept, Present, Active, Doomed
  <2> QED BY <2>1, <2>3, JobRowsLoss
<1>5. CASE CleanCrash
  <2>1. RowsWritten(NoRow)
    BY <1>5, RowIds DEF CleanCrash, RowsWritten, Kept, Present, Active, Doomed, server
  <2> QED BY <1>5, <2>1, JobRowsLoss DEF CleanCrash, server, history
<1> QED BY <1>1, <1>2, <1>3, <1>4, <1>5 DEF Clean

(* cleanUploads: what it selects and deletes is aged.                        *)
LEMMA CleanUpLoss ==
    ASSUME TypeOK, TypeOK', LossInv, CleanUp PROVE LossInv'
<1>1. upCleaner.parts \subseteq aged
  BY DEF LossInv, AgedUploads
<1>2. CASE UpSelect
  <2>1. /\ UNCHANGED <<files, uploads, msgs, sessions, req, cleaner, linked, aged>>
        /\ upCleaner'.parts \subseteq aged
    BY <1>2 DEF UpSelect, server, history, LossInv, AgedUploads
  <2> QED BY <2>1
          DEF LossInv, LossHasCause, NothingLost, MessagesSent, UploadsDistinct,
              SessionsSerial, SharedIsLinked, CleanerRowsDoomed, UncommittedIsPrivate,
              UploadIsPrivate, PartsOf, Holders, RequestsBacked, RequestsShaped,
              AgedUploads, OwnPart, Explained, Active, Present
<1>3. CASE UpMessages
  BY <1>1, <1>3, RemovalLoss DEF UpMessages, server, history, TypeOK, Explained
<1>4. ASSUME NEW S \in SUBSET upCleaner.parts, UpFail(S) PROVE LossInv'
  BY <1>1, <1>4, RemovalLoss DEF UpFail, server, history, Explained
<1>5. CASE UpCrash \/ UpRows
  <2>1. /\ UNCHANGED <<files, msgs, sessions, req, cleaner, linked, aged>>
        /\ upCleaner'.parts = {}
        /\ uploads' \subseteq uploads
        /\ \A u \in uploads : u \in uploads' \/ u.part \in aged
    BY <1>1, <1>5 DEF UpCrash, UpRows, server, history
  <2>2. RequestsBacked'
    BY <2>1 DEF LossInv, RequestsBacked, OwnPart, Explained
  <2>3. UncommittedIsPrivate' /\ MessagesSent'
    BY <2>1 DEF LossInv, UncommittedIsPrivate, UploadIsPrivate, PartsOf, Holders,
                MessagesSent, Explained, Present
  <2> QED BY <2>1, <2>2, <2>3
          DEF LossInv, LossHasCause, NothingLost, UploadsDistinct,
              SessionsSerial, SharedIsLinked, CleanerRowsDoomed, Holders,
              RequestsShaped, AgedUploads, Explained, Active, Present
<1> QED BY <1>2, <1>3, <1>4, <1>5 DEF CleanUp

(* The upload handlers: a new message belongs to its session alone.          *)
LEMMA UploadPartLoss ==
    ASSUME TypeOK, TypeOK', LossInv, NEW s \in Sessions, NEW d \in Contents,
           NEW h \in Hashing, NEW e \in Encryption, UploadPart(s, d, h, e)
    PROVE  LossInv'
<1> USE FileStoreAssumption
<1>1. PICK m \in MsgIds :
        /\ FreshMsg(m)
        /\ msgs' = [msgs EXCEPT ![m] = [state |-> "stored", data |-> d, enc |-> e]]
        /\ uploads' = uploads \cup
             {[sid |-> s, part |-> m, hashed |-> h, expired |-> FALSE]}
  BY DEF UploadPart
<1> DEFINE v == [sid |-> s, part |-> m, hashed |-> h, expired |-> FALSE]
<1>2. UNCHANGED <<files, req, cleaner, upCleaner, linked, aged>>
  BY DEF UploadPart, jobs, history
<1>3. /\ \A u \in uploads : u.sid # s
      /\ \A c \in Clients : req[c].sid # s
      /\ \A t \in Sessions : t # s => sessions'[t] = sessions[t]
  BY DEF UploadPart, SessionRows, InFlight, TypeOK
<1>4. /\ msgs[m].state = "unsent" /\ msgs'[m].state = "stored"
      /\ \A k \in MsgIds : k # m => msgs'[k] = msgs[k]
  BY <1>1 DEF FreshMsg, TypeOK
<1>5. /\ \A g \in FileIds : files[g].part \in MsgIds \cup {NoPart}
      /\ \A u \in uploads : u.part \in MsgIds /\ u.sid \in Sessions
      /\ \A x \in cleaner.rows : x.part \in MsgIds \cup {NoPart}
      /\ \A c \in Clients : req[c].part \in MsgIds \cup {NoPart}
                            /\ req[c].sid \in Sessions \cup {None}
  BY DEF TypeOK, Row, UploadRow, IdRow, Request
<1>6. ~Explained(m) =>
        /\ Holders(m) = {} /\ m \notin PartsOf(cleaner.rows)
        /\ \A u \in uploads : u.part # m
        /\ \A c \in Clients : req[c].op = "copy" => req[c].part # m
  BY <1>4 DEF LossInv, MessagesSent, Holders, PartsOf
<1>7. v.sid = s /\ v.part = m /\ ~v.expired
  OBVIOUS
<1> HIDE DEF v
<1>8. uploads' = uploads \cup {v}
  BY <1>1 DEF v
<1>9. LossHasCause' /\ NothingLost'
  BY <1>2, <1>4, <1>5 DEF LossInv, LossHasCause, NothingLost, Explained, Active
<1>10. MessagesSent'
  BY <1>2, <1>4, <1>5, <1>7, <1>8 DEF LossInv, MessagesSent, Explained, Present
<1>11. UploadsDistinct'
  BY <1>2, <1>3, <1>6, <1>7, <1>8 DEF LossInv, UploadsDistinct, Explained
<1>12. SessionsSerial' /\ SharedIsLinked' /\ CleanerRowsDoomed' /\ RequestsShaped'
  BY <1>2 DEF LossInv, SessionsSerial, SharedIsLinked, CleanerRowsDoomed, RequestsShaped,
              Explained, Active, Present, Holders
<1>13. AgedUploads'
  BY <1>2, <1>7, <1>8 DEF LossInv, AgedUploads
<1>14. UncommittedIsPrivate'
  <2>1. ASSUME NEW k \in MsgIds, UploadIsPrivate(k) PROVE UploadIsPrivate(k)'
    BY <1>2, <1>4, <2>1 DEF UploadIsPrivate, Holders, Present, PartsOf
  <2>2. ~Explained(m) => UploadIsPrivate(m)'
    BY <1>2, <1>4, <1>6 DEF UploadIsPrivate, Holders, Present, PartsOf
  <2>3. ASSUME NEW u \in uploads', sessions'[u.sid].sent = "open", ~Explained(u.part)
        PROVE  UploadIsPrivate(u.part)'
    <3>1. CASE u = v
      BY <1>7, <2>2, <2>3, <3>1
    <3>2. CASE u \in uploads
      <4>1. sessions'[u.sid] = sessions[u.sid] /\ u.part \in MsgIds
        BY <1>3, <1>5, <3>2
      <4> QED BY <2>1, <2>3, <3>2, <4>1 DEF LossInv, UncommittedIsPrivate
    <3> QED BY <1>8, <3>1, <3>2
  <2>4. ASSUME NEW c \in Clients, req[c].op = "copy", ~Explained(req[c].part)
        PROVE  /\ UploadIsPrivate(req[c].part)'
               /\ \A u \in uploads' : u.part # req[c].part
    <3>1. req[c].part \in MsgIds /\ UploadIsPrivate(req[c].part)
      BY <1>5, <2>4 DEF Explained, LossInv, UncommittedIsPrivate
    <3>2. UploadIsPrivate(req[c].part)'
      BY <1>2, <2>1, <3>1 DEF UploadIsPrivate, Holders, Present, PartsOf
    <3> QED BY <1>6, <1>7, <1>8, <2>4, <3>2 DEF LossInv, UncommittedIsPrivate
  <2> QED BY <1>2, <2>3, <2>4 DEF LossInv, UncommittedIsPrivate, Explained
<1>15. RequestsBacked'
  BY <1>2, <1>3, <1>5, <1>8 DEF LossInv, RequestsBacked, OwnPart, Explained
<1> QED BY <1>9, <1>10, <1>11, <1>12, <1>13, <1>14, <1>15 DEF LossInv

LEMMA UploadsDeleteLoss ==
    ASSUME TypeOK, TypeOK', LossInv, NEW s \in Sessions, UploadsDelete(s)
    PROVE  LossInv'
<1> USE FileStoreAssumption
<1>1. /\ UNCHANGED <<files, msgs, req, cleaner, upCleaner, aged, linked>>
      /\ uploads' \subseteq uploads
      /\ \A u \in uploads : u.sid # s => u \in uploads'
  BY DEF UploadsDelete, SessionRows, jobs, history
<1>2. /\ \A c \in Clients : req[c].sid # s /\ req[c].sid \in Sessions \cup {None}
      /\ \A u \in uploads : u.sid \in Sessions
  BY DEF UploadsDelete, InFlight, TypeOK, Request, UploadRow
<1>3. \A t \in Sessions :
        /\ sessions'[t].sent = "open" => sessions[t].sent = "open"
        /\ t # s => sessions'[t] = sessions[t]
  BY DEF UploadsDelete, TypeOK, Session
<1>4. OthersKeep
  BY <1>1, <1>2, <1>3 DEF OthersKeep
<1>5. RowsWritten(NoRow)
  BY <1>1, RowIds DEF RowsWritten, Kept, Present, Active, Doomed
<1> QED BY <1>4, <1>5, RowsWrittenLoss

(* An upload row passes its retention: from then on its message is aged.     *)
LEMMA ExpireLoss ==
    ASSUME TypeOK, TypeOK', LossInv, NEW w \in uploads, Expire(w)
    PROVE  LossInv'
<1> DEFINE v == [w EXCEPT !.expired = TRUE]
<1>1. /\ UNCHANGED <<files, msgs, sessions, req, cleaner, upCleaner, linked>>
      /\ uploads' = (uploads \ {w}) \cup {v}
      /\ aged' = aged \cup {w.part}
  BY DEF Expire, jobs
<1>2. v.sid = w.sid /\ v.part = w.part
  BY DEF TypeOK, UploadRow
<1> HIDE DEF v
<1>3. v.part \in aged'
  BY <1>1, <1>2
<1>4. LossHasCause' /\ NothingLost' /\ SessionsSerial' /\ SharedIsLinked'
      /\ CleanerRowsDoomed' /\ RequestsShaped'
  BY <1>1 DEF LossInv, LossHasCause, NothingLost, SessionsSerial, SharedIsLinked,
              CleanerRowsDoomed, RequestsShaped, Explained, Active, Present, Holders
<1>5. MessagesSent'
  BY <1>1, <1>3 DEF LossInv, MessagesSent, Explained, Present
<1>6. UploadsDistinct'
  BY <1>1, <1>2, <1>3 DEF LossInv, UploadsDistinct, Explained
<1>7. UncommittedIsPrivate'
  BY <1>1, <1>3 DEF LossInv, UncommittedIsPrivate, UploadIsPrivate, PartsOf, Holders,
                    Explained, Present
<1>8. RequestsBacked'
  BY <1>1, <1>2 DEF LossInv, RequestsBacked, OwnPart, Explained
<1>9. AgedUploads'
  BY <1>1, <1>3 DEF LossInv, AgedUploads
<1> QED BY <1>4, <1>5, <1>6, <1>7, <1>8, <1>9 DEF LossInv

-----------------------------------------------------------------------------
(* The theorems *)

LEMMA InitLoss == Init => LossInv
BY DEF Init, LossInv, LossHasCause, NothingLost, MessagesSent, UploadsDistinct,
       SessionsSerial, SharedIsLinked, CleanerRowsDoomed, UncommittedIsPrivate,
       RequestsBacked, RequestsShaped, AgedUploads, OwnPart, Explained, Active, Present,
       FreeRow, IdleRequest, CreateOps

LEMMA StepLoss == TypeOK /\ TypeOK' /\ LossInv /\ [Next]_vars => LossInv'
<1> SUFFICES ASSUME TypeOK, TypeOK', LossInv, [Next]_vars PROVE LossInv'
  OBVIOUS
<1>1. CASE UNCHANGED vars
  <2>1. RowsWritten(NoRow) /\ OthersKeep
    BY <1>1, RowIds DEF vars, RowsWritten, OthersKeep, Kept, Present, Active, Doomed
  <2> QED BY <2>1, RowsWrittenLoss
<1>2. CASE Next
  BY <1>2, UploadPartLoss, UploadsDeleteLoss, ExpireLoss, RequestsLoss, DeleteLoss,
     CleanLoss, CleanUpLoss, DedupLoss DEF Next, Upload
<1> QED BY <1>1, <1>2

(* What keeps the content of files: selected rows stay doomed, an upload is  *)
(* its session's until the commit, a message has one owner unless linked.    *)
THEOREM LossInvHolds == Spec => []LossInv
<1>1. TypeOK /\ LossInv /\ [Next]_vars => LossInv'
  BY StepTyped, StepLoss
<1> QED BY InitLoss, <1>1, TypeCorrect, PTL DEF Spec

(* No active file loses its content unless deduplication listed its message  *)
(* in a second row or the upload row of the message outlived its retention,  *)
(* in whatever order requests, cron jobs and their failures interleave.      *)
THEOREM NoUnexplainedLoss == Spec => []LossHasCause
<1>1. LossInv => LossHasCause
  BY DEF LossInv
<1> QED BY <1>1, LossInvHolds, PTL
=============================================================================
