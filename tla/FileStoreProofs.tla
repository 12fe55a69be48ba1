--------------------------- MODULE FileStoreProofs ---------------------------
(* Proofs about FileStore, for every value of its constants. *)
EXTENDS FileStore, TLAPS

-----------------------------------------------------------------------------
(* Type correctness, one lemma for each group of actions *)

LEMMA InitTyped == Init => TypeOK
<1> USE FileStoreAssumption
<1>1. FreeRow \in Row
  BY DEF FreeRow, Row, Datum
<1>2. IdleRequest \in Request
  BY DEF IdleRequest, Request, CreateOps, UpdateOps, Datum
<1>3. [state |-> "unsent", data |-> None, enc |-> FALSE] \in Message
  BY DEF Message
<1>4. [data |-> None, enc |-> FALSE, sent |-> "none", fid |-> NoRow] \in Session
  BY DEF Session
<1> QED BY <1>1, <1>2, <1>3, <1>4 DEF Init, TypeOK, Datum, IdleRequest, UpdateOps

LEMMA UploadTyped == ASSUME TypeOK, Upload PROVE TypeOK'
<1> USE FileStoreAssumption DEF TypeOK
<1>1. ASSUME NEW s \in Sessions, NEW d \in Contents, NEW h \in Hashing,
             NEW e \in Encryption, UploadPart(s, d, h, e)
      PROVE  TypeOK'
  <2>1. PICK m \in MsgIds :
          /\ msgs' = [msgs EXCEPT ![m] = [state |-> "stored", data |-> d, enc |-> e]]
          /\ uploads' = uploads \cup
               {[sid |-> s, part |-> m, hashed |-> h, expired |-> FALSE]}
    BY <1>1 DEF UploadPart
  <2>2. h \in BOOLEAN /\ e \in BOOLEAN
    OBVIOUS
  <2>3. msgs' \in [MsgIds -> Message]
    BY <2>1, <2>2 DEF Message
  <2>4. [sid |-> s, part |-> m, hashed |-> h, expired |-> FALSE] \in UploadRow
    BY <2>2 DEF UploadRow
  <2>5. sessions' \in [Sessions -> Session]
    BY <1>1, <2>2 DEF UploadPart, Session
  <2> QED BY <1>1, <2>1, <2>3, <2>4, <2>5 DEF UploadPart, jobs, history
<1>2. ASSUME NEW s \in Sessions, UploadsDelete(s) PROVE TypeOK'
  BY SMTT(30), <1>2 DEF UploadsDelete, Session, jobs, history
<1>3. ASSUME NEW u \in uploads, Expire(u) PROVE TypeOK'
  BY ZenonT(40), <1>3 DEF Expire, UploadRow, jobs
<1> QED BY <1>1, <1>2, <1>3 DEF Upload

LEMMA RowIds == \A f \in FileIds : f # NoRow
BY FileStoreAssumption DEF FileIds, NoRow

(* The steps of a request that only change its own record. *)
LEMMA RequestStepTyped ==
    ASSUME TypeOK, NEW c \in Clients, NEW r \in Request, SetReq(c, r),
           r.op \in UpdateOps => r.fid # NoRow,
           UNCHANGED <<server, msgs, sessions, jobs, history>>
    PROVE  TypeOK'
BY DEF TypeOK, SetReq, server, jobs, history

LEMMA SessionPartTyped ==
    ASSUME TypeOK, NEW s \in Sessions
    PROVE  /\ SessionPart(s) \in MsgIds \cup {NoPart}
           /\ SessionHash(s) \in Datum
           /\ sessions[s].data \in Datum /\ sessions[s].enc \in BOOLEAN
<1>1. \A u \in SessionRows(s) : u.part \in MsgIds
  BY DEF TypeOK, SessionRows, UploadRow
<1>2. SessionPart(s) \in MsgIds \cup {NoPart}
  BY <1>1 DEF SessionPart
<1>3. sessions[s].data \in Datum /\ sessions[s].enc \in BOOLEAN
  BY DEF TypeOK, Session, Datum
<1> QED BY <1>2, <1>3 DEF SessionHash, Datum

LEMMA FirstTyped ==
    ASSUME NEW S \in SUBSET FileIds, NEW f \in First(S)
    PROVE  f \in FileIds \cup {NoRow}
BY DEF First

LEMMA NewRowTyped ==
    ASSUME NEW r \in Request, NEW ref \in FileIds \cup {NoRow}
    PROVE  NewRow(r, ref) \in Row
BY DEF NewRow, Request, Row

LEMMA UpdatedRowTyped ==
    ASSUME NEW r \in Request, NEW row \in Row
    PROVE  UpdatedRow(row, r) \in Row
<1>1. (IF r.part = NoPart THEN row.part ELSE r.part) \in MsgIds \cup {NoPart}
  BY DEF Request, Row
<1>2. (IF r.hash = None THEN row.hash ELSE r.hash) \in Datum
  BY DEF Request, Row
<1>3. (IF r.op = "truncate" THEN row.enc ELSE r.enc) \in BOOLEAN
  BY DEF Request, Row
<1>4. (IF r.hit # NoRow THEN r.hit ELSE IF r.clear THEN NoRow ELSE row.ref)
        \in FileIds \cup {NoRow}
  BY DEF Request, Row
<1>5. r.empty \in BOOLEAN
  BY DEF Request
<1> QED BY ZenonT(40), <1>1, <1>2, <1>3, <1>4, <1>5 DEF UpdatedRow, Row

LEMMA CreateTyped == ASSUME TypeOK, NEW c \in Clients, Create(c) PROVE TypeOK'
<1> USE FileStoreAssumption
<1>1. ASSUME NEW s \in Sessions, CreateLoad(c, s) PROVE TypeOK'
  <2> DEFINE r == [IdleRequest EXCEPT
            !.op = "create", !.pc = "loaded", !.sid = s, !.name = TargetOf[s],
            !.part = SessionPart(s), !.hash = SessionHash(s),
            !.enc = sessions[s].enc, !.meant = sessions[s].data]
  <2>1. r \in Request /\ r.op \notin UpdateOps
    BY SessionPartTyped DEF IdleRequest, Request, CreateOps, UpdateOps
  <2> QED BY <1>1, <2>1, RequestStepTyped DEF CreateLoad
<1>2. ASSUME NEW s \in Sessions, NEW h \in Contents \cup {None},
             CreateDirectLoad(c, s, h)
      PROVE  TypeOK'
  <2> DEFINE r == [IdleRequest EXCEPT
                !.op = "createDirect", !.pc = "loaded", !.sid = s,
                !.name = TargetOf[s], !.part = SessionPart(s), !.hash = h,
                !.enc = sessions[s].enc, !.meant = sessions[s].data]
  <2>1. r \in Request /\ r.op \notin UpdateOps
    BY SessionPartTyped DEF IdleRequest, Request, CreateOps, UpdateOps, Datum
  <2> QED BY <1>2, <2>1, RequestStepTyped DEF CreateDirectLoad
<1>3. ASSUME NEW n \in Names, CreateEmptyLoad(c, n) PROVE TypeOK'
  <2> DEFINE r == [IdleRequest EXCEPT
            !.op = "createEmpty", !.pc = "loaded", !.name = n, !.hash = Empty,
            !.empty = TRUE, !.meant = Empty]
  <2>1. r \in Request /\ r.op \notin UpdateOps
    BY DEF IdleRequest, Request, CreateOps, UpdateOps, Datum
  <2> QED BY <1>3, <2>1, RequestStepTyped DEF CreateEmptyLoad
<1>4. ASSUME CreateSelect(c) PROVE TypeOK'
  <2>1. PICK hit \in IF req[c].enc \/ req[c].hash = None THEN {NoRow}
                     ELSE First({f \in Candidates(req[c].hash) : ~Locked(f)}) :
          SetReq(c, [req[c] EXCEPT
              !.pc = "tx", !.hit = hit,
              !.part = IF hit = NoRow THEN @ ELSE files[hit].part])
    BY <1>4 DEF CreateSelect
  <2>2. hit \in FileIds \cup {NoRow}
    BY FirstTyped DEF Candidates
  <2>3. hit # NoRow => files[hit].part \in MsgIds \cup {NoPart}
    BY <2>2 DEF TypeOK, Row
  <2>4. ASSUME NEW r \in Request, NEW p \in MsgIds \cup {NoPart}
        PROVE  [r EXCEPT !.pc = "tx", !.hit = hit, !.part = p] \in Request
    BY <2>2 DEF Request
  <2>5. [req[c] EXCEPT !.pc = "tx", !.hit = hit,
              !.part = IF hit = NoRow THEN @ ELSE files[hit].part] \in Request
    <3>1. req[c] \in Request /\ req[c].part \in MsgIds \cup {NoPart}
      BY DEF TypeOK, Request
    <3>2. (IF hit = NoRow THEN req[c].part ELSE files[hit].part)
             \in MsgIds \cup {NoPart}
      BY <2>3, <3>1
    <3> QED BY <2>4, <3>1, <3>2
  <2>6. req[c].op \notin UpdateOps
    BY <1>4 DEF CreateSelect, CreateOps, UpdateOps
  <2> QED BY <1>4, <2>1, <2>5, <2>6, RequestStepTyped DEF CreateSelect, TypeOK, Request
<1>5. ASSUME CreateCommit(c) PROVE TypeOK'
  <2>1. PICK f \in FileIds :
          /\ files' = [files EXCEPT ![f] = NewRow(req[c], req[c].hit)]
          /\ intent' = [intent EXCEPT ![f] = req[c].meant]
    BY <1>5 DEF CreateCommit
  <2>2. req[c] \in Request /\ IdleRequest \in Request
    BY DEF TypeOK, IdleRequest, Request, CreateOps, UpdateOps, Datum
  <2>3. /\ req[c].hit \in FileIds \cup {NoRow} /\ req[c].meant \in Datum
        /\ req[c].part \in MsgIds \cup {NoPart}
    BY <2>2 DEF Request
  <2>4. files' \in [FileIds -> Row] /\ intent' \in [FileIds -> Datum]
    BY <2>1, <2>2, <2>3, NewRowTyped DEF TypeOK
  <2>5. uploads' \in SUBSET UploadRow /\ linked' \in SUBSET MsgIds
    BY <1>5, <2>3 DEF TypeOK, CreateCommit
  <2>6. sessions' \in [Sessions -> Session]
    <3>1. CASE req[c].sid = None
      BY <1>5, <3>1 DEF TypeOK, CreateCommit
    <3>2. CASE req[c].sid # None
      <4>1. PICK t \in {"create", "direct"} :
               sessions' = [sessions EXCEPT ![req[c].sid].sent = t]
        BY <1>5, <3>2 DEF CreateCommit
      <4>2. req[c].sid \in Sessions
        BY <2>2, <3>2 DEF Request
      <4>3. [sessions[req[c].sid] EXCEPT !.sent = t] \in Session
        BY <4>2 DEF TypeOK, Session
      <4>4. sessions' = [sessions EXCEPT ![req[c].sid] =
                           [sessions[req[c].sid] EXCEPT !.sent = t]]
        BY <4>1
      <4> QED BY <4>2, <4>3, <4>4 DEF TypeOK
    <3> QED BY <3>1, <3>2
  <2>7. /\ req' \in [Clients -> Request]
        /\ \A d \in Clients : req'[d].op \in UpdateOps => req'[d].fid # NoRow
    BY <1>5, <2>2 DEF TypeOK, CreateCommit, SetReq, IdleRequest, UpdateOps
  <2> QED BY <1>5, <2>4, <2>5, <2>6, <2>7 DEF CreateCommit, TypeOK, jobs
<1> QED BY <1>1, <1>2, <1>3, <1>4, <1>5 DEF Create

LEMMA UpdateTyped == ASSUME TypeOK, NEW c \in Clients, Update(c) PROVE TypeOK'
<1> USE FileStoreAssumption
<1>1. ASSUME NEW s \in Sessions, NEW f \in FileIds, UpdateLoad(c, s, f)
      PROVE  TypeOK'
  <2> DEFINE r == [IdleRequest EXCEPT
            !.op = "update", !.pc = "loaded", !.sid = s, !.fid = f,
            !.part = SessionPart(s), !.hash = SessionHash(s),
            !.enc = sessions[s].enc, !.empty = SessionRows(s) = {},
            !.meant = sessions[s].data]
  <2>1. r \in Request
    BY SessionPartTyped DEF IdleRequest, Request, UpdateOps
  <2>2. r.fid # NoRow
    BY RowIds DEF IdleRequest
  <2> QED BY <1>1, <2>1, <2>2, RequestStepTyped DEF UpdateLoad
<1>2. ASSUME NEW s \in Sessions, NEW f \in FileIds, UpdateDirectLoad(c, s, f)
      PROVE  TypeOK'
  <2> DEFINE r == [IdleRequest EXCEPT
            !.op = "updateDirect", !.pc = "loaded", !.sid = s, !.fid = f,
            !.part = SessionPart(s), !.enc = sessions[s].enc,
            !.meant = sessions[s].data]
  <2>1. r \in Request
    BY SessionPartTyped DEF IdleRequest, Request, UpdateOps, Datum
  <2>2. r.fid # NoRow
    BY RowIds DEF IdleRequest
  <2> QED BY <1>2, <2>1, <2>2, RequestStepTyped DEF UpdateDirectLoad
<1>3. ASSUME NEW f \in FileIds, TruncateLoad(c, f) PROVE TypeOK'
  <2> DEFINE r == [IdleRequest EXCEPT
            !.op = "truncate", !.pc = "loaded", !.fid = f,
            !.empty = TRUE, !.meant = Empty]
  <2>1. r \in Request
    BY DEF IdleRequest, Request, UpdateOps, Datum
  <2>2. r.fid # NoRow
    BY RowIds DEF IdleRequest
  <2> QED BY <1>3, <2>1, <2>2, RequestStepTyped DEF TruncateLoad
<1>4. ASSUME UpdateRead(c) PROVE TypeOK'
  <2>1. PICK found \in FindDeduplicateFile(req[c].hash) :
          LET hit == IF found = req[c].fid THEN NoRow ELSE found IN
          SetReq(c, [req[c] EXCEPT !.pc = "tx", !.hit = hit,
                       !.clear = files[req[c].fid].ref # NoRow /\ hit = NoRow])
    BY <1>4 DEF UpdateRead
  <2> DEFINE hit == IF found = req[c].fid THEN NoRow ELSE found
             clear == files[req[c].fid].ref # NoRow /\ hit = NoRow
  <2>2. hit \in FileIds \cup {NoRow}
    BY FirstTyped DEF FindDeduplicateFile, Candidates
  <2>3. clear \in BOOLEAN
    OBVIOUS
  <2>4. ASSUME NEW r \in Request, NEW h \in FileIds \cup {NoRow}, NEW b \in BOOLEAN
        PROVE  [r EXCEPT !.pc = "tx", !.hit = h, !.clear = b] \in Request
    BY DEF Request
  <2>5. req[c] \in Request
    BY DEF TypeOK
  <2>6. [req[c] EXCEPT !.pc = "tx", !.hit = hit, !.clear = clear] \in Request
    BY <2>2, <2>3, <2>4, <2>5
  <2>7. req[c].fid # NoRow
    BY <1>4 DEF UpdateRead, TypeOK
  <2> QED BY <1>4, <2>1, <2>5, <2>6, <2>7, RequestStepTyped DEF UpdateRead, Request
<1>5. ASSUME UpdateCommit(c) PROVE TypeOK'
  <2>1. req[c] \in Request /\ IdleRequest \in Request
    BY DEF TypeOK, IdleRequest, Request, CreateOps, UpdateOps, Datum
  <2>2. req[c].fid \in FileIds
    BY <1>5, <2>1 DEF UpdateCommit, Request, TypeOK
  <2>3. files' \in [FileIds -> Row] /\ intent' \in [FileIds -> Datum]
    BY <1>5, <2>1, <2>2, UpdatedRowTyped DEF UpdateCommit, TypeOK, Request
  <2>4. uploads' \in SUBSET UploadRow
    BY <1>5 DEF TypeOK, UpdateCommit
  <2>5. sessions' \in [Sessions -> Session]
    <3>1. CASE req[c].sid = None
      BY <1>5, <3>1 DEF TypeOK, UpdateCommit
    <3>2. CASE req[c].sid # None
      <4>1. req[c].sid \in Sessions
        BY <2>1, <3>2 DEF Request
      <4>2. ASSUME NEW e \in Session, NEW t \in {"update", "direct"}
            PROVE  [e EXCEPT !.sent = t, !.fid = req[c].fid] \in Session
        BY <2>2 DEF Session
      <4> QED BY <1>5, <3>2, <4>1, <4>2 DEF TypeOK, UpdateCommit
    <3> QED BY <3>1, <3>2
  <2>6. /\ req' \in [Clients -> Request]
        /\ \A d \in Clients : req'[d].op \in UpdateOps => req'[d].fid # NoRow
    BY <1>5, <2>1 DEF TypeOK, UpdateCommit, SetReq, IdleRequest, UpdateOps
  <2> QED BY <1>5, <2>3, <2>4, <2>5, <2>6 DEF UpdateCommit, TypeOK, jobs
<1> QED BY <1>1, <1>2, <1>3, <1>4, <1>5 DEF Update

LEMMA CopyTyped == ASSUME TypeOK, NEW c \in Clients, Copy(c) PROVE TypeOK'
<1> USE FileStoreAssumption
<1>1. ASSUME NEW f \in FileIds, NEW n \in Names, CopySend(c, f, n) PROVE TypeOK'
  <2>1. PICK m \in MsgIds :
          /\ msgs' = [msgs EXCEPT ![m] = msgs[files[f].part]]
          /\ SetReq(c, [IdleRequest EXCEPT
                !.op = "copy", !.pc = "loaded", !.name = n, !.part = m,
                !.hash = files[f].hash, !.enc = files[f].enc,
                !.empty = files[f].empty, !.meant = intent[f]])
    BY <1>1 DEF CopySend
  <2> DEFINE r == [IdleRequest EXCEPT
                !.op = "copy", !.pc = "loaded", !.name = n, !.part = m,
                !.hash = files[f].hash, !.enc = files[f].enc,
                !.empty = files[f].empty, !.meant = intent[f]]
  <2>2. /\ files[f].hash \in Datum /\ files[f].enc \in BOOLEAN
        /\ files[f].empty \in BOOLEAN /\ intent[f] \in Datum
        /\ files[f].part \in MsgIds
    BY <1>1 DEF CopySend, TypeOK, Row
  <2>3. r \in Request
    BY <2>2 DEF IdleRequest, Request
  <2>4. r.op \notin UpdateOps
    BY DEF IdleRequest, UpdateOps
  <2>5. msgs' \in [MsgIds -> Message]
    BY <2>1, <2>2 DEF TypeOK
  <2> HIDE DEF r
  <2> QED BY <1>1, <2>1, <2>3, <2>4, <2>5 DEF CopySend, TypeOK, SetReq, server, jobs, history, r
<1>2. ASSUME CopyInsert(c) PROVE TypeOK'
  <2>1. req[c] \in Request /\ IdleRequest \in Request
    BY DEF TypeOK, IdleRequest, Request, CreateOps, UpdateOps, Datum
  <2>2. files' \in [FileIds -> Row] /\ intent' \in [FileIds -> Datum]
    BY <1>2, <2>1, NewRowTyped DEF CopyInsert, TypeOK, Request
  <2>3. /\ req' \in [Clients -> Request]
        /\ \A d \in Clients : req'[d].op \in UpdateOps => req'[d].fid # NoRow
    BY <1>2, <2>1 DEF TypeOK, CopyInsert, SetReq, IdleRequest, UpdateOps
  <2> QED BY <1>2, <2>2, <2>3 DEF CopyInsert, TypeOK, jobs
<1> QED BY <1>1, <1>2 DEF Copy

LEMMA AbortTyped == ASSUME TypeOK, NEW c \in Clients, Abort(c) PROVE TypeOK'
<1>1. IdleRequest \in Request /\ IdleRequest.op \notin UpdateOps
  BY DEF IdleRequest, Request, CreateOps, UpdateOps, Datum
<1> QED BY <1>1, RequestStepTyped DEF Abort

LEMMA DeleteTyped == ASSUME TypeOK, NEW f \in FileIds, Delete(f) PROVE TypeOK'
BY DEF Delete, TypeOK, Row, jobs, history

LEMMA RemoveTyped == ASSUME TypeOK, NEW S PROVE Remove(S) \in [MsgIds -> Message]
BY DEF TypeOK, Remove, Message

LEMMA PurgedTyped == ASSUME TypeOK, NEW ids PROVE Purged(ids) \in [FileIds -> Row]
<1>1. [FreeRow EXCEPT !.status = "removed"] \in Row
  BY DEF FreeRow, Row, Datum
<1>2. ASSUME NEW f \in FileIds PROVE [files[f] EXCEPT !.ref = NoRow] \in Row
  BY DEF TypeOK, Row
<1> QED BY <1>1, <1>2 DEF TypeOK, Purged

LEMMA CleanTyped == ASSUME TypeOK, Clean PROVE TypeOK'
<1>1. ASSUME CleanSelect PROVE TypeOK'
  <2>1. PendingRows \in SUBSET IdRow
    BY DEF TypeOK, PendingRows, IdRow, Row
  <2> QED BY <1>1, <2>1 DEF CleanSelect, TypeOK, server, history
<1>2. ASSUME CleanMessages PROVE TypeOK'
  BY <1>2, RemoveTyped DEF CleanMessages, TypeOK, server, history
<1>3. ASSUME NEW S \in SUBSET PartsOf(cleaner.rows), CleanFail(S) PROVE TypeOK'
  BY <1>3, RemoveTyped DEF CleanFail, TypeOK, server, history
<1>4. ASSUME CleanRows PROVE TypeOK'
  BY <1>4, PurgedTyped DEF CleanRows, TypeOK, history
<1>5. ASSUME CleanCrash PROVE TypeOK'
  BY <1>5 DEF CleanCrash, TypeOK, server, history
<1> QED BY <1>1, <1>2, <1>3, <1>4, <1>5 DEF Clean

LEMMA CleanUpTyped == ASSUME TypeOK, CleanUp PROVE TypeOK'
<1>1. ASSUME UpSelect PROVE TypeOK'
  <2>1. {u.part : u \in {v \in uploads : v.expired}} \in SUBSET MsgIds
    BY DEF TypeOK, UploadRow
  <2> QED BY <1>1, <2>1 DEF UpSelect, TypeOK, server, history
<1>2. ASSUME UpMessages PROVE TypeOK'
  BY <1>2, RemoveTyped DEF UpMessages, TypeOK, server, history
<1>3. ASSUME NEW S \in SUBSET upCleaner.parts, UpFail(S) PROVE TypeOK'
  BY <1>3, RemoveTyped DEF UpFail, TypeOK, server, history
<1>4. ASSUME UpCrash PROVE TypeOK'
  BY <1>4 DEF UpCrash, TypeOK, server, history
<1>5. ASSUME UpRows PROVE TypeOK'
  BY <1>5 DEF UpRows, TypeOK, history
<1> QED BY <1>1, <1>2, <1>3, <1>4, <1>5 DEF CleanUp

LEMMA DedupTyped == ASSUME TypeOK, Dedup PROVE TypeOK'
<1> USE FileStoreAssumption
<1>1. ASSUME DedupLoad PROVE TypeOK'
  <2>1. {SnapshotOf(f) : f \in {g \in FileIds : /\ Active(g) /\ ~files[g].enc
                                                /\ files[g].hash # None}}
           \in SUBSET Snapshot
    BY DEF TypeOK, SnapshotOf, Snapshot, Row
  <2> QED BY <1>1, <2>1 DEF DedupLoad, TypeOK, server, history
<1>2. ASSUME BackfillLoad PROVE TypeOK'
  <2>1. \A f \in FileIds : [id |-> f, part |-> files[f].part,
                            empty |-> files[f].empty] \in HashJob
    BY DEF TypeOK, HashJob, Row
  <2>2. dedup'.todo \in SUBSET HashJob
    BY <1>2, <2>1 DEF BackfillLoad, TypeOK
  <2> QED BY <1>2, <2>2 DEF BackfillLoad, TypeOK, server, history
<1>3. ASSUME NEW x \in dedup.todo, BackfillOne(x) PROVE TypeOK'
  <2> DEFINE h == IF x.empty THEN Empty ELSE msgs[x.part].data
  <2>1. x.id \in FileIds /\ x.part \in MsgIds \cup {NoPart}
    BY DEF TypeOK, HashJob
  <2>2. h \in Datum
    BY <1>3, <2>1 DEF BackfillOne, TypeOK, Message, Datum
  <2>3. [id |-> x.id, part |-> x.part, hash |-> h] \in Snapshot
    BY <2>1, <2>2 DEF Snapshot
  <2>4. \A row \in Row : [row EXCEPT !.hash = h] \in Row
    BY <2>2 DEF Row
  <2>5. files' \in [FileIds -> Row]
    BY <1>3, <2>1, <2>4 DEF BackfillOne, TypeOK
  <2>6. dedup' = [dedup EXCEPT !.todo = @ \ {x},
            !.found = @ \cup {[id |-> x.id, part |-> x.part, hash |-> h]}]
    BY <1>3 DEF BackfillOne
  <2>7. dedup' \in [pc : {"idle", "loaded", "backfill", "link"},
                  found : SUBSET Snapshot, todo : SUBSET HashJob,
                  links : SUBSET Link, skipped : SUBSET FileIds]
    <3> HIDE DEF h
    <3> QED BY <2>3, <2>6 DEF TypeOK
  <2> QED BY <1>3, <2>5, <2>7 DEF BackfillOne, TypeOK, history
<1>4. ASSUME NEW x \in dedup.todo, BackfillSkip(x) PROVE TypeOK'
  BY <1>4 DEF BackfillSkip, TypeOK, server, history
<1>5. ASSUME NEW canon \in SUBSET dedup.found, DedupGroup(canon) PROVE TypeOK'
  <2>1. dedup'.links \in SUBSET Link
    BY <1>5 DEF DedupGroup, TypeOK
  <2> QED BY <1>5, <2>1 DEF DedupGroup, TypeOK, server, history
<1>6. ASSUME NEW l \in dedup.links, DedupLink(l) PROVE TypeOK'
  <2>1. /\ l.dup \in FileIds /\ l.canon \in FileIds
        /\ l.part \in MsgIds \cup {NoPart}
    BY DEF TypeOK, Link
  <2>2. ASSUME NEW row \in Row
        PROVE  [row EXCEPT !.ref = l.canon, !.part = l.part] \in Row
    BY <2>1 DEF Row
  <2>3. files' \in [FileIds -> Row]
    BY <1>6, <2>1, <2>2 DEF DedupLink, TypeOK
  <2>4. linked' \in SUBSET MsgIds
    BY <1>6, <2>1 DEF DedupLink, TypeOK
  <2> QED BY <1>6, <2>3, <2>4 DEF DedupLink, TypeOK
<1>7. ASSUME NEW l \in dedup.links, DedupSkip(l) PROVE TypeOK'
  <2>1. l.dup \in FileIds
    BY DEF TypeOK, Link
  <2> QED BY <1>7, <2>1 DEF DedupSkip, TypeOK, server, history
<1>8. ASSUME DedupEnd PROVE TypeOK'
  BY <1>8 DEF DedupEnd, TypeOK, server, history
<1> QED BY <1>1, <1>2, <1>3, <1>4, <1>5, <1>6, <1>7, <1>8 DEF Dedup

LEMMA StepTyped == TypeOK /\ [Next]_vars => TypeOK'
<1> SUFFICES ASSUME TypeOK, [Next]_vars PROVE TypeOK'
  OBVIOUS
<1>1. CASE UNCHANGED vars
  BY <1>1 DEF TypeOK, vars
<1>2. CASE Next
  BY <1>2, UploadTyped, CreateTyped, UpdateTyped, CopyTyped, AbortTyped,
     DeleteTyped, CleanTyped, CleanUpTyped, DedupTyped DEF Next
<1> QED BY <1>1, <1>2

(* Every reachable state is well typed: no handler and no job writes a      *)
(* column, a message or a snapshot outside its type, and an update always   *)
(* names a row.                                                             *)
THEOREM TypeCorrect == Spec => []TypeOK
BY InitTyped, StepTyped, PTL DEF Spec

-----------------------------------------------------------------------------
(* Row locks and references *)

Pinning(r) == r.op \in CreateOps /\ r.pc = "tx" /\ r.hit # NoRow

(* A step keeps CanonicalPinned when every create that holds a lock after   *)
(* it held the same lock before, on a row that the step leaves alone.       *)
LEMMA PinsKept ==
    ASSUME CanonicalPinned,
           \A d \in Clients : \/ ~Pinning(req'[d])
                              \/ /\ req'[d] = req[d]
                                 /\ files'[req[d].hit] = files[req[d].hit]
    PROVE  CanonicalPinned'
BY DEF CanonicalPinned, Pinning, Active

(* A step that changes the record of one request, which then holds no lock, *)
(* and one row, which no other request has locked.                          *)
LEMMA PinsKeptByOne ==
    ASSUME TypeOK, CanonicalPinned, NEW c \in Clients, NEW r, SetReq(c, r),
           ~Pinning(r), NEW f \in FileIds, ~LockedByOther(f, c),
           \A g \in FileIds : g # f => files'[g] = files[g]
    PROVE  CanonicalPinned'
<1>1. req' = [req EXCEPT ![c] = r]
  BY DEF SetReq
<1>2. ASSUME NEW d \in Clients, Pinning(req'[d])
      PROVE  req'[d] = req[d] /\ files'[req[d].hit] = files[req[d].hit]
  <2>1. d # c /\ req'[d] = req[d]
    BY <1>1, <1>2 DEF TypeOK
  <2>2. LockedBy(req[d].hit, d)
    BY <1>2, <2>1 DEF Pinning, LockedBy
  <2>3. req[d].hit # f
    BY <2>1, <2>2 DEF LockedByOther
  <2>4. req[d].hit \in FileIds
    BY <1>2, <2>1 DEF Pinning, TypeOK, Request
  <2> QED BY <2>1, <2>3, <2>4
<1> QED BY <1>2, PinsKept

(* The same for a step that leaves all requests alone and changes only rows *)
(* that nobody has locked.                                                  *)
LEMMA PinsKeptByJob ==
    ASSUME TypeOK, CanonicalPinned, UNCHANGED req,
           \A g \in FileIds : ~Locked(g) \/ files'[g] = files[g]
    PROVE  CanonicalPinned'
<1>1. ASSUME NEW d \in Clients, Pinning(req[d])
      PROVE  files'[req[d].hit] = files[req[d].hit]
  <2>1. req[d].hit \in FileIds
    BY <1>1 DEF Pinning, TypeOK, Request
  <2>2. Locked(req[d].hit)
    BY <1>1 DEF Pinning, Locked, LockedBy
  <2> QED BY <2>1, <2>2
<1> QED BY <1>1, PinsKept

LEMMA RequestStepPinned ==
    ASSUME TypeOK, CanonicalPinned, NEW c \in Clients, NEW r, SetReq(c, r),
           ~Pinning(r), UNCHANGED files
    PROVE  CanonicalPinned'
<1>1. ASSUME NEW d \in Clients, Pinning(req'[d]) PROVE req'[d] = req[d]
  BY <1>1 DEF SetReq, TypeOK
<1> QED BY <1>1, PinsKept

LEMMA CreatePinned ==
    ASSUME TypeOK, CanonicalPinned, NEW c \in Clients, Create(c)
    PROVE  CanonicalPinned'
<1>1. ASSUME NEW s \in Sessions, CreateLoad(c, s) PROVE CanonicalPinned'
  BY <1>1, RequestStepPinned DEF CreateLoad, IdleRequest, Pinning, server
<1>2. ASSUME NEW s \in Sessions, NEW h \in Contents \cup {None},
             CreateDirectLoad(c, s, h)
      PROVE  CanonicalPinned'
  BY <1>2, RequestStepPinned DEF CreateDirectLoad, IdleRequest, Pinning, server
<1>3. ASSUME NEW n \in Names, CreateEmptyLoad(c, n) PROVE CanonicalPinned'
  BY <1>3, RequestStepPinned DEF CreateEmptyLoad, IdleRequest, Pinning, server
<1>4. ASSUME CreateSelect(c) PROVE CanonicalPinned'
  <2>1. PICK hit \in IF req[c].enc \/ req[c].hash = None THEN {NoRow}
                     ELSE First({f \in Candidates(req[c].hash) : ~Locked(f)}) :
          SetReq(c, [req[c] EXCEPT
              !.pc = "tx", !.hit = hit,
              !.part = IF hit = NoRow THEN @ ELSE files[hit].part])
    BY <1>4 DEF CreateSelect
  <2>2. hit # NoRow => hit \in Candidates(req[c].hash)
    BY DEF First
  <2>3. /\ req[c] \in Request
        /\ req'[c].hit = hit /\ req'[c].hash = req[c].hash
        /\ hit # NoRow => req'[c].part = files[hit].part
    BY <2>1 DEF SetReq, TypeOK, Request
  <2>4. \A d \in Clients \ {c} : req'[d] = req[d]
    BY <2>1 DEF SetReq, TypeOK
  <2>5. UNCHANGED files
    BY <1>4 DEF CreateSelect, server
  <2>6. hit # NoRow => /\ Active(hit) /\ ~files[hit].enc
                       /\ files[hit].hash = req[c].hash
    BY <2>2 DEF Candidates
  <2> QED BY <2>3, <2>4, <2>5, <2>6 DEF CanonicalPinned, Active
<1>5. ASSUME CreateCommit(c) PROVE CanonicalPinned'
  <2>1. PICK f \in FileIds :
          /\ ~LockedByOther(f, c)
          /\ files' = [files EXCEPT ![f] = NewRow(req[c], req[c].hit)]
    BY <1>5 DEF CreateCommit
  <2>2. \A g \in FileIds : g # f => files'[g] = files[g]
    BY <2>1 DEF TypeOK
  <2> QED BY <1>5, <2>1, <2>2, PinsKeptByOne DEF CreateCommit, IdleRequest, Pinning
<1> QED BY <1>1, <1>2, <1>3, <1>4, <1>5 DEF Create

LEMMA UpdatePinned ==
    ASSUME TypeOK, CanonicalPinned, NEW c \in Clients, Update(c)
    PROVE  CanonicalPinned'
<1>1. ASSUME NEW s \in Sessions, NEW f \in FileIds, UpdateLoad(c, s, f)
      PROVE  CanonicalPinned'
  BY <1>1, RequestStepPinned DEF UpdateLoad, IdleRequest, Pinning, server
<1>2. ASSUME NEW s \in Sessions, NEW f \in FileIds, UpdateDirectLoad(c, s, f)
      PROVE  CanonicalPinned'
  BY <1>2, RequestStepPinned DEF UpdateDirectLoad, IdleRequest, Pinning, server
<1>3. ASSUME NEW f \in FileIds, TruncateLoad(c, f) PROVE CanonicalPinned'
  BY <1>3, RequestStepPinned DEF TruncateLoad, IdleRequest, Pinning, server
<1>4. ASSUME UpdateRead(c) PROVE CanonicalPinned'
  <2>1. PICK h, b : SetReq(c, [req[c] EXCEPT !.pc = "tx", !.hit = h, !.clear = b])
    BY <1>4 DEF UpdateRead
  <2>2. req[c] \in Request /\ req[c].op \notin CreateOps
    BY <1>4 DEF UpdateRead, TypeOK, CreateOps, UpdateOps
  <2>3. ~Pinning([req[c] EXCEPT !.pc = "tx", !.hit = h, !.clear = b])
    BY <2>2 DEF Pinning, Request
  <2> QED BY <1>4, <2>1, <2>3, RequestStepPinned DEF UpdateRead, server
<1>5. ASSUME UpdateCommit(c) PROVE CanonicalPinned'
  <2>1. req[c].fid \in FileIds
    BY <1>5 DEF UpdateCommit, TypeOK, Request
  <2>2. \A g \in FileIds : g # req[c].fid => files'[g] = files[g]
    BY <1>5 DEF UpdateCommit, TypeOK
  <2>3. ~LockedByOther(req[c].fid, c) /\ SetReq(c, IdleRequest)
    BY <1>5 DEF UpdateCommit
  <2>4. ~Pinning(IdleRequest)
    BY DEF Pinning, IdleRequest
  <2> QED BY <2>1, <2>2, <2>3, <2>4, PinsKeptByOne
<1> QED BY <1>1, <1>2, <1>3, <1>4, <1>5 DEF Update

LEMMA CopyPinned ==
    ASSUME TypeOK, CanonicalPinned, NEW c \in Clients, Copy(c)
    PROVE  CanonicalPinned'
<1>1. ASSUME NEW f \in FileIds, NEW n \in Names, CopySend(c, f, n)
      PROVE  CanonicalPinned'
  BY <1>1, RequestStepPinned
     DEF CopySend, IdleRequest, Pinning, CreateOps, server
<1>2. ASSUME CopyInsert(c) PROVE CanonicalPinned'
  <2>1. PICK f \in FileIds :
          FreshRow(f) /\ files' = [files EXCEPT ![f] = NewRow(req[c], NoRow)]
    BY <1>2 DEF CopyInsert
  <2>2. ~LockedByOther(f, c)
    BY <2>1, RowIds DEF FreshRow, CanonicalPinned, Active, LockedByOther, LockedBy
  <2>3. \A g \in FileIds : g # f => files'[g] = files[g]
    BY <2>1 DEF TypeOK
  <2>4. SetReq(c, IdleRequest) /\ ~Pinning(IdleRequest)
    BY <1>2 DEF CopyInsert, IdleRequest, Pinning
  <2> QED BY <2>2, <2>3, <2>4, PinsKeptByOne
<1> QED BY <1>1, <1>2 DEF Copy

LEMMA AbortPinned ==
    ASSUME TypeOK, CanonicalPinned, NEW c \in Clients, Abort(c)
    PROVE  CanonicalPinned'
<1>1. SetReq(c, IdleRequest) /\ ~Pinning(IdleRequest) /\ UNCHANGED files
  BY DEF Abort, IdleRequest, Pinning, server
<1> QED BY <1>1, RequestStepPinned

LEMMA PurgedRows ==
    ASSUME TypeOK, NEW ids, NEW g \in FileIds, g \notin ids, files[g].ref \notin ids
    PROVE  Purged(ids)[g] = files[g]
BY DEF Purged

(* The steps that change no request: the cron jobs, the deduplication run,  *)
(* the upload handlers and the delete of a file.                            *)
LEMMA JobsPinned ==
    ASSUME TypeOK, CanonicalPinned,
           Upload \/ (\E f \in FileIds : Delete(f)) \/ Clean \/ CleanUp \/ Dedup
    PROVE  CanonicalPinned'
<1>1. CASE Upload
  BY <1>1, PinsKeptByJob DEF Upload, UploadPart, UploadsDelete, Expire
<1>2. ASSUME NEW f \in FileIds, Delete(f) PROVE CanonicalPinned'
  <2>1. \A g \in FileIds : ~Locked(g) \/ files'[g] = files[g]
    BY <1>2 DEF Delete, TypeOK
  <2> QED BY <1>2, <2>1, PinsKeptByJob DEF Delete
<1>3. CASE Clean
  <2>1. CASE CleanRows
    <3>1. \A g \in FileIds : ~Locked(g) \/ files'[g] = files[g]
      BY <2>1, PurgedRows DEF CleanRows
    <3> QED BY <2>1, <3>1, PinsKeptByJob DEF CleanRows
  <2> QED BY <1>3, <2>1, PinsKeptByJob
          DEF Clean, CleanSelect, CleanMessages, CleanFail, CleanCrash, server
<1>4. CASE CleanUp
  BY <1>4, PinsKeptByJob
     DEF CleanUp, UpSelect, UpMessages, UpFail, UpCrash, UpRows, server
<1>5. CASE Dedup
  <2>1. ASSUME NEW x \in dedup.todo, BackfillOne(x) PROVE CanonicalPinned'
    <3>1. \A g \in FileIds : ~Locked(g) \/ files'[g] = files[g]
      BY <2>1 DEF BackfillOne, TypeOK
    <3> QED BY <2>1, <3>1, PinsKeptByJob DEF BackfillOne
  <2>2. ASSUME NEW l \in dedup.links, DedupLink(l) PROVE CanonicalPinned'
    <3>1. \A g \in FileIds : ~Locked(g) \/ files'[g] = files[g]
      BY <2>2 DEF DedupLink, TypeOK
    <3> QED BY <2>2, <3>1, PinsKeptByJob DEF DedupLink
  <2> QED BY <1>5, <2>1, <2>2, PinsKeptByJob
          DEF Dedup, DedupLoad, BackfillLoad, BackfillSkip, DedupGroup,
              DedupSkip, DedupEnd, server
<1> QED BY <1>1, <1>2, <1>3, <1>4, <1>5

LEMMA StepPinned == TypeOK /\ CanonicalPinned /\ [Next]_vars => CanonicalPinned'
<1> SUFFICES ASSUME TypeOK, CanonicalPinned, [Next]_vars PROVE CanonicalPinned'
  OBVIOUS
<1>1. CASE UNCHANGED vars
  BY <1>1, PinsKeptByJob DEF vars
<1>2. CASE Next
  BY <1>2, CreatePinned, UpdatePinned, CopyPinned, AbortPinned, JobsPinned DEF Next
<1> QED BY <1>1, <1>2

(* FOR UPDATE works: while a create holds the file it will link to, no      *)
(* other request, job or run changes what it found there.                   *)
THEOREM CanonicalStays == Spec => []CanonicalPinned
<1>1. Init => CanonicalPinned
  BY DEF Init, CanonicalPinned, IdleRequest
<1> QED BY <1>1, StepPinned, TypeCorrect, PTL DEF Spec

-----------------------------------------------------------------------------
(* References *)

(* A step keeps ReferencesExist when no row goes away and every reference   *)
(* it sets is from a row and to a row that is there.                        *)
LEMMA ReferencesKept ==
    ASSUME TypeOK, TypeOK', ReferencesExist,
           \A f \in FileIds : Present(f) => Present(f)',
           \A f \in FileIds : \/ files'[f].ref = files[f].ref
                              \/ files'[f].ref = NoRow
                              \/ Present(f)' /\ Present(files'[f].ref)
    PROVE  ReferencesExist'
<1>1. SUFFICES ASSUME NEW f \in FileIds, files'[f].ref # NoRow,
                      \/ files'[f].ref = files[f].ref
                      \/ Present(f)' /\ Present(files'[f].ref)
               PROVE  Present(f)' /\ Present(files[f].ref)'
  BY DEF ReferencesExist, Present
<1>2. CASE files'[f].ref = files[f].ref
  <2>1. Present(f) /\ Present(files[f].ref) /\ files[f].ref \in FileIds
    BY <1>1, <1>2 DEF ReferencesExist, TypeOK, Row
  <2> QED BY <1>2, <2>1 DEF Present
<1>3. CASE Present(f)' /\ Present(files'[f].ref)
  <2>1. files'[f].ref \in FileIds
    BY <1>1 DEF TypeOK, Row
  <2> QED BY <1>3, <2>1 DEF Present
<1> QED BY <1>1, <1>2, <1>3 DEF Present

LEMMA RequestsReference ==
    ASSUME TypeOK, TypeOK', CanonicalPinned, ReferencesExist, NEW c \in Clients,
           Create(c) \/ Update(c) \/ Copy(c) \/ Abort(c)
    PROVE  ReferencesExist'
<1>1. CASE CreateCommit(c)
  <2>1. PICK f \in FileIds :
          files' = [files EXCEPT ![f] = NewRow(req[c], req[c].hit)]
    BY <1>1 DEF CreateCommit
  <2>2. req[c].hit # NoRow => Present(req[c].hit)
    BY <1>1 DEF CreateCommit, CanonicalPinned, Active, Present
  <2>3. files'[f] = NewRow(req[c], req[c].hit)
        /\ \A g \in FileIds : g # f => files'[g] = files[g]
    BY <2>1 DEF TypeOK
  <2>4. Present(f)' /\ files'[f].ref = req[c].hit
    BY <2>3 DEF NewRow, Present
  <2>5. \A g \in FileIds : Present(g) => Present(g)'
    BY <2>3, <2>4 DEF Present
  <2> QED BY <2>2, <2>3, <2>4, <2>5, ReferencesKept
<1>2. CASE UpdateCommit(c)
  <2>1. /\ req[c].fid \in FileIds /\ Present(req[c].fid)
        /\ req[c].hit # NoRow => Present(req[c].hit)
        /\ files' = [files EXCEPT ![req[c].fid] = UpdatedRow(@, req[c])]
    BY <1>2 DEF UpdateCommit, TypeOK, Request
  <2>2. PICK f \in FileIds :
          /\ Present(f)
          /\ files'[f] = UpdatedRow(files[f], req[c])
          /\ \A g \in FileIds : g # f => files'[g] = files[g]
    BY <2>1 DEF TypeOK
  <2>3. files'[f].status = files[f].status
    BY <2>2 DEF UpdatedRow, TypeOK, Row
  <2>4. files'[f].ref \in {req[c].hit, NoRow, files[f].ref}
    BY <2>2 DEF UpdatedRow, TypeOK, Row
  <2>5. \A g \in FileIds : Present(g) => Present(g)'
    BY <2>2, <2>3 DEF Present
  <2>6. Present(f)'
    BY <2>2, <2>5
  <2> QED BY <2>1, <2>2, <2>4, <2>5, <2>6, ReferencesKept DEF Present
<1>3. CASE CopyInsert(c)
  <2>1. PICK f \in FileIds :
          FreshRow(f) /\ files' = [files EXCEPT ![f] = NewRow(req[c], NoRow)]
    BY <1>3 DEF CopyInsert
  <2>2. files'[f] = NewRow(req[c], NoRow)
        /\ \A g \in FileIds : g # f => files'[g] = files[g]
    BY <2>1 DEF TypeOK
  <2>3. Present(f)' /\ files'[f].ref = NoRow
    BY <2>2 DEF NewRow, Present
  <2>4. \A g \in FileIds : Present(g) => Present(g)'
    BY <2>2, <2>3 DEF Present
  <2> QED BY <2>2, <2>3, <2>4, ReferencesKept
<1>4. CASE UNCHANGED files
  BY <1>4 DEF ReferencesExist, Present
<1> QED BY <1>1, <1>2, <1>3, <1>4
        DEF Create, CreateLoad, CreateDirectLoad, CreateEmptyLoad, CreateSelect,
            Update, UpdateLoad, UpdateDirectLoad, TruncateLoad, UpdateRead,
            Copy, CopySend, Abort, server

LEMMA JobsReference ==
    ASSUME TypeOK, TypeOK', ReferencesExist,
           Upload \/ (\E f \in FileIds : Delete(f)) \/ Clean \/ CleanUp \/ Dedup
    PROVE  ReferencesExist'
<1>1. ASSUME NEW f \in FileIds, Delete(f) PROVE ReferencesExist'
  <2>1. /\ Present(f)' /\ files'[f].ref = files[f].ref
        /\ \A g \in FileIds : g # f => files'[g] = files[g]
    BY <1>1 DEF Delete, TypeOK, Row, Present
  <2>2. \A g \in FileIds : Present(g) => Present(g)'
    BY <2>1 DEF Present
  <2> QED BY <2>1, <2>2, ReferencesKept
<1>2. CASE CleanRows
  <2> DEFINE ids == IdsOf(cleaner.rows)
  <2>1. files' = Purged(ids)
    BY <1>2 DEF CleanRows
  <2>2. \A f \in FileIds : files'[f].ref # NoRow =>
          f \notin ids /\ files'[f] = files[f] /\ files[f].ref \notin ids
    BY <2>1 DEF Purged, FreeRow, TypeOK, Row
  <2>3. \A f \in FileIds : f \notin ids => files'[f].status = files[f].status
    BY <2>1 DEF Purged, TypeOK, Row
  <2>4. \A f \in FileIds : files[f].ref # NoRow =>
          Present(f) /\ Present(files[f].ref) /\ files[f].ref \in FileIds
    BY DEF ReferencesExist, TypeOK, Row
  <2> HIDE DEF ids
  <2> QED BY <2>2, <2>3, <2>4 DEF ReferencesExist, Present
<1>3. ASSUME NEW x \in dedup.todo, BackfillOne(x) PROVE ReferencesExist'
  <2>1. \A g \in FileIds : /\ files'[g].ref = files[g].ref
                           /\ files'[g].status = files[g].status
    BY <1>3 DEF BackfillOne, TypeOK, Row
  <2> QED BY <2>1, ReferencesKept DEF Present
<1>4. ASSUME NEW l \in dedup.links, DedupLink(l) PROVE ReferencesExist'
  <2>1. CASE Present(l.dup)
    <3>1. l.dup \in FileIds /\ Present(l.canon)
      BY <1>4, <2>1 DEF DedupLink, TypeOK, Link
    <3>2. /\ \A g \in FileIds : g # l.dup => files'[g] = files[g]
          /\ files'[l.dup].ref = l.canon
          /\ files'[l.dup].status = files[l.dup].status
      BY <1>4, <2>1, <3>1 DEF DedupLink, TypeOK, Row
    <3>3. \A g \in FileIds : Present(g) => Present(g)'
      BY <3>2 DEF Present
    <3> QED BY <2>1, <3>1, <3>2, <3>3, ReferencesKept
  <2>2. CASE ~Present(l.dup)
    BY <1>4, <2>2 DEF DedupLink, ReferencesExist, Present
  <2> QED BY <2>1, <2>2
<1>5. CASE UNCHANGED files
  BY <1>5 DEF ReferencesExist, Present
<1> QED BY <1>1, <1>2, <1>3, <1>4, <1>5
        DEF Upload, UploadPart, UploadsDelete, Expire, Clean, CleanSelect,
            CleanMessages, CleanFail, CleanCrash, CleanUp, UpSelect, UpMessages,
            UpFail, UpCrash, UpRows, Dedup, DedupLoad, BackfillLoad,
            BackfillSkip, DedupGroup, DedupSkip, DedupEnd, server

(* referenced_file_id never points to a row that is gone: the lock of a     *)
(* create, the foreign key of an update or dedup link, and ON DELETE SET    *)
(* NULL of a purge together keep it so.                                     *)
THEOREM NoDanglingReference == Spec => []ReferencesExist
<1>1. Init => ReferencesExist
  BY DEF Init, ReferencesExist, FreeRow
<1>2. TypeOK /\ CanonicalPinned /\ ReferencesExist /\ [Next]_vars
      => ReferencesExist'
  <2>1. CASE UNCHANGED vars
    BY <2>1 DEF vars, ReferencesExist, Present
  <2>2. CASE Next
    BY <2>2, StepTyped, RequestsReference, JobsReference DEF Next
  <2> QED BY <2>1, <2>2
<1> QED BY <1>1, <1>2, TypeCorrect, CanonicalStays, PTL DEF Spec

-----------------------------------------------------------------------------
(* Deletion *)

StaysDeleted(f) == files[f].status = "pending_deletion" =>
                     files'[f].status \in {"pending_deletion", "removed"}

LEMMA RequestsLeaveDeleted ==
    ASSUME TypeOK, NEW f \in FileIds, NEW c \in Clients,
           Create(c) \/ Update(c) \/ Copy(c) \/ Abort(c)
    PROVE  StaysDeleted(f)
<1>1. CASE CreateCommit(c)
  <2>1. PICK g \in FileIds :
          /\ g \in Named(req[c].name) \/ FreshRow(g)
          /\ files' = [files EXCEPT ![g] = NewRow(req[c], req[c].hit)]
    BY <1>1 DEF CreateCommit
  <2>2. files[g].status # "pending_deletion"
    BY <2>1 DEF Named, Active, FreshRow
  <2> QED BY <2>1, <2>2 DEF StaysDeleted, TypeOK
<1>2. CASE UpdateCommit(c)
  <2>1. \A g \in FileIds : \/ files'[g] = files[g]
                           \/ files'[g] = UpdatedRow(files[g], req[c])
    BY <1>2 DEF UpdateCommit, TypeOK
  <2>2. UpdatedRow(files[f], req[c]).status = files[f].status
    BY DEF UpdatedRow, TypeOK, Row
  <2> QED BY <2>1, <2>2 DEF StaysDeleted
<1>3. CASE CopyInsert(c)
  <2>1. PICK g \in FileIds :
          FreshRow(g) /\ files' = [files EXCEPT ![g] = NewRow(req[c], NoRow)]
    BY <1>3 DEF CopyInsert
  <2> QED BY <2>1 DEF StaysDeleted, FreshRow, TypeOK
<1>4. CASE UNCHANGED files
  BY <1>4 DEF StaysDeleted
<1> QED BY <1>1, <1>2, <1>3, <1>4
        DEF Create, CreateLoad, CreateDirectLoad, CreateEmptyLoad, CreateSelect,
            Update, UpdateLoad, UpdateDirectLoad, TruncateLoad, UpdateRead,
            Copy, CopySend, Abort, server

LEMMA JobsLeaveDeleted ==
    ASSUME TypeOK, NEW f \in FileIds,
           Upload \/ (\E g \in FileIds : Delete(g)) \/ Clean \/ CleanUp \/ Dedup
    PROVE  StaysDeleted(f)
<1>1. ASSUME NEW g \in FileIds, Delete(g) PROVE StaysDeleted(f)
  BY <1>1 DEF Delete, TypeOK, Row, StaysDeleted
<1>2. CASE CleanRows
  <2>1. files'[f].status \in {"removed", files[f].status}
    BY <1>2 DEF CleanRows, Purged, FreeRow, TypeOK, Row
  <2> QED BY <2>1 DEF StaysDeleted
<1>3. ASSUME NEW x \in dedup.todo, BackfillOne(x) PROVE StaysDeleted(f)
  BY <1>3 DEF BackfillOne, TypeOK, Row, StaysDeleted
<1>4. ASSUME NEW l \in dedup.links, DedupLink(l) PROVE StaysDeleted(f)
  BY <1>4 DEF DedupLink, TypeOK, Row, StaysDeleted
<1>5. CASE UNCHANGED files
  BY <1>5 DEF StaysDeleted
<1> QED BY <1>1, <1>2, <1>3, <1>4, <1>5
        DEF Upload, UploadPart, UploadsDelete, Expire, Clean, CleanSelect,
            CleanMessages, CleanFail, CleanCrash, CleanUp, UpSelect, UpMessages,
            UpFail, UpCrash, UpRows, Dedup, DedupLoad, BackfillLoad,
            BackfillSkip, DedupGroup, DedupSkip, DedupEnd, server

(* A file marked for deletion only ever leaves that status by being purged: *)
(* no upsert, update in flight, dedup link or backfill revives it.          *)
THEOREM DeletedForGood == Spec => DeletionIsFinal
<1>1. TypeOK /\ [Next]_vars =>
        [\A f \in FileIds : files[f].status = "pending_deletion" =>
            files'[f].status \in {"pending_deletion", "removed"}]_vars
  BY RequestsLeaveDeleted, JobsLeaveDeleted DEF Next, StaysDeleted
<1> QED BY <1>1, TypeCorrect, PTL DEF Spec, DeletionIsFinal
=============================================================================
