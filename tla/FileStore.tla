------------------------------ MODULE FileStore ------------------------------
(***************************************************************************)
(* The files table of BDrive, the Telegram messages that hold the content, *)
(* the uploads table, and every code path that changes them: the upload,   *)
(* create, update, copy and delete handlers, the two cleaning cron jobs    *)
(* and the deduplication job.  Each handler is cut at the points where the *)
(* code leaves one SQL statement, transaction or Telegram call and enters  *)
(* the next, since everything else may run in between.                     *)
(*                                                                         *)
(* One user, one channel and one flat folder.  A file has one part: a      *)
(* message id.  The BLAKE3 tree hash is collision free, so the hash of a   *)
(* content is that content; None is a NULL hash.                           *)
(***************************************************************************)
EXTENDS Naturals

CONSTANTS
    MaxFiles,   \* bound on the rows ever inserted into teldrive.files
    MaxMsgs,    \* bound on the Telegram messages ever sent
    Names,      \* file names
    Contents,   \* plaintext contents, none of them empty
    Sessions,   \* upload ids, chosen by the clients
    TargetOf,   \* the name a client commits an upload session under
    Clients,    \* requests the server can be serving at the same time
    Hashing,    \* values of the "hashing" upload parameter clients use
    Encryption, \* values of the "encrypted" upload parameter clients use
    Features,   \* what clients of this deployment do and what jobs it runs
    Empty,      \* the content of a file of size 0
    None        \* NULL

FeatureNames ==
    { "create", "createDirect", "createEmpty", "update", "updateDirect",
      "truncate", "copy", "delete", "uploadsDelete", "reuse", "retry",
      "cleanFiles", "cleanUploads", "dedup", "backfill" }

ASSUME FileStoreAssumption ==
    /\ MaxFiles \in Nat /\ MaxMsgs \in Nat
    /\ TargetOf \in [Sessions -> Names]
    /\ Hashing \subseteq BOOLEAN /\ Encryption \subseteq BOOLEAN
    /\ Features \subseteq FeatureNames
    /\ Empty \notin Contents /\ None \notin Contents /\ Empty # None
    /\ None \notin Sessions /\ None \notin Names

VARIABLES
    files,      \* teldrive.files
    msgs,       \* the messages of the storage channel
    uploads,    \* teldrive.uploads
    sessions,   \* what each client knows of its upload sessions
    req,        \* the request each client has in flight
    cleaner,    \* cron job cleanFiles
    upCleaner,  \* cron job cleanUploads
    dedup,      \* a deduplication run
    intent,     \* history: the content last written to each file by a client
    linked,     \* history: messages that dedup has listed in a second row
    aged        \* history: messages whose upload row outlived the retention

server == <<files, uploads>>
jobs == <<cleaner, upCleaner, dedup>>
history == <<intent, linked, aged>>
vars == <<files, msgs, uploads, sessions, req, cleaner, upCleaner, dedup,
          intent, linked, aged>>

FileIds == 1 .. MaxFiles
MsgIds == 1 .. MaxMsgs
NoRow == 0
NoPart == 0
Datum == Contents \cup {Empty, None}

Row == [ status : {"free", "active", "pending_deletion", "removed"},
         name   : Names \cup {None},
         part   : MsgIds \cup {NoPart},   \* the parts column
         hash   : Datum,
         ref    : FileIds \cup {NoRow},   \* the referenced_file_id column
         enc    : BOOLEAN,
         empty  : BOOLEAN ]               \* size = 0

Message == [ state : {"unsent", "stored", "deleted"},
             data  : Contents \cup {None},
             enc   : BOOLEAN ]

UploadRow == [ sid : Sessions, part : MsgIds, hashed : BOOLEAN,
               expired : BOOLEAN ]

Session == [ data : Contents \cup {None}, enc : BOOLEAN,
             sent : {"none", "open", "create", "update", "direct"},
             fid  : FileIds \cup {NoRow} ]

CreateOps == {"create", "createDirect", "createEmpty"}
UpdateOps == {"update", "updateDirect", "truncate"}

Request == [ op    : {"none", "copy"} \cup CreateOps \cup UpdateOps,
             pc    : {"idle", "loaded", "tx"},
             sid   : Sessions \cup {None},
             name  : Names \cup {None},
             fid   : FileIds \cup {NoRow},
             part  : MsgIds \cup {NoPart},
             hash  : Datum,
             enc   : BOOLEAN,
             empty : BOOLEAN,
             hit   : FileIds \cup {NoRow},  \* the existing file dedup found
             clear : BOOLEAN,               \* clearReference
             meant : Datum ]                \* history: the intended content

IdRow == [ id : FileIds, part : MsgIds \cup {NoPart} ]
HashJob == [ id : FileIds, part : MsgIds \cup {NoPart}, empty : BOOLEAN ]
Snapshot == [ id : FileIds, part : MsgIds \cup {NoPart}, hash : Datum ]
Link == [ dup : FileIds, canon : FileIds, part : MsgIds \cup {NoPart} ]

FreeRow == [ status |-> "free", name |-> None, part |-> NoPart, hash |-> None,
             ref |-> NoRow, enc |-> FALSE, empty |-> FALSE ]

IdleRequest == [ op |-> "none", pc |-> "idle", sid |-> None, name |-> None,
                 fid |-> NoRow, part |-> NoPart, hash |-> None, enc |-> FALSE,
                 empty |-> FALSE, hit |-> NoRow, clear |-> FALSE,
                 meant |-> None ]

Init ==
    /\ files = [f \in FileIds |-> FreeRow]
    /\ msgs = [m \in MsgIds |->
                 [state |-> "unsent", data |-> None, enc |-> FALSE]]
    /\ uploads = {}
    /\ sessions = [s \in Sessions |->
                     [data |-> None, enc |-> FALSE, sent |-> "none",
                      fid |-> NoRow]]
    /\ req = [c \in Clients |-> IdleRequest]
    /\ cleaner = [pc |-> "idle", rows |-> {}]
    /\ upCleaner = [pc |-> "idle", parts |-> {}]
    /\ dedup = [pc |-> "idle", found |-> {}, todo |-> {}, links |-> {},
                skipped |-> {}]
    /\ intent = [f \in FileIds |-> None]
    /\ linked = {}
    /\ aged = {}

-----------------------------------------------------------------------------
(* Helpers *)

Present(f) == files[f].status \in {"active", "pending_deletion"}
Active(f) == files[f].status = "active"

(* Mutant: the dedup SELECT takes no lock. *)
LockedBy_NoForUpdate(f, d) == FALSE
(* FOR UPDATE row locks, held from the dedup SELECT of a create to its commit *)
LockedBy(f, d) == req[d].op \in CreateOps /\ req[d].pc = "tx" /\ req[d].hit = f
LockedByOther(f, c) == \E d \in Clients \ {c} : LockedBy(f, d)
Locked(f) == \E d \in Clients : LockedBy(f, d)

(* Mutant: the unique index is not restricted to active rows. *)
Named_AnyStatus(n) == {f \in FileIds : Present(f) /\ files[f].name = n}
(* The row an upsert of name n conflicts with. *)
Named(n) == {f \in FileIds : Active(f) /\ files[f].name = n}
FreshRow(f) == /\ files[f].status = "free"
               /\ \A g \in FileIds : g < f => files[g].status # "free"
FreshMsg(m) == /\ msgs[m].state = "unsent"
               /\ \A k \in MsgIds : k < m => msgs[k].state # "unsent"

SessionRows(s) == {u \in uploads : u.sid = s}
InFlight(s) == \E c \in Clients : req[c].sid = s
Idle(c) == req[c].pc = "idle"

(* Mutant: the lookups do not filter on encrypted = false. *)
Candidates_Encrypted(h) == {f \in FileIds : Active(f) /\ files[f].hash = h}
(* The rows the dedup lookups search, for a given hash. *)
Candidates(h) == {f \in FileIds : /\ Active(f) /\ ~files[f].enc
                                  /\ files[f].hash = h}
(* The result of an ORDER BY created_at .. LIMIT 1: a set of one row id.     *)
First(S) == IF S = {} THEN {NoRow} ELSE {f \in S : \A g \in S : f <= g}
(* FindDeduplicateFile: ORDER BY referenced_file_id IS NOT NULL, created_at *)
FindDeduplicateFile(h) ==
    LET canonical == {f \in Candidates(h) : files[f].ref = NoRow}
    IN IF h = None THEN {NoRow}
       ELSE First(IF canonical # {} THEN canonical ELSE Candidates(h))

(* Mutant: the status of a new row is not set. *)
NewRow_NoStatus(r, ref) ==
    [ status |-> "", name |-> r.name, part |-> r.part, hash |-> r.hash,
      ref |-> ref, enc |-> r.enc, empty |-> r.empty ]
(* The row a create or a copy inserts. *)
NewRow(r, ref) ==
    [ status |-> "active", name |-> r.name, part |-> r.part, hash |-> r.hash,
      ref |-> ref, enc |-> r.enc, empty |-> r.empty ]

(* Columns that an update does not set keep their value. *)
UpdatedRow(row, r) ==
    [ row EXCEPT !.part = IF r.part = NoPart THEN @ ELSE r.part,
                 !.empty = r.empty,
                 !.hash = IF r.hash = None THEN @ ELSE r.hash,
                 !.enc = IF r.op = "truncate" THEN @ ELSE r.enc,
                 !.ref = IF r.hit # NoRow THEN r.hit
                         ELSE IF r.clear THEN NoRow ELSE @ ]

SetReq(c, r) == req' = [req EXCEPT ![c] = r]
Remove(S) == [m \in MsgIds |-> IF m \in S THEN [msgs[m] EXCEPT !.state = "deleted"]
                                ELSE msgs[m]]

-----------------------------------------------------------------------------
(* Uploads *)

(* UploadsUpload: send the message, then insert the uploads row.            *)
UploadPart(s, d, h, e) ==
    /\ ~InFlight(s) /\ SessionRows(s) = {}
    /\ sessions[s].sent = "none" \/ "reuse" \in Features
    /\ \E m \in MsgIds :
        /\ FreshMsg(m)
        /\ msgs' = [msgs EXCEPT ![m] = [state |-> "stored", data |-> d, enc |-> e]]
        /\ uploads' = uploads \cup
             {[sid |-> s, part |-> m, hashed |-> h, expired |-> FALSE]}
    /\ sessions' = [sessions EXCEPT ![s] =
                      [data |-> d, enc |-> e, sent |-> "open", fid |-> NoRow]]
    /\ UNCHANGED <<files, req, jobs, history>>

(* UploadsDelete drops the rows and leaves the messages.  Clients call it to *)
(* abandon an upload, or after a create that named the parts themselves.     *)
UploadsDelete(s) ==
    /\ "uploadsDelete" \in Features
    /\ ~InFlight(s) /\ SessionRows(s) # {}
    /\ uploads' = uploads \ SessionRows(s)
    /\ sessions' = [sessions EXCEPT ![s].sent =
                      IF @ = "open" THEN "none" ELSE @]
    /\ UNCHANGED <<files, msgs, req, jobs, history>>

(* The retention period of an upload row passes. *)
Expire(u) ==
    /\ "cleanUploads" \in Features
    /\ ~u.expired
    /\ uploads' = (uploads \ {u}) \cup {[u EXCEPT !.expired = TRUE]}
    /\ aged' = aged \cup {u.part}
    /\ UNCHANGED <<files, msgs, sessions, req, jobs, intent, linked>>

-----------------------------------------------------------------------------
(* FilesCreate *)

(* The block hashes of the session give the hash without reading content.   *)
SessionHash(s) == IF \E u \in SessionRows(s) : u.hashed THEN sessions[s].data
                  ELSE None
SessionPart(s) == IF SessionRows(s) = {} THEN NoPart
                  ELSE (CHOOSE u \in SessionRows(s) : TRUE).part

(* The part of FilesCreate before its transaction, for a client that names  *)
(* its upload session.  A client that saw no answer sends it again.         *)
CreateLoad(c, s) ==
    /\ "create" \in Features
    /\ Idle(c) /\ ~InFlight(s)
    /\ \/ sessions[s].sent = "open"
       \/ /\ sessions[s].sent = "create" /\ "retry" \in Features
          /\ SessionRows(s) = {}
    /\ SetReq(c, [IdleRequest EXCEPT
            !.op = "create", !.pc = "loaded", !.sid = s, !.name = TargetOf[s],
            !.part = SessionPart(s), !.hash = SessionHash(s),
            !.enc = sessions[s].enc, !.meant = sessions[s].data])
    /\ UNCHANGED <<server, msgs, sessions, jobs, history>>

(* An older client sends the parts and no upload id: the content is read    *)
(* back from Telegram to hash it, and a failure leaves the hash NULL.       *)
CreateDirectLoad(c, s, h) ==
    /\ "createDirect" \in Features
    /\ Idle(c) /\ ~InFlight(s)
    /\ sessions[s].sent = "open" /\ SessionRows(s) # {}
    /\ LET m == SessionPart(s) IN
        /\ h = sessions[s].data => ~sessions[s].enc /\ msgs[m].state = "stored"
        /\ h \in {sessions[s].data, None}
        /\ SetReq(c, [IdleRequest EXCEPT
                !.op = "createDirect", !.pc = "loaded", !.sid = s,
                !.name = TargetOf[s], !.part = m, !.hash = h,
                !.enc = sessions[s].enc, !.meant = sessions[s].data])
    /\ UNCHANGED <<server, msgs, sessions, jobs, history>>

(* A file of size 0 has no upload and the hash of no data. *)
CreateEmptyLoad(c, n) ==
    /\ "createEmpty" \in Features
    /\ Idle(c)
    /\ SetReq(c, [IdleRequest EXCEPT
            !.op = "createEmpty", !.pc = "loaded", !.name = n, !.hash = Empty,
            !.empty = TRUE, !.meant = Empty])
    /\ UNCHANGED <<server, msgs, sessions, jobs, history>>

(* The dedup SELECT .. FOR UPDATE SKIP LOCKED of the create transaction. *)
CreateSelect(c) ==
    /\ req[c].op \in CreateOps /\ req[c].pc = "loaded"
    /\ \E hit \in IF req[c].enc \/ req[c].hash = None THEN {NoRow}
                   ELSE First({f \in Candidates(req[c].hash) : ~Locked(f)}) :
          SetReq(c, [req[c] EXCEPT
              !.pc = "tx", !.hit = hit,
              !.part = IF hit = NoRow THEN @ ELSE files[hit].part])
    /\ UNCHANGED <<server, msgs, sessions, jobs, history>>

(* The upsert, the delete of the uploads rows and the commit.               *)
CreateCommit(c) ==
    LET r == req[c] IN
    /\ r.op \in CreateOps /\ r.pc = "tx"
    /\ \E f \in FileIds :
        /\ IF Named(r.name) # {} THEN f \in Named(r.name) ELSE FreshRow(f)
        /\ ~LockedByOther(f, c)
        /\ files' = [files EXCEPT ![f] = NewRow(r, r.hit)]
        /\ intent' = [intent EXCEPT ![f] = r.meant]
    /\ uploads' = IF r.op = "create" THEN uploads \ SessionRows(r.sid)
                  ELSE uploads
    /\ sessions' = IF r.sid = None THEN sessions
                   ELSE [sessions EXCEPT ![r.sid].sent =
                           IF r.op = "create" THEN "create" ELSE "direct"]
    /\ linked' = IF r.hit # NoRow THEN linked \cup ({r.part} \ {NoPart})
                 ELSE linked
    /\ SetReq(c, IdleRequest)
    /\ UNCHANGED <<msgs, jobs, aged>>

(* A request fails and its transaction rolls back: a lost connection, a     *)
(* constraint violation, or the victim of a deadlock between two creates    *)
(* that hold the row the other one upserts.                                 *)
Abort(c) ==
    /\ ~Idle(c)
    /\ SetReq(c, IdleRequest)
    /\ UNCHANGED <<server, msgs, sessions, jobs, history>>

-----------------------------------------------------------------------------
(* FilesUpdate *)

(* With an upload id and no size: no rows left means a size of 0.           *)
UpdateLoad(c, s, f) ==
    /\ "update" \in Features
    /\ Idle(c) /\ ~InFlight(s)
    /\ \/ sessions[s].sent = "open" /\ Active(f)
       \/ /\ sessions[s].sent = "update" /\ sessions[s].fid = f
          /\ "retry" \in Features /\ SessionRows(s) = {}
    /\ SetReq(c, [IdleRequest EXCEPT
            !.op = "update", !.pc = "loaded", !.sid = s, !.fid = f,
            !.part = SessionPart(s), !.hash = SessionHash(s),
            !.enc = sessions[s].enc, !.empty = SessionRows(s) = {},
            !.meant = sessions[s].data])
    /\ UNCHANGED <<server, msgs, sessions, jobs, history>>

(* With the parts and the size sent by the client: no block hashes.         *)
UpdateDirectLoad(c, s, f) ==
    /\ "updateDirect" \in Features
    /\ Idle(c) /\ ~InFlight(s)
    /\ sessions[s].sent = "open" /\ SessionRows(s) # {} /\ Active(f)
    /\ SetReq(c, [IdleRequest EXCEPT
            !.op = "updateDirect", !.pc = "loaded", !.sid = s, !.fid = f,
            !.part = SessionPart(s), !.enc = sessions[s].enc,
            !.meant = sessions[s].data])
    /\ UNCHANGED <<server, msgs, sessions, jobs, history>>

(* With a size of 0. *)
TruncateLoad(c, f) ==
    /\ "truncate" \in Features
    /\ Idle(c) /\ Active(f)
    /\ SetReq(c, [IdleRequest EXCEPT
            !.op = "truncate", !.pc = "loaded", !.fid = f,
            !.empty = TRUE, !.meant = Empty])
    /\ UNCHANGED <<server, msgs, sessions, jobs, history>>

(* The reads of the update transaction: the current row, and the lookup of  *)
(* another file with the new hash.                                          *)
UpdateRead(c) ==
    LET r == req[c] IN
    /\ r.op \in UpdateOps /\ r.pc = "loaded"
    /\ Present(r.fid)
    /\ \E found \in FindDeduplicateFile(r.hash) :
        LET hit == IF found = r.fid THEN NoRow ELSE found IN
        SetReq(c, [r EXCEPT !.pc = "tx", !.hit = hit,
                            !.clear = files[r.fid].ref # NoRow /\ hit = NoRow])
    /\ UNCHANGED <<server, msgs, sessions, jobs, history>>

(* Its writes and its commit; the foreign key refuses a reference to a row  *)
(* that is gone.                                                            *)
UpdateCommit(c) ==
    LET r == req[c]
        f == r.fid
    IN
    /\ r.op \in UpdateOps /\ r.pc = "tx"
    /\ Present(f) /\ ~LockedByOther(f, c)
    /\ r.hit # NoRow => Present(r.hit) /\ ~LockedByOther(r.hit, c)
    /\ files' = [files EXCEPT ![f] = UpdatedRow(@, r)]
    /\ intent' = [intent EXCEPT ![f] = r.meant]
    /\ uploads' = IF r.op = "update" THEN uploads \ SessionRows(r.sid)
                  ELSE uploads
    /\ sessions' = IF r.sid = None THEN sessions
                   ELSE [sessions EXCEPT
                           ![r.sid].sent = IF r.op = "update" THEN "update"
                                           ELSE "direct",
                           ![r.sid].fid = f]
    /\ SetReq(c, IdleRequest)
    /\ UNCHANGED <<msgs, jobs, linked, aged>>

-----------------------------------------------------------------------------
(* FilesCopy and FilesDelete *)

(* Mutant: the copy lists the messages of the original. *)
CopySend_SameParts(c, f, n) ==
    /\ "copy" \in Features
    /\ Idle(c) /\ Present(f)
    /\ files[f].part # NoPart /\ msgs[files[f].part].state = "stored"
    /\ SetReq(c, [IdleRequest EXCEPT
            !.op = "copy", !.pc = "loaded", !.name = n, !.part = files[f].part,
            !.hash = files[f].hash, !.enc = files[f].enc,
            !.empty = files[f].empty, !.meant = intent[f]])
    /\ UNCHANGED <<server, msgs, sessions, jobs, history>>
(* Read the row, whatever its status, then send every part again as a new   *)
(* message.                                                                 *)
CopySend(c, f, n) ==
    /\ "copy" \in Features
    /\ Idle(c) /\ Present(f)
    /\ files[f].part # NoPart /\ msgs[files[f].part].state = "stored"
    /\ \E m \in MsgIds :
        /\ FreshMsg(m)
        /\ msgs' = [msgs EXCEPT ![m] = msgs[files[f].part]]
        /\ SetReq(c, [IdleRequest EXCEPT
                !.op = "copy", !.pc = "loaded", !.name = n, !.part = m,
                !.hash = files[f].hash, !.enc = files[f].enc,
                !.empty = files[f].empty, !.meant = intent[f]])
    /\ UNCHANGED <<server, sessions, jobs, history>>

(* Insert the copy; the unique index refuses a name that is taken.          *)
CopyInsert(c) ==
    LET r == req[c] IN
    /\ r.op = "copy" /\ r.pc = "loaded"
    /\ Named(r.name) = {}
    /\ \E f \in FileIds :
        /\ FreshRow(f)
        /\ files' = [files EXCEPT ![f] = NewRow(r, NoRow)]
        /\ intent' = [intent EXCEPT ![f] = r.meant]
    /\ SetReq(c, IdleRequest)
    /\ UNCHANGED <<uploads, msgs, sessions, jobs, linked, aged>>

(* deleteFilesBulk marks the file; it looks at no other row.                *)
Delete(f) ==
    /\ "delete" \in Features
    /\ Active(f) /\ ~Locked(f)
    /\ files' = [files EXCEPT ![f].status = "pending_deletion"]
    /\ UNCHANGED <<uploads, msgs, sessions, req, jobs, history>>

-----------------------------------------------------------------------------
(* Cron job cleanFiles *)

(* Mutants: the SELECT does not filter on the status; it skips files without *)
(* parts.                                                                    *)
PendingRows_AnyStatus == {[id |-> f, part |-> files[f].part] :
                            f \in {g \in FileIds : Present(g)}}
PendingRows_WithParts == {[id |-> f, part |-> files[f].part] :
                            f \in {g \in FileIds : /\ files[g].status = "pending_deletion"
                                                    /\ files[g].part # NoPart}}
PendingRows == {[id |-> f, part |-> files[f].part] :
                  f \in {g \in FileIds : files[g].status = "pending_deletion"}}
PartsOf(rows) == {x.part : x \in rows} \ {NoPart}
IdsOf(rows) == {x.id : x \in rows}

CleanSelect ==
    /\ "cleanFiles" \in Features
    /\ cleaner.pc = "idle" /\ PendingRows # {}
    /\ cleaner' = [pc |-> "selected", rows |-> PendingRows]
    /\ UNCHANGED <<server, msgs, sessions, req, upCleaner, dedup, history>>

CleanMessages ==
    /\ cleaner.pc = "selected"
    /\ msgs' = Remove(PartsOf(cleaner.rows))
    /\ cleaner' = [cleaner EXCEPT !.pc = "purged"]
    /\ UNCHANGED <<server, sessions, req, upCleaner, dedup, history>>

(* Batches are deleted concurrently, so an error can come after some.       *)
CleanFail(S) ==
    /\ cleaner.pc = "selected"
    /\ S \subseteq PartsOf(cleaner.rows)
    /\ msgs' = Remove(S)
    /\ cleaner' = [pc |-> "idle", rows |-> {}]
    /\ UNCHANGED <<server, sessions, req, upCleaner, dedup, history>>

(* Mutant: the foreign key has no ON DELETE SET NULL. *)
Purged_NoSetNull(ids) == [f \in FileIds |->
    IF f \in ids THEN [FreeRow EXCEPT !.status = "removed"] ELSE files[f]]
(* The rows are gone and the foreign key has set the references to them to  *)
(* NULL.                                                                    *)
Purged(ids) == [f \in FileIds |->
    IF f \in ids THEN [FreeRow EXCEPT !.status = "removed"]
    ELSE IF files[f].ref \in ids THEN [files[f] EXCEPT !.ref = NoRow]
    ELSE files[f]]

CleanRows ==
    LET ids == IdsOf(cleaner.rows) IN
    /\ cleaner.pc = "purged"
    /\ \A f \in FileIds : f \in ids \/ files[f].ref \in ids => ~Locked(f)
    /\ files' = Purged(ids)
    /\ cleaner' = [pc |-> "idle", rows |-> {}]
    /\ UNCHANGED <<uploads, msgs, sessions, req, upCleaner, dedup, history>>

(* The DELETE fails, which the code ignores, or the process stops.          *)
CleanCrash ==
    /\ cleaner.pc = "purged"
    /\ cleaner' = [pc |-> "idle", rows |-> {}]
    /\ UNCHANGED <<server, msgs, sessions, req, upCleaner, dedup, history>>

-----------------------------------------------------------------------------
(* Cron job cleanUploads *)

(* Mutant: the SELECT does not compare created_at with the retention. *)
UpSelect_AnyAge ==
    /\ upCleaner.pc = "idle"
    /\ uploads # {}
    /\ upCleaner' = [pc |-> "selected", parts |-> {u.part : u \in uploads}]
    /\ UNCHANGED <<server, msgs, sessions, req, cleaner, dedup, history>>
UpSelect ==
    /\ upCleaner.pc = "idle"
    /\ \E u \in uploads : u.expired
    /\ upCleaner' = [pc |-> "selected",
                     parts |-> {u.part : u \in {v \in uploads : v.expired}}]
    /\ UNCHANGED <<server, msgs, sessions, req, cleaner, dedup, history>>

UpMessages ==
    /\ upCleaner.pc = "selected"
    /\ msgs' = Remove(upCleaner.parts)
    /\ upCleaner' = [upCleaner EXCEPT !.pc = "purged"]
    /\ UNCHANGED <<server, sessions, req, cleaner, dedup, history>>

UpFail(S) ==
    /\ upCleaner.pc = "selected"
    /\ S \subseteq upCleaner.parts
    /\ msgs' = Remove(S)
    /\ upCleaner' = [pc |-> "idle", parts |-> {}]
    /\ UNCHANGED <<server, sessions, req, cleaner, dedup, history>>

(* The process stops, or the DELETE fails and the code ignores it. *)
UpCrash ==
    /\ upCleaner.pc = "purged"
    /\ upCleaner' = [pc |-> "idle", parts |-> {}]
    /\ UNCHANGED <<server, msgs, sessions, req, cleaner, dedup, history>>

UpRows ==
    /\ upCleaner.pc = "purged"
    /\ uploads' = {u \in uploads : u.part \notin upCleaner.parts}
    /\ upCleaner' = [pc |-> "idle", parts |-> {}]
    /\ UNCHANGED <<files, msgs, sessions, req, cleaner, dedup, history>>

-----------------------------------------------------------------------------
(* RunDedupForUser *)

SnapshotOf(f) == [id |-> f, part |-> files[f].part, hash |-> files[f].hash]

DedupLoad ==
    /\ "dedup" \in Features
    /\ dedup.pc = "idle"
    /\ dedup' = [pc |-> "loaded", todo |-> {}, links |-> {}, skipped |-> {},
                 found |-> {SnapshotOf(f) : f \in
                   {g \in FileIds : /\ Active(g) /\ ~files[g].enc
                                    /\ files[g].hash # None}}]
    /\ UNCHANGED <<server, msgs, sessions, req, cleaner, upCleaner, history>>

(* backfillUserHashes: load the rows without a hash. *)
BackfillLoad ==
    /\ "backfill" \in Features
    /\ dedup.pc = "loaded"
    /\ dedup' = [dedup EXCEPT !.pc = "backfill",
                   !.todo = {[id |-> f, part |-> files[f].part,
                              empty |-> files[f].empty] : f \in
                     {g \in FileIds : /\ Active(g) /\ ~files[g].enc
                                      /\ files[g].hash = None}}]
    /\ UNCHANGED <<server, msgs, sessions, req, cleaner, upCleaner, history>>

(* Read one of them back from Telegram and store its hash; a file of size 0 *)
(* is not read.                                                             *)
BackfillOne(x) ==
    /\ dedup.pc = "backfill"
    /\ x.empty \/ (x.part # NoPart /\ msgs[x.part].state = "stored")
    /\ ~Locked(x.id)
    /\ LET h == IF x.empty THEN Empty ELSE msgs[x.part].data IN
        /\ files' = IF Present(x.id) THEN [files EXCEPT ![x.id].hash = h]
                    ELSE files
        /\ dedup' = [dedup EXCEPT
               !.todo = @ \ {x},
               !.found = @ \cup {[id |-> x.id, part |-> x.part, hash |-> h]}]
    /\ UNCHANGED <<uploads, msgs, sessions, req, cleaner, upCleaner, history>>

(* One that cannot be read, or whose row stays locked, is skipped.          *)
BackfillSkip(x) ==
    /\ dedup.pc = "backfill"
    /\ dedup' = [dedup EXCEPT !.todo = @ \ {x}]
    /\ UNCHANGED <<server, msgs, sessions, req, cleaner, upCleaner, history>>

(* Group by hash; the first row of a group, in no stated order, is canonical *)
DedupGroup(canon) ==
    /\ \/ dedup.pc = "loaded" /\ "backfill" \notin Features
       \/ dedup.pc = "backfill" /\ dedup.todo = {}
    /\ canon \subseteq dedup.found
    /\ \A x \in dedup.found : \E y \in canon : y.hash = x.hash
    /\ \A x, y \in canon : x.hash = y.hash => x = y
    /\ dedup' = [dedup EXCEPT !.pc = "link",
          !.links = {l \in Link : \E x \in dedup.found \ canon, y \in canon :
                        /\ x.hash = y.hash
                        /\ l = [dup |-> x.id, canon |-> y.id, part |-> y.part]}]
    /\ UNCHANGED <<server, msgs, sessions, req, cleaner, upCleaner, history>>

(* Mutant: the parts column is left out of the UPDATE. *)
DedupLink_RefOnly(l) ==
    /\ dedup.pc = "link"
    /\ ~Locked(l.dup) /\ ~Locked(l.canon)
    /\ Present(l.dup) => Present(l.canon)
    /\ files' = IF Present(l.dup) THEN [files EXCEPT ![l.dup].ref = l.canon]
                ELSE files
    /\ dedup' = [dedup EXCEPT !.links = @ \ {l}]
    /\ UNCHANGED <<uploads, msgs, sessions, req, cleaner, upCleaner, history>>
(* UPDATE .. WHERE id = dup: whatever the row has become since the load.    *)
DedupLink(l) ==
    /\ dedup.pc = "link"
    /\ ~Locked(l.dup) /\ ~Locked(l.canon)
    /\ Present(l.dup) => Present(l.canon)
    /\ files' = IF Present(l.dup)
                THEN [files EXCEPT ![l.dup].ref = l.canon,
                                   ![l.dup].part = l.part]
                ELSE files
    /\ linked' = IF Present(l.dup) THEN linked \cup ({l.part} \ {NoPart})
                 ELSE linked
    /\ dedup' = [dedup EXCEPT !.links = @ \ {l}]
    /\ UNCHANGED <<uploads, msgs, sessions, req, cleaner, upCleaner, intent, aged>>

(* Every retry hit the transient index lock: the file is skipped.           *)
DedupSkip(l) ==
    /\ dedup.pc = "link"
    /\ dedup' = [dedup EXCEPT !.links = @ \ {l}, !.skipped = @ \cup {l.dup}]
    /\ UNCHANGED <<server, msgs, sessions, req, cleaner, upCleaner, history>>

(* The run completes, fails (any other error, such as a canonical row that  *)
(* is gone), or its process stops.                                          *)
DedupEnd ==
    /\ dedup.pc # "idle"
    /\ dedup' = [pc |-> "idle", found |-> {}, todo |-> {}, links |-> {},
                 skipped |-> {}]
    /\ UNCHANGED <<server, msgs, sessions, req, cleaner, upCleaner, history>>

-----------------------------------------------------------------------------
Upload ==
    \/ \E s \in Sessions, d \in Contents, h \in Hashing, e \in Encryption :
          UploadPart(s, d, h, e)
    \/ \E s \in Sessions : UploadsDelete(s)
    \/ \E u \in uploads : Expire(u)

Create(c) ==
    \/ \E s \in Sessions : CreateLoad(c, s)
    \/ \E s \in Sessions, h \in Contents \cup {None} : CreateDirectLoad(c, s, h)
    \/ \E n \in Names : CreateEmptyLoad(c, n)
    \/ CreateSelect(c)
    \/ CreateCommit(c)

Update(c) ==
    \/ \E s \in Sessions, f \in FileIds : UpdateLoad(c, s, f)
    \/ \E s \in Sessions, f \in FileIds : UpdateDirectLoad(c, s, f)
    \/ \E f \in FileIds : TruncateLoad(c, f)
    \/ UpdateRead(c)
    \/ UpdateCommit(c)

Copy(c) ==
    \/ \E f \in FileIds, n \in Names : CopySend(c, f, n)
    \/ CopyInsert(c)

Clean ==
    \/ CleanSelect
    \/ CleanMessages
    \/ \E S \in SUBSET PartsOf(cleaner.rows) : CleanFail(S)
    \/ CleanRows
    \/ CleanCrash

CleanUp ==
    \/ UpSelect
    \/ UpMessages
    \/ \E S \in SUBSET upCleaner.parts : UpFail(S)
    \/ UpCrash
    \/ UpRows

Dedup ==
    \/ DedupLoad
    \/ BackfillLoad
    \/ \E x \in dedup.todo : BackfillOne(x)
    \/ \E x \in dedup.todo : BackfillSkip(x)
    \/ \E canon \in SUBSET dedup.found : DedupGroup(canon)
    \/ \E l \in dedup.links : DedupLink(l)
    \/ \E l \in dedup.links : DedupSkip(l)
    \/ DedupEnd

Next ==
    \/ Upload
    \/ \E c \in Clients : Create(c) \/ Update(c) \/ Copy(c) \/ Abort(c)
    \/ \E f \in FileIds : Delete(f)
    \/ Clean
    \/ CleanUp
    \/ Dedup

Spec == Init /\ [][Next]_vars
-----------------------------------------------------------------------------
(* Properties *)

(* Every variable stays within its columns and fields.                      *)
TypeOK ==
    /\ files \in [FileIds -> Row]
    /\ msgs \in [MsgIds -> Message]
    /\ uploads \in SUBSET UploadRow
    /\ sessions \in [Sessions -> Session]
    /\ req \in [Clients -> Request]
    /\ \A c \in Clients : req[c].op \in UpdateOps => req[c].fid # NoRow
    /\ cleaner \in [pc : {"idle", "selected", "purged"}, rows : SUBSET IdRow]
    /\ upCleaner \in [pc : {"idle", "selected", "purged"}, parts : SUBSET MsgIds]
    /\ dedup \in [pc : {"idle", "loaded", "backfill", "link"},
                  found : SUBSET Snapshot, todo : SUBSET HashJob,
                  links : SUBSET Link, skipped : SUBSET FileIds]
    /\ intent \in [FileIds -> Datum]
    /\ linked \in SUBSET MsgIds /\ aged \in SUBSET MsgIds

(* Between the dedup SELECT of a create and its commit, the file it found   *)
(* stays active, unencrypted and with the hash and parts it was found with: *)
(* no update, delete, purge or dedup job may touch it (FOR UPDATE).         *)
CanonicalPinned ==
    \A c \in Clients : LET r == req[c] IN
        r.op \in CreateOps /\ r.pc = "tx" /\ r.hit # NoRow =>
            /\ Active(r.hit) /\ ~files[r.hit].enc
            /\ files[r.hit].hash = r.hash /\ files[r.hit].part = r.part

(* A reference to a canonical file never dangles, whichever of the purge,   *)
(* the create, the update and the dedup job writes last.                    *)
ReferencesExist ==
    \A f \in FileIds : files[f].ref # NoRow => Present(f) /\ Present(files[f].ref)

(* The parts of a file are not read by anyone else unless dedup shared them *)
(* or their upload row outlived the retention period.                       *)
Explained(m) == m \in linked \cup aged \cup {NoPart}
Holders(m) == {f \in FileIds : Present(f) /\ files[f].part = m}

(* An active file loses its content only if deduplication listed the        *)
(* message in a second row, or the upload row of the message outlived the   *)
(* retention: no other order of uploads, commits, copies, overwrites,       *)
(* deletes and failed cleaning runs deletes a message that a file lists.    *)
LossHasCause ==
    \A f \in FileIds :
        /\ Active(f) /\ ~files[f].empty
        /\ files[f].part # NoPart /\ msgs[files[f].part].state = "deleted"
        => Explained(files[f].part)

(* The conjuncts that make LossHasCause inductive. *)
MessagesSent ==
    /\ \A f \in FileIds : Present(f) /\ ~Explained(files[f].part) =>
          msgs[files[f].part].state # "unsent"
    /\ \A u \in uploads : ~Explained(u.part) => msgs[u.part].state # "unsent"
    /\ \A x \in cleaner.rows : ~Explained(x.part) => msgs[x.part].state # "unsent"
    /\ \A c \in Clients : req[c].op = "copy" /\ ~Explained(req[c].part) =>
          msgs[req[c].part].state # "unsent"

UploadsDistinct ==
    \A u, v \in uploads : u.sid = v.sid \/ (u.part = v.part /\ ~Explained(u.part))
        => u = v

SessionsSerial ==
    \A c, d \in Clients : req[c].sid = req[d].sid /\ req[c].sid # None => c = d

SharedIsLinked ==
    \A f, g \in FileIds :
        /\ Present(f) /\ Present(g) /\ files[f].part = files[g].part
        /\ ~Explained(files[f].part)
        => f = g

(* The cleaner's snapshot stays right while it talks to Telegram: a row in  *)
(* it never becomes active again, and no active file lists its parts except *)
(* through deduplication.                                                   *)
CleanerRowsDoomed ==
    \A x \in cleaner.rows :
        /\ files[x.id].status \in {"pending_deletion", "removed"}
        /\ ~Explained(x.part) => \A g \in Holders(x.part) : ~Active(g)

(* Until it is committed an upload belongs to its session alone.            *)
UploadIsPrivate(m) ==
    /\ msgs[m].state = "stored"
    /\ Holders(m) = {}
    /\ m \notin PartsOf(cleaner.rows)

UncommittedIsPrivate ==
    /\ \A u \in uploads :
          sessions[u.sid].sent = "open" /\ ~Explained(u.part) => UploadIsPrivate(u.part)
    /\ \A c \in Clients : req[c].op = "copy" /\ ~Explained(req[c].part) =>
          /\ UploadIsPrivate(req[c].part)
          /\ \A u \in uploads : u.part # req[c].part
          /\ \A d \in Clients : req[d].op = "copy" /\ req[d].part = req[c].part => c = d

(* What a request writes is still backed by the upload it was loaded from.  *)
OwnPart(c) == req[c].sid # None /\ (req[c].op \in UpdateOps \/ req[c].hit = NoRow)
RequestsBacked ==
    \A c \in Clients : OwnPart(c) /\ ~Explained(req[c].part) =>
        /\ sessions[req[c].sid].sent = "open"
        /\ \E u \in uploads : u.sid = req[c].sid /\ u.part = req[c].part

AgedUploads ==
    /\ \A u \in uploads : u.expired => u.part \in aged
    /\ upCleaner.parts \subseteq aged

(* A create has no file of another one before its lookup, and a request     *)
(* without an upload writes no parts but those of a file it found.          *)
RequestsShaped ==
    \A c \in Clients : LET r == req[c] IN
        /\ r.op \in CreateOps /\ r.pc = "loaded" => r.hit = NoRow
        /\ r.sid = None /\ r.op # "copy" /\ (r.op \in UpdateOps \/ r.hit = NoRow)
           => r.part = NoPart

(* A truncated file keeps its parts, and they may count again.              *)
NothingLost ==
    \A f \in FileIds : Active(f) /\ ~Explained(files[f].part) =>
        msgs[files[f].part].state # "deleted"

(* No content is lost without one of the causes of Explained, and what keeps *)
(* it so, whatever requests, jobs and their failures come in between: what   *)
(* the cleaner selected stays doomed, an upload belongs to its session until *)
(* it is committed, a message has one owner or owners that are linked, and   *)
(* only an upload past its retention is cleaned up (cleanFiles, cleanUploads,*)
(* FilesCreate).                                                             *)
LossInv ==
    /\ LossHasCause /\ MessagesSent /\ UploadsDistinct /\ SessionsSerial
    /\ SharedIsLinked /\ CleanerRowsDoomed /\ UncommittedIsPrivate
    /\ RequestsBacked /\ AgedUploads /\ RequestsShaped /\ NothingLost

(* A file marked for deletion is never served again: an upload of the same  *)
(* name, an update in flight or a dedup link leave its status alone.        *)
DeletionIsFinal ==
    [][\A f \in FileIds : files[f].status = "pending_deletion" =>
          files'[f].status \in {"pending_deletion", "removed"}]_vars

(* Of the deployments without deduplication runs, unhashed uploads and      *)
(* retried requests: what a file reads as is what a client last wrote to    *)
(* it, and never another file's content, even though creates and updates    *)
(* hand the parts of one file to another.  A file that waits for its        *)
(* deletion included: FilesCopy takes it by its id.                         *)
Readable(f) == files[f].part # NoPart /\ msgs[files[f].part].state = "stored"
NeverWrongContent ==
    \A f \in FileIds : Present(f) =>
        /\ files[f].empty => intent[f] = Empty
        /\ ~files[f].empty /\ Readable(f) =>
              msgs[files[f].part].data = intent[f]
              /\ msgs[files[f].part].enc = files[f].enc

(* The hash by which an unencrypted file is found is the hash of its parts. *)
HashMatchesContent ==
    \A f \in FileIds :
        /\ Present(f) /\ ~files[f].enc /\ files[f].hash # None
        /\ files[f].part # NoPart
        => /\ msgs[files[f].part].data = files[f].hash
           /\ ~msgs[files[f].part].enc

(* What keeps the contents right in these deployments.  There is no row for *)
(* cleanUploads and no deduplication run.                                   *)
Plain ==
    /\ Hashing \subseteq {TRUE}
    /\ Features \cap {"updateDirect", "retry", "cleanUploads", "dedup", "backfill"} = {}

NoJobs ==
    /\ dedup.pc = "idle" /\ upCleaner.pc = "idle"
    /\ \A u \in uploads : ~u.expired

(* A listed message was sent, so that what is in it never changes.          *)
Sent(m) == m # NoPart => msgs[m].state # "unsent"
PartsSent ==
    /\ \A f \in FileIds : Present(f) => Sent(files[f].part)
    /\ \A c \in Clients : Sent(req[c].part)

(* The row of an open session holds what the session sent, and its hash.    *)
UploadsMatch ==
    /\ \A u \in uploads :
          /\ u.hashed /\ Sent(u.part)
          /\ msgs[u.part].data = sessions[u.sid].data /\ msgs[u.part].data # None
          /\ msgs[u.part].enc = sessions[u.sid].enc
    /\ \A s \in Sessions : sessions[s].sent = "open" => SessionRows(s) # {}

(* What a request is going to write: the parts, hash and size belong        *)
(* together, of what its client meant to write.                             *)
WriteMatches(r) ==
    /\ r.empty => r.meant = Empty
    /\ r.part # NoPart /\ ~r.empty =>
          msgs[r.part].data = r.meant /\ msgs[r.part].enc = r.enc
    /\ r.part # NoPart /\ r.hash # None /\ ~r.enc =>
          msgs[r.part].data = r.hash /\ ~msgs[r.part].enc
    /\ r.op \in CreateOps /\ r.hash # None => r.hash = r.meant
    /\ r.op = "update" => r.part # NoPart /\ r.hash # None /\ ~r.empty
    /\ r.op = "truncate" => r.part = NoPart /\ r.hash = None /\ r.empty
    /\ r.op # "updateDirect"

(* In these deployments the parts, the hash, the size and the encryption of *)
(* a file belong together, through every request in flight (FilesCreate,    *)
(* FilesUpdate, FilesCopy).                                                 *)
ContentInv ==
    /\ HashMatchesContent /\ NeverWrongContent /\ NoJobs /\ PartsSent /\ UploadsMatch
    /\ \A c \in Clients : WriteMatches(req[c])

(* When a deduplication run has worked through its links, the files it      *)
(* loaded with the same hash, did not skip and that are still there list    *)
(* the same parts.                                                          *)
DedupCollapses ==
    dedup.pc = "link" /\ dedup.links = {} =>
        \A p, q \in dedup.found :
            /\ p.hash = q.hash /\ {p.id, q.id} \cap dedup.skipped = {}
            /\ Active(p.id) /\ Active(q.id)
            => files[p.id].part = files[q.id].part

(* A file marked for deletion is purged in the end: the job runs every hour *)
(* (weak fairness of CleanSelect), the Telegram call that it repeats does   *)
(* not fail for ever (strong fairness), the process does not crash for ever *)
(* between that call and the DELETE, the DELETE waits for row locks, and    *)
(* the transaction that holds one commits or rolls back.                    *)
Fairness ==
    /\ WF_vars(CleanSelect)
    /\ SF_vars(CleanMessages)
    /\ SF_vars(CleanRows) /\ <>[][~CleanCrash]_vars
    /\ \A c \in Clients : WF_vars(CreateCommit(c) \/ Abort(c))
FairSpec == Spec /\ Fairness

PendingPurged ==
    \A f \in FileIds :
        files[f].status = "pending_deletion" ~> files[f].status = "removed"

-----------------------------------------------------------------------------
(* What comments and the README say, and the code does not do *)

(* README: copies keep their content when the canonical file is deleted.    *)
CopiesSurvive ==
    \A f \in FileIds : Active(f) /\ ~files[f].empty /\ files[f].part # NoPart =>
        msgs[files[f].part].state = "stored"

=============================================================================
