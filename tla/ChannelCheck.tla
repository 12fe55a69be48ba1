----------------------------- MODULE ChannelCheck -----------------------------
(***************************************************************************)
(* The integrity check of one channel (cmd/check.go), run by hand while    *)
(* the server serves the same user.  It reads the active rows, the         *)
(* messages of the channel and the upload rows one after the other, and    *)
(* then marks rows whose messages it did not see and deletes messages that *)
(* it saw in no row.  The server goes on uploading, committing and         *)
(* deleting between any two of its steps.                                  *)
(*                                                                         *)
(* Every message has the size of one part; a row fits when its size is the *)
(* sum of its parts.                                                       *)
(***************************************************************************)
EXTENDS Naturals, Sequences, FiniteSets

CONSTANTS
    CheckRows,   \* bound on the rows of the channel: ids in order of insertion
    CheckMsgs,   \* bound on the messages of the channel
    CheckParts,  \* bound on the parts of a row
    CheckBatch,  \* rows read by one SELECT, 1000 in the code
    CheckEvents  \* bound on the steps of the server during a run

ASSUME ChannelCheckAssumption ==
    /\ CheckRows \in Nat \ {0} /\ CheckMsgs \in Nat \ {0} /\ CheckParts \in Nat
    /\ CheckBatch \in Nat \ {0} /\ CheckEvents \in Nat

VARIABLES
    ckRows,     \* the rows of teldrive.files with this channel
    ckChannel,  \* the messages in the channel
    ckUploads,  \* the messages listed in teldrive.uploads
    ckClient,   \* a part on its way and a commit on its way
    ck,         \* the run of the check
    ckCause     \* history: what the server and Telegram did during the run

checkVars == <<ckRows, ckChannel, ckUploads, ckClient, ck, ckCause>>

Ids == 1 .. CheckRows
ServiceMsg == 1          \* "channel created": the first message of a channel
Msgs == 1 .. CheckMsgs
PartMsgs == Msgs \ {ServiceMsg}
(* The parts of a row, in the order in which they were sent.               *)
PartLists == {p \in UNION {[1 .. k -> PartMsgs] : k \in 0 .. CheckParts} :
                \A i, j \in DOMAIN p : i < j => p[i] < p[j]}

FileRow == [status : {"free", "active", "pending_deletion", "purged"},
            parts : PartLists, fits : BOOLEAN]
NoFile == [status |-> "free", parts |-> <<>>, fits |-> TRUE]

Active(i) == ckRows[i].status = "active"
PartSet(p) == {p[k] : k \in DOMAIN p}

(* What is asked of the run on the command line.                           *)
Asked == [dry : BOOLEAN, cleanUploads : BOOLEAN, cleanPending : BOOLEAN]

CheckSteps == {"uploads", "count", "rows", "total", "history", "listed",
               "pending", "mark", "orphans", "done", "failed"}

Fresh == [ pc      |-> "uploads",
           files   |-> {},    \* what it has read of the rows
           last    |-> 0,     \* the last id of the last batch
           total   |-> 0,     \* the number of messages before it read them
           msgs    |-> {},    \* the messages it has read
           spared  |-> {},    \* the messages it has found in upload rows
           missing |-> {},    \* the rows it takes for incomplete
           orphans |-> {} ]   \* the messages it takes for orphans

NoCommit == [row |-> 0, parts |-> <<>>, fits |-> TRUE, clear |-> {}]

(* Whatever earlier requests, and whoever else can delete messages, left   *)
(* behind: rows whose messages are gone, messages without a row, upload    *)
(* rows of sessions that were committed part by part.                      *)
CheckInit ==
    /\ ckRows \in [Ids -> {NoFile} \cup
                          [status : {"active", "pending_deletion"},
                           parts : PartLists, fits : BOOLEAN]]
    /\ \A i, j \in Ids : (i < j /\ ckRows[i] = NoFile) => ckRows[j] = NoFile
    /\ \A i \in Ids : ckRows[i].status = "pending_deletion" => ckRows[i].fits
    /\ ckChannel \in SUBSET Msgs
    /\ ckUploads \in SUBSET (ckChannel \ {ServiceMsg})
    /\ ckClient = [sent |-> {}, commit |-> NoCommit]
    /\ \E asked \in Asked : ck = [run |-> Fresh, asked |-> asked]
    /\ ckCause = [written |-> {}, recorded |-> {}, events |-> 0]

-----------------------------------------------------------------------------
(* The run *)

At(pc) == ck.run.pc = pc
Goto_Check(pc) == ck' = [ck EXCEPT !.run.pc = pc]
Proceed(run) == ck' = [ck EXCEPT !.run = run]
Writes == ~ck.asked.dry
OthersIdle == UNCHANGED <<ckClient, ckCause>>

CheckDeleteUploads ==
    /\ At("uploads")
    /\ ckUploads' = IF ck.asked.cleanUploads /\ Writes THEN {} ELSE ckUploads
    /\ Goto_Check("count")
    /\ OthersIdle /\ UNCHANGED <<ckRows, ckChannel>>

(* The statuses loadFiles asks for.                                        *)
Wanted == IF ck.asked.cleanPending /\ ck.asked.dry
          THEN {"active", "pending_deletion"} ELSE {"active"}

WantedIds == {i \in Ids : ckRows[i].status \in Wanted}

CheckCountRows ==
    /\ At("count")
    /\ Goto_Check(IF WantedIds = {} THEN "total" ELSE "rows")
    /\ ckCause' = [ckCause EXCEPT !.written = {}]
    /\ UNCHANGED <<ckRows, ckChannel, ckUploads, ckClient>>

(* The first rows after the last id.                                       *)
NextBatch ==
    LET after == {i \in WantedIds : i > ck.run.last} IN
    {i \in after : Cardinality({j \in after : j <= i}) <= CheckBatch}

CheckLoadRows ==
    /\ At("rows")
    /\ Proceed([ck.run EXCEPT
         !.files = @ \cup {[id |-> i, parts |-> ckRows[i].parts,
                            fits |-> ckRows[i].fits] : i \in NextBatch},
         !.last = IF NextBatch = {} THEN @
                  ELSE CHOOSE i \in NextBatch : \A j \in NextBatch : j <= i,
         !.pc = IF Cardinality(NextBatch) < CheckBatch THEN "total" ELSE "rows"])
    /\ ckCause' = [ckCause EXCEPT !.written = @ \ NextBatch]
    /\ UNCHANGED <<ckRows, ckChannel, ckUploads, ckClient>>

(* An empty channel is taken to be in order, whatever the rows say.        *)
CheckTotal ==
    /\ At("total")
    /\ Proceed([ck.run EXCEPT !.total = Cardinality(ckChannel),
                              !.pc = IF ckChannel = {} THEN "done" ELSE "history"])
    /\ OthersIdle /\ UNCHANGED <<ckRows, ckChannel, ckUploads>>

CheckLoadHistory ==
    /\ At("history")
    /\ Proceed([ck.run EXCEPT
         !.msgs = ckChannel,
         !.pc = IF Cardinality(ckChannel) < ck.run.total THEN "failed" ELSE "listed"])
    /\ OthersIdle /\ UNCHANGED <<ckRows, ckChannel, ckUploads>>

(* The parts of a row that are looked up: up to the first that is missing. *)
LookedUp(file, msgs) ==
    {file.parts[k] : k \in {j \in DOMAIN file.parts :
                              \A i \in 1 .. j - 1 : file.parts[i] \in msgs}}

(* Mutant: only parts that are missing count, not the size.                *)
Incomplete_NoSize(file, msgs) == ~(PartSet(file.parts) \subseteq msgs)

Incomplete(file, msgs) ==
    ~(PartSet(file.parts) \subseteq msgs) \/ ~file.fits

(* Mutant: the messages of sessions that are not committed are not spared. *)
Spared_None == {}

(* The messages of upload rows are taken out of the list of messages.      *)
Spared == IF Writes /\ ~ck.asked.cleanUploads THEN ckUploads ELSE {}

CheckCompare ==
    /\ At("listed")
    /\ LET msgs == ck.run.msgs \ Spared
           known == UNION {LookedUp(f, msgs) : f \in ck.run.files}
       IN  Proceed([ck.run EXCEPT
             !.spared = Spared,
             !.missing = {f.id : f \in {g \in ck.run.files : Incomplete(g, msgs)}},
             !.orphans = msgs \ (known \cup {ServiceMsg}),
             !.pc = "pending"])
    /\ ckCause' = [ckCause EXCEPT !.recorded = {}]
    /\ UNCHANGED <<ckRows, ckChannel, ckUploads, ckClient>>

CheckDeletePending ==
    /\ At("pending")
    /\ ckRows' = [i \in Ids |->
         IF ckRows[i].status = "pending_deletion" /\ ck.asked.cleanPending /\ Writes
         THEN [NoFile EXCEPT !.status = "purged"] ELSE ckRows[i]]
    /\ Goto_Check("mark")
    /\ OthersIdle /\ UNCHANGED <<ckChannel, ckUploads>>

(* deleteFilesBulk by id, whatever has become of the row.                  *)
CheckMarkMissing ==
    /\ At("mark")
    /\ ckRows' = [i \in Ids |->
         IF i \in ck.run.missing /\ Writes /\ ckRows[i].status # "purged"
         THEN [ckRows[i] EXCEPT !.status = "pending_deletion"] ELSE ckRows[i]]
    /\ Goto_Check("orphans")
    /\ OthersIdle /\ UNCHANGED <<ckChannel, ckUploads>>

(* tgc.DeleteMessages, a batch of them.                                    *)
CheckDeleteOrphans(batch) ==
    /\ At("orphans")
    /\ IF ck.run.orphans = {} \/ ~Writes
       THEN Goto_Check("done") /\ UNCHANGED ckChannel
       ELSE /\ batch \subseteq ck.run.orphans /\ batch # {}
            /\ ckChannel' = ckChannel \ batch
            /\ Proceed([ck.run EXCEPT !.orphans = @ \ batch])
    /\ OthersIdle /\ UNCHANGED <<ckRows, ckUploads>>

(* An error of the database or of Telegram ends the run where it is.       *)
CheckFail ==
    /\ ck.run.pc \notin {"done", "failed"}
    /\ Goto_Check("failed")
    /\ OthersIdle /\ UNCHANGED <<ckRows, ckChannel, ckUploads>>

CheckRun ==
    \/ CheckDeleteUploads \/ CheckCountRows \/ CheckLoadRows \/ CheckTotal
    \/ CheckLoadHistory \/ CheckCompare \/ CheckDeletePending \/ CheckMarkMissing
    \/ \E batch \in SUBSET Msgs : CheckDeleteOrphans(batch)
    \/ CheckFail

-----------------------------------------------------------------------------
(* The server and Telegram meanwhile *)

ServerMoves == /\ ck.run.pc \notin {"done", "failed"}
               /\ ckCause.events < CheckEvents
Moved(written, recorded) ==
    ckCause' = [written |-> ckCause.written \cup written,
                recorded |-> ckCause.recorded \cup recorded,
                events |-> ckCause.events + 1]

(* UploadsUpload: the message is sent, then the upload row is written.     *)
SendPart(m) ==
    /\ ServerMoves
    /\ \A n \in ckChannel \cup ckClient.sent \cup ckUploads : n < m
    /\ \A i \in Ids : \A n \in PartSet(ckRows[i].parts) : n < m
    /\ ckChannel' = ckChannel \cup {m}
    /\ ckClient' = [ckClient EXCEPT !.sent = @ \cup {m}]
    /\ Moved({}, {}) /\ UNCHANGED <<ckRows, ckUploads, ck>>

RecordPart(m) ==
    /\ ServerMoves
    /\ m \in ckClient.sent
    /\ ckUploads' = ckUploads \cup {m}
    /\ ckClient' = [ckClient EXCEPT !.sent = @ \ {m}]
    /\ Moved({}, {m}) /\ UNCHANGED <<ckRows, ckChannel, ck>>

(* FilesCreate of a new row or FilesUpdate of the content of one: its      *)
(* parts are those of the upload rows, which the transaction will delete,  *)
(* or those the client names, when they stay.                              *)
CommitLoad(i, session) ==
    /\ ServerMoves
    /\ ckClient.commit = NoCommit
    /\ Active(i) \/ (ckRows[i] = NoFile /\ \A j \in 1 .. i - 1 : ckRows[j] # NoFile)
    /\ \E p \in PartLists :
         /\ p # <<>> /\ PartSet(p) \subseteq ckUploads
         /\ session => PartSet(p) = ckUploads
         /\ ckClient' = [ckClient EXCEPT !.commit =
              [row |-> i, parts |-> p, fits |-> TRUE,
               clear |-> IF session THEN ckUploads ELSE {}]]
    /\ Moved({}, {}) /\ UNCHANGED <<ckRows, ckChannel, ckUploads, ck>>

CommitWrite ==
    /\ ServerMoves
    /\ ckClient.commit # NoCommit
    /\ LET c == ckClient.commit IN
         /\ Active(c.row) \/ ckRows[c.row] = NoFile
         /\ ckRows' = [ckRows EXCEPT ![c.row] =
              [status |-> "active", parts |-> c.parts, fits |-> c.fits]]
         /\ ckUploads' = ckUploads \ c.clear
         /\ Moved({c.row}, {})
    /\ ckClient' = [ckClient EXCEPT !.commit = NoCommit]
    /\ UNCHANGED <<ckChannel, ck>>

(* FilesDelete.                                                            *)
MarkDeleted(i) ==
    /\ ServerMoves
    /\ Active(i)
    /\ ckRows' = [ckRows EXCEPT ![i].status = "pending_deletion"]
    /\ Moved({i}, {}) /\ UNCHANGED <<ckChannel, ckUploads, ckClient, ck>>

(* The cleaning jobs and the user's own Telegram client delete messages.   *)
LoseMessage(m) ==
    /\ ServerMoves
    /\ m \in ckChannel
    /\ ckChannel' = ckChannel \ {m}
    /\ Moved({}, {}) /\ UNCHANGED <<ckRows, ckUploads, ckClient, ck>>

CheckServer ==
    \/ \E m \in PartMsgs : SendPart(m) \/ RecordPart(m) \/ LoseMessage(m)
    \/ \E i \in Ids, session \in BOOLEAN : CommitLoad(i, session)
    \/ CommitWrite
    \/ \E i \in Ids : MarkDeleted(i)

CheckNext == CheckRun \/ CheckServer

CheckSpec == CheckInit /\ [][CheckNext]_checkVars

-----------------------------------------------------------------------------
CheckTypeOK ==
    /\ ckRows \in [Ids -> FileRow]
    /\ ckChannel \subseteq Msgs /\ ckUploads \subseteq PartMsgs
    /\ ckClient.sent \subseteq PartMsgs
    /\ ck.run.pc \in CheckSteps /\ ck.asked \in Asked
    /\ ck.run.missing \subseteq Ids /\ ck.run.orphans \subseteq PartMsgs

(* A step of the check changes nothing in a dry run.  It marks an active   *)
(* row only if the row was written since the check read the rows, its      *)
(* size does not fit, or one of its parts is gone or still has an upload   *)
(* row.  And it deletes a message only if the active rows that list it     *)
(* were written since, and the upload row that lists it, if one does, was  *)
(* written after the check had read them or is one it was told to ignore   *)
(* (process, cmd/check.go:191-357).                                        *)
HarmHasCause ==
    [][ck' # ck /\ CheckRun =>
         /\ ck.asked.dry => UNCHANGED <<ckRows, ckChannel, ckUploads>>
         /\ \A i \in Ids \ ckCause.written :
              (Active(i) /\ ckRows'[i].status # "active") =>
                 \/ ~ckRows[i].fits
                 \/ ~(PartSet(ckRows[i].parts) \subseteq ckChannel)
                 \/ PartSet(ckRows[i].parts) \cap ck.run.spared # {}
         /\ \A m \in ckChannel \ ckChannel' :
              /\ \A i \in Ids \ ckCause.written :
                    Active(i) => m \notin PartSet(ckRows[i].parts)
              /\ m \in ckUploads => m \in ckCause.recorded \/ ck.asked.cleanUploads
      ]_checkVars

(* Nobody else acted during the run.                                       *)
Quiet == ckCause.events = 0

(* A run that ended without an error, was not dry, saw messages and was    *)
(* alone leaves every active row complete and every message but the first  *)
(* listed by a row or by an upload row - also when an earlier run stopped  *)
(* half way.                                                               *)
QuietRunRepairs ==
    (At("done") /\ Quiet /\ Writes /\ ck.run.total > 0) =>
       /\ \A i \in Ids : Active(i) =>
            ckRows[i].fits /\ PartSet(ckRows[i].parts) \subseteq ckChannel
       /\ ckChannel \subseteq {ServiceMsg} \cup ckUploads \cup
            UNION {PartSet(ckRows[i].parts) :
                     i \in {j \in Ids : ckRows[j].status \in
                                          {"active", "pending_deletion"}}}
=============================================================================
