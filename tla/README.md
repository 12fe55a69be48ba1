# Verification of BDrive

BDrive stores files in Telegram. A file is a row of a PostgreSQL table that
lists the ids of messages in a channel, and the messages hold its content in
parts, encrypted or not. The server (Go) answers HTTP requests, runs cron jobs
that delete what is no longer needed, and links equal files to one another so
that they share their messages. This directory holds TLA+ models of that code,
the TLC configurations that check them and proofs for TLAPS.

    tlc -config FileStore_core.cfg MCFileStore      # one run
    tlapm FileStoreProofs.tla                       # the proofs of a module

`PROJECT.json` lists the runs, the lines of the source each definition stands
for, the hazards of the code with the properties that cover them, one mutated
definition per property that shows the property can fail, and the theorems.


## 1. Inventory

| Component | State | Operations | Talks to | Hard to get right |
|---|---|---|---|---|
| File store (`pkg/services/file.go`, `upload.go`) | `teldrive.files`, `teldrive.uploads`, messages of the channel | create, update, copy, delete, upload a part, drop an upload session | database, Telegram, events, cache | a create links to a file it found by hash, which may be deleted, rewritten or purged at that moment; Telegram calls are outside any transaction; lost answers are retried |
| Cleaning jobs (`pkg/cron/cron.go`) | a snapshot of rows, for minutes | `cleanFiles`, `cleanUploads`, `updateFolderSize`, `cleanOldEvents` | database, Telegram | messages are deleted first and rows later, with failures and crashes in between; snapshots are stale when used |
| Deduplication (`dedup_core.go`, `dedup_backfill.go`, `dedup.go`) | the groups found; a list of jobs in memory | load, backfill missing hashes, link duplicates, one statement per file | database, Telegram | it works for hours on rows it read at the start |
| Event broadcasters (`internal/events`) | subscribers, a queue for the database, recent event ids, a polling cursor | Subscribe, Unsubscribe, Record, broadcast, poll, Redis listener, Shutdown | file store, database, Redis, event-stream connections | slices shared across goroutines, channels closed by timer, a cursor over rows that are inserted late, pollers that start and stop |
| Streaming (`internal/reader`, `internal/http_range`) | per response: range, batch of chunks, bounded channel, buffers | parse the range, split it over parts, fetch chunks, read, close | Telegram, decrypter | concurrent chunks handed over in order, cuts at both ends, errors that must wake the other side |
| Encryption (`internal/crypt`) | nonce, block, limit | encrypt, decrypt, seek to a range | streaming, upload | block and nonce arithmetic at boundaries |
| Block hashes (`internal/hash`) | running hashes | Write, Sum, ComputeTreeHash | upload, create, deduplication | block boundaries across parts |
| Folders (`file.go`, `file_query_builder.go`, SQL functions) | `parent_id`, the unique index on active names | mkdir, move, merge, recursive delete, listing | file store | a tree without a foreign key changed by several requests at once |
| Channels and bots (`internal/tgc/channel_manager.go`, `user.go`) | `teldrive.channels`, `bots`, a cached current channel, an advisory lock | create a channel when the current one is full, select, add bots | database, Telegram, cache | an advisory lock over pooled connections, rows and cache written apart |
| Telegram clients (`client_pool.go`, `bot_selector.go`) | next index per user and operation | Next | Telegram | a counter over a list of bots that changes |
| Cache (`internal/cache`) | keys with or without expiry | Fetch, Set, Delete | everything that reads | a value read before an invalidation and stored after it |
| Sessions and login (`auth.go`, `user.go`) | `teldrive.sessions`, three kinds of cache entries | log in, log out, remove a session, look one up | database, Telegram, cache | entries without expiry that answer for rows changed by somebody else |
| Shares and shortlinks (`share.go`, `shortlink.go`, `file.go`) | `teldrive.file_shares`, entries by id and by short code | create, edit, delete, look up, decide what a visitor gets | database, cache | overlapping edits, entries that outlive row, code and expiry |
| Deduplication jobs (`dedup.go`) | a list of jobs in memory | create, prune, update | deduplication run | runs that outlive their entry |
| Integrity check (`cmd/check.go`) | lists loaded one after another | find and delete orphans | database, Telegram | runs beside a server that commits uploads |
| Zip download (`file.go`) | slots, a goroutine and a pipe per request | collect, stream entries, finish the archive | streaming, folders | the slot has three owners in turn; files fail after the status was sent |
| Preview of PSD files (`file.go`) | a channel and a goroutine per request | open, convert, answer | streaming | the callback that opens the reader also closes it |
| Browsing of archives | none | parse | streaming | formats |

What makes each of them correct:

* File store, cleaning, deduplication: a file reads as what was last written to
  it; a message that a live file lists is not deleted; a reference to another
  row does not dangle; what is deleted stays deleted and is purged in the end.
* Events: a walk meets a closed channel only if the connection left during it;
  each event reaches every connection that is there, and is let through by the
  duplicate filter once; the cursor skips nothing.
* Streaming and encryption: the bytes sent are a prefix of those asked for; the
  response is complete unless something failed; nobody waits for ever.
* Folders: an active row stays reachable from the root, a move keeps what it
  moves, names are unique, a walk misses nothing that stays put, and the pages
  of a listing make up the listing.
* Channels: one selected channel per user; one new channel per rollover.
* Integrity check: it harms nothing that is whole, and repairs the rest.
* Slots, caches, jobs: what is taken is given back once; an entry of the job list
  says what its run has come to; what is served from a cache and is no longer
  true has a cause that can be named; every request is answered.

`PROJECT.json` has 40 hazards with their lines, and for each one the properties
that cover it, or why none does.


## 2. Modules

### FileStore

Models `FilesCreate`, `FilesUpdate` (content), `FilesCopy`, `FilesDelete`,
`UploadsUpload`, `UploadsDelete`, `cleanFiles`, `cleanUploads` and
`RunDedupForUser` with its backfill, over the same tables and messages. A
handler is cut where it leaves one SQL statement, transaction or Telegram call,
since everything else may run there:

| Code | Actions |
|---|---|
| `UploadsUpload`, `UploadsDelete`, retention | `UploadPart`, `UploadsDelete`, `Expire` |
| `FilesCreate`: before the transaction; dedup `SELECT .. FOR UPDATE SKIP LOCKED`; upsert, delete of the upload rows, commit | `CreateLoad`, `CreateDirectLoad`, `CreateEmptyLoad`; `CreateSelect`; `CreateCommit` |
| `FilesUpdate`: parts and hash; reads in the transaction; writes and commit | `UpdateLoad`, `UpdateDirectLoad`, `TruncateLoad`; `UpdateRead`; `UpdateCommit` |
| `FilesCopy`: read and send again; insert | `CopySend`; `CopyInsert` |
| `deleteFilesBulk` for a file | `Delete` |
| any request that fails or rolls back | `Abort` |
| `cleanFiles` | `CleanSelect`, `CleanMessages`, `CleanFail`, `CleanRows`, `CleanCrash` |
| `cleanUploads` | `UpSelect`, `UpMessages`, `UpFail`, `UpRows`, `UpCrash` |
| `RunDedupForUser` | `DedupLoad`, `BackfillLoad`, `BackfillOne`, `BackfillSkip`, `DedupGroup`, `DedupLink`, `DedupSkip`, `DedupEnd` |

`files`, `msgs` and `uploads` are the two tables and the channel; `sessions` is
what a client knows of its uploads; `req` holds the local variables of the
requests in flight, `cleaner`, `upCleaner` and `dedup` those of the jobs.
`intent`, `linked` and `aged` are history. Row locks are read off `req`: the row
a create has found is locked until it commits (`LockedBy`). The foreign key
`ON DELETE SET NULL` is part of `CleanRows`, the check on insertion part of the
guards of `UpdateCommit` and `DedupLink`, and the unique index on active names
part of `CreateCommit` and `CopyInsert`. `Features` says what the clients of a
deployment do and which jobs it runs, so that a run can combine those that
bear on a question. `LossInv` is the inductive form of `LossHasCause`: besides
that a live file loses messages only for a stated cause, it says that an upload
belongs to its session until it is committed (`UncommittedIsPrivate`) and that
what `cleanFiles` has selected stays doomed (`CleanerRowsDoomed`). `ContentInv` is
that of `NeverWrongContent`: it adds that hash and parts belong together
(`HashMatchesContent`), in the rows, in the uploads and in what each request is
going to write.

Abstractions: one user, one channel, one flat folder; one part per file; a hash
is the content it is the hash of; `created_at` orders rows as insertion does;
the two reads of the update transaction are one step; one deduplication run at a
time. Assumed of clients: an upload id is committed by one request at a time, a
client sends `encrypted` with the content. Renames, moves and folders are in
FileTree. Not modelled: uploads of several parts, a message that was sent while
its upload row could not be inserted (it is never referred to again).

### EventBroadcaster

Models both broadcasters and the base they embed. `broadcast` copies the slice
header under a read lock and walks it after the unlock, while `Subscribe`
appends to and `Unsubscribe` moves the tail down in the same array; `sending`
holds the list as each walk sees it, and `Appended`, `Removed`, `SeesAppend` and
`SeesRemove` say which walks see a write. `Removed` takes an element out by its
index, as the code does with `append(subs[:i], subs[i+1:]...)`. `RecordPolling`,
`RecordQueue`, `RecordRedis`, `Publish`, `PublishFails` and `Insert` take an
event to the connections, the queue, Redis and the table; `StartPolling`,
`StopPolling`, `PollTick`, `PollQuery`, `PollFails`, `PollCursor`,
`PollDeliver`, `PollEnd` are the polling goroutines, which may be several, since
a stopped one ends only at its next tick; `Listen`, `ListenLost`,
`ListenReceive` are the Redis listener.

`Close` closes a channel at any time after `Unsubscribe`: the code waits 100 ms
and looks at nothing. A walk that still holds the channel then panics
(`SendPanics`). `Record` is called in the requests of file operations, where
net/http recovers the panic, so that the answer is lost and the event is not
queued; a polling goroutine or the Redis listener has nobody to recover it, and
the process ends (`crashed`). `ClosedSendHasCause` says that this is the only
way to a closed channel: the connection left during that very walk. A walk that
began later never meets it, although `Unsubscribe` and `Subscribe` rewrite the
array the walks share.

Abstractions: one user and one server. A channel that is full drops the event,
as in the code, and is not told apart from one that takes it. Ids are not
evicted from `recentEvents`, whose eviction age is far longer than the delays of
the model.

### RangeTransfer and StreamReader

RangeTransfer is what serving a range promises, whatever reads it: a range is
accepted once, its bytes are sent in order and once each, the answer ends when
all are sent, and it breaks off only after a fault. StreamReader implements it:

    Transfer == INSTANCE RangeTransfer WITH sent <- out, fault <- mr.pc = "failed"
    ImplementsTransfer == Transfer!Spec

The bytes a client has got are the transfer's `sent`, a multi reader that has
given up is its `fault`, and parsing, fetching, handing over and decrypting are
steps the transfer does not see.

StreamReader models a response from the Range header to its last byte: `Parse`,
`Ranges` (`calculatePartByteRanges`), `UnderlyingOffset` and `UnderlyingLimit`
(`calculateUnderlying`), `ChunkSize`, `NewMultiReader`, the fetches of a batch
(`Fetch`, in any order), the hand-over through the channel (`Push`), failures
(`FetchFails`, `Disconnect`), reads (`ReadPlain`, `ReadFails`), and the decrypter
(`DecPull`, `DecHeader`, `DecOpen`, `ReadDecrypted`). The encrypter appears as
`Stored`: what it has written for a part, byte by byte (`Sealed`, `SealedByte`).
The nonce of a block is reached there by an `Increment` for every block before it
(`NonceOf`), while a seek reaches it by `AddTo`, which is the loop of `nonce.add`
over the low digits (`Sums`) and its carry into the others. `CountAssumption` says
that the number of a block fits the low digits: in the code it is a `uint64` and
the digits are its 8 bytes.

Abstractions: a byte is its position, so that a byte in the wrong place shows. A
sealed block opens only as a whole and under its own nonce, else it reads as
zeros, as the code does; the key is never wrong. Digits of a nonce and sizes of
chunks and blocks are constants. One range per request; no empty files, whose
response has no reader. The second multi reader that is opened and dropped when
an encrypted part is read from its middle fetches what nobody reads, and is left
out.

### FileTree

Models the tree that `parent_id` spans, without a foreign key, and the requests
that change it. A request is a record in `act`: its place, the ids and names it
was given, and what it has read. Each statement or transaction of one statement
is one step:

| Code | Actions |
|---|---|
| `FilesCreate`: path or parent, then the upsert | `CreateStart`, `CreateRow` |
| `create_directories` for `FilesMkdir`, and for `FilesCopy` before the copy is written | `PathStart`, `PathStep`, `PathInsert` |
| `FilesUpdate` of name or parent | `UpdateStart`, `UpdateRow` |
| `FilesDelete` with `deleteFilesBulk` | `DeleteStart`, `DeleteRows` |
| `FilesMove` of several, in one UPDATE | `MoveStart`, `MoveRows` |
| `FilesMove` of one to a new name: read, find what has it, merge, delete it, write | `MoveStart`, `RenameRead`, `RenameMerge`, `RenameReplace`, `RenameFinish` |
| `collectFilesRecursive` | `ZipStart`, `ZipBatch`, `ZipChildren`, `ZipDone` |
| `cleanFiles` for one row | `PurgeRow` |
| an error return, a rollback | `Fail` |

Transactions run at READ COMMITTED. What a transaction of several statements has
written is in `act[c].wrote` until it commits; the statements of others wait for
those rows and for their keys of `unique_file_idx` (`Allowed`); a statement that
waits is one that has not started, which leaves out the second look PostgreSQL
takes at a row it waited for. A parent or destination that is given by its id is
not looked up, so that it may be any row that is or was there (`Known`). `due` is history: the files below what a zip
download asked for that nobody has touched since.

Abstractions: one user; the root is never named by a request, as in the user
interface; an update changes one field; a request names one id. The table at
the start of a run is any that creates and mkdirs may have made.

### FileListing

Models the pages of a listing or a search by sort key (`fileQueryBuilder`): the
page after an anchor row, which is found by its rank in the table as it is now,
with `limit`, order and the count, while rows appear, go and change their key.
`Null` is the size of a folder that has none yet. Filters decide only which rows
match (`Gone`).

### ChannelCheck

Models the processor of one channel of the `check` command, in its order:
`CheckDeleteUploads` when asked for, the rows batch by batch (`CheckCountRows`,
`CheckLoadRows`), the messages (`CheckTotal`, `CheckLoadHistory`), the uploads
and the comparison (`CheckCompare`), and the deletes (`CheckDeletePending`,
`CheckMarkMissing`, `CheckDeleteOrphans`), each of which may fail (`CheckFail`),
beside a server that sends, records, commits and deletes. `ckCause` is history:
what was written and recorded during the run. It begins with any rows and
messages that earlier requests, failures and runs can have left.

Abstractions: parts of a row are ascending and of one size; a channel without
messages is reported as it is; MCStorage fixes the flags of a run where another
row is there from the beginning (`CheckChoice`).

### Shares and Sessions

Shares models the rows and cache entries of the shares of one file or folder:
`CreateShare`, `EditRead` and `EditWrite`, `DeleteShares`, and `DeleteEntry` for each
key a request has still to delete; `VisitHit`, `VisitMiss`, `VisitLoad` and
`VisitStore` for a lookup by id or short code, and `decide` for what a visitor
gets. Sessions models the rows of `teldrive.sessions` and the entries by hash, by
user and for the list: `LoginStart`, `LogoutStart`, `RemoveStart`, `WriteRow`,
`DeleteFails`, `DeleteKeys`, and lookups in the same three steps. With Redis the
deletion of an entry is a call that may fail - the server is gone, or the client
is and with it the context of its request - and nobody looks at the error:
`DeleteEntryFails` and `DeleteKeysFails` go on and leave the entries. `FileRemoved`
is what happens to shares when the row of their file or folder goes, by the DELETE
of a folder, a move that replaces one, or the purge of a file: the foreign key of
`file_shares` takes them along, and no handler deletes an entry.

In both, an entry that is out of date is entered in a history variable (`excused`,
`outdated`) by the step that makes it so: a lookup that stores what it had read
before a change, an expiry date that passes, an edit after the code changed in
between, the deletion of several shares of one file, the removal of the file, a
failed deletion, and `UsersRemoveSession`, which does not know the hash. The
properties say that in the model an entry that is out of date is one of those, or
is about to be deleted by a request in flight.

Abstractions: passwords, edits of the expiry and of the zip flag, and the
suggestion of a code are left out; an edit changes one field; one share may be
there from the beginning. A hash of a session logs in once.

### DedupJobs and BotSelector

DedupJobs is the list of `dedupManager`: `StartJob` creates and prunes under the
lock, `RunBegins` and `RunEnds` are the updates of a run, which may have lost its
entry. BotSelector has `NextInMemory` and `NextInRedis`, and `ChangeBots` for
everything that makes the list longer or shorter between two calls.

### ZipDownload and PsdPreview

ZipDownload follows a request from the slot (`AskZip`) over the client
(`TakeClient`) into the goroutine that has the slot from then on (`WriteEntry`,
`ClientFails`, `CloseArchive`, `EndStream`), beside a client that stops reading
(`Stall`) and is cut off (`HangUp`). Names are a base and the numbers put behind
it. `ArchiveWhole` says of a numbered entry that its number counts files before
it, and that two entries share a name only if one of them has it for its own.
PsdPreview has the handler (`PsdAsk`, `PsdRefuse`, `PsdReply`), the callback
(`PsdAuthorise`, `PsdOpen`, `PsdReturn`) and the goroutine that converts
(`ConvRead`, `ConvDecode`); a nil reader in that goroutine ends the server
(`psdUp`).

Abstractions: writes go through a buffer, so that one may succeed or fail after
the other end is gone. A request without a free slot is turned away at once.
Pieces of a PSD file stand for its reads.

### Channels

Models how an upload finds its channel and makes a new one. `Upload`,
`FetchRead` and `FetchStore` are `CurrentChannel` through the cache's `Fetch`;
`CheckLimit` is `ChannelLimitReached`; `Acquire`, `CheckRecent`, `Create`,
`Insert` or `Begin`, `Deselect`, `Commit`, `Invalidate`, and `Release` are the
statements and calls of `CreateNewChannel`, with `Fail` for its error returns;
`Add` is `UsersCreateChannel`, `Select`, `SelectSnap`, `SelectOthers`,
`SelectFails` and `SelectSet` are `UsersUpdateChannel`, `DeleteChannel` is
`UsersDeleteChannel`. `StoreFails` and `CacheFails` are the calls of a Redis that
fail, whose errors are ignored: the entry stays as it is, and if that is not what
is selected, its cache is `stale`. Every statement runs on any connection of its server's
pool, so `Acquire` and `Release` take the connection as a parameter: a
session-level lock of PostgreSQL counts how often its connection has taken it,
and is not released on another one. The UPDATE of a transaction is cut into its
snapshot and its writes, since rows inserted in between keep their selection,
and waits for rows another transaction has updated (`Locked`).

`lost`, `shared`, `clash` and `stale` are history: a connection was closed under
the lock, a request took the lock on the connection through which another one
was in its rollover, two selections overlapped, a cache missed a change or the
call that was to tell it failed. The
properties say what holds as long as none of that has happened, so that each
names the ways it can fail.

Abstractions: one user. How many parts a channel has changes with every file
operation and is either answer of `CheckLimit`. Bots appear as a reason to fail.
A user selects one of the channels that were made here. What an upload does
with the channel it ends up with is not followed.

### MC modules

MCFileStore and MCChannels give one module its values. MCStorage, MCServer and
MCResponses put modules beside one another that act on rows, on what the server
remembers, and that answer with the content of files. What the models
keep of them is disjoint, so that interleaving them would multiply states
without adding behaviour: `focus` says which one a behaviour is about, and the
others stay as they begin. MCEventBroadcaster has two scopes for the same
reason: `walk`, in which the clock stands still and one poller is alive, and
`clock`, the polling backend with two pollers and time, at most two connections
that have joined, one subscriber and one walk at a time; there time passes only
while no walk and no `Record` is under way (`Unhurried`), since these take
microseconds and the clock counts what a poll can tell apart.

### Proof modules

| Module | About |
|---|---|
| FileStoreProofs | types, locks, references and statuses of FileStore |
| FileStoreContentProofs | a file of FileStore reads as what was last written to it and loses its content only for a known cause; what a deduplication run leaves behind |
| FileTreeProofs | the folder tree: types, walks, moves, and how a row can fall out of reach |
| ChannelsProofs | types and the advisory lock of Channels, the channels a rollover makes, the selected one, the cached one |
| EventBroadcasterProofs | EventBroadcaster |
| StorageProofs | FileListing, ChannelCheck; the types of MCStorage |
| StreamReaderProofs | StreamReader implements RangeTransfer, for files that are encrypted and for those that are not |
| ServerProofs | Sessions, Shares, DedupJobs, ZipDownload, BotSelector; the types of MCServer |


## 3. Runs

| Run | Question | Bounds |
|---|---|---|
| `core` | Do locks, references, hashes and content hold up when two requests create, update, truncate, copy and delete, encrypted or not, beside a cleaner that fails and is interrupted? | 2 rows, 3 messages, 2 contents, 2 sessions, 2 requests |
| `jobs` | Does a deduplication run with backfill collapse what it loaded, beside deletes and `cleanFiles`, and does every loss have its cause? | 3 rows, 3 messages, 1 content, 1 request |
| `sessions` | Does an upload belong to its session, beside `cleanUploads`, reused ids and retried requests? (`LossInv` has both) | 2 rows, 2 messages, 2 sessions with one name, 1 request |
| `storage` | Tree: how can an active row become unreachable, does a move keep what it moves, does a zip download find what stays put? Listing: do the pages make up the listing? Integrity check: whom can it harm, what does it repair? | tree: 5 rows, 4 of them at the start, 2 names, 2 requests, 2 calls, paths of 2; one of the trees that differ in the order of ids (`TreeChoice`); listing: 4 rows, keys 1..3, pages of 1 and 2, 1 change; integrity check: 2 rows, 3 messages, 2 parts, batches of 1, 2 steps of the server (`CheckChoice`, `CheckRoom`) |
| `server` | Is a cached share or session out of date for other causes than the known ones? Does the job list say what became of the runs? Do bots take turns? | shares: 2 ids, 2 codes, 2 owner requests in flight, 2 in all, 1 visitor (`ShareChoice`, `FilesStay`); sessions: 2 hashes, 2 calls; jobs: 2 users, 4 jobs, 2 kept, clock 0..1; bots: 3 bots, 4 calls |
| `purge` | Is a deleted file purged in the end? | 2 rows, 2 messages, 1 request |
| `events` | Can a walk meet a closed channel only if its connection left during it? Nobody passed over while nobody leaves, duplicates filtered, nothing skipped by the cursor? | 3 connections, 2 events, 2 pollers, clock 0..2, queue and LIMIT 1, in the two scopes of MCEventBroadcaster |
| `responses` | Ranges: does serving one implement RangeTransfer, are slices in bounds, does the response end? Zip: is the slot given back, and the archive whole? Previews: is every one answered? | ranges: parts of 6, 6 and 3 bytes, chunks 2..4, blocks of 2, 2 chunks at a time, channel of 1; zip: 2 requests, 1 slot, up to 4 files, limit 3; previews: 2 requests, 2 reads |
| `channels_rollover` | Do rollovers on two servers exclude each other and make one channel, and does one channel stay selected, in the table and in the cache? | 2 servers with 2 and 1 connections and one Redis, 2 requests, 2 channels, a lock held twice at most, one kind of mishap in a behaviour, or overlapping selections with a cache that missed a change (`InScope`) |
| `shared_loss` (violated) | Does a copy survive the deletion of its original? | 2 rows, 2 sessions |
| `stale_hash` (violated) | Does an update without block hashes leave a hash that leads others astray? | 2 rows, 2 contents |
| `events_reach` (violated) | Does `broadcast` reach everyone who stays? | 3 connections, 1 event |

Why these bounds. The hazards of the file store are between two rows (one
canonical, one linked, or one old and one new of a name) and between two
requests that hold locks; a third row is there in `jobs`, so that a group has
two duplicates, one of which may become stale; requests of `jobs` do not write
over files, since a run links by id whatever was written since (see below), and
`DedupCollapses` would not hold. Messages bound the uploads: the
third one of `core` pays for an overwrite or a copy. Three connections are the
least for which one that leaves has a neighbour that is passed over and one that
is reached twice; with two pollers an old one overlaps with a new one; a queue
and a LIMIT of 1 are full at once. The parts of `responses` make whole parts,
a short last part and a short last block; chunks of 2 and 4 make ranges in one
chunk, in one batch and in several; the nonces overflow inside the low digits
and beyond them. All ranges within and just beyond the file are enumerated. Two
connections of one server are the least for which a lock is released on the
wrong one and, on the right one, taken twice; with a second server there is
somebody to keep out. Two channels make an old and a new one. In the tree, the
root, two folders inside each other and a file are the least for a loop, for a
merge with something to merge and for a delete with something below; the fifth
row is what a request adds. Two calls let one request change what the other has
read. Four rows with three keys have equal keys inside a page and across its
end. Three messages are the one that made the channel and the two parts of a
row; two steps of the server are a part that is sent and one that is recorded
or committed between two lists. Two jobs kept of four drop a finished and a
running one. Four files over a limit of three, named `a` and `a (1)`, have a
numbered name that is taken already.

Some runs look at a part of the states, and their MC module says at which one.
`InScope` of MCChannels leaves out behaviours with two kinds of mishap: a lost
lock, a shared one, or the third kind, overlapping selections and caches that
missed a change. In `Server.cfg` the shares of a file do not expire, the expiry of
a folder's share or the removal of what is shared comes in behaviours with one
request of the owner, and they do not come together (`FilesStay`). `CheckChoice` gives the integrity check
its flags where there is one row or none, and where there are more, further
active ones and a plain run; the server moves a second time while a row is free
(`CheckRoom`). `TreeChoice` starts from one tree of those that differ by the order of
their ids alone. The proofs below are about the specifications themselves and
know none of these bounds.

Symmetry is used for contents, requests, connections, names, codes, events and
pollers in runs without liveness properties. In `core` names are exchanged
together with the sessions that upload under them (`SymmetryOfPairs`), in `jobs`
only the names no session has (`SymmetryOfFree`), in `sessions`, where both
sessions have one name, the sessions (`SymmetryOfSessions`).
`CHECK_DEADLOCK FALSE` is set since every model ends:
the ids of rows, messages and events are used up, a response is over, a process
has panicked.

Fairness. `Fairness` of FileStore: the cron scheduler starts `cleanFiles` every
hour (weak fairness of `CleanSelect`); Telegram does not refuse the deletion
for ever, and the process does not crash for ever between it and the `DELETE`
(strong fairness of `CleanMessages` and `CleanRows`, eventually no `CleanCrash`);
a transaction that holds a row lock commits or rolls back. `ZipFairness`: a
handler and its goroutine go on unless a client that does not read blocks them,
since every call to Telegram returns; the write timeout of the server ends a
stalled connection. `PsdFairness`: goroutines that can go on do. `FairSpec` of
StreamReader: a fetch ends or times out (`ChunkTimeout`), and `io.Copy` goes on
reading while it can.

### What the violated runs show

* `shared_loss`: two files with the same content list the same messages. When
  the one that came first is deleted, `cleanFiles` deletes its messages and the
  other file is left without content (`pkg/cron/cron.go:136`). The migration that
  added the column speaks of copies that are orphaned and not deleted.
* `stale_hash`: an update that names its parts replaces them and keeps the hash
  (`pkg/services/file.go:1614`). A later upload of the old content finds the file
  by that hash and is linked to it: it reads as the new content.
* `events_reach`: a connection that leaves during a broadcast moves the tail of
  the list down under the walk: one subscriber is passed over and another one
  is sent the event twice (`internal/events/broadcaster.go:209`).

### Other places where code and comment differ

Seen while modelling, part of the models, and not stated as a property of a run:

* `file.go:512`: with `SKIP LOCKED`, or when both find nothing, two creates make
  two owners of one content; the comment at 501-504 says the lock prevents it.
  Each of them also keeps a second copy in Telegram, against `README.md:41`.
* `file.go:515`: a file that overwrites its own name with its own content refers
  to itself.
* `file.go:132`: the lookup prefers canonical files but may return a linked one,
  which makes a chain; lines 120-122 say the canonical file is returned.
* `file.go:426` and `1597`: a create or update that is sent again after its answer
  was lost finds no upload rows and empties the file. This is why `LossHasCause`
  asks for lost messages and not for readable files when `retry` is on.
* `dedup_core.go:162`: the link is written by id, whatever has been written to
  the file since the run loaded it.
* `polling.go:160` and `194`: the count of subscribers is read under the lock and
  acted on after it; a start and a stop that cross leave subscribers without a
  poller.
* `polling.go`: the polling broadcaster sends an event in `Record` and again when
  the poller reads it (`ProcessedOnce` therefore allows two rounds).
* `channel_manager.go:83`: the lock that is to prevent races between instances is
  reentrant on its connection, so that two requests of one server may both make
  a channel (`shared`), and released on another connection of the pool it stays:
  rollovers of the other servers are then refused until that connection is
  closed.
* `user.go:319`: the result of the UPDATE that deselects the other channels is not
  looked at, and two selections at once leave no channel selected (`clash`).
* `file.go:402`: `FilesCreate` without a channel id takes the channel that is
  current then, not the one the parts were sent to; a rollover in between
  files them under the wrong channel.
* `file.go:1446`: a move onto its own name and folder finds the file itself as the
  one to replace, and marks it deleted; nothing compares a destination with what
  is moved there, so that a folder can be put below itself.
* `file.go:742`: the shares of a file are all deleted, the cache entries of one of
  them.
* `20240912164825_table.sql:12`: shares go with their file or folder, by
  ON DELETE CASCADE. Their cache entries stay and go on answering, since neither
  `file.go:659` nor `cron.go:149` deletes them.
* `cache.go:151`: with Redis the deletion of entries may fail, or not be tried any
  more when the client has gone. Nobody looks at the error (`auth.go:129`, `142`,
  `user.go:276`, `322`, `file.go:756`, `883`, `channel_manager.go:190`), while the row
  is gone already: a token that was logged out, a share that was deleted, a
  channel that is full go on being served.
* `shortlink.go:82` says an expired share is not found; a share that was cached
  before it expired still is.
* `user.go:276`: removing a session leaves the entry under its hash, which goes on
  answering for its tokens. `user.go:179`: the cached list has the flag of the
  session that asked first, for every session of the user.
* `file.go:1757`: a user that cannot be looked up is reported, but without a
  return the handler goes on with none.
* `file.go:2035`: when the client does not authorise, the handler of a PSD preview
  waits for ever; the callback closes the reader while the
  conversion still reads from it, and a nil reader panics in that goroutine.
* `file.go:1395`: a numbered name is not itself entered among the names seen, so
  that a file whose own name is `a (1)` may share it with a second `a`.
* `bot_selector.go:56`: the index in memory is used before it is cut to the list,
  and is out of range in the first call after the list has become shorter.
* `cmd/check.go`: a complete file whose upload rows are still there (it was created
  from parts the client named) is taken for incomplete and marked.
* `polling.go:156`: the map of subscribers is read for the log after the unlock.
* `cmd/run.go:242`: the broadcaster is shut down before the HTTP server.


## 4. Proofs

The theorems hold for every value of the constants that meets the named
assumptions of the modules, which ask for no more than that bounds are
numbers, that special values differ from the others, that a connection is in the
pool of one server, that all parts but the last are of one size, that the largest
chunk is the smallest times a power of two, and that the number of a block fits the
low digits of a nonce. The invariants were checked by TLC before they were proved,
but for `StreamInv`, whose quantifiers over the naturals TLC cannot enumerate; the
properties that follow from it are checked.
A proof has one lemma for each action, or one for each kind of step that several
actions share (a request that changes only its own record, a step that stores
an entry), and the theorem puts them together.

### FileStore

From `FileStoreAssumption`, for every set of features. `FileStoreProofs`:

* `TypeCorrect`: `[]TypeOK`. Inductive as it stands; the clause on
  `req[c].op \in UpdateOps` is what the foreign row of an update needs.
* `CanonicalStays`: `[]CanonicalPinned`. Inductive with `TypeOK`: every
  action that writes to a row either requires that it is not locked, or is the
  commit of the create that holds the lock. This is where the `FOR UPDATE` of the
  dedup SELECT is needed: without it the invariant is lost (the mutant of that
  property).
* `NoDanglingReference`: `[]ReferencesExist`. Inductive with
  `CanonicalPinned`: a create writes a reference to the row it holds, an update
  and a deduplication run to one that the foreign key finds present, and the
  purge sets the references to its rows to NULL in the same statement.
* `DeletedForGood`: `DeletionIsFinal`, from the same invariants: the
  upsert goes to an active row or a fresh one, updates and links leave the
  status alone.

`FileStoreContentProofs`:

* `ContentInvHolds` and `ContentIsRight`: `[]ContentInv` and `[]NeverWrongContent`
  under `Plain`: uploads are hashed, no request is retried, parts are not named in
  an update without hashes, and there are no deduplication runs and no
  `cleanUploads`. `stale_hash` shows what such an update does, and the list at the end
  of section 3 what a retry and a link do. The proof rests on `CanonicalPinned`: what
  a create takes over is still what it read.
* `UndisturbedRunCollapses`: `Spec /\ [][Dedup \/ Undisturbed]_vars =>
  []DedupCollapses`, where `Undisturbed` is a step that leaves parts and hash of
  the files that stay active as they are. The hypothesis is about what others
  do, not about the run. Without it the property is false, since a link is
  written by id (`dedup_core.go:162`). `DedupInv` says that before the links
  all rows are as the run read them, and from then on that the row chosen for a
  hash is, and that the others with its hash are linked, skipped or still to be
  linked to it.
* `LossInvHolds` is `[]LossInv`, and `NoUnexplainedLoss` is `[]LossHasCause`, its
  first conjunct. That conjunct alone is not inductive: what
  `cleanFiles` deletes today was selected before, so that its rows have to be
  doomed from then on (`CleanerRowsDoomed`); what a request will write has to be
  nobody else's until then (`UncommittedIsPrivate`, `RequestsBacked`); and two rows
  that list one message are accounted for by the link between them
  (`SharedIsLinked`).

### FileTree

From `FileTreeAssumption`, for tables of any size and trees of any shape, loops
among them:

* `Down` computes the rows below a set level by level, in a recursive function of
  `MaxNodes` levels. The lemmas say what comes out without the levels: the least set
  that has the rows it starts from and, with a row, its children (`DownIs`,
  `DownIsLeast`; for the two uses of it, `SubtreeIs`, `ReachableIs` and their
  like). A level that adds nothing is the last, and a table has no room for more
  levels that add something than it has rows; the induction is on a least
  counterexample. Everything after argues with closed sets: to show that a row
  is below another, or is not, name the set.
* `TreeInv` is the invariant, checked with TLC first on 4 rows. Beyond the types it
  says what the requests under way rely on: two never hold the same row; what a
  rename has written and not committed is either the folder it replaces with what
  is below it, taken away, or an entry of that folder put into the moved one
  (`WroteRight`, `RenameRight`); and from the rows a zip download has in hand there
  is a trail to each file it owes, whose rows nobody has touched (`OnTrail`).
* `TreeTypes`: `[]TreeTypeOK`.
* `WalkFindsEveryFile`: `[]ZipMissesNothing`. At the end of the walk there is nothing
  in hand, so that a trail can only end in a file it has collected.
* `MoveBringsEverything`: `MoveKeepsContents`, from what `TreeInv` says of a rename
  before its last statement.
* `StrandsAreExplained`: `StrandsHaveCause`. Rows that a commit changes have a new
  parent, are gone, or have a new name. An active row that was within reach and is
  not any more has, on its way up, a changed row, or is on a loop; the lemmas
  follow the way from there for each action. A delete takes away everything
  below what it names, so that it strands nothing; that is why it has to wait for
  rows others have written (`LockedFor` in `DeleteRows`).

### Channels

From `ChannelsAssumption` (each connection is in the pool of one server, each
server uses one cache, requests in flight are finitely many):

* `Typed`: `[]TypeOK`. A request that is about to write a row has made a
  channel: that clause makes it inductive.
* `LockIsHeld`: `[]LockHeld`. The lock is held at least as often as
  requests of a rollover are between it and its release, and by a connection of
  their server. Counting is what makes exclusion inductive: a release on the
  right connection gives up one hold for one request, one on another
  connection gives up none, and a connection that has the lock lets only
  requests of its own server in.
* `Exclusion`: `[]ExclusionAcrossServers`, from `LockHeld`.
* `OneChannelPerWindow`: `[]OneRolloverPerWindow`. `WindowInv` adds that rollovers
  come one at a time while the lock is neither lost nor shared, and that
  one which goes on to make a channel has seen no fresh one.
* `AtMostOneSelected` and `SelectionIsKept`: `[]OneSelected` and
  `SelectionStays`. `SelectionInv` says of the request that selects that its
  channel is selected and not among those it is going to deselect, and that its
  snapshot has all others that are.
* `StaleCachesExplained`: `[]CacheStaleHasCause`: a cache outside `stale` has the
  selected channel or none, or a request that will refresh it is under way. A
  cache enters `stale` in four ways, the failed call of `CacheFails` among them.

### EventBroadcaster

`EventsInv` has four parts, and the five properties of the run `events` follow
from it (`EventsTypes`, `ClosedSendsExplained`, `BroadcastIsComplete`,
`ProcessedOnceHolds`, `CursorIsSound`).

* `ListInv`: the list holds each connection that is subscribed, once; whoever a
  walk has still to send to is on the list or left while it was under way; as
  long as nobody left, everyone due is ahead of the walk, in the array it shares
  with the list or in the one the list has outgrown. The lemmas about `Removed`
  and `Appended` say what the index arithmetic does to a walk's view.
* `RestShapes`: types, and that the queue keeps to its capacity.
* `RoundsCounted`: an event was sent at most once for its `Record` and once for
  its mark in `recentEvents`.
* `CursorInv`: what the cursor has passed was processed, excused or is in a
  poller's hands, and the same of what a poll in flight is going to pass.

### FileListing

`ListingIsFaithful` is `ListSpec => []ListingFaithful`. The rank of a row is the
number of rows up to it (`Upto`); `RankTaken` says that there is an anchor for
each rank in use. With no two rows tied, the next page holds the rows of the next
`limit` ranks (`PageRanks`), and a row that can be listed at all is on it
whatever else is tied (`ListedIsNext`). The invariant `ListInv` needs the
ranks: what was read and still matches is within those of the pages
(`ReadComesFirst`), which a removal only lowers, and everything that can be listed
within them was read (`NothingSkipped`). At the end of the listing they reach
the count, which is the `\div` of `TotalPages`.

### ChannelCheck

In the same module, `CheckInvHolds` proves `CheckInv` (what the run has read of a row that is active
and that nobody wrote since is the row; it has seen the messages of such rows;
it takes a row for incomplete, or a message for an orphan, only for a
cause) and `QuietInv` (what is left to do of a run that nobody disturbs is
all there is to repair). `HarmHasCauseHolds` and `QuietRunRepairsHolds` are the
action property and the invariant of the run `storage` that follow, and
`CheckTypes` is `[]CheckTypeOK`.

### What a server remembers

`ServerProofs`, component by component:

* Sessions: `SessionsTypes` and `StaleSessionsExplained`, from `EntriesByHash` (an
  entry by hash is that session) and `TodoWhenClean` (only a request that has
  written has entries to delete). `StaleSessionHasCause` is inductive with these.
  Deletions may fail in all of it.
* Shares: `SharesTypes`, with the exclusion of the two flags, and
  `StaleSharesExplained`, with deletions that fail and a file that may go. The invariant is about the whole cached row
  (`EntryRight`), of which what visitors are answered is a part.
* DedupJobs: `JobsTypes` and `JobsLedgerHolds`. A job that was dropped left a full
  list of jobs that began no earlier (`DroppedForOthers`), and later ones begin
  no earlier than those either.
* ZipDownload: `ArchiveIsWhole`, from `ZipInv`, which says that the map counts the
  names of the files written and that an entry's number is no larger than the
  count of its name; and `SlotsAreDownloads`: as many slots are taken
  as downloads are under way, never more than there are. That
  they come back in the end (`SlotsReturn`) is left to TLC.
* BotSelector: `TurnsAreFairHolds`. The counter follows the last pick
  (`CounterFollows`), so that picks from an unchanged list run around it
  (`InTurn`); the lemmas about remainders are proved from `\div` and `%`.

### StreamReader

From `StreamAssumption` and `CountAssumption`: `RangeIsTransferred` is
`Spec => ImplementsTransfer`, the refinement of RangeTransfer, and
`RangeWithinBounds` is `Spec => []WithinBounds`. Both hold for files that are
encrypted and for those that are not, whatever the sizes of parts, chunks, blocks,
headers, batches, channels, reads and nonces. The argument, from the bottom up:

* Recursive functions. `StepsExist` says that a function over `0 .. m` whose values
  are steps from the one before exists, by the least index that lacks one
  (`LeastOf`); the facts about `Sums`, `NonceOf` and `LowValues` rest on it.
* Nonces. `SeekReachesNonce`: the nonce a seek adds up at once is the one the
  encrypter has reached by that many increments. `AddOneMore` is the step: adding
  one more is one more increment. The digits below the first that does not wrap
  are all `Base - 1`, that one takes the carry, the others stay (`SumsOfNext`), and
  a carry out of the low digits occurs in both or goes on through the same digits.
* Blocks. `BlocksFollow` and `SealedIs` say where the blocks of a part lie and what
  is in them; `BlockOpens`, that a run which is one whole block opens under its
  nonce and gives its bytes of the file; `RangeBlocks`, that the offset and the
  limit of `calculateUnderlying` are the edges of the first and the last block.
* Chunks. `Edge` names the positions where the chunks of a reader's range meet, and
  `ChunkEdges` says that they are where `Cut`, the quotients and the remainders of
  `NewMultiReader` put them. `RangesFollow` says of `Ranges` that the parts follow
  each other from the first byte asked for to the last.
* Readers. `ReaderRight` is the invariant of a multi reader: what a goroutine has
  fetched is its chunk, the buffers in the channel are the chunks before those that
  are still to be pushed, and what the reader has in hand goes on from what it
  returned. Fetches, pushes, failures and reads keep it (`FetchKeeps`, `PushKeeps`,
  `FailureKeeps`, `TakingKeeps`), and `NewMultiReader` begins with it.
* Decrypters. `DecRight` relates a decrypter to the reader below it: in the header,
  filling a block, or holding what is left of one, under the nonce of that block
  and, after a seek, with the bytes before the range still to be dropped. `PartRight` is the reader of a part
  with its decrypter, if it has one.
* `StreamInv` joins them to the answer: what was sent is the beginning of the
  range, and the part that is being read goes on from there. A reader that is at
  its end has nothing left to fetch (`DrainedIsDone`), which is also why an answer
  breaks off only after a fault.

### The compositions

`StorageTyped` and `ServerTyped` are `[]StorageTypeOK` and `[]ServerTypeOK` for
the specifications of MCStorage and MCServer. A component that `focus` does not name
stays in an initial state of its own (`NoTreeIsInitial`, `NoCheckIsInitial`), so that
each behaviour of a composition is one of every component (`RunsTree`, `RunsCheck`,
`RunsShares`, `RunsSessions`, `RunsJobs`), and their types follow from the theorems
about them.

### What is only model-checked, and why

* Liveness: `PendingPurged`, `Served`, `SlotsReturn`, `PsdAnswered`. It needs
  ENABLED, which the prover does not reach.


## 5. Plan

What is left, in this order.

1. Uploads with several parts in FileStore, and with them parts that are sent
   again under their number; the cache entries of files and their locations.
2. Channels: bots of a channel, a memory cache per server as a second instance,
   and an abstract specification, one new channel per rollover, refined where it
   holds.
3. BlockHash as an algorithm checked against a reference definition; locks and
   users that wait across transactions, for deadlocks.


## 6. Not modelled

Parsers of archives, settings, session storage, the dialogue of a login and the
start-up of the server keep no state that interleaves, or are a dialogue with
libraries; migrations run once. `client_pool.go` has no caller in this repository.
`updateFolderSize` and `cleanOldEvents` are single statements. `file_resolve.go`,
filters of a search and full-text search read one row set in one statement.
Wording of messages, logs, metrics and layout are left out throughout. The
component list in `PROJECT.json` gives the reason for each.
