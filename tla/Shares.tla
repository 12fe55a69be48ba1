-------------------------------- MODULE Shares --------------------------------
(***************************************************************************)
(* The shares of one file or folder and the answers visitors get by the id *)
(* of a share or by its shortlink.  A lookup goes through the cache, where *)
(* an entry stays until someone deletes it; creating, editing and deleting *)
(* a share are requests of their own that write the row first and delete   *)
(* the entries afterwards.                                                 *)
(***************************************************************************)
EXTENDS Naturals, Sequences, FiniteSets

CONSTANTS
    ShareIds,   \* ids of rows of teldrive.file_shares, numbers in their order
    Codes,      \* short codes
    NoCode,     \* no short code
    Owners,     \* requests of the owner that can be in flight at once
    Visitors,   \* lookups that can be in flight at once
    ShareKinds, \* what is shared: "file", "folder"
    NewShares,  \* what an owner asks of a new share: its flags
    MaxShareOps \* bound on the requests of the owner

ASSUME SharesAssumption ==
    /\ ShareIds \subseteq Nat /\ ShareIds \cap Codes = {}
    /\ NoCode \notin Codes \cup ShareIds /\ MaxShareOps \in Nat
    /\ ShareKinds \subseteq {"file", "folder"}
    /\ NewShares \subseteq [block : BOOLEAN, always : BOOLEAN, zip : BOOLEAN, ends : BOOLEAN]

VARIABLES
    shareKind,  \* what the shares are of: a file or a folder
    fileRow,    \* whether that file or folder still has its row
    shares,     \* the rows of teldrive.file_shares
    shareCache, \* the cache entries under shares:<id> and shares:<code>
    owner,      \* the requests of the owner
    visit,      \* the lookups
    late,       \* whether the shares with an expiry date have expired
    excused,    \* history: the entries that are out of date for a known cause
    shareOps    \* the number of requests of the owner so far

shareVars == <<shareKind, fileRow, shares, shareCache, owner, visit, late, excused, shareOps>>

ShareKeys == ShareIds \cup Codes

ShareRow == [ live : BOOLEAN, code : Codes \cup {NoCode},
              block : BOOLEAN, always : BOOLEAN, zip : BOOLEAN, ends : BOOLEAN ]
NoShare == [ live |-> FALSE, code |-> NoCode, block |-> FALSE, always |-> FALSE,
             zip |-> FALSE, ends |-> FALSE ]

Live_Share(s) == shares[s].live
LiveShares == {s \in ShareIds : shares[s].live}

(* A request of an edit: a flag it leaves alone is "keep".                 *)
Flag == {"keep", "on", "off"}
EditRequests ==
    [block : Flag, always : Flag, code : {"keep"}] \cup
    [block : {"keep"}, always : {"keep"}, code : {"clear"} \cup Codes]

NoRequest == [ pc |-> "idle", id |-> 0, seen |-> NoShare,
               req |-> [block |-> "keep", always |-> "keep", code |-> "keep"],
               todo |-> <<>> ]
NoVisit == [ pc |-> "idle", key |-> NoCode, row |-> NoShare ]

(* Shares that are there already.                                          *)
StartShares ==
    {NoShare} \cup
    {[live |-> TRUE, code |-> code, block |-> new.block,
      always |-> new.always /\ ~new.block, zip |-> new.zip, ends |-> new.ends] :
        code \in Codes \cup {NoCode}, new \in NewShares}

(* Nobody else has the short code: the row's column is unique.             *)
CodeFree(table, s, code) ==
    code = NoCode \/ \A t \in ShareIds \ {s} : table[t].live => table[t].code # code

SharesInit ==
    /\ shareKind \in ShareKinds /\ fileRow = TRUE
    /\ shares \in [ShareIds -> StartShares]
    /\ \A s \in ShareIds : CodeFree(shares, s, shares[s].code)
    /\ shareCache = [k \in ShareKeys |-> NoShare]
    /\ owner = [o \in Owners |-> NoRequest]
    /\ visit = [v \in Visitors |-> NoVisit]
    /\ late = FALSE
    /\ excused = {}
    /\ shareOps = 0

-----------------------------------------------------------------------------
(* What a lookup in the database finds under a key: a row that has not     *)
(* expired, or NoShare for an error.                                       *)
Lookup(table, k) ==
    LET hits == {s \in ShareIds : table[s].live /\ k \in {s, table[s].code}}
        row == table[CHOOSE s \in hits : TRUE]
    IN  IF hits = {} \/ (row.ends /\ late) THEN NoShare ELSE row

(* What a visitor is sent to: the viewer, the bytes, a zip, or nothing.    *)
Decide(row, browser) ==
    LET direct == IF shareKind = "folder" THEN "zip" ELSE "direct" IN
    IF ~row.live THEN "notFound"
    ELSE IF shareKind = "folder" /\ ~row.zip THEN "viewer"
    ELSE IF row.block THEN "viewer"
    ELSE IF row.always \/ ~browser THEN direct ELSE "viewer"

SameAnswers(r, q) == \A browser \in BOOLEAN : Decide(r, browser) = Decide(q, browser)

-----------------------------------------------------------------------------
(* Visitors: validFileShare and ResolveShortlink, by cache.FetchArg. *)

VisitHit(v, k) ==
    /\ visit[v].pc = "idle"
    /\ shareCache[k].live
    /\ UNCHANGED shareVars

VisitMiss(v, k) ==
    /\ visit[v].pc = "idle"
    /\ ~shareCache[k].live
    /\ visit' = [visit EXCEPT ![v] = [pc |-> "load", key |-> k, row |-> NoShare]]
    /\ UNCHANGED <<shareKind, fileRow, shares, shareCache, owner, late, excused, shareOps>>

(* An unknown or expired share is an error, which is not cached.           *)
VisitLoad(v) ==
    /\ visit[v].pc = "load"
    /\ LET row == Lookup(shares, visit[v].key) IN
         visit' = [visit EXCEPT ![v] =
           IF row.live THEN [pc |-> "store", key |-> visit[v].key, row |-> row]
                       ELSE NoVisit]
    /\ UNCHANGED <<shareKind, fileRow, shares, shareCache, owner, late, excused, shareOps>>

VisitStore(v) ==
    /\ visit[v].pc = "store"
    /\ LET k == visit[v].key
           row == visit[v].row
       IN  /\ shareCache' = [shareCache EXCEPT ![k] = row]
           /\ excused' = IF Lookup(shares, k) = row THEN excused \ {k}
                                                    ELSE excused \cup {k}
    /\ visit' = [visit EXCEPT ![v] = NoVisit]
    /\ UNCHANGED <<shareKind, fileRow, shares, owner, late, shareOps>>

EvictShare(k) ==
    /\ shareCache[k].live
    /\ shareCache' = [shareCache EXCEPT ![k] = NoShare]
    /\ excused' = excused \ {k}
    /\ UNCHANGED <<shareKind, fileRow, shares, owner, visit, late, shareOps>>

(* The expiry date passes; entries of rows that had one are out of date.   *)
Expire ==
    /\ ~late
    /\ late' = TRUE
    /\ excused' = excused \cup {k \in ShareKeys : shareCache[k].live /\ shareCache[k].ends}
    /\ UNCHANGED <<shareKind, fileRow, shares, shareCache, owner, visit, shareOps>>

-----------------------------------------------------------------------------
(* The owner *)

Asks(o) == owner[o].pc = "idle" /\ shareOps < MaxShareOps

(* FilesCreateShare: block wins when both flags are asked for.  The row    *)
(* refers to that of the file.                                             *)
CreateShare(o, s, code, new) ==
    /\ Asks(o) /\ fileRow
    /\ shares[s] = NoShare
    /\ CodeFree(shares, s, code)
    /\ shares' = [shares EXCEPT ![s] =
         [live |-> TRUE, code |-> code, block |-> new.block,
          always |-> new.always /\ ~new.block, zip |-> new.zip, ends |-> new.ends]]
    /\ shareOps' = shareOps + 1
    /\ UNCHANGED <<shareKind, fileRow, shareCache, owner, visit, late, excused>>

(* FilesEditShare reads the first share of the file.                       *)
EditRead(o, req) ==
    /\ Asks(o)
    /\ LiveShares # {}
    /\ LET s == CHOOSE t \in LiveShares : \A u \in LiveShares : t <= u IN
         owner' = [owner EXCEPT ![o] =
           [NoRequest EXCEPT !.pc = "write", !.id = s, !.seen = shares[s], !.req = req]]
    /\ shareOps' = shareOps + 1
    /\ UNCHANGED <<shareKind, fileRow, shares, shareCache, visit, late, excused>>

Wanted_Flag(asked, old) == IF asked = "keep" THEN old ELSE asked = "on"

(* Mutant: each flag that the request names is written for itself.         *)
Edited_Apart(row, seen, req) ==
    LET block == Wanted_Flag(req.block, row.block)
        always == Wanted_Flag(req.always, row.always)
    IN  IF req.code = "clear"
        THEN [row EXCEPT !.code = NoCode, !.block = FALSE, !.always = FALSE, !.zip = FALSE]
        ELSE [row EXCEPT !.code = IF req.code = "keep" THEN @ ELSE req.code,
                         !.block = block, !.always = always]

(* The UPDATE: a pair of flags of which the request names one is completed *)
(* from the row as it was read, and written as a pair.                     *)
Edited(row, seen, req) ==
    LET block == Wanted_Flag(req.block, seen.block)
        always == Wanted_Flag(req.always, seen.always) /\ ~block
        named == req.block # "keep" \/ req.always # "keep"
    IN  IF req.code = "clear"
        THEN [row EXCEPT !.code = NoCode, !.block = FALSE, !.always = FALSE, !.zip = FALSE]
        ELSE [row EXCEPT !.code = IF req.code = "keep" THEN @ ELSE req.code,
                         !.block = IF named THEN block ELSE @,
                         !.always = IF named THEN always ELSE @]

(* Mutant: the entry under the old short code is forgotten.                *)
EditKeys_NewOnly(s, seen, req) ==
    <<s>> \o (IF req.code \in Codes THEN <<req.code>> ELSE <<>>)

(* The entries an edit deletes, one after the other.                       *)
EditKeys(s, seen, req) ==
    <<s>> \o (IF seen.code = NoCode THEN <<>> ELSE <<seen.code>>)
          \o (IF req.code \in Codes THEN <<req.code>> ELSE <<>>)

(* The entries that a write of the table makes wrong and that the request  *)
(* does not know of.                                                       *)
Unforeseen(table, keys) ==
    {k \in ShareKeys : /\ shareCache[k].live /\ Lookup(table, k) # Lookup(shares, k)
                       /\ k \notin keys}

(* A row that is gone is not an error; a code that is taken is.            *)
EditWrite(o) ==
    LET r == owner[o]
        keys == EditKeys(r.id, r.seen, r.req)
        table == [shares EXCEPT ![r.id] =
                    IF shares[r.id].live THEN Edited(@, r.seen, r.req) ELSE @]
        known == {keys[i] : i \in DOMAIN keys}
    IN  /\ r.pc = "write"
        /\ IF ~shares[r.id].live \/ CodeFree(shares, r.id, r.req.code)
           THEN /\ shares' = table
                /\ owner' = [owner EXCEPT ![o].pc = "clean", ![o].todo = keys]
                /\ excused' = excused \cup
                     (IF shares[r.id].code = r.seen.code THEN {}
                      ELSE Unforeseen(table, known))
           ELSE /\ owner' = [owner EXCEPT ![o] = NoRequest]
                /\ UNCHANGED <<shares, excused>>
        /\ UNCHANGED <<shareKind, fileRow, shareCache, visit, late, shareOps>>

NoneLeft == [t \in ShareIds |-> [shares[t] EXCEPT !.live = FALSE]]

(* FilesDeleteShare: every share of the file goes, and one of them is      *)
(* returned to tell which entries to delete.                               *)
DeleteShares(o, s) ==
    LET keys == <<s>> \o (IF shares[s].code = NoCode THEN <<>> ELSE <<shares[s].code>>)
        table == NoneLeft
    IN  /\ Asks(o)
        /\ Live_Share(s)
        /\ shares' = table
        /\ owner' = [owner EXCEPT ![o] =
             [NoRequest EXCEPT !.pc = "clean", !.id = s, !.todo = keys]]
        /\ excused' = excused \cup
             (IF LiveShares = {s} THEN {}
              ELSE Unforeseen(table, {keys[i] : i \in DOMAIN keys}))
        /\ shareOps' = shareOps + 1
        /\ UNCHANGED <<shareKind, fileRow, shareCache, visit, late>>

NextEntry(o) == IF Len(owner[o].todo) = 1 THEN NoRequest
                ELSE [owner[o] EXCEPT !.todo = Tail(@)]

DeleteEntry(o) ==
    /\ owner[o].pc = "clean"
    /\ LET k == Head(owner[o].todo) IN
         /\ shareCache' = [shareCache EXCEPT ![k] = NoShare]
         /\ excused' = excused \ {k}
    /\ owner' = [owner EXCEPT ![o] = NextEntry(o)]
    /\ UNCHANGED <<shareKind, fileRow, shares, visit, late, shareOps>>

(* With Redis the deletion may fail, and nobody looks at its error.        *)
DeleteEntryFails(o) ==
    /\ owner[o].pc = "clean"
    /\ LET k == Head(owner[o].todo) IN
         excused' = excused \cup
           {m \in {k} : shareCache[m].live /\ shareCache[m] # Lookup(shares, m)}
    /\ owner' = [owner EXCEPT ![o] = NextEntry(o)]
    /\ UNCHANGED <<shareKind, fileRow, shares, shareCache, visit, late, shareOps>>

-----------------------------------------------------------------------------
(* The row of the file or folder goes: a folder that is deleted or that a  *)
(* move replaces, a file that is purged.  ON DELETE CASCADE takes its      *)
(* shares, and nobody deletes an entry.                                    *)
FileRemoved ==
    /\ fileRow
    /\ fileRow' = FALSE
    /\ shares' = NoneLeft
    /\ excused' = excused \cup Unforeseen(NoneLeft, {})
    /\ UNCHANGED <<shareKind, shareCache, owner, visit, late, shareOps>>

SharesNext ==
    \/ \E v \in Visitors, k \in ShareKeys : VisitHit(v, k) \/ VisitMiss(v, k)
    \/ \E v \in Visitors : VisitLoad(v) \/ VisitStore(v)
    \/ \E k \in ShareKeys : EvictShare(k)
    \/ Expire \/ FileRemoved
    \/ \E o \in Owners :
         \/ \E s \in ShareIds, code \in Codes \cup {NoCode}, new \in NewShares :
              CreateShare(o, s, code, new)
         \/ \E req \in EditRequests : EditRead(o, req)
         \/ EditWrite(o) \/ DeleteEntry(o) \/ DeleteEntryFails(o)
         \/ \E s \in ShareIds : DeleteShares(o, s)

SharesSpec == SharesInit /\ [][SharesNext]_shareVars

-----------------------------------------------------------------------------
(* Types.  block_direct_link and always_direct_link are never both set,    *)
(* whatever edits overlap (pkg/services/shortlink.go:49).                  *)
SharesTypeOK ==
    /\ shares \in [ShareIds -> ShareRow]
    /\ \A s \in ShareIds : ~(shares[s].block /\ shares[s].always)
    /\ shareCache \in [ShareKeys -> ShareRow]
    /\ fileRow \in BOOLEAN
    /\ \A o \in Owners : owner[o].pc \in {"idle", "write", "clean"}
    /\ excused \subseteq ShareKeys

(* An owner's request is about to delete the entry.                        *)
Awaited(k) == \E o \in Owners : \E i \in DOMAIN owner[o].todo : owner[o].todo[i] = k

(* A visitor is answered from the cache as the row in the database would   *)
(* have it, but while the request that changed the row has still to delete *)
(* the entry, or when the entry was stored by a lookup that had read the   *)
(* row before the change, the share expired after it was cached, another   *)
(* edit had changed the code in between, another share of the same file    *)
(* was the one whose entries were deleted, the deletion of the entry       *)
(* failed, or the share went with its file or folder (FetchArg with no     *)
(* expiration, FilesEditShare, FilesDeleteShare, the foreign key fk_file). *)
StaleShareHasCause ==
    \A k \in ShareKeys :
       /\ shareCache[k].live
       /\ ~SameAnswers(shareCache[k], Lookup(shares, k))
       => k \in excused \/ Awaited(k)
=============================================================================
