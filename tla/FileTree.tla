------------------------------- MODULE FileTree -------------------------------
(***************************************************************************)
(* The folder tree that the rows of teldrive.files span by parent_id, and  *)
(* the requests that change it: create, mkdir, copy into a path, move with *)
(* and without a new name, update of name and parent, and delete; a zip    *)
(* download walks it.  There is no foreign key on parent_id, so a row may  *)
(* name a parent that is gone, is a file, or lies below the row itself.    *)
(*                                                                         *)
(* Transactions run at READ COMMITTED: each statement sees what is         *)
(* committed when it starts, and what its own transaction wrote.  What a   *)
(* transaction of several statements has written is in act[c].wrote until  *)
(* it commits; those rows are locked meanwhile, and the key of an active   *)
(* one belongs to the unique index, so that others wait for it.            *)
(***************************************************************************)
EXTENDS Naturals, Sequences, FiniteSets

CONSTANTS
    MaxNodes,   \* bound on the rows ever inserted, the root folder included
    NodeNames,  \* names of files and folders
    RootName,   \* the name of the root folder
    Actors,     \* requests the server can be serving at the same time
    TreeOps,    \* the operations clients ask for
    StartNodes, \* bound on the rows before the first request of the run
    MaxIds,     \* bound on the ids of one request
    MaxPath,    \* bound on the length of a path given to mkdir
    MaxCalls,   \* bound on the calls that clients make
    NoName      \* no new name, no leaf

OpNames == {"create", "mkdir", "copy", "move", "rename", "update", "delete",
            "zip", "purge"}

ASSUME FileTreeAssumption ==
    /\ MaxNodes \in Nat \ {0}
    /\ StartNodes \in Nat /\ MaxIds \in Nat /\ MaxPath \in Nat /\ MaxCalls \in Nat
    /\ TreeOps \subseteq OpNames
    /\ RootName \notin NodeNames /\ NoName \notin NodeNames
    /\ NoName # RootName

VARIABLES
    rows,   \* teldrive.files
    act,    \* the request each client has in flight
    due,    \* history: what the zip walk of a request has still to find
    calls   \* how many calls clients have made

treeVars == <<rows, act, due, calls>>

Root == 1
NoNode == 0
Nodes == 1 .. MaxNodes
FileType == {"file", "folder"}

NodeRow == [ status : {"free", "active", "pending_deletion", "removed"},
             name   : NodeNames \cup {RootName, NoName},
             parent : Nodes \cup {NoNode},
             type   : FileType ]

UnusedRow == [ status |-> "free", name |-> NoName, parent |-> NoNode,
               type |-> "file" ]
RootRow == [ status |-> "active", name |-> RootName, parent |-> NoNode,
             type |-> "folder" ]

StartRows == {UnusedRow} \cup
             [ status : {"active"}, name : NodeNames, parent : Nodes, type : FileType ]

Paths == UNION {[1 .. k -> NodeNames] : k \in 1 .. MaxPath}

NoRows == [n \in {} |-> UnusedRow]

Act == [ op    : OpNames \cup {"none"},
         pc    : {"idle", "ready", "merge", "replace", "finish", "pluck"},
         ids   : SUBSET Nodes,           \* the ids the request names
         dest  : Nodes \cup {NoNode},    \* the resolved destination
         name  : NodeNames \cup {NoName},
         type  : FileType,               \* what a create makes
         path  : Seq(NodeNames),         \* what mkdir has still to walk
         found : Nodes \cup {NoNode},    \* the existing row of a rename
         kept  : SUBSET Nodes,           \* history: what its merge has to keep
         batch : SUBSET Nodes,           \* the folders the zip walk has read
         files : SUBSET Nodes,           \* what it has collected
         seen  : SUBSET Nodes,           \* the rows it has processed
         wrote : {NoRows} ]              \* what it has yet to commit, row by row

IdleAct == [ op |-> "none", pc |-> "idle", ids |-> {}, dest |-> NoNode,
             name |-> NoName, type |-> "file", path |-> <<>>,
             found |-> NoNode, kept |-> {}, batch |-> {}, files |-> {},
             seen |-> {},
             wrote |-> NoRows ]

(* What a series of creates has made of the empty tree: each row in a      *)
(* folder made before it.                                                  *)
Grown(v) ==
    /\ v[Root] = RootRow
    /\ \A n \in Nodes \ {Root} :
         \/ v[n] = UnusedRow /\ \A m \in Nodes : m > n => v[m] = UnusedRow
         \/ /\ n <= StartNodes
            /\ v[n].status = "active" /\ v[n].name \in NodeNames
            /\ v[n].parent \in 1 .. n - 1 /\ v[v[n].parent].type = "folder"
            /\ \A m \in 1 .. n - 1 : <<v[m].name, v[m].parent>> # <<v[n].name, v[n].parent>>

TreeInit ==
    /\ \E start \in [2 .. StartNodes -> StartRows] :
          rows = [n \in Nodes |-> IF n = Root THEN RootRow
                                 ELSE IF n \in DOMAIN start THEN start[n] ELSE UnusedRow]
    /\ Grown(rows)
    /\ act = [c \in Actors |-> IdleAct]
    /\ due = [c \in Actors |-> {}]
    /\ calls = 0

-----------------------------------------------------------------------------
(* Rows and trees.  v is the table as a statement sees it. *)

Present(v, n) == v[n].status \in {"active", "pending_deletion"}
Live(v, n) == v[n].status = "active"

(* The recursive queries: the rows of S, and level by level their children,*)
(* as far as they are in T.                                                *)
Down(v, S, T) ==
    LET level[k \in 0 .. MaxNodes] ==
          IF k = 0 THEN S \cap T
          ELSE LET above == level[k - 1]
               IN  above \cup {n \in T : v[n].parent \in above}
    IN  level[MaxNodes]

Subtree(v, S) == Down(v, S, {n \in Nodes : Present(v, n)})

(* A row of S has itself below it: UNION ALL never finishes on it.         *)
Endless(v, S) ==
    \E n \in Subtree(v, S) :
       n \in Subtree(v, {m \in Nodes : Present(v, m) /\ v[m].parent = n})

(* The rows a client can get to: active, below active rows, below the root.*)
Reachable(v) == Down(v, {Root}, {n \in Nodes : Live(v, n)})

(* The files below S, along folders.                                       *)
FilesBelow(v, S) ==
    LET folders == {m \in Nodes : v[m].type = "folder"}
        walked == {m \in Nodes : Live(v, m) /\ (m \in S \/ v[m].parent \in folders)}
    IN  Down(v, S, walked) \ folders

Children(v, n) == {m \in Nodes : Live(v, m) /\ v[m].parent = n}
NamesIn(v, n) == {v[m].name : m \in Children(v, n)}

(* What the transaction of c sees.                                         *)
View(c) ==
    [n \in Nodes |-> IF n \in DOMAIN act[c].wrote THEN act[c].wrote[n]
                                                  ELSE rows[n]]

LockedFor(c, S) == \E o \in Actors \ {c} : DOMAIN act[o].wrote \cap S # {}

(* Another transaction holds an entry of unique_file_idx with this key.    *)
KeyHeld(c, name, parent) ==
    \E o \in Actors \ {c} : \E n \in DOMAIN act[o].wrote :
       LET r == act[o].wrote[n] IN
       r.status = "active" /\ r.name = name /\ r.parent = parent

(* unique_file_idx: name, parent and user of the active rows.              *)
Unique(v) ==
    \A m, n \in Nodes :
       (m # n /\ Live(v, m) /\ Live(v, n)) =>
          <<v[m].name, v[m].parent>> # <<v[n].name, v[n].parent>>

(* A statement of c that changes v into w may run now: it waits for no     *)
(* lock and breaks no index.                                               *)
Allowed(c, v, w) ==
    LET changed == {n \in Nodes : w[n] # v[n]} IN
    /\ ~LockedFor(c, changed)
    /\ Unique(w)
    /\ \A n \in changed : Live(w, n) => ~KeyHeld(c, w[n].name, w[n].parent)

-----------------------------------------------------------------------------
(* Statements: the table before, the table after. *)

(* Mutant: folders inside the deleted one are left alone.                  *)
BulkDelete_OneLevel(v, ids) ==
    LET gone == {n \in Nodes : Present(v, n) /\ (n \in ids \/ v[n].parent \in ids)} IN
    [n \in Nodes |->
       IF n \notin gone THEN v[n]
       ELSE IF v[n].type = "file" THEN [v[n] EXCEPT !.status = "pending_deletion"]
       ELSE IF n \in ids THEN [v[n] EXCEPT !.status = "removed"] ELSE v[n]]

BulkDelete(v, ids) ==
    LET gone == Subtree(v, ids) IN
    [n \in Nodes |->
       IF n \notin gone THEN v[n]
       ELSE IF v[n].type = "file" THEN [v[n] EXCEPT !.status = "pending_deletion"]
       ELSE [v[n] EXCEPT !.status = "removed"]]

(* Mutant: the merge moves the entries that both folders have.             *)
Merged_Clashes(v, src, existing) ==
    {n \in Children(v, existing) : v[n].name \in NamesIn(v, src)}

(* The entries of the replaced folder whose names the moved one has not.   *)
Merged(v, src, existing) ==
    {n \in Children(v, existing) : v[n].name \notin NamesIn(v, src)}

MergeInto(v, src, existing) ==
    [n \in Nodes |->
       IF n \in Merged(v, src, existing) THEN [v[n] EXCEPT !.parent = src] ELSE v[n]]

Relocate(v, ids, dest) ==
    [n \in Nodes |->
       IF n \in ids /\ Present(v, n) THEN [v[n] EXCEPT !.parent = dest] ELSE v[n]]

Rename(v, ids, dest, name) ==
    [n \in Nodes |->
       IF n \in ids /\ Present(v, n)
       THEN [v[n] EXCEPT !.parent = dest, !.name = name] ELSE v[n]]


(* The rows that are inserted next: ids are never used again.              *)
Used(v) == Cardinality({n \in Nodes : v[n].status # "free"})

NewRow(name, parent, type) ==
    [status |-> "active", name |-> name, parent |-> parent, type |-> type]

InsertRow(v, name, parent, type) ==
    [v EXCEPT ![Used(v) + 1] = NewRow(name, parent, type)]

(* The rest of a path below cur, and a file at its end unless leaf is      *)
(* NoName.                                                                 *)
InsertChain(v, cur, path, leaf) ==
    LET u == Used(v)
        last == u + Len(path)
        above(n) == IF n = u + 1 THEN cur ELSE n - 1
    IN  [n \in Nodes |->
           IF n \in u + 1 .. last THEN NewRow(path[n - u], above(n), "folder")
           ELSE IF n = last + 1 /\ leaf # NoName
                THEN NewRow(leaf, above(n), "file") ELSE v[n]]

RoomFor(k) == Used(rows) + k <= MaxNodes

(* ON CONFLICT: an active row with this key is overwritten, its type too.  *)
Upsert(v, name, parent, type) ==
    LET hit == {n \in Nodes : Live(v, n) /\ v[n].name = name /\ v[n].parent = parent}
    IN  IF hit = {} THEN InsertRow(v, name, parent, type)
        ELSE [n \in Nodes |-> IF n \in hit THEN [v[n] EXCEPT !.type = type] ELSE v[n]]

-----------------------------------------------------------------------------
(* Steps *)

Commit(w) ==
    /\ rows' = w
    /\ due' = [o \in Actors |-> due[o] \ Subtree(rows, {n \in Nodes : w[n] # rows[n]})]

(* The requests that may begin.                                            *)
Callers == IF calls < MaxCalls THEN {c \in Actors : act[c].pc = "idle"} ELSE {}
Running == {c \in Actors : act[c].pc # "idle"}

Begin(c, r) ==
    /\ c \in Callers
    /\ calls' = calls + 1
    /\ act' = [act EXCEPT ![c] = r]
    /\ UNCHANGED rows

Goto(c, pc) == act' = [act EXCEPT ![c].pc = pc]
Done(c) == act' = [act EXCEPT ![c] = IdleAct]

(* The error returns: a failed statement, a broken index, a deadlock, a    *)
(* cancelled request.  What the transaction wrote is gone.                 *)
Fail(c) ==
    /\ c \in Running
    /\ Done(c)
    /\ due' = [due EXCEPT ![c] = {}]
    /\ UNCHANGED <<rows, calls>>

(* Ids that clients may have come across, of rows that are there or were.  *)
(* A parent that is given by its id is not looked up.                      *)
Known(n) == rows[n].status # "free"

(* FilesCreate: the path is resolved, or the id of the parent given, before*)
(* the row is written.                                                     *)
CreateStart(c, name, dest, type) ==
    /\ "create" \in TreeOps
    /\ Known(dest)
    /\ Begin(c, [IdleAct EXCEPT !.op = "create", !.pc = "ready", !.name = name,
                                !.dest = dest, !.type = type])
    /\ UNCHANGED due

CreateRow(c) ==
    /\ act[c].op = "create"
    /\ RoomFor(1)
    /\ LET w == Upsert(rows, act[c].name, act[c].dest, act[c].type) IN
         /\ Allowed(c, rows, w)
         /\ Commit(w)
    /\ Done(c)
    /\ UNCHANGED calls

(* create_directories, for FilesMkdir and for FilesCopy into a path.       *)
PathStart(c, op, path, leaf) ==
    /\ op \in TreeOps
    /\ (op = "copy") = (leaf # NoName)
    /\ Begin(c, [IdleAct EXCEPT !.op = op, !.pc = "ready", !.path = path,
                                !.name = leaf, !.dest = Root])
    /\ UNCHANGED due

(* One element: any row with that name, whatever its type and status.      *)
PathStep(c, n) ==
    /\ act[c].op \in {"mkdir", "copy"} /\ act[c].path # <<>>
    /\ Present(rows, n)
    /\ rows[n].parent = act[c].dest /\ rows[n].name = Head(act[c].path)
    /\ act' = [act EXCEPT ![c].dest = n, ![c].path = Tail(@)]
    /\ UNCHANGED <<rows, due, calls>>

(* The first element that is missing, and with it the rest; then the copy. *)
PathInsert(c) ==
    LET r == act[c] IN
    /\ r.op \in {"mkdir", "copy"}
    /\ r.path # <<>> => ~\E n \in Nodes : /\ Present(rows, n) /\ rows[n].parent = r.dest
                                          /\ rows[n].name = Head(r.path)
    /\ RoomFor(Len(r.path) + (IF r.name = NoName THEN 0 ELSE 1))
    /\ LET w == InsertChain(rows, r.dest, r.path, r.name) IN
         /\ Allowed(c, rows, w)
         /\ Commit(w)
    /\ Done(c)
    /\ UNCHANGED calls

(* FilesUpdate of a name or of a parent.                                   *)
UpdateStart(c, n, dest, name) ==
    /\ "update" \in TreeOps
    /\ n # Root /\ Known(n)
    /\ dest # NoNode => Known(dest)
    /\ (dest = NoNode) # (name = NoName)
    /\ Begin(c, [IdleAct EXCEPT !.op = "update", !.pc = "ready", !.ids = {n},
                                !.dest = dest, !.name = name])
    /\ UNCHANGED due

(* Mutant: fields that the request does not set are written all the same.  *)
UpdateRow_Unset(c) ==
    LET r == act[c]
        w == [n \in Nodes |->
                IF n \in r.ids /\ Present(rows, n)
                THEN [rows[n] EXCEPT !.parent = r.dest, !.name = r.name] ELSE rows[n]]
    IN  /\ r.op = "update"
        /\ \A n \in r.ids : Present(rows, n)
        /\ Allowed(c, rows, w)
        /\ Commit(w)
        /\ Done(c)
        /\ UNCHANGED calls

UpdateRow(c) ==
    LET r == act[c]
        w == [n \in Nodes |->
                IF n \in r.ids /\ Present(rows, n)
                THEN [rows[n] EXCEPT !.parent = IF r.dest = NoNode THEN @ ELSE r.dest,
                                     !.name = IF r.name = NoName THEN @ ELSE r.name]
                ELSE rows[n]]
    IN  /\ r.op = "update"
        /\ \A n \in r.ids : Present(rows, n)
        /\ Allowed(c, rows, w)
        /\ Commit(w)
        /\ Done(c)
        /\ UNCHANGED calls

(* FilesDelete                                                             *)
DeleteStart(c, ids) ==
    /\ "delete" \in TreeOps
    /\ \E n \in ids : Present(rows, n)
    /\ Begin(c, [IdleAct EXCEPT !.op = "delete", !.pc = "ready", !.ids = ids])
    /\ UNCHANGED due

DeleteRows(c) ==
    LET w == BulkDelete(rows, act[c].ids) IN
    /\ act[c].op = "delete"
    /\ ~Endless(rows, act[c].ids)
    /\ ~LockedFor(c, Subtree(rows, act[c].ids))
    /\ Allowed(c, rows, w)
    /\ Commit(w)
    /\ Done(c)
    /\ UNCHANGED calls

(* FilesMove.  A destination given as a path is resolved before the        *)
(* transaction.                                                            *)
MoveStart(c, ids, dest, name) ==
    /\ IF name = NoName THEN "move" \in TreeOps
                        ELSE "rename" \in TreeOps /\ Cardinality(ids) = 1
    /\ \A n \in ids \cup {dest} : Known(n)
    /\ Begin(c, [IdleAct EXCEPT !.op = IF name = NoName THEN "move" ELSE "rename",
                                !.pc = "ready", !.ids = ids, !.dest = dest,
                                !.name = name])
    /\ UNCHANGED due

(* Without a new name it is one statement; the first id must exist.        *)
MoveRows(c) ==
    LET w == Relocate(rows, act[c].ids, act[c].dest) IN
    /\ act[c].op = "move"
    /\ \E n \in act[c].ids : Present(rows, n)
    /\ Allowed(c, rows, w)
    /\ Commit(w)
    /\ Done(c)
    /\ UNCHANGED calls

(* With a new name: read the row, and the one that has the name already.   *)
RenameRead(c) ==
    /\ act[c].op = "rename" /\ act[c].pc = "ready"
    /\ \E src \in act[c].ids :
         /\ Present(rows, src)
         /\ LET hit == {n \in Nodes : /\ Live(rows, n) /\ rows[n].name = act[c].name
                                      /\ rows[n].parent = act[c].dest}
                both(n) == rows[src].type = "folder" /\ rows[n].type = "folder"
            IN  IF hit = {} THEN Goto(c, "finish")
                ELSE \E n \in hit :
                       act' = [act EXCEPT ![c].found = n,
                                          ![c].pc = IF both(n) THEN "merge" ELSE "replace"]
    /\ UNCHANGED <<rows, due, calls>>

(* A statement of the transaction: the rows it writes stay with it, also    *)
(* those that it leaves as they are.                                       *)
Stage(c, written, w, r) ==
    /\ Allowed(c, View(c), w)
    /\ ~LockedFor(c, written)
    /\ act' = [act EXCEPT ![c] =
                 [r EXCEPT !.wrote = [n \in written \cup DOMAIN r.wrote |-> w[n]]]]
    /\ UNCHANGED <<rows, due, calls>>

RenameMerge(c) ==
    /\ act[c].pc = "merge"
    /\ \E src \in act[c].ids :
         LET v == View(c) IN
         Stage(c, Merged(v, src, act[c].found), MergeInto(v, src, act[c].found),
               [act[c] EXCEPT !.pc = "replace",
                              !.kept = {n \in Children(v, act[c].found) :
                                          v[n].name \notin NamesIn(v, src)}])

RenameReplace(c) ==
    LET v == View(c) IN
    /\ act[c].pc = "replace"
    /\ ~Endless(v, {act[c].found})
    /\ Stage(c, Subtree(v, {act[c].found}), BulkDelete(v, {act[c].found}),
             [act[c] EXCEPT !.pc = "finish"])

RenameFinish(c) ==
    LET v == View(c)
        w == Rename(v, act[c].ids, act[c].dest, act[c].name)
    IN  /\ act[c].op = "rename" /\ act[c].pc = "finish"
        /\ Allowed(c, v, w)
        /\ Commit(w)
        /\ Done(c)
        /\ UNCHANGED calls

(* collectFilesRecursive                                                   *)
ZipStart(c, ids) ==
    /\ "zip" \in TreeOps
    /\ Begin(c, [IdleAct EXCEPT !.op = "zip", !.pc = "ready", !.ids = ids])
    /\ due' = [due EXCEPT ![c] = FilesBelow(rows, ids)]

ZipBatch(c) ==
    LET new == {n \in act[c].ids : Live(rows, n)} \ act[c].seen
        folders == {n \in new : rows[n].type = "folder"}
    IN  /\ act[c].op = "zip" /\ act[c].pc = "ready"
        /\ act' = [act EXCEPT ![c].ids = {}, ![c].batch = folders,
                              ![c].seen = @ \cup new,
                              ![c].files = @ \cup (new \ folders),
                              ![c].pc = IF new = {} THEN "finish" ELSE "pluck"]
        /\ UNCHANGED <<rows, due, calls>>

(* Mutant: the children of a folder replace those of the one before it.    *)
ZipChildren_Overwrites(c, n) ==
    /\ act[c].pc = "pluck" /\ n \in act[c].batch
    /\ act' = [act EXCEPT ![c].ids = Children(rows, n), ![c].batch = @ \ {n}]
    /\ UNCHANGED <<rows, due, calls>>

ZipChildren(c, n) ==
    /\ act[c].pc = "pluck" /\ n \in act[c].batch
    /\ act' = [act EXCEPT ![c].ids = @ \cup Children(rows, n), ![c].batch = @ \ {n}]
    /\ UNCHANGED <<rows, due, calls>>

ZipNext(c) ==
    /\ act[c].pc = "pluck" /\ act[c].batch = {}
    /\ Goto(c, IF act[c].ids = {} THEN "finish" ELSE "ready")
    /\ UNCHANGED <<rows, due, calls>>

ZipDone(c) ==
    /\ act[c].op = "zip" /\ act[c].pc = "finish"
    /\ Done(c)
    /\ due' = [due EXCEPT ![c] = {}]
    /\ UNCHANGED <<rows, calls>>

(* cleanFiles removes a row that is pending deletion.                      *)
PurgeRow(n) ==
    /\ "purge" \in TreeOps
    /\ rows[n].status = "pending_deletion"
    /\ \A o \in Actors : n \notin DOMAIN act[o].wrote
    /\ Commit([rows EXCEPT ![n].status = "removed"])
    /\ UNCHANGED <<act, calls>>

IdSets == {S \in SUBSET (Nodes \ {Root}) : S # {} /\ Cardinality(S) <= MaxIds}

TreeNext ==
    \/ \E c \in Callers :
         \/ \E name \in NodeNames, dest \in Nodes, type \in FileType :
              CreateStart(c, name, dest, type)
         \/ \E path \in Paths : PathStart(c, "mkdir", path, NoName)
         \/ \E path \in Paths, leaf \in NodeNames : PathStart(c, "copy", path, leaf)
         \/ \E n \in Nodes, dest \in Nodes \cup {NoNode}, name \in NodeNames \cup {NoName} :
              UpdateStart(c, n, dest, name)
         \/ \E ids \in IdSets : DeleteStart(c, ids)
         \/ \E ids \in IdSets : ZipStart(c, ids)
         \/ \E ids \in IdSets, dest \in Nodes, name \in NodeNames \cup {NoName} :
              MoveStart(c, ids, dest, name)
    \/ \E c \in Running :
         \/ \E n \in Nodes : PathStep(c, n) \/ ZipChildren(c, n)
         \/ CreateRow(c) \/ PathInsert(c) \/ UpdateRow(c) \/ DeleteRows(c)
         \/ MoveRows(c) \/ RenameRead(c) \/ RenameMerge(c) \/ RenameReplace(c)
         \/ RenameFinish(c) \/ ZipBatch(c) \/ ZipNext(c) \/ ZipDone(c) \/ Fail(c)
    \/ \E n \in Nodes : PurgeRow(n)

TreeSpec == TreeInit /\ [][TreeNext]_treeVars
-----------------------------------------------------------------------------
(* Properties *)

(* Types; ids are handed out in order, only the root has no parent and     *)
(* every row that was inserted has a name.                                 *)
TreeTypeOK ==
    /\ rows \in [Nodes -> NodeRow]
    /\ \A n \in Nodes : rows[n].status # "free" =>
         /\ \A m \in 1 .. n : rows[m].status # "free"
         /\ rows[n].name # NoName
         /\ (rows[n].parent = NoNode) = (n = Root)
    /\ \A c \in Actors :
         /\ [act[c] EXCEPT !.wrote = NoRows] \in Act
         /\ DOMAIN act[c].wrote \subseteq Nodes
         /\ \A n \in DOMAIN act[c].wrote : act[c].wrote[n] \in NodeRow
    /\ due \in [Actors -> SUBSET Nodes]
    /\ calls \in 0 .. MaxCalls

Stranded(v) == {n \in Nodes : Live(v, n)} \ Reachable(v)

(* An active row that no walk from the root reaches any more was lost in   *)
(* one of four ways: a folder was put below itself (nothing compares the   *)
(* destination of a move with what it moves); a row was written below a    *)
(* folder that had been deleted, or was out of reach, by then, maybe by    *)
(* the move itself (parent_id has no foreign key, and create_directories   *)
(* takes a row that waits for its deletion for a folder); it was put into  *)
(* a folder after the transaction that replaces the folder had listed what *)
(* to delete; or it was merged into a folder that is itself gone.  In      *)
(* particular a delete leaves nothing behind below what it deletes.        *)
LostByLoop(n) == Endless(rows', {m \in Nodes : n \in Subtree(rows', {m})})

LostBelowGone(c, n) ==
    /\ act[c].pc \in {"ready", "finish"}
    /\ act[c].dest \notin Reachable(View(c))
    /\ n \in Subtree(rows', {m \in Nodes : /\ rows'[m] # rows[m] \/ m \in act[c].ids
                                           /\ rows'[m].parent = act[c].dest})

LostByReplace(c, n) ==
    /\ act[c].pc = "finish" /\ act[c].found # NoNode
    /\ \/ n \in Subtree(rows, {act[c].found}) \ DOMAIN act[c].wrote
       \/ /\ act[c].ids \cap Reachable(rows) = {}
          /\ n \in Subtree(rows', act[c].kept)

StrandsHaveCause ==
    [][ rows' # rows =>
          \A n \in Stranded(rows') \ Stranded(rows) :
             \/ LostByLoop(n)
             \/ \E c \in Actors :
                  act'[c].pc = "idle" /\ (LostBelowGone(c, n) \/ LostByReplace(c, n))
      ]_treeVars

(* A move under a new name that replaces something else brings what it     *)
(* moves to its destination, and everything the two folders do not both    *)
(* have with it, whatever other requests commit between its statements;    *)
(* unless what it replaces is the moved row itself or a folder above it,   *)
(* which deleteFilesBulk takes away with everything in it.  (A row may be  *)
(* an entry of what it replaces when that was deleted meanwhile.)          *)
MoveKeepsContents ==
    [][ \A c \in Actors :
          (act[c].op = "rename" /\ act[c].pc = "finish" /\ rows' # rows
             /\ act'[c].pc = "idle") =>
          \A s \in act[c].ids :
             Live(rows, s) /\ s \notin Subtree(rows, {act[c].found}) =>
                /\ rows'[s] = [rows[s] EXCEPT !.name = act[c].name,
                                              !.parent = act[c].dest]
                /\ act[c].kept \ {act[c].found, s} \subseteq Children(rows', s) ]_treeVars

(* The walk of a zip download ends, even below a folder that contains      *)
(* itself, with every file that stayed where it was.                       *)
ZipMissesNothing ==
    \A c \in Actors :
       act[c].op = "zip" /\ act[c].pc = "finish" => due[c] \subseteq act[c].files
=============================================================================
