------------------------------- MODULE MCStorage -------------------------------
(* The rows of the files: the folder tree, the listing of a folder, and    *)
(* the check of a channel against its rows.  They share no state that the  *)
(* model keeps, so that a behaviour is about the one that focus names, and *)
(* the others stay as they begin.                                          *)
EXTENDS FileTree, FileListing, ChannelCheck, TLC

CONSTANTS name1, name2,    \* names
          c1, c2,          \* requests
          i1, i2, i3, i4   \* rows of a listing

VARIABLE focus

storageVars == <<treeVars, listVars, checkVars, focus>>

AllOps == OpNames
Symmetry == Permutations(Actors) \cup Permutations(NodeNames)

(* The runs of the check that are looked at: without another answer than   *)
(* a plain run where a row is pending from the beginning.                  *)
CheckChoice ==
    /\ ckChannel # {} => ServiceMsg \in ckChannel
    /\ ck.asked.dry => ~ck.asked.cleanUploads
    /\ \A i \in Ids \ {1} : ckRows[i] # NoFile =>
          /\ ckRows[i].status = "active"
          /\ ck.asked = [dry |-> FALSE, cleanUploads |-> FALSE, cleanPending |-> FALSE]

(* Of trees that differ in the order of their ids, one: a parent's children *)
(* come after those of an earlier parent, folders before files.             *)
TreeChoice ==
    \A n, m \in Nodes \ {Root} :
        n < m /\ rows[n].status = "active" /\ rows[m].status = "active" =>
        /\ rows[n].parent <= rows[m].parent
        /\ rows[n].parent = rows[m].parent /\ rows[m].type = "folder" =>
              rows[n].type = "folder"

(* The server moves a second time while a row is still free.               *)
CheckRoom ==
    ckCause.events = 1 /\ ckCause'.events = 2 => \E i \in Ids : ckRows[i] = NoFile

(* A component that is not looked at: its initial states are all alike.    *)
NoTree ==
    /\ rows = [n \in Nodes |-> IF n = Root THEN RootRow ELSE UnusedRow]
    /\ act = [c \in Actors |-> IdleAct]
    /\ due = [c \in Actors |-> {}]
    /\ calls = 0

NoListing ==
    /\ key = [n \in Items |-> Gone]
    /\ order = "asc" /\ limit = CHOOSE l \in Limits : \A m \in Limits : l <= m
    /\ pages = <<>> /\ count = 0 /\ edits = <<>>

NoCheck ==
    /\ ckRows = [i \in Ids |-> NoFile]
    /\ ckChannel = {} /\ ckUploads = {}
    /\ ckClient = [sent |-> {}, commit |-> NoCommit]
    /\ ck = [run |-> Fresh,
             asked |-> [dry |-> FALSE, cleanUploads |-> FALSE, cleanPending |-> FALSE]]
    /\ ckCause = [written |-> {}, recorded |-> {}, events |-> 0]

MCInit ==
    \/ focus = "tree" /\ TreeInit /\ TreeChoice /\ NoListing /\ NoCheck
    \/ focus = "listing" /\ ListInit /\ NoTree /\ NoCheck
    \/ focus = "check" /\ CheckInit /\ CheckChoice /\ NoTree /\ NoListing

MCNext ==
    \/ focus = "tree" /\ TreeNext /\ UNCHANGED <<listVars, checkVars, focus>>
    \/ focus = "listing" /\ ListNext /\ UNCHANGED <<treeVars, checkVars, focus>>
    \/ focus = "check" /\ CheckNext /\ CheckRoom /\ UNCHANGED <<treeVars, listVars, focus>>

MCSpec == MCInit /\ [][MCNext]_storageVars

(* The types of the tree and of the check.                                 *)
StorageTypeOK == TreeTypeOK /\ CheckTypeOK
=============================================================================
