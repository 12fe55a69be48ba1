----------------------------- MODULE MCFileStore -----------------------------
(* Values for the constants of FileStore. *)
EXTENDS FileStore, TLC

CONSTANTS a, b, d,     \* file names
          x, y,        \* contents
          s1, s2, s3,  \* upload sessions
          c1, c2       \* requests

SameName == (s1 :> a) @@ (s2 :> a)
ThreeNames == (s1 :> a) @@ (s2 :> b) @@ (s3 :> d)
TwoNames == (s1 :> a) @@ (s2 :> b)

OneSession == s1 :> a
Yes == {TRUE}
No == {FALSE}
Both == BOOLEAN

(* What may be exchanged: contents and requests; in the runs whose sessions *)
(* have a name each, the names together with their sessions; in the run of  *)
(* the jobs, the names no session has; in the run of the sessions, these.   *)
Symmetry == Permutations(Contents) \cup Permutations(Clients)
SymmetryOfPairs == Symmetry \cup {(a :> b) @@ (b :> a) @@ (s1 :> s2) @@ (s2 :> s1)}
SymmetryOfFree == Symmetry \cup Permutations({b, d})
SymmetryOfSessions == Symmetry \cup Permutations(Sessions)

PurgeFeatures == {"create", "createEmpty", "update", "delete", "cleanFiles"}
CoreFeatures == {"create", "delete", "cleanFiles", "copy", "update", "truncate"}
JobFeatures == {"createDirect", "copy", "delete", "cleanFiles", "dedup", "backfill"}
SessionFeatures ==
    {"create", "createDirect", "update", "updateDirect", "uploadsDelete", "reuse",
     "retry", "delete", "cleanFiles", "cleanUploads"}
=============================================================================
