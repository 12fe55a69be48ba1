------------------------------- MODULE DedupJobs -------------------------------
(***************************************************************************)
(* The list of deduplication jobs a server keeps in memory: a job is       *)
(* entered when a user asks for a run, the run - a goroutine of its own -  *)
(* keeps its entry up to date, and the oldest entries of a user are        *)
(* dropped when there are more than MaxJobs.                               *)
(***************************************************************************)
EXTENDS Naturals, FiniteSets

CONSTANTS
    JobUsers,   \* users
    MaxJobIds,  \* bound on the jobs ever created
    MaxJobs,    \* entries kept per user, 20 in the code
    MaxClock    \* bound on the clock that stamps the jobs

ASSUME DedupJobsAssumption ==
    /\ MaxJobs \in Nat \ {0} /\ MaxJobIds \in Nat /\ MaxClock \in Nat
    /\ JobUsers # {}

(* Jobs, in the order in which they are created.                           *)
JobIds == 1 .. MaxJobIds

VARIABLES
    dedupJobs, \* dedupManager.jobs: what is entered for a job
    runs,      \* how far the run of a job is
    clock      \* the time of the last job

jobVars == <<dedupJobs, runs, clock>>

JobEnded == {"completed", "failed"}

(* A record of the list; kept is whether it is in the map.                 *)
JobRecord == [kept : BOOLEAN, user : JobUsers, started : 0 .. MaxClock,
              status : {"pending", "running"} \cup JobEnded]

(* A run has not been asked for, is before its first update, in the core,  *)
(* or over.                                                                *)
RunState == {"none", "queued", "core"} \cup JobEnded

JobsInit ==
    /\ LET u == CHOOSE v \in JobUsers : TRUE IN
         dedupJobs = [j \in JobIds |->
           [kept |-> FALSE, user |-> u, started |-> 0, status |-> "pending"]]
    /\ runs = [j \in JobIds |-> "none"]
    /\ clock = 0

Created(j) == runs[j] # "none"
Kept(v, u) == {j \in JobIds : v[j].kept /\ v[j].user = u}

(* The records from which the next one to drop is taken.                   *)
OldestOf(v, S) == {j \in S : \A k \in S : v[j].started <= v[k].started}

Drop(v, j) == [v EXCEPT ![j].kept = FALSE]

(* Mutant: the entries of all users are counted together.                  *)
Pruned_AllUsers(v, u) ==
    LET all == {j \in JobIds : v[j].kept} IN
    IF Cardinality(all) <= MaxJobs THEN {v} ELSE {Drop(v, j) : j \in OldestOf(v, all)}

(* pruneLocked: a list that is one too long loses one of its oldest.       *)
Pruned(v, u) ==
    LET owned == Kept(v, u) IN
    IF Cardinality(owned) <= MaxJobs THEN {v}
    ELSE {Drop(v, j) : j \in OldestOf(v, owned)}

(* DedupStartJob: create and prune under the lock, then the run. time.Now  *)
(* may stand still between two jobs.                                       *)
StartJob(u, j, now) ==
    /\ ~Created(j) /\ \A i \in 1 .. j - 1 : Created(i)
    /\ clock <= now /\ clock' = now
    /\ LET job == [kept |-> TRUE, user |-> u, started |-> now, status |-> "pending"]
       IN  dedupJobs' \in Pruned([dedupJobs EXCEPT ![j] = job], u)
    /\ runs' = [runs EXCEPT ![j] = "queued"]

(* dedupManager.update: nothing, when the record is gone.                  *)
UpdateJob(j, status) ==
    dedupJobs' = IF dedupJobs[j].kept THEN [dedupJobs EXCEPT ![j].status = status] ELSE dedupJobs

RunBegins(j) ==
    /\ runs[j] = "queued"
    /\ UpdateJob(j, "running")
    /\ runs' = [runs EXCEPT ![j] = "core"]
    /\ UNCHANGED clock

(* RunDedupForUser returns, with an error or without.                      *)
RunEnds(j, result) ==
    /\ runs[j] = "core"
    /\ UpdateJob(j, result)
    /\ runs' = [runs EXCEPT ![j] = result]
    /\ UNCHANGED clock

JobStep(j) == RunBegins(j) \/ \E r \in JobEnded : RunEnds(j, r)

JobsNext ==
    \E j \in JobIds :
       \/ JobStep(j)
       \/ \E u \in JobUsers, now \in 0 .. MaxClock : StartJob(u, j, now)

JobsSpec == JobsInit /\ [][JobsNext]_jobVars

-----------------------------------------------------------------------------
JobsTypeOK == dedupJobs \in [JobIds -> JobRecord] /\ runs \in [JobIds -> RunState]

(* A user finds a job in the list unless MaxJobs others of the same user   *)
(* are there that began no earlier, and finds of a job what its run has    *)
(* come to: jobs of other users, and runs that have lost their entry,      *)
(* change nothing (dedupManager).                                          *)
JobsLedger ==
    \A j \in JobIds : Created(j) =>
       /\ dedupJobs[j].kept =>
            dedupJobs[j].status = CASE runs[j] = "queued" -> "pending"
                                    [] runs[j] = "core" -> "running"
                                    [] OTHER -> runs[j]
       /\ ~dedupJobs[j].kept =>
            Cardinality({k \in Kept(dedupJobs, dedupJobs[j].user) :
                           dedupJobs[k].started >= dedupJobs[j].started}) = MaxJobs
=============================================================================
