------------------------------ MODULE ModelJobs ------------------------------
(***************************************************************************)
(* Downloads and creations of models (services/model_jobs.py): started or  *)
(* joined, run as tasks of their own, cancelled, forgotten by age and      *)
(* number, and followed by a client (stores/jobs.svelte.ts) that loads the *)
(* list, subscribes to what runs and lets go.  A job that ends invalidates *)
(* the listing of its backend in ProviderRegistry.                         *)
(*                                                                         *)
(* A job's target is its backend; progress is its version.                 *)
(***************************************************************************)
EXTENDS ProviderRegistry, Sequences, SequencesExt

CONSTANTS MaxJobs, MaxLines, MaxFinished, MaxAnswers

ASSUME JobsAssumption == {MaxJobs, MaxLines, MaxFinished, MaxAnswers} \subseteq Nat

VARIABLES
  job,       \* every job there was: backend, state, version, whether cancel() was called
  jobs,      \* ids of the jobs the registry knows
  finished,  \* ids of finished jobs, newest first
  watch,     \* the client's subscriptions: stage and the version seen
  shown,     \* the job states the client shows
  answers,   \* answers on their way to the client
  told       \* how often onFinished was called for a job

jobVars == <<job, jobs, finished, watch, shown, answers, told>>

JobIds == 1..MaxJobs
Final  == {"succeeded", "failed", "cancelled"}
NoWatch == [at |-> "none", seen |-> 0]
Running(i) == job[i].state = "running"

Job == [backend : Providers, url : Urls, state : Final \cup {"running"}, version : Nat,
        stopping : BOOLEAN]

JobTypeOK ==
  /\ job \in Seq(Job)
  /\ jobs \subseteq DOMAIN job /\ DOMAIN job \subseteq JobIds
  /\ ToSet(finished) = {i \in DOMAIN job : ~Running(i)}
  /\ \A i \in JobIds : watch[i].at \in {"none", "asked", "streaming", "waiting"}
  /\ DOMAIN shown \subseteq DOMAIN job

JobInit ==
  /\ job = <<>> /\ jobs = {} /\ finished = <<>>
  /\ watch = [i \in JobIds |-> NoWatch]
  /\ shown = <<>> /\ answers = {}
  /\ told = [i \in JobIds |-> 0]

\* The snapshots of some jobs, as an answer carries them.
Snapshots(kind, ids) == [kind |-> kind, states |-> [i \in ids |-> job'[i].state]]

\* Mutant: every job counts, running ones too.
Pruned_Running(kept) ==
  {i \in jobs : \E n \in 1..kept : i = (finished \o SetToSeq(jobs \ ToSet(finished)))[n]}

\* _prune: of the finished jobs the newest stay, those within their age and number.
Pruned(kept) == {i \in jobs : Running(i) \/ \E n \in DOMAIN finished : n <= kept /\ finished[n] = i}

-----------------------------------------------------------------------------
(* The registry of jobs *)

\* start: join the job that runs for the target, or make one.
JobStarts(p, kept) ==
  LET same == {i \in jobs : Running(i) /\ job[i].backend = p}
      id   == Len(job) + 1
  IN /\ Cardinality(answers) < MaxAnswers
     /\ spec[p] # None
     /\ adapter' = [adapter EXCEPT ![p] = Adapter(p)]
     /\ \/ /\ same # {}
           /\ jobs' = Pruned(kept) /\ job' = job
           /\ answers' = answers \cup {Snapshots("started", same)}
        \/ /\ same = {} /\ id \in JobIds
           /\ job' = Append(job, [backend |-> p, url |-> Adapter(p).url, state |-> "running",
                                  version |-> 0, stopping |-> FALSE])
           /\ jobs' = Pruned(kept) \cup {id}
           /\ answers' = answers \cup {Snapshots("started", {id})}
  /\ UNCHANGED <<finished, watch, shown, told, row, spec, cache, served, edit, probe, listing,
                 operation, due, epoch, raced>>

\* apply: a progress line, behind which the backend may have changed.
JobAdvances(i, changes) ==
  /\ i \in DOMAIN job /\ Running(i) /\ ~job[i].stopping
  /\ job[i].version < MaxLines
  /\ job' = [job EXCEPT ![i].version = @ + 1]
  /\ watch' = IF watch[i].at = "waiting" THEN [watch EXCEPT ![i].at = "streaming"] ELSE watch
  /\ IF changes THEN BackendChanges(job[i].url) ELSE served' = served
  /\ UNCHANGED <<jobs, finished, shown, answers, told, row, spec, adapter, cache, edit, probe,
                 listing, operation, due, epoch, raced>>

\* Mutant: finish does not wake the subscribers.
JobEnds_Silent(i, how) ==
  /\ i \in DOMAIN job /\ Running(i)
  /\ (how = "cancelled") = job[i].stopping
  /\ job' = [job EXCEPT ![i].state = how]
  /\ finished' = <<i>> \o finished
  /\ watch' = watch
  /\ Invalidated(job[i].backend)
  /\ UNCHANGED <<jobs, shown, answers, told, row, spec, adapter, served, edit, probe, listing,
                 operation, raced>>

\* _run ends as the operation does, or cancelled if cancel() came first; either way it
\* wakes the subscribers and invalidates the listing.
JobEnds(i, how) ==
  /\ i \in DOMAIN job /\ Running(i)
  /\ (how = "cancelled") = job[i].stopping
  /\ job' = [job EXCEPT ![i].state = how, ![i].version = @ + 1]
  /\ finished' = <<i>> \o finished
  /\ watch' = IF watch[i].at = "waiting" THEN [watch EXCEPT ![i].at = "streaming"] ELSE watch
  /\ Invalidated(job[i].backend)
  /\ UNCHANGED <<jobs, shown, answers, told, row, spec, adapter, served, edit, probe, listing,
                 operation, raced>>

JobCancels(i) ==
  /\ i \in jobs /\ Running(i)
  /\ job' = [job EXCEPT ![i].stopping = TRUE]
  /\ UNCHANGED <<jobs, finished, watch, shown, answers, told, regVars>>

JobsList(kept) ==
  /\ Cardinality(answers) < MaxAnswers
  /\ jobs' = Pruned(kept)
  /\ job' = job
  /\ answers' = answers \cup {Snapshots("list", jobs')}
  /\ UNCHANGED <<finished, watch, shown, told, regVars>>

-----------------------------------------------------------------------------
(* A client that follows them *)

\* #follow: at most one subscription to a job.
Followed(ids) ==
  [i \in JobIds |-> IF i \in ids /\ watch[i] = NoWatch THEN [at |-> "asked", seen |-> 0]
                    ELSE watch[i]]

\* refresh replaces the list, start adds to it; both follow what was running.
AnswerArrives(answer) ==
  /\ answers' = answers \ {answer}
  /\ shown' = IF answer.kind = "list" THEN answer.states
              ELSE [i \in DOMAIN shown \cup DOMAIN answer.states |->
                      IF i \in DOMAIN answer.states THEN answer.states[i] ELSE shown[i]]
  /\ watch' = Followed({i \in DOMAIN answer.states :
                          answer.kind = "started" \/ answer.states[i] = "running"})
  /\ UNCHANGED <<job, jobs, finished, told, regVars>>

\* The subscription is accepted, or the job is forgotten.
WatchOpens(i) ==
  /\ watch[i].at = "asked"
  \* Versions begin at 0: nothing is seen yet.
  /\ watch' = [watch EXCEPT ![i] = IF i \in jobs THEN [at |-> "streaming", seen |-> None]
                                   ELSE NoWatch]
  /\ UNCHANGED <<job, jobs, finished, shown, answers, told, regVars>>

\* job_events: a snapshot of what is new, the last one when the job has finished.
WatchReads(i) ==
  /\ watch[i].at = "streaming"
  /\ watch[i].seen # job[i].version
  /\ shown' = [k \in DOMAIN shown \cup {i} |-> IF k = i THEN job[i].state ELSE shown[k]]
  /\ watch' = [watch EXCEPT ![i] = IF Running(i) THEN [@ EXCEPT !.seen = job[i].version]
                                   ELSE NoWatch]
  /\ told' = IF Running(i) THEN told ELSE [told EXCEPT ![i] = IF @ < 2 THEN @ + 1 ELSE @]
  /\ UNCHANGED <<job, jobs, finished, answers, regVars>>

\* Nothing new: it waits for the next change.
WatchWaits(i) ==
  /\ watch[i].at = "streaming"
  /\ watch[i].seen = job[i].version
  /\ watch' = [watch EXCEPT ![i].at = "waiting"]
  /\ UNCHANGED <<job, jobs, finished, shown, answers, told, regVars>>

\* stopFollowing, when the page closes.
WatchesEnd ==
  /\ \E i \in JobIds : watch[i] # NoWatch
  /\ watch' = [i \in JobIds |-> NoWatch]
  /\ UNCHANGED <<job, jobs, finished, shown, answers, told, regVars>>

JobSteps ==
  \/ \E p \in Providers, kept \in 0..MaxFinished : JobStarts(p, kept)
  \/ \E i \in JobIds : \E changes \in BOOLEAN : JobAdvances(i, changes)
  \/ \E i \in JobIds, how \in Final : JobEnds(i, how)
  \/ \E i \in JobIds : JobCancels(i)
  \/ \E kept \in 0..MaxFinished : JobsList(kept)

WatchSteps ==
  \/ \E answer \in answers : AnswerArrives(answer)
  \/ \E i \in JobIds : WatchOpens(i) \/ WatchReads(i) \/ WatchWaits(i)
  \/ WatchesEnd

\* Jobs on backends that are edited, discovered, listed and operated on meanwhile.
JobsNext ==
  \/ JobSteps \/ WatchSteps
  \/ (EditSteps \/ DiscoverySteps \/ ListingSteps) /\ UNCHANGED jobVars

JobsSpec == RegInit /\ JobInit /\ [][JobsNext]_<<regVars, jobVars>>

\* The event loop runs what is ready; nothing makes a download end or a client act.
JobFairness ==
  \A i \in JobIds : WF_<<jobVars, regVars>>(WatchOpens(i) \/ WatchReads(i) \/ WatchWaits(i))

-----------------------------------------------------------------------------
(* Properties *)

\* Whatever is pruned, a running job can be listed, followed and cancelled, and it is the
\* only one for its target.
RunningJobsAreReachable ==
  \A i \in DOMAIN job : Running(i) =>
    /\ i \in jobs
    /\ \A k \in DOMAIN job : Running(k) /\ job[k].backend = job[i].backend => k = i

\* Jobs of all clients, whatever is pruned, followed or cancelled, and the listings they make
\* stale (model_jobs.py, registry.invalidate): the above, and StaleOnlyByRace.
JobsInv == JobTypeOK /\ RunningJobsAreReachable /\ StaleOnlyByRace

\* A subscription to a job that has finished is told so, however the job ended and whether
\* or not it has been forgotten meanwhile (or is answered that there is no such job).
FollowersAreTold ==
  \A i \in JobIds :
    (watch[i] # NoWatch /\ i \in DOMAIN job /\ job[i].state # "running") ~> (watch[i] = NoWatch)

\* stores/jobs.svelte.ts: "Called once for every job that finishes while it is being followed."
ToldOnce == \A i \in JobIds : told[i] <= 1
=============================================================================
