----------------------------- MODULE BuildBroker -----------------------------
(***************************************************************************)
(* The build and bundle jobs of .github/workflows/                         *)
(* release-patched-codex.yml: a run of the release workflow has every      *)
(* target built by a child run in another repository, or takes children    *)
(* that exist, waits for them, verifies their artifacts and bundles them.  *)
(*                                                                         *)
(* The children run on their own; their status may be unreadable, the      *)
(* answer to a dispatch can be lost, and whatever failed can be re-run.    *)
(* ReleasePublish begins where this module ends.                           *)
(***************************************************************************)
EXTENDS Naturals, Sequences, FiniteSets

CONSTANTS
  Target,       \* release targets of the manifest
  Run,          \* runs of the release workflow
  Watches,      \* attempts to learn a child's result, 5 in the code
  MaxCommits,   \* bound: commits of the default branch
  MaxByHand,    \* bound: child runs that maintainers dispatch
  MaxAttempts,  \* bound: attempts of a run
  MaxFaults,    \* bound: lost answers, lost runners, failed and expired builds
  ByHand,       \* request that a maintainer writes into a child
  None

Commit == 1 .. MaxCommits

ASSUME BoundAssumption ==
  /\ Watches \in Nat \ {0} /\ MaxCommits \in Nat \ {0}
  /\ MaxByHand \in Nat /\ MaxAttempts \in Nat \ {0} /\ MaxFaults \in Nat
  /\ None \notin Nat /\ None \notin [Target -> Nat]
  /\ ByHand \notin Run \X Nat

VARIABLES
  head,    \* tip of the default branch
  inputs,  \* [Commit -> the first commit with the same build inputs]
  child,   \* the child runs, in the order of their ids
  run,     \* [Run -> the state of its plan and bundle jobs]
  job,     \* [Run -> [Target -> the state of its build job]]
  upload,  \* [Run -> [Target -> the child whose artifact the run holds, or None]]
  faults

repository == <<head, inputs>>
vars == <<repository, child, run, job, upload, faults>>

Id == Nat \ {0}
Request == Run \X (1 .. MaxAttempts) \cup {ByHand}
Child == [target : Target, request : Request, source : Commit,
          at : {"running", "success", "failure", "expired"}]
JobEnd == {"done", "failed"}
Plan == [at : {"idle", "build", "done", "failed"}, attempt : 0 .. MaxAttempts,
         commit : Commit, source : Commit, request : Request,
         reuse : [Target -> Id] \cup {None}]
Job == [at : {"select", "watch", "view", "download"} \cup JobEnd,
        child : Id \cup {None}, watch : 1 .. Watches,
        verdict : {"none", "failed", "unknown"}]

TypeOK ==
  /\ head \in Commit
  /\ inputs \in [Commit -> Commit]
  /\ child \in Seq(Child)
  /\ run \in [Run -> Plan]
  /\ job \in [Run -> [Target -> Job]]
  /\ upload \in [Run -> [Target -> Id \cup {None}]]
  /\ faults \in 0 .. MaxFaults

NewJob == [at |-> "select", child |-> None, watch |-> 1, verdict |-> "none"]

Init ==
  /\ head = 1
  /\ inputs \in {f \in [Commit -> Commit] :
       \A c \in Commit : f[c] = c \/ \E d \in 1 .. c - 1 : f[c] = f[d]}
  /\ child = <<>>
  /\ run = [r \in Run |-> [at |-> "idle", attempt |-> 0, commit |-> 1, source |-> 1,
                           request |-> ByHand, reuse |-> None]]
  /\ job = [r \in Run |-> [t \in Target |-> NewJob]]
  /\ upload = [r \in Run |-> [t \in Target |-> None]]
  /\ faults = 0

Fault == faults < MaxFaults /\ faults' = faults + 1

-----------------------------------------------------------------------------
(* The default branch, and the child runs.                                 *)

(* Bound: maintainers commit and dispatch children before the runs begin, and a
   run that builds meets no children that they dispatched; no run looks at
   children that it was not given. *)
Quiet == \A r \in Run : run[r].at = "idle"

NewCommit ==
  /\ Quiet
  /\ head < MaxCommits
  /\ head' = head + 1
  /\ UNCHANGED <<inputs, child, run, job, upload, faults>>

AddChild(t, request, source) ==
  child' = Append(child, [target |-> t, request |-> request, source |-> source,
                          at |-> "running"])

DispatchByHand(t) ==
  /\ Quiet
  /\ Len(SelectSeq(child, LAMBDA c : c.request = ByHand)) < MaxByHand
  /\ \E c \in 1 .. head : AddChild(t, ByHand, c)
  /\ UNCHANGED <<repository, run, job, upload, faults>>

(* A child uploads its target record and binary and then succeeds.  If it
   fails it can be re-run under the same id. *)
ChildStep(i, from, to) ==
  /\ child[i].at = from
  /\ child' = [child EXCEPT ![i].at = to]
  /\ UNCHANGED <<repository, run, job, upload>>

ChildSucceeds(i) == ChildStep(i, "running", "success") /\ UNCHANGED faults
ChildFails(i) == ChildStep(i, "running", "failure") /\ Fault
ChildIsRerun(i) == ChildStep(i, "failure", "running") /\ UNCHANGED faults

(* The retention time of the artifact passes; the run stays successful. *)
ArtifactExpires(i) == ChildStep(i, "success", "expired") /\ Fault

Succeeded(i) == child[i].at \in {"success", "expired"}

-----------------------------------------------------------------------------
(* Plan: what a run builds, or which builds it takes.                      *)

Planned(r, at, source, request, reuse) ==
  /\ run' = [run EXCEPT ![r] = [at |-> at, attempt |-> 1, commit |-> head, source |-> source,
                                request |-> request, reuse |-> reuse]]
  /\ UNCHANGED <<repository, child, job, upload, faults>>

StartBuild(r) ==
  /\ run[r].at = "idle"
  /\ \A i \in DOMAIN child : child[i].request # ByHand
  /\ Planned(r, "build", head, <<r, 1>>, None)

(* Mutant: nobody looks at what has changed since. *)
ReuseAnything(r) ==
  /\ run[r].at = "idle"
  /\ \E source \in 1 .. head, i \in DOMAIN child, ids \in [Target -> DOMAIN child] :
       Planned(r, "build", source, child[i].request, ids)

(* A maintainer names the source, the request and the children of existing
   builds, right or wrong.  The source must be an ancestor of the run's
   commit, and every build input the same in both. *)
StartReuse(r) ==
  /\ run[r].at = "idle"
  /\ \E source \in 1 .. head, i \in DOMAIN child, ids \in [Target -> DOMAIN child] :
       Planned(r, IF inputs[source] = inputs[head] THEN "build" ELSE "failed",
               source, child[i].request, ids)

-----------------------------------------------------------------------------
(* One build job: select the child, wait for it, verify its artifact.      *)

At(r, t, at) == run[r].at = "build" /\ job[r][t].at = at
SetJob(r, t, j) == job' = [job EXCEPT ![r][t] = j] /\ UNCHANGED <<repository, run>>
Goto(r, t, at) == SetJob(r, t, [job[r][t] EXCEPT !.at = at])

(* The child is dispatched, or looked up in the target's repository. *)
Dispatch(r, t) ==
  /\ At(r, t, "select") /\ run[r].reuse = None
  /\ AddChild(t, run[r].request, run[r].source)
  /\ SetJob(r, t, [job[r][t] EXCEPT !.at = "watch", !.child = Len(child')])
  /\ UNCHANGED <<upload, faults>>

(* The answer is lost or malformed: the child runs, and nobody knows its id. *)
DispatchLost(r, t) ==
  /\ At(r, t, "select") /\ run[r].reuse = None
  /\ AddChild(t, run[r].request, run[r].source)
  /\ Goto(r, t, "failed")
  /\ Fault
  /\ UNCHANGED upload

Lookup(r, t) ==
  /\ At(r, t, "select") /\ run[r].reuse # None
  /\ LET i == run[r].reuse[t] IN
       IF child[i].target = t
         THEN SetJob(r, t, [job[r][t] EXCEPT !.at = "watch", !.child = i])
         ELSE Goto(r, t, "failed")
  /\ UNCHANGED <<child, upload, faults>>

(* gh run watch ends with the child, or at any time because a request failed;
   only a success is believed at once. *)
Watch(r, t) ==
  /\ At(r, t, "watch")
  /\ \/ Succeeded(job[r][t].child) /\ Goto(r, t, "download")
     \/ child[job[r][t].child].at = "failure" /\ Goto(r, t, "view")
  /\ UNCHANGED <<child, upload, faults>>

WatchBreaks(r, t) ==
  /\ At(r, t, "watch")
  /\ Goto(r, t, "view")
  /\ UNCHANGED <<child, upload, faults>>

(* Mutants: an unsuccessful watch is a failed build; an unknown result is
   never given up; an unknown result has the target built again. *)
FailAtOnce(r, t) ==
  /\ At(r, t, "view")
  /\ SetJob(r, t, [job[r][t] EXCEPT !.at = "failed", !.verdict = "failed"])
  /\ UNCHANGED <<child, upload, faults>>

WatchForever(r, t) ==
  /\ At(r, t, "view")
  /\ \/ Succeeded(job[r][t].child) /\ Goto(r, t, "download")
     \/ /\ child[job[r][t].child].at = "failure"
        /\ SetJob(r, t, [job[r][t] EXCEPT !.at = "failed", !.verdict = "failed"])
     \/ Goto(r, t, "watch")
  /\ UNCHANGED <<child, upload, faults>>

DispatchAgain(r, t) ==
  /\ At(r, t, "view")
  /\ \/ Succeeded(job[r][t].child) /\ Goto(r, t, "download")
     \/ /\ child[job[r][t].child].at = "failure"
        /\ SetJob(r, t, [job[r][t] EXCEPT !.at = "failed", !.verdict = "failed"])
     \/ /\ job[r][t].watch < Watches
        /\ SetJob(r, t, [job[r][t] EXCEPT !.at = "select", !.watch = @ + 1])
     \/ /\ job[r][t].watch = Watches
        /\ SetJob(r, t, [job[r][t] EXCEPT !.at = "failed", !.verdict = "unknown"])
  /\ UNCHANGED <<child, upload, faults>>

(* After an unsuccessful watch the status is read.  An answer that is
   missing, or not final, has the same child watched again. *)
View(r, t) ==
  /\ At(r, t, "view")
  /\ \/ Succeeded(job[r][t].child) /\ Goto(r, t, "download")
     \/ /\ child[job[r][t].child].at = "failure"
        /\ SetJob(r, t, [job[r][t] EXCEPT !.at = "failed", !.verdict = "failed"])
     \/ /\ job[r][t].watch < Watches
        /\ SetJob(r, t, [job[r][t] EXCEPT !.at = "watch", !.watch = @ + 1])
     \/ /\ job[r][t].watch = Watches
        /\ SetJob(r, t, [job[r][t] EXCEPT !.at = "failed", !.verdict = "unknown"])
  /\ UNCHANGED <<child, upload, faults>>

(* verify_target_bundle: the record is that of this target, request and source
   (and, by construction, of this child). *)
Verified(r, t, c) ==
  /\ c.target = t
  /\ c.request = run[r].request
  /\ c.source = run[r].source

(* The child's artifact is downloaded, verified and uploaded into the run,
   where it replaces that of an earlier attempt. *)
Download(r, t) ==
  LET i == job[r][t].child IN
  /\ At(r, t, "download")
  /\ IF child[i].at = "success" /\ Verified(r, t, child[i])
       THEN upload' = [upload EXCEPT ![r][t] = i] /\ Goto(r, t, "done")
       ELSE Goto(r, t, "failed") /\ UNCHANGED upload
  /\ UNCHANGED <<child, faults>>

(* A runner is lost, a job is cancelled or runs into its time limit. *)
Break(r, t) ==
  /\ run[r].at = "build" /\ job[r][t].at \notin JobEnd
  /\ Goto(r, t, "failed")
  /\ Fault
  /\ UNCHANGED <<child, upload>>

-----------------------------------------------------------------------------
(* Bundle, and what can be done about a failure.                           *)

Ended(r) == run[r].at = "build" /\ \A t \in Target : job[r][t].at \in JobEnd
Complete(r) == \A t \in Target : upload[r][t] # None

(* Mutant: the bundle takes what the run holds, whatever became of the jobs. *)
BundleAnyway(r) ==
  /\ Ended(r)
  /\ run' = [run EXCEPT ![r].at = IF Complete(r) THEN "done" ELSE "failed"]
  /\ UNCHANGED <<repository, child, job, upload, faults>>

(* All jobs must have succeeded, and the artifacts be those of all targets. *)
Bundle(r) ==
  /\ Ended(r)
  /\ run' = [run EXCEPT ![r].at =
       IF (\A t \in Target : job[r][t].at = "done") /\ Complete(r) THEN "done" ELSE "failed"]
  /\ UNCHANGED <<repository, child, job, upload, faults>>

(* The bundle job fails or is lost. *)
BreakBundle(r) ==
  /\ Ended(r)
  /\ run' = [run EXCEPT ![r].at = "failed"]
  /\ Fault
  /\ UNCHANGED <<repository, child, job, upload>>

(* A failed run is re-run: its failed jobs, with the plan as it was, or all of
   them, with a plan that names a new request unless the builds are given.
   Artifacts of earlier attempts stay.  A plan that refused refuses again. *)
Rerun(r, all) ==
  /\ run[r].at = "failed"
  /\ run[r].attempt < MaxAttempts
  /\ inputs[run[r].source] = inputs[run[r].commit]
  /\ run' = [run EXCEPT ![r].at = "build", ![r].attempt = @ + 1,
       ![r].request = IF all /\ run[r].reuse = None THEN <<r, run[r].attempt + 1>> ELSE @]
  /\ job' = [job EXCEPT ![r] =
       [t \in Target |-> IF all \/ job[r][t].at = "failed" THEN NewJob ELSE job[r][t]]]
  /\ UNCHANGED <<repository, child, upload, faults>>

JobStep(r, t) ==
  \/ Dispatch(r, t) \/ DispatchLost(r, t) \/ Lookup(r, t)
  \/ Watch(r, t) \/ View(r, t) \/ Download(r, t)

Next ==
  \/ NewCommit
  \/ \E t \in Target : DispatchByHand(t)
  \/ \E i \in DOMAIN child :
       ChildSucceeds(i) \/ ChildFails(i) \/ ChildIsRerun(i) \/ ArtifactExpires(i)
  \/ \E r \in Run :
       \/ StartBuild(r) \/ StartReuse(r) \/ Bundle(r) \/ BreakBundle(r)
       \/ \E all \in BOOLEAN : Rerun(r, all)
       \/ \E t \in Target : JobStep(r, t) \/ WatchBreaks(r, t) \/ Break(r, t)

Spec == Init /\ [][Next]_vars

(* Runners work through their steps, and a child ends, at the latest by its
   time limit; no request has to fail. *)
FairSpec ==
  /\ Spec
  /\ WF_vars(\E i \in DOMAIN child : ChildSucceeds(i) \/ ChildFails(i))
  /\ \A r \in Run : WF_vars(Bundle(r)) /\ \A t \in Target : WF_vars(JobStep(r, t))

-----------------------------------------------------------------------------
(* Properties.                                                             *)

(* The binaries of a bundle are those of successful children for its own
   targets, of one request and one source whose build inputs are those of the
   run's commit: also when builds are reused, when a job or the whole run was
   re-run, and whatever other children there are (bundle's inventory). *)
BundleIsOfOneBuild ==
  /\ TypeOK
  /\ \A r \in Run : run[r].at = "done" =>
       /\ inputs[run[r].source] = inputs[run[r].commit]
       /\ \A t \in Target :
            LET c == child[upload[r][t]] IN
              /\ upload[r][t] # None
              /\ c.target = t /\ Succeeded(upload[r][t])
              /\ c.request = run[r].request /\ c.source = run[r].source

(* A target is not built twice because a status could not be read: a run
   dispatches at most one child for it in each attempt, also when the answer
   was lost (docs/release-ownership.md: the broker never redispatches). *)
OneChildPerAttempt ==
  \A r \in Run, t \in Target :
    Cardinality({i \in DOMAIN child :
      child[i].target = t /\ child[i].request \in {r} \X (1 .. MaxAttempts)}) <= run[r].attempt

(* A build is called failed only if it has failed by then, and its result
   unknown only after all the watches: a failed status request is neither. *)
VerdictIsTrue ==
  [][\A r \in Run, t \in Target :
       LET j == job[r][t] v == job'[r][t].verdict IN
         v # j.verdict =>
           /\ v = "failed" => child[j.child].at = "failure"
           /\ v = "unknown" => j.watch = Watches]_vars

(* Every run ends, also if no status can be read any more: no watch is
   repeated for ever. *)
RunEnds == \A r \in Run : run[r].at = "build" ~> run[r].at \in {"done", "failed"}
=============================================================================
