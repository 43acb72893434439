---------------------------- MODULE UpstreamWatch ----------------------------
(***************************************************************************)
(* The watcher of upstream releases: .github/workflows/                    *)
(* watch-codex-release.yml and the commands detect and blocker of          *)
(* scripts/compat_release.py.                                              *)
(*                                                                         *)
(* A run classifies the latest upstream release by several queries and     *)
(* then, in other jobs, ports the patches to it and opens a pull request,  *)
(* or keeps one issue, the blocker, up to date.  Runs wait for each other; *)
(* one more can be pending, of the commit that was the head when it was    *)
(* triggered.  Upstream, maintainers and publications move at any time.    *)
(***************************************************************************)
EXTENDS Naturals, FiniteSets

CONSTANTS
  Latest,     \* bound: upstream releases are 1..Latest, in order
  Issue,      \* numbers of blocker issues
  MaxFaults,  \* bound: runs that die, and listings that are lost
  MaxReruns,  \* bound: failed runs that somebody re-runs
  MaxManual,  \* bound: what maintainers do by hand
  Nothing

Release == 1..Latest

ASSUME LatestAssumption == Latest \in Nat \ {0}
ASSUME NothingAssumption == Nothing \notin Issue /\ \A s \in SUBSET Release : s # Nothing

VARIABLES
  upstream,  \* the latest formal upstream release
  head,      \* the releases that the default branch supports, which names its head
  tagged,    \* [Release -> the head its compatibility tag is at, or Nothing]
  published, \* releases whose compatibility release is formal
  branch,    \* [Release -> the head its candidate branch was ported on, or Nothing]
  pulls,     \* releases with an open candidate pull request
  blocker,   \* [Issue -> the target of the open blocker, or Nothing]
  pending,   \* the run that waits, or Nothing
  run,       \* the run under way
  failed,    \* the last run whose patch job failed, or Nothing
  faults, reruns, manual,
  unlisted   \* history: repeated runs that took a lost listing for one of no issues

origin == <<head, tagged, published>>
candidates == <<branch, pulls>>
bounds == <<faults, reruns, manual, unlisted>>
watchVars == <<upstream, origin, candidates, blocker, pending, run, failed, bounds>>

(* again: whether detect ran in an earlier attempt of the run. *)
NoRun == [at |-> "idle", head |-> {}, target |-> 0, issue |-> Nothing, again |-> FALSE]
Run(at, sha, target, again) ==
  [at |-> at, head |-> sha, target |-> target, issue |-> Nothing, again |-> again]

Open == {i \in Issue : blocker[i] # Nothing}

WatchTypeOK ==
  /\ upstream \in Release
  /\ head \subseteq Release /\ published \subseteq Release /\ pulls \subseteq Release
  /\ tagged \in [Release -> (SUBSET Release) \cup {Nothing}]
  /\ branch \in [Release -> (SUBSET Release) \cup {Nothing}]
  /\ blocker \in [Issue -> Release \cup {Nothing}]
  /\ run.at \in {"idle", "latest", "release", "issues", "pulls", "view", "update", "port", "push",
                 "create", "track", "record"}
  /\ \A v \in published : tagged[v] # Nothing
  /\ unlisted \in Nat

WatchInit ==
  /\ upstream = 1
  /\ head = {1}
  /\ tagged = [v \in Release |-> IF v = 1 THEN {1} ELSE Nothing]
  /\ published = {1}
  /\ branch = [v \in Release |-> Nothing]
  /\ pulls = {}
  /\ blocker = [i \in Issue |-> Nothing]
  /\ pending = Nothing
  /\ run = NoRun
  /\ failed = Nothing
  /\ faults = 0 /\ reruns = 0 /\ manual = 0 /\ unlisted = 0

-----------------------------------------------------------------------------
(* Runs.  A trigger replaces the run that waits. *)

Trigger ==
  /\ pending' = Run("latest", head, 0, FALSE)
  /\ UNCHANGED <<upstream, origin, candidates, blocker, run, failed, bounds>>

(* The failed jobs of a run are repeated with what its detect job said. *)
Rerun ==
  /\ failed # Nothing /\ reruns < MaxReruns
  /\ reruns' = reruns + 1
  /\ pending' = failed
  /\ UNCHANGED <<upstream, origin, candidates, blocker, run, failed, faults, manual, unlisted>>

StartRun ==
  /\ run = NoRun /\ pending # Nothing
  /\ run' = pending
  /\ pending' = Nothing
  /\ UNCHANGED <<upstream, origin, candidates, blocker, failed, bounds>>

(* A runner is lost, or a request fails that the script does not expect to: all
   those of detect, and those of the other jobs but for the listing of the
   blockers.  No job that needs the outputs of the lost one runs. *)
Die ==
  /\ run # NoRun /\ faults < MaxFaults
  /\ faults' = faults + 1
  /\ run' = NoRun
  /\ UNCHANGED <<upstream, origin, candidates, blocker, pending, failed, reruns, manual, unlisted>>

Continue(r) ==
  /\ run' = r
  /\ UNCHANGED <<upstream, origin, candidates, blocker, pending, failed, bounds>>

-----------------------------------------------------------------------------
(* Job detect: one query after the other, against the run's own checkout. *)

Supports(sha, v) == v \in sha

GetLatest ==
  /\ run.at = "latest"
  /\ Continue([run EXCEPT !.at = "release", !.target = upstream])

(* A compatibility tag without its release must be at the head of the
   checkout, which must support the release. *)
GetRelease ==
  /\ run.at = "release"
  /\ LET v == run.target IN
     \/ v \in published /\ Continue(NoRun)
     \/ /\ v \notin published
        /\ tagged[v] # Nothing /\ (tagged[v] # run.head \/ ~Supports(run.head, v))
        /\ Continue(NoRun)
     \/ /\ v \notin published
        /\ tagged[v] # Nothing => tagged[v] = run.head /\ Supports(run.head, v)
        /\ Continue([run EXCEPT !.at = "issues"])

NeverUpdate(i) == FALSE  \* for a mutant: the target in the body is not compared

NeedsUpdate(i) == blocker[i] # run.target

(* An open blocker comes before everything else; two are an error; for a
   release that is supported there is only advice to publish it. *)
GetIssues ==
  /\ run.at = "issues"
  /\ Continue(CASE Cardinality(Open) > 1 -> NoRun
                [] Open = {} -> IF Supports(run.head, run.target) THEN NoRun
                                                           ELSE [run EXCEPT !.at = "pulls"]
                [] OTHER -> LET i == CHOOSE j \in Open : TRUE
                            IN IF NeedsUpdate(i) THEN [run EXCEPT !.at = "view", !.issue = i]
                                                 ELSE NoRun)

GetPulls ==
  /\ run.at = "pulls"
  /\ Continue(IF run.target \in pulls THEN NoRun ELSE [run EXCEPT !.at = "port"])

-----------------------------------------------------------------------------
(* Job update-blocker reads the body of the issue and writes it with the new
   target, whether or not the issue is still open. *)
Rewrite(i, v) == blocker' = [blocker EXCEPT ![i] = IF @ = Nothing THEN Nothing ELSE v]

ViewBlocker == run.at = "view" /\ Continue([run EXCEPT !.at = "update"])

UpdateBlocker ==
  /\ run.at = "update"
  /\ Rewrite(run.issue, run.target)
  /\ run' = NoRun
  /\ UNCHANGED <<upstream, origin, candidates, pending, failed, bounds>>

-----------------------------------------------------------------------------
(* Job patch: clone, port and register; push a new branch; open the request.
   The first stage that fails is what job track-failure reports. *)

Failing == Run("track", run.head, run.target, run.again)

Retry == Run("port", run.head, run.target, TRUE)

Report ==
  /\ run' = Failing
  /\ failed' = Retry

Port ==
  /\ run.at = "port"
  /\ \/ run' = [run EXCEPT !.at = "push"] /\ UNCHANGED failed
     \/ Report
  /\ UNCHANGED <<upstream, origin, candidates, blocker, pending, bounds>>

PushAnyway ==  \* for a mutant: an existing branch is overwritten
  /\ run.at = "push"
  /\ branch' = [branch EXCEPT ![run.target] = run.head]
  /\ run' = [run EXCEPT !.at = "create"] /\ UNCHANGED failed
  /\ UNCHANGED <<upstream, origin, pulls, blocker, pending, bounds>>

(* The remote refuses a branch that is there with another commit. *)
Push ==
  /\ run.at = "push"
  /\ \/ /\ branch[run.target] = Nothing
        /\ branch' = [branch EXCEPT ![run.target] = run.head]
        /\ run' = [run EXCEPT !.at = "create"] /\ UNCHANGED failed
     \/ Report /\ UNCHANGED branch
  /\ UNCHANGED <<upstream, origin, pulls, blocker, pending, bounds>>

(* The request may be opened and the answer lost. *)
CreatePull ==
  /\ run.at = "create"
  /\ \/ /\ branch[run.target] # Nothing /\ run.target \notin pulls
        /\ pulls' = pulls \cup {run.target}
        /\ \/ run' = NoRun /\ UNCHANGED failed
           \/ Report
     \/ Report /\ UNCHANGED pulls
  /\ UNCHANGED <<upstream, origin, branch, blocker, pending, bounds>>

-----------------------------------------------------------------------------
(* Job track-failure lists the open blockers, and rewrites the one or creates
   one. *)

TrackBlindly ==  \* for a mutant: the label is not searched for
  /\ run.at = "track"
  /\ Continue([run EXCEPT !.at = "record"])

TrackFailure ==
  /\ run.at = "track"
  /\ Continue(IF Cardinality(Open) > 1 THEN NoRun
              ELSE [run EXCEPT !.at = "record",
                               !.issue = IF Open = {} THEN Nothing ELSE CHOOSE i \in Open : TRUE])

(* The listing is read through a process substitution, whose status the shell
   does not look at: when it fails, no issue seems to be open. *)
LoseListing ==
  /\ run.at = "track"
  /\ faults < MaxFaults /\ faults' = faults + 1
  /\ unlisted' = IF run.again THEN unlisted + 1 ELSE unlisted
  /\ run' = [run EXCEPT !.at = "record"]
  /\ UNCHANGED <<upstream, origin, candidates, blocker, pending, failed, reruns, manual>>

RecordFailure ==
  /\ run.at = "record"
  /\ IF run.issue # Nothing
     THEN Rewrite(run.issue, run.target)
     ELSE \E i \in Issue \ Open : blocker' = [blocker EXCEPT ![i] = run.target]
  /\ run' = NoRun
  /\ UNCHANGED <<upstream, origin, candidates, pending, failed, bounds>>

-----------------------------------------------------------------------------
(* Everybody else. *)

ReleaseUpstream ==
  /\ upstream < Latest
  /\ upstream' = upstream + 1
  /\ UNCHANGED <<origin, candidates, blocker, pending, run, failed, bounds>>

ByHand == manual < MaxManual /\ manual' = manual + 1

(* A candidate, the watcher's or one made by hand, is merged; the request may
   say that it fixes a blocker, and its branch may stay. *)
Support(v) ==
  /\ ByHand
  /\ v \notin head /\ v <= upstream
  /\ head' = head \cup {v}
  /\ \E fixed \in SUBSET Open :
       blocker' = [i \in Issue |-> IF i \in fixed THEN Nothing ELSE blocker[i]]
  /\ pulls' = pulls \ {v}
  /\ branch' \in {branch, [branch EXCEPT ![v] = Nothing]}
  /\ UNCHANGED <<upstream, tagged, published, pending, run, failed, faults, reruns, unlisted>>

CloseBlocker(i) ==
  /\ ByHand
  /\ i \in Open
  /\ blocker' = [blocker EXCEPT ![i] = Nothing]
  /\ UNCHANGED <<upstream, origin, candidates, pending, run, failed, faults, reruns, unlisted>>

ClosePull(v) ==
  /\ ByHand
  /\ v \in pulls
  /\ pulls' = pulls \ {v}
  /\ branch' \in {branch, [branch EXCEPT ![v] = Nothing]}
  /\ UNCHANGED <<upstream, origin, blocker, pending, run, failed, faults, reruns, unlisted>>

(* The release workflow tags the head and publishes; a repair makes the
   release a draft for a while. *)
Tag(v) ==
  /\ v \in head /\ tagged[v] = Nothing
  /\ tagged' = [tagged EXCEPT ![v] = head]
  /\ UNCHANGED <<upstream, head, published, candidates, blocker, pending, run, failed, bounds>>

Publish(v) ==
  /\ v \notin published /\ tagged[v] # Nothing
  /\ published' = published \cup {v}
  /\ UNCHANGED <<upstream, head, tagged, candidates, blocker, pending, run, failed, bounds>>

Repair(v) ==
  /\ ByHand
  /\ v \in published
  /\ published' = published \ {v}
  /\ UNCHANGED <<upstream, head, tagged, candidates, blocker, pending, run, failed, faults, reruns, unlisted>>

-----------------------------------------------------------------------------
RunStep ==
  \/ GetLatest \/ GetRelease \/ GetIssues \/ GetPulls
  \/ ViewBlocker \/ UpdateBlocker
  \/ Port \/ Push \/ CreatePull
  \/ TrackFailure \/ RecordFailure

WatchNext ==
  \/ Trigger \/ Rerun \/ StartRun \/ Die
  \/ RunStep \/ LoseListing
  \/ ReleaseUpstream
  \/ \E v \in Release : Support(v) \/ ClosePull(v) \/ Tag(v) \/ Publish(v) \/ Repair(v)
  \/ \E i \in Issue : CloseBlocker(i)

WatchSpec == WatchInit /\ [][WatchNext]_watchVars

(* Runs are triggered every hour, start when the one before has ended, and
   end; nobody else has to do anything. *)
Fairness == WF_watchVars(Trigger) /\ WF_watchVars(StartRun) /\ WF_watchVars(RunStep)

FairSpec == WatchSpec /\ Fairness

-----------------------------------------------------------------------------
(* A run opens a second blocker only if it is a repeated one and lost the
   listing of the open ones, and then just one more: a run whose own detect job
   found none is alone until it ends, and a repeated run, which has not looked
   for blockers before, lists them first (watch-codex-release.yml:8-11,
   364-390). *)
OneBlocker == WatchTypeOK /\ Cardinality(Open) <= 1 + unlisted

(* A candidate under review is not replaced by another port of the same release,
   whatever runs are repeated after an answer was lost
   (watch-codex-release.yml:238-247). *)
CandidateIsFinal ==
  [][\A v \in Release : v \in pulls /\ v \in pulls' => branch'[v] = branch[v]]_watchVars

Answered(v) ==
  \/ v \in head
  \/ Open # {} /\ \A i \in Open : blocker[i] = v
  \/ Open = {} /\ v \in pulls

(* Again and again the latest upstream release is answered, so every release
   that no other follows soon: it is supported, its candidate waits for review,
   or the blocker names it; although a run may die, be repeated with an old
   target, find the branch of an earlier candidate, or judge by a checkout that
   is no longer the head (detect).  The exception is a second blocker, which ends
   every run with an error: it has to be closed first
   (compat_release.py:302-303). *)
ReleaseIsAnswered == []<>(Answered(upstream) \/ Cardinality(Open) > 1)
=============================================================================
