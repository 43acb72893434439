------------------------- MODULE BuildBroker_proofs -------------------------
(* Safety of the release broker for every set of targets and runs, every
   number of watches and attempts, and whatever the children do. *)
EXTENDS BuildBroker, FiniteSetTheorems, SequenceTheorems, TLAPS

OwnRequest(r) == {r} \X (1 .. MaxAttempts)
Own(r, t) == {i \in DOMAIN child : child[i].target = t /\ child[i].request \in OwnRequest(r)}

(* What the plan of a run says at each stage: nothing has been done for an
   idle run, a run that builds may use its source, and a run that was given no
   children dispatches under a request of its own. *)
PlanHolds(r) ==
  /\ run[r].at = "idle" => run[r].attempt = 0 /\ \A t \in Target : job[r][t].at = "select"
  /\ run[r].at \in {"build", "done"} => inputs[run[r].source] = inputs[run[r].commit]
  /\ run[r].at # "idle" /\ run[r].reuse = None => run[r].request \in OwnRequest(r)
  /\ run[r].reuse # None => \A t \in Target : run[r].reuse[t] \in DOMAIN child
  /\ run[r].at = "done" => \A t \in Target : job[r][t].at = "done"

(* A job that waits knows a child; a job that is done has put the artifact of
   a child of this very target, request and source into the run.  The second
   survives a re-run of the failed jobs, which keeps the request, and a re-run
   of all jobs, which makes none of them done. *)
JobHolds(r, t) ==
  /\ job[r][t].at \in {"watch", "view", "download"} => job[r][t].child \in DOMAIN child
  /\ job[r][t].at = "done" =>
       /\ upload[r][t] \in DOMAIN child
       /\ Verified(r, t, child[upload[r][t]]) /\ Succeeded(upload[r][t])

(* The attempt in which a job has still to dispatch has one child less. *)
OnceHolds(r, t) ==
  /\ Cardinality(Own(r, t)) <= run[r].attempt
  /\ At(r, t, "select") /\ run[r].reuse = None => Cardinality(Own(r, t)) < run[r].attempt

IInv ==
  /\ TypeOK
  /\ \A r \in Run : PlanHolds(r) /\ \A t \in Target : JobHolds(r, t)
  /\ \A r \in Run, t \in Target : OnceHolds(r, t)

-----------------------------------------------------------------------------

LEMMA InitIInv == Init => IInv
<1>. SUFFICES ASSUME Init PROVE IInv
  OBVIOUS
<1>. USE BoundAssumption DEF Init, Commit
<1>1. TypeOK
  <2>1. NewJob \in Job
    BY DEF NewJob, Job
  <2>2. inputs \in [Commit -> Commit]
    OBVIOUS
  <2>3. child \in Seq(Child)
    OBVIOUS
  <2>4. ByHand \in Request
    BY DEF Request
  <2>5. QED
    BY <2>1, <2>2, <2>3, <2>4 DEF TypeOK, Plan
<1>2. ASSUME NEW r \in Run PROVE PlanHolds(r)
  BY DEF PlanHolds, NewJob
<1>3. ASSUME NEW r \in Run, NEW t \in Target PROVE JobHolds(r, t)
  BY DEF JobHolds, NewJob, JobEnd
<1>4. ASSUME NEW r \in Run, NEW t \in Target PROVE OnceHolds(r, t)
  <2>1. Own(r, t) = {}
    BY DEF Own
  <2>2. QED
    BY <2>1, FS_EmptySet DEF OnceHolds, At
<1>5. QED
  BY <1>1, <1>2, <1>3, <1>4 DEF IInv

(* A step adds at most one child, at the end; a child keeps its target, its
   request and its source, and what has succeeded stays a success. *)
Kept(i) ==
  /\ i \in DOMAIN child'
  /\ child'[i].target = child[i].target
  /\ child'[i].request = child[i].request
  /\ child'[i].source = child[i].source
  /\ Succeeded(i) => Succeeded(i)'

LEMMA AddedChild ==
  ASSUME TypeOK, NEW t \in Target, NEW q \in Request, NEW c \in Commit, AddChild(t, q, c)
  PROVE  /\ child' \in Seq(Child)
         /\ Len(child') = Len(child) + 1
         /\ Len(child') \in DOMAIN child'
         /\ Len(child') \notin DOMAIN child
         /\ DOMAIN child' = DOMAIN child \cup {Len(child')}
         /\ child'[Len(child')].target = t
         /\ child'[Len(child')].request = q
         /\ \A i \in DOMAIN child : Kept(i) /\ child'[i] = child[i]
<1> DEFINE new == [target |-> t, request |-> q, source |-> c, at |-> "running"]
<1>1. new \in Child /\ child \in Seq(Child) /\ child' = Append(child, new)
  BY DEF Child, TypeOK, AddChild
<1>2. Len(child) \in Nat /\ DOMAIN child = 1 .. Len(child)
  BY <1>1
<1>3. /\ child' \in Seq(Child)
      /\ Len(child') = Len(child) + 1
      /\ DOMAIN child' = 1 .. Len(child')
      /\ \A i \in 1 .. Len(child) : child'[i] = child[i]
      /\ child'[Len(child')] = new
  BY <1>1, AppendProperties
<1>4. DOMAIN child' = DOMAIN child \cup {Len(child')} /\ Len(child') \notin DOMAIN child
  BY <1>2, <1>3
<1>5. QED
  BY <1>2, <1>3, <1>4 DEF Kept, Succeeded

LEMMA SteppedChild ==
  ASSUME TypeOK, NEW i \in DOMAIN child, NEW from,
         NEW to \in {"running", "success", "failure", "expired"},
         ChildStep(i, from, to), from \in {"success", "expired"} => to = "expired"
  PROVE  /\ child' \in Seq(Child)
         /\ DOMAIN child' = DOMAIN child
         /\ \A k \in DOMAIN child : Kept(k)
<1>1. child \in Seq(Child) /\ child[i] \in Child
  BY DEF TypeOK
<1>2. child' = [child EXCEPT ![i] = [child[i] EXCEPT !.at = to]] /\ child[i].at = from
  BY DEF ChildStep
<1>3. [child[i] EXCEPT !.at = to] \in Child
  BY <1>1 DEF Child
<1>4. child' \in Seq(Child) /\ DOMAIN child' = DOMAIN child
  BY <1>1, <1>2, <1>3, ExceptSeq
<1>5. ASSUME NEW k \in DOMAIN child PROVE Kept(k)
  <2>1. child[k] \in Child
    BY <1>1
  <2>2. CASE k = i
    BY <1>1, <1>2, <1>4, <2>2 DEF Kept, Succeeded, Child
  <2>3. CASE k # i
    BY <1>2, <1>4, <2>3 DEF Kept, Succeeded
  <2>4. QED
    BY <2>2, <2>3
<1>6. QED
  BY <1>4, <1>5

LEMMA ChildrenKept ==
  ASSUME TypeOK, [Next]_vars
  PROVE  child' \in Seq(Child) /\ \A i \in DOMAIN child : Kept(i)
<1>1. child \in Seq(Child)
  BY DEF TypeOK
<1>2. CASE UNCHANGED child
  BY <1>1, <1>2 DEF Kept, Succeeded
<1>3. ASSUME NEW t \in Target, DispatchByHand(t)
      PROVE  child' \in Seq(Child) /\ \A i \in DOMAIN child : Kept(i)
  <2>1. PICK c \in 1 .. head : AddChild(t, ByHand, c)
    BY <1>3 DEF DispatchByHand
  <2>2. c \in Commit /\ ByHand \in Request
    BY BoundAssumption DEF TypeOK, Commit, Request
  <2>3. QED
    BY <2>1, <2>2, AddedChild
<1>4. ASSUME NEW i \in DOMAIN child,
             ChildSucceeds(i) \/ ChildFails(i) \/ ChildIsRerun(i) \/ ArtifactExpires(i)
      PROVE  child' \in Seq(Child) /\ \A k \in DOMAIN child : Kept(k)
  BY <1>4, SteppedChild DEF ChildSucceeds, ChildFails, ChildIsRerun, ArtifactExpires
<1>5. ASSUME NEW r \in Run, NEW t \in Target, Dispatch(r, t) \/ DispatchLost(r, t)
      PROVE  child' \in Seq(Child) /\ \A i \in DOMAIN child : Kept(i)
  <2>1. run[r].request \in Request /\ run[r].source \in Commit
    BY DEF TypeOK, Plan
  <2>2. AddChild(t, run[r].request, run[r].source)
    BY <1>5 DEF Dispatch, DispatchLost
  <2>3. QED
    BY <2>1, <2>2, AddedChild
<1>6. CASE NewCommit
  BY <1>2, <1>6 DEF NewCommit
<1>7. ASSUME NEW r \in Run, StartBuild(r) \/ StartReuse(r) \/ Bundle(r) \/ BreakBundle(r)
                            \/ \E all \in BOOLEAN : Rerun(r, all)
      PROVE  UNCHANGED child
  BY <1>7 DEF StartBuild, StartReuse, Planned, Bundle, BreakBundle, Rerun
<1>8. ASSUME NEW r \in Run, NEW t \in Target,
             Lookup(r, t) \/ Watch(r, t) \/ View(r, t) \/ Download(r, t)
               \/ WatchBreaks(r, t) \/ Break(r, t)
      PROVE  UNCHANGED child
  BY <1>8 DEF Lookup, Watch, View, Download, WatchBreaks, Break
<1>9. QED
  BY <1>2, <1>3, <1>4, <1>5, <1>6, <1>7, <1>8 DEF Next, JobStep, vars

(* What a step of one job does to its run: the record of one job changes. *)
LEMMA JobTyped ==
  ASSUME TypeOK, NEW r \in Run, NEW t \in Target, NEW j \in Job, SetJob(r, t, j)
  PROVE  /\ job' \in [Run -> [Target -> Job]]
         /\ job'[r][t] = j
         /\ \A q \in Run, u \in Target : <<q, u>> # <<r, t>> => job'[q][u] = job[q][u]
         /\ UNCHANGED <<repository, run>>
BY DEF TypeOK, SetJob

LEMMA TypeStep == IInv /\ [Next]_vars => TypeOK'
<1>. SUFFICES ASSUME IInv, [Next]_vars PROVE TypeOK'
  OBVIOUS
<1>0. TypeOK /\ child' \in Seq(Child) /\ NewJob \in Job
  BY ChildrenKept, BoundAssumption DEF IInv, NewJob, Job
<1>. USE DEF repository
<1>1. CASE NewCommit
  BY <1>0, <1>1, BoundAssumption DEF NewCommit, TypeOK, Commit
<1>2. ASSUME NEW t \in Target, DispatchByHand(t) PROVE TypeOK'
  BY <1>0, <1>2 DEF DispatchByHand, TypeOK
<1>3. ASSUME NEW i \in DOMAIN child,
             ChildSucceeds(i) \/ ChildFails(i) \/ ChildIsRerun(i) \/ ArtifactExpires(i)
      PROVE  TypeOK'
  BY <1>0, <1>3, BoundAssumption
  DEF ChildSucceeds, ChildFails, ChildIsRerun, ArtifactExpires, ChildStep, Fault, TypeOK
<1>4. ASSUME NEW r \in Run, StartBuild(r) PROVE TypeOK'
  <2>1. <<r, 1>> \in Request /\ 1 \in 0 .. MaxAttempts
    BY BoundAssumption DEF Request
  <2>2. QED
    BY <1>0, <1>4, <2>1 DEF StartBuild, Planned, TypeOK, Plan
<1>5. ASSUME NEW r \in Run, StartReuse(r) PROVE TypeOK'
  <2>1. PICK source \in 1 .. head, i \in DOMAIN child, ids \in [Target -> DOMAIN child] :
          Planned(r, IF inputs[source] = inputs[head] THEN "build" ELSE "failed",
                  source, child[i].request, ids)
    BY <1>5 DEF StartReuse
  <2>2. child[i].request \in Request /\ ids \in [Target -> Id]
    <3>1. child \in Seq(Child)
      BY <1>0 DEF TypeOK
    <3>2. child[i] \in Child /\ DOMAIN child \subseteq Id
      BY <3>1 DEF Id
    <3>3. QED
      BY <3>2 DEF Child
  <2>3. head \in 1 .. MaxCommits
    BY <1>0 DEF TypeOK, Commit
  <2>4. source \in Commit /\ 1 \in 0 .. MaxAttempts
    BY <2>3, BoundAssumption DEF Commit
  <2>5. PICK at \in {"build", "failed"} : Planned(r, at, source, child[i].request, ids)
    BY <2>1
  <2>6. run' \in [Run -> Plan]
    BY <1>0, <2>2, <2>3, <2>4, <2>5 DEF Planned, TypeOK, Plan, Commit
  <2>7. QED
    BY <1>0, <2>5, <2>6 DEF Planned, TypeOK
<1>6. ASSUME NEW r \in Run, Bundle(r) \/ BreakBundle(r) PROVE TypeOK'
  <2>1. PICK at \in {"done", "failed"} : run' = [run EXCEPT ![r].at = at]
    BY <1>6 DEF Bundle, BreakBundle
  <2>2. run' \in [Run -> Plan]
    BY <1>0, <2>1 DEF TypeOK, Plan
  <2>3. QED
    BY <1>0, <1>6, <2>2, BoundAssumption DEF Bundle, BreakBundle, Fault, TypeOK
<1>7. ASSUME NEW r \in Run, NEW all \in BOOLEAN, Rerun(r, all) PROVE TypeOK'
  <2>1. run[r].attempt + 1 \in 1 .. MaxAttempts
    BY <1>0, <1>7, BoundAssumption DEF Rerun, TypeOK, Plan
  <2>2. <<r, run[r].attempt + 1>> \in Request
    BY <2>1 DEF Request
  <2>3. run' \in [Run -> Plan]
    <3>1. PICK q \in Request : run' = [run EXCEPT ![r].at = "build",
                                     ![r].attempt = run[r].attempt + 1, ![r].request = q]
      <4>1. run[r].request \in Request
        BY <1>0 DEF TypeOK, Plan
      <4>2. QED
        BY <1>7, <2>2, <4>1 DEF Rerun
    <3>2. run[r].attempt + 1 \in 0 .. MaxAttempts
      BY <2>1
    <3>3. [run[r] EXCEPT !.at = "build", !.attempt = run[r].attempt + 1, !.request = q] \in Plan
      BY <1>0, <3>2 DEF TypeOK, Plan
    <3>4. run' = [run EXCEPT ![r] = [run[r] EXCEPT !.at = "build",
                    !.attempt = run[r].attempt + 1, !.request = q]]
      BY <3>1
    <3>5. QED
      BY <1>0, <3>3, <3>4 DEF TypeOK
  <2>4. job' \in [Run -> [Target -> Job]]
    BY <1>0, <1>7 DEF Rerun, TypeOK
  <2>5. QED
    BY <1>0, <1>7, <2>3, <2>4 DEF Rerun, TypeOK
<1>8. ASSUME NEW r \in Run, NEW t \in Target, JobStep(r, t) \/ WatchBreaks(r, t) \/ Break(r, t)
      PROVE  TypeOK'
  <2>1. job[r][t] \in Job
    BY <1>0 DEF TypeOK
  <2>2. /\ faults' \in 0 .. MaxFaults
        /\ upload' \in [Run -> [Target -> Id \cup {None}]]
    <3>1. CASE Download(r, t)
      <4>1. job[r][t].child \in DOMAIN child
        BY <3>1 DEF Download, At, IInv, JobHolds
      <4>2. DOMAIN child \subseteq Id
        BY <1>0 DEF TypeOK, Id
      <4>3. upload' = [upload EXCEPT ![r][t] = job[r][t].child] \/ UNCHANGED upload
        BY <3>1 DEF Download
      <4>4. upload' \in [Run -> [Target -> Id \cup {None}]]
        <5>1. job[r][t].child \in Id /\ upload \in [Run -> [Target -> Id \cup {None}]]
          BY <1>0, <4>1, <4>2 DEF TypeOK
        <5>2. QED
          BY <4>3, <5>1
      <4>5. faults' = faults
        BY <3>1 DEF Download
      <4>6. QED
        BY <1>0, <4>4, <4>5 DEF TypeOK
    <3>2. CASE ~ Download(r, t)
      BY <1>0, <1>8, <3>2, BoundAssumption
      DEF JobStep, Dispatch, DispatchLost, Lookup, Watch, View, WatchBreaks, Break, Fault, TypeOK
    <3>3. QED
      BY <3>1, <3>2
  <2>3. PICK j \in Job : SetJob(r, t, j)
    <3>1. CASE Dispatch(r, t)
      <4>1. Len(child') \in Id
        BY <1>0, <3>1, AddedChild DEF Dispatch, TypeOK, Plan, Id
      <4>2. QED
        BY <2>1, <3>1, <4>1 DEF Dispatch, Job
    <3>2. CASE Lookup(r, t)
      <4>1. run[r].reuse[t] \in Id
        BY <1>0, <3>2 DEF Lookup, TypeOK, Plan
      <4>2. QED
        BY <2>1, <3>2, <4>1 DEF Lookup, Goto, Job, JobEnd
    <3>3. CASE View(r, t)
      <4>1. CASE Goto(r, t, "download")
        BY <2>1, <4>1 DEF Goto, Job
      <4>2. ASSUME NEW v \in {"failed", "unknown"},
                   SetJob(r, t, [job[r][t] EXCEPT !.at = "failed", !.verdict = v])
            PROVE  \E j \in Job : SetJob(r, t, j)
        BY <2>1, <4>2 DEF Job, JobEnd
      <4>3. CASE /\ job[r][t].watch < Watches
                 /\ SetJob(r, t, [job[r][t] EXCEPT !.at = "watch", !.watch = @ + 1])
        <5>1. job[r][t].watch + 1 \in 1 .. Watches
          BY <2>1, <4>3, BoundAssumption DEF Job
        <5>2. [job[r][t] EXCEPT !.at = "watch", !.watch = @ + 1] \in Job
          BY <2>1, <5>1 DEF Job
        <5>3. QED
          BY <4>3, <5>2
      <4>4. QED
        BY <3>3, <4>1, <4>2, <4>3 DEF View
    <3>4. CASE DispatchLost(r, t) \/ Watch(r, t) \/ Download(r, t) \/ WatchBreaks(r, t)
               \/ Break(r, t)
      BY <2>1, <3>4 DEF DispatchLost, Watch, Download, WatchBreaks, Break, Goto, Job, JobEnd
    <3>5. QED
      BY <1>8, <3>1, <3>2, <3>3, <3>4 DEF JobStep
  <2>4. QED
    BY <1>0, <2>2, <2>3, JobTyped DEF TypeOK
<1>9. CASE UNCHANGED vars
  BY <1>0, <1>9 DEF vars, TypeOK
<1>10. QED
  BY <1>1, <1>2, <1>3, <1>4, <1>5, <1>6, <1>7, <1>8, <1>9 DEF Next

-----------------------------------------------------------------------------
(* Every step keeps PlanHolds and JobHolds.                                 *)

(* A job that a step leaves alone, with its artifact, its run's request and
   its run's source. *)
LEMMA JobStays ==
  ASSUME IInv, [Next]_vars, NEW r \in Run, NEW t \in Target,
         job'[r][t] = job[r][t], upload'[r][t] = upload[r][t],
         run'[r].request = run[r].request, run'[r].source = run[r].source
  PROVE  JobHolds(r, t)'
<1>1. JobHolds(r, t) /\ \A i \in DOMAIN child : Kept(i)
  BY ChildrenKept DEF IInv
<1>2. CASE job[r][t].at = "done"
  <2>1. upload[r][t] \in DOMAIN child /\ Kept(upload[r][t])
    BY <1>1, <1>2 DEF JobHolds
  <2>2. QED
    BY <1>1, <1>2, <2>1 DEF JobHolds, Verified, Succeeded, Kept
<1>3. CASE job[r][t].at # "done"
  BY <1>1, <1>3 DEF JobHolds, Kept
<1>4. QED
  BY <1>2, <1>3

LEMMA PlanStays ==
  ASSUME IInv, [Next]_vars, NEW r \in Run, run'[r] = run[r], inputs' = inputs,
         run[r].at = "build" \/ job'[r] = job[r]
  PROVE  PlanHolds(r)'
BY ChildrenKept DEF IInv, PlanHolds, Kept, OwnRequest

(* One step of a job touches its own record and artifact only. *)
LEMMA JobMoves ==
  ASSUME IInv, NEW r \in Run, NEW t \in Target,
         JobStep(r, t) \/ WatchBreaks(r, t) \/ Break(r, t)
  PROVE  /\ run[r].at = "build" /\ UNCHANGED <<run, inputs>>
         /\ \A q \in Run : q # r => job'[q] = job[q] /\ upload'[q] = upload[q]
         /\ \A u \in Target : u # t => job'[r][u] = job[r][u] /\ upload'[r][u] = upload[r][u]
         /\ ~ Download(r, t) => upload' = upload
<1>1. PICK j : SetJob(r, t, j)
  BY DEF JobStep, Dispatch, DispatchLost, Lookup, Watch, View, Download, WatchBreaks, Break, Goto
<1>2. PICK i : upload' = [upload EXCEPT ![r][t] = i] \/ UNCHANGED upload
  BY DEF JobStep, Dispatch, DispatchLost, Lookup, Watch, View, Download, WatchBreaks, Break
<1>3. run[r].at = "build" /\ (~ Download(r, t) => upload' = upload)
  BY DEF JobStep, Dispatch, DispatchLost, Lookup, Watch, View, Download, WatchBreaks, Break, At
<1>4. job \in [Run -> [Target -> Job]] /\ upload \in [Run -> [Target -> Id \cup {None}]]
  BY DEF IInv, TypeOK
<1>5. QED
  BY <1>1, <1>2, <1>3, <1>4 DEF SetJob, repository

LEMMA JobMoved ==
  ASSUME IInv, [Next]_vars, NEW r \in Run, NEW t \in Target,
         JobStep(r, t) \/ WatchBreaks(r, t) \/ Break(r, t)
  PROVE  JobHolds(r, t)'
<1>1. /\ \A i \in DOMAIN child : Kept(i)
      /\ JobHolds(r, t) /\ PlanHolds(r)
      /\ job[r][t] \in Job /\ job \in [Run -> [Target -> Job]]
      /\ upload \in [Run -> [Target -> Id \cup {None}]]
      /\ TypeOK
  BY ChildrenKept DEF IInv, TypeOK
<1>2. CASE Dispatch(r, t)
  <2>1. job'[r][t] = [job[r][t] EXCEPT !.at = "watch", !.child = Len(child')]
    BY <1>1, <1>2 DEF Dispatch, SetJob
  <2>2. Len(child') \in DOMAIN child'
    BY <1>1, <1>2, AddedChild DEF Dispatch, TypeOK, Plan
  <2>3. QED
    BY <1>1, <2>1, <2>2 DEF JobHolds, Job
<1>3. CASE Lookup(r, t)
  <2>1. run[r].reuse[t] \in DOMAIN child'
    BY <1>1, <1>3 DEF Lookup, PlanHolds, Kept
  <2>2. \/ job'[r][t] = [job[r][t] EXCEPT !.at = "watch", !.child = run[r].reuse[t]]
        \/ job'[r][t] = [job[r][t] EXCEPT !.at = "failed"]
    BY <1>1, <1>3 DEF Lookup, Goto, SetJob
  <2>3. QED
    BY <1>1, <2>1, <2>2 DEF JobHolds, Job
<1>4. CASE Download(r, t)
  <2> DEFINE i == job[r][t].child
  <2>1. i \in DOMAIN child /\ Kept(i)
    BY <1>1, <1>4 DEF Download, At, JobHolds
  <2>2. CASE child[i].at = "success" /\ Verified(r, t, child[i])
    <3>1. upload'[r][t] = i /\ job'[r][t] = [job[r][t] EXCEPT !.at = "done"] /\ run' = run
      BY <1>1, <1>4, <2>2 DEF Download, Goto, SetJob
    <3>2. Verified(r, t, child[i])' /\ Succeeded(i)'
      BY <2>1, <2>2, <3>1 DEF Kept, Verified, Succeeded
    <3>3. QED
      BY <1>1, <2>1, <3>1, <3>2 DEF JobHolds, Job, Kept, Verified, Succeeded
  <2>3. CASE ~ (child[i].at = "success" /\ Verified(r, t, child[i]))
    <3>1. job'[r][t] = [job[r][t] EXCEPT !.at = "failed"]
      BY <1>1, <1>4, <2>3 DEF Download, Goto, SetJob
    <3>2. QED
      BY <1>1, <3>1 DEF JobHolds, Job
  <2>4. QED
    BY <2>2, <2>3
<1>5. CASE DispatchLost(r, t) \/ Break(r, t)
  <2>1. job'[r][t] = [job[r][t] EXCEPT !.at = "failed"]
    BY <1>1, <1>5 DEF DispatchLost, Break, Goto, SetJob
  <2>2. QED
    BY <1>1, <2>1 DEF JobHolds, Job
<1>6. CASE Watch(r, t) \/ View(r, t) \/ WatchBreaks(r, t)
  <2>1. job[r][t].child \in DOMAIN child'
    BY <1>1, <1>6 DEF Watch, View, WatchBreaks, At, JobHolds, Kept
  <2>2. job'[r][t].child = job[r][t].child /\ job'[r][t].at # "done"
    <3>1. CASE Watch(r, t) \/ WatchBreaks(r, t)
      <4>1. Goto(r, t, "download") \/ Goto(r, t, "view")
        BY <3>1 DEF Watch, WatchBreaks
      <4>2. ASSUME NEW a \in {"download", "view"}, Goto(r, t, a)
            PROVE  job'[r][t].child = job[r][t].child /\ job'[r][t].at # "done"
        BY <1>1, <4>2 DEF Goto, SetJob, Job
      <4>3. QED
        BY <4>1, <4>2
    <3>2. CASE View(r, t)
      <4>1. CASE Goto(r, t, "download")
        BY <1>1, <4>1 DEF Goto, SetJob, Job
      <4>2. CASE SetJob(r, t, [job[r][t] EXCEPT !.at = "watch", !.watch = @ + 1])
        BY <1>1, <4>2 DEF SetJob, Job
      <4>3. ASSUME NEW v, SetJob(r, t, [job[r][t] EXCEPT !.at = "failed", !.verdict = v])
            PROVE  job'[r][t].child = job[r][t].child /\ job'[r][t].at # "done"
        BY <1>1, <4>3 DEF SetJob, Job
      <4>4. QED
        BY <3>2, <4>1, <4>2, <4>3 DEF View
    <3>3. QED
      BY <1>6, <3>1, <3>2
  <2>3. QED
    BY <2>1, <2>2 DEF JobHolds
<1>7. QED
  BY <1>2, <1>3, <1>4, <1>5, <1>6 DEF JobStep

LEMMA RerunHolds ==
  ASSUME IInv, [Next]_vars, NEW r \in Run, NEW all \in BOOLEAN, Rerun(r, all),
         NEW q \in Run
  PROVE  PlanHolds(q)' /\ \A t \in Target : JobHolds(q, t)'
<1>1. /\ run \in [Run -> Plan] /\ job \in [Run -> [Target -> Job]] /\ run[r] \in Plan
      /\ inputs' = inputs /\ upload' = upload /\ child' = child
      /\ run[r].at = "failed" /\ inputs[run[r].source] = inputs[run[r].commit]
      /\ PlanHolds(r)
  BY DEF IInv, TypeOK, Rerun, repository
<1>2. CASE q # r
  <2>1. run'[q] = run[q] /\ job'[q] = job[q]
    BY <1>1, <1>2 DEF Rerun
  <2>2. QED
    BY <1>1, <2>1, PlanStays, JobStays
<1>3. CASE q = r
  <2>1. /\ run'[r].at = "build" /\ run'[r].source = run[r].source
        /\ run'[r].commit = run[r].commit /\ run'[r].reuse = run[r].reuse
        /\ run'[r].request = IF all /\ run[r].reuse = None
                               THEN <<r, run[r].attempt + 1>> ELSE run[r].request
        /\ run[r].attempt + 1 \in 1 .. MaxAttempts
    BY <1>1, BoundAssumption DEF Rerun, Plan
  <2>2. run'[r].reuse = None => run'[r].request \in OwnRequest(r)
    BY <1>1, <2>1 DEF PlanHolds, OwnRequest
  <2>3. PlanHolds(r)'
    BY <1>1, <2>1, <2>2 DEF PlanHolds, OwnRequest
  <2>4. ASSUME NEW t \in Target PROVE JobHolds(r, t)'
    <3>1. job'[r][t] = IF all \/ job[r][t].at = "failed" THEN NewJob ELSE job[r][t]
      BY <1>1 DEF Rerun
    <3>2. CASE job'[r][t] = NewJob
      BY <3>2 DEF JobHolds, NewJob
    <3>3. CASE ~ all /\ job'[r][t] = job[r][t]
      BY <1>1, <2>1, <3>3, JobStays
    <3>4. QED
      BY <3>1, <3>2, <3>3
  <2>5. QED
    BY <1>3, <2>3, <2>4
<1>4. QED
  BY <1>2, <1>3

LEMMA PlannedHolds ==
  ASSUME IInv, [Next]_vars, NEW r \in Run, StartBuild(r) \/ StartReuse(r), NEW q \in Run
  PROVE  PlanHolds(q)' /\ \A t \in Target : JobHolds(q, t)'
<1>0. PICK at \in {"build", "failed"}, source \in Commit : \E request, reuse :
        /\ Planned(r, at, source, request, reuse)
        /\ at = "build" => inputs[source] = inputs[head]
        /\ reuse = None => request = <<r, 1>>
        /\ reuse # None => \A t \in Target : reuse[t] \in DOMAIN child
  <2>1. head \in 1 .. MaxCommits
    BY DEF IInv, TypeOK, Commit
  <2>2. CASE StartBuild(r)
    BY <2>1, <2>2 DEF StartBuild, Commit
  <2>3. CASE StartReuse(r)
    <3>1. PICK source \in 1 .. head, i \in DOMAIN child, ids \in [Target -> DOMAIN child] :
            Planned(r, IF inputs[source] = inputs[head] THEN "build" ELSE "failed",
                    source, child[i].request, ids)
      BY <2>3 DEF StartReuse
    <3>2. DOMAIN child \subseteq Nat
      BY DEF IInv, TypeOK
    <3>3. ids # None
      <4>1. ids \in [Target -> Nat]
        BY <3>2
      <4>2. QED
        BY <4>1, BoundAssumption
    <3>4. source \in Commit
      BY <2>1, BoundAssumption DEF Commit
    <3>5. QED
      BY <3>1, <3>3, <3>4
  <2>4. QED
    BY <2>2, <2>3
<1>1. PICK request, reuse :
        /\ Planned(r, at, source, request, reuse)
        /\ at = "build" => inputs[source] = inputs[head]
        /\ reuse = None => request = <<r, 1>>
        /\ reuse # None => \A t \in Target : reuse[t] \in DOMAIN child
  BY <1>0
<1>2. /\ run \in [Run -> Plan] /\ inputs' = inputs /\ child' = child /\ UNCHANGED <<job, upload>>
      /\ run[r].at = "idle" /\ PlanHolds(r)
  BY <1>1 DEF IInv, TypeOK, Planned, StartBuild, StartReuse, repository
<1>3. CASE q # r
  <2>1. run'[q] = run[q]
    BY <1>1, <1>2, <1>3 DEF Planned
  <2>2. QED
    BY <1>2, <2>1, PlanStays, JobStays
<1>4. CASE q = r
  <2>1. run'[r] = [at |-> at, attempt |-> 1, commit |-> head, source |-> source,
                   request |-> request, reuse |-> reuse]
    BY <1>1, <1>2 DEF Planned
  <2>2. <<r, 1>> \in OwnRequest(r)
    BY BoundAssumption DEF OwnRequest
  <2>3. PlanHolds(r)'
    BY <1>1, <1>2, <2>1, <2>2 DEF PlanHolds, OwnRequest
  <2>4. \A t \in Target : job'[r][t].at = "select"
    BY <1>2 DEF PlanHolds
  <2>5. QED
    BY <1>4, <2>3, <2>4 DEF JobHolds
<1>5. QED
  BY <1>3, <1>4

LEMMA BundledHolds ==
  ASSUME IInv, [Next]_vars, NEW r \in Run, Bundle(r) \/ BreakBundle(r), NEW q \in Run
  PROVE  PlanHolds(q)' /\ \A t \in Target : JobHolds(q, t)'
<1>1. PICK at \in {"done", "failed"} :
        /\ run' = [run EXCEPT ![r].at = at]
        /\ at = "done" => \A t \in Target : job[r][t].at = "done"
  BY DEF Bundle, BreakBundle
<1>2. /\ run \in [Run -> Plan] /\ inputs' = inputs /\ child' = child /\ UNCHANGED <<job, upload>>
      /\ run[r].at = "build" /\ PlanHolds(r)
  BY DEF IInv, TypeOK, Bundle, BreakBundle, Ended, repository
<1>3. /\ run'[q].request = run[q].request /\ run'[q].source = run[q].source
      /\ q # r => run'[q] = run[q]
  BY <1>1, <1>2 DEF Plan
<1>4. \A t \in Target : JobHolds(q, t)'
  BY <1>2, <1>3, JobStays
<1>5. PlanHolds(r)'
  BY <1>1, <1>2 DEF PlanHolds, Plan, OwnRequest
<1>6. QED
  BY <1>2, <1>3, <1>4, <1>5, PlanStays

LEMMA HoldsStep ==
  ASSUME IInv, [Next]_vars, NEW q \in Run
  PROVE  PlanHolds(q)' /\ \A t \in Target : JobHolds(q, t)'
<1>1. CASE UNCHANGED <<inputs, run, job, upload>>
  BY <1>1, PlanStays, JobStays
<1>2. ASSUME NEW r \in Run, NEW u \in Target,
             JobStep(r, u) \/ WatchBreaks(r, u) \/ Break(r, u)
      PROVE  PlanHolds(q)' /\ \A t \in Target : JobHolds(q, t)'
  <2>1. PlanHolds(q)'
    BY <1>2, JobMoves, PlanStays
  <2>2. ASSUME NEW t \in Target PROVE JobHolds(q, t)'
    <3>1. CASE q = r /\ t = u
      BY <1>2, <3>1, JobMoved
    <3>2. CASE ~ (q = r /\ t = u)
      BY <1>2, <3>2, JobMoves, JobStays
    <3>3. QED
      BY <3>1, <3>2
  <2>3. QED
    BY <2>1, <2>2
<1>3. ASSUME NEW i \in DOMAIN child,
             ChildSucceeds(i) \/ ChildFails(i) \/ ChildIsRerun(i) \/ ArtifactExpires(i)
      PROVE  UNCHANGED <<inputs, run, job, upload>>
  BY <1>3 DEF ChildSucceeds, ChildFails, ChildIsRerun, ArtifactExpires, ChildStep, repository
<1>4. CASE NewCommit \/ \E t \in Target : DispatchByHand(t)
  BY <1>1, <1>4 DEF NewCommit, DispatchByHand, repository
<1>5. CASE UNCHANGED vars
  BY <1>1, <1>5 DEF vars, repository
<1>6. QED
  BY <1>1, <1>2, <1>3, <1>4, <1>5, RerunHolds, PlannedHolds, BundledHolds DEF Next

-----------------------------------------------------------------------------
(* Every step keeps OnceHolds: the children of a run are counted.           *)

LEMMA OwnFinite ==
  ASSUME TypeOK, NEW r, NEW t
  PROVE  IsFiniteSet(Own(r, t)) /\ Cardinality(Own(r, t)) \in Nat
<1>1. child \in Seq(Child)
  BY DEF TypeOK
<1>2. Len(child) \in Nat /\ DOMAIN child = 1 .. Len(child)
  BY <1>1
<1>3. IsFiniteSet(DOMAIN child)
  BY <1>2, FS_Interval
<1>4. Own(r, t) \in SUBSET DOMAIN child
  BY DEF Own
<1>5. QED
  BY <1>3, <1>4, FS_Subset, FS_CardinalityType

(* A dispatch counts for the run and target it names, and for no other. *)
LEMMA OwnGrows ==
  ASSUME TypeOK, NEW u \in Target, NEW q \in Request, NEW c \in Commit, AddChild(u, q, c),
         NEW r \in Run, NEW t \in Target
  PROVE  Cardinality(Own(r, t))' =
           IF u = t /\ q \in OwnRequest(r) THEN Cardinality(Own(r, t)) + 1
                                           ELSE Cardinality(Own(r, t))
<1> DEFINE new == Len(child')
<1>1. /\ DOMAIN child' = DOMAIN child \cup {new} /\ new \notin DOMAIN child
      /\ child'[new].target = u /\ child'[new].request = q
      /\ \A i \in DOMAIN child : child'[i] = child[i]
  BY AddedChild
<1>2. new \notin Own(r, t) /\ IsFiniteSet(Own(r, t))
  BY <1>1, OwnFinite DEF Own
<1>3. CASE u = t /\ q \in OwnRequest(r)
  <2>1. Own(r, t)' = Own(r, t) \cup {new}
    BY <1>1, <1>3 DEF Own, OwnRequest
  <2>2. QED
    BY <1>2, <1>3, <2>1, FS_AddElement
<1>4. CASE ~ (u = t /\ q \in OwnRequest(r))
  <2>1. Own(r, t)' = Own(r, t)
    BY <1>1, <1>4 DEF Own, OwnRequest
  <2>2. QED
    BY <1>4, <2>1
<1>5. QED
  BY <1>3, <1>4

LEMMA OnceStep ==
  ASSUME IInv, [Next]_vars, NEW r \in Run, NEW t \in Target
  PROVE  OnceHolds(r, t)'
<1>1. /\ TypeOK /\ child \in Seq(Child) /\ run \in [Run -> Plan] /\ run[r] \in Plan
      /\ job \in [Run -> [Target -> Job]] /\ OnceHolds(r, t) /\ PlanHolds(r)
  BY DEF IInv, TypeOK
<1>2. Cardinality(Own(r, t)) \in Nat /\ run[r].attempt \in Nat
  BY <1>1, OwnFinite, BoundAssumption DEF Plan
<1>3. CASE UNCHANGED child
  <2>1. Own(r, t)' = Own(r, t)
    BY <1>3 DEF Own, OwnRequest
  <2>2. CASE run'[r] = run[r] /\ job'[r][t].at = job[r][t].at
    BY <1>1, <2>1, <2>2 DEF OnceHolds, At
  <2>3. CASE StartBuild(r) \/ StartReuse(r)
    <3>1. run'[r].attempt = 1 /\ run[r].attempt = 0
      BY <1>1, <2>3 DEF StartBuild, StartReuse, Planned, PlanHolds
    <3>2. QED
      BY <1>1, <1>2, <2>1, <3>1 DEF OnceHolds
  <2>4. CASE Bundle(r) \/ BreakBundle(r)
    <3>1. run'[r].attempt = run[r].attempt /\ run'[r].at # "build"
      BY <1>1, <2>4 DEF Bundle, BreakBundle, Plan
    <3>2. QED
      BY <1>1, <2>1, <3>1 DEF OnceHolds, At
  <2>5. ASSUME NEW all \in BOOLEAN, Rerun(r, all) PROVE OnceHolds(r, t)'
    <3>1. run'[r].attempt = run[r].attempt + 1
      BY <1>1, <2>5 DEF Rerun, Plan
    <3>2. QED
      BY <1>1, <1>2, <2>1, <3>1 DEF OnceHolds
  <2>6. ASSUME NEW u \in Target,
               Lookup(r, u) \/ Watch(r, u) \/ View(r, u) \/ Download(r, u)
                 \/ WatchBreaks(r, u) \/ Break(r, u)
        PROVE  OnceHolds(r, t)'
    <3>1. run' = run /\ run[r].at = "build" /\ (u # t => job'[r][t] = job[r][t])
      BY <2>6, JobMoves DEF JobStep
    <3>2. CASE u # t
      BY <2>2, <3>1, <3>2
    <3>3. CASE u = t /\ Lookup(r, t)
      BY <1>1, <2>1, <3>1, <3>3 DEF Lookup, OnceHolds
    <3>4. CASE u = t /\ ~ Lookup(r, t)
      <4>1. job'[r][t].at # "select"
        <5>1. ASSUME NEW a \in {"download", "view", "done", "failed"}, Goto(r, t, a)
              PROVE  job'[r][t].at # "select"
          BY <1>1, <5>1 DEF Goto, SetJob, Job
        <5>2. CASE View(r, t)
          <6>1. CASE SetJob(r, t, [job[r][t] EXCEPT !.at = "watch", !.watch = @ + 1])
            BY <1>1, <6>1 DEF SetJob, Job
          <6>2. ASSUME NEW v, SetJob(r, t, [job[r][t] EXCEPT !.at = "failed", !.verdict = v])
                PROVE  job'[r][t].at # "select"
            BY <1>1, <6>2 DEF SetJob, Job
          <6>3. QED
            BY <5>1, <5>2, <6>1, <6>2 DEF View
        <5>3. CASE Watch(r, t) \/ Download(r, t) \/ WatchBreaks(r, t) \/ Break(r, t)
          <6>1. \E a \in {"download", "view", "done", "failed"} : Goto(r, t, a)
            BY <5>3 DEF Watch, Download, WatchBreaks, Break
          <6>2. QED
            BY <5>1, <6>1
        <5>4. QED
          BY <2>6, <3>4, <5>2, <5>3
      <4>2. QED
        BY <1>1, <2>1, <3>1, <4>1 DEF OnceHolds, At
    <3>5. QED
      BY <3>2, <3>3, <3>4
  <2>7. ASSUME NEW q \in Run, q # r,
               \/ StartBuild(q) \/ StartReuse(q) \/ Bundle(q) \/ BreakBundle(q)
               \/ \E all \in BOOLEAN : Rerun(q, all)
        PROVE  run'[r] = run[r] /\ job'[r] = job[r]
    <3>1. job' = job \/ \E j : job' = [job EXCEPT ![q] = j]
      BY <2>7 DEF StartBuild, StartReuse, Planned, Bundle, BreakBundle, Rerun
    <3>2. \E p : run' = [run EXCEPT ![q] = p]
      <4>1. CASE \E all \in BOOLEAN : Rerun(q, all)
        BY <4>1 DEF Rerun
      <4>2. CASE Bundle(q) \/ BreakBundle(q)
        BY <4>2 DEF Bundle, BreakBundle
      <4>3. CASE StartBuild(q) \/ StartReuse(q)
        BY <4>3 DEF StartBuild, StartReuse, Planned
      <4>4. QED
        BY <2>7, <4>1, <4>2, <4>3
    <3>3. QED
      BY <1>1, <2>7, <3>1, <3>2
  <2>8. ASSUME NEW q \in Run, q # r, NEW u \in Target,
               Lookup(q, u) \/ Watch(q, u) \/ View(q, u) \/ Download(q, u)
                 \/ WatchBreaks(q, u) \/ Break(q, u)
        PROVE  run'[r] = run[r] /\ job'[r] = job[r]
    BY <2>8, JobMoves DEF JobStep
  <2>9. CASE UNCHANGED <<run, job>>
    BY <2>2, <2>9
  <2>10. ASSUME NEW q \in Run, NEW u \in Target, Dispatch(q, u) \/ DispatchLost(q, u)
         PROVE  FALSE
    BY <1>1, <1>3, <2>10, AddedChild DEF Dispatch, DispatchLost, TypeOK, Plan
  <2>11. ASSUME NEW i \in DOMAIN child,
                ChildSucceeds(i) \/ ChildFails(i) \/ ChildIsRerun(i) \/ ArtifactExpires(i)
         PROVE  UNCHANGED <<run, job>>
    BY <2>11 DEF ChildSucceeds, ChildFails, ChildIsRerun, ArtifactExpires, ChildStep
  <2>12. CASE NewCommit \/ UNCHANGED vars \/ \E u \in Target : DispatchByHand(u)
    BY <2>9, <2>12 DEF NewCommit, DispatchByHand, vars
  <2>13. QED
    BY <2>2, <2>3, <2>4, <2>5, <2>6, <2>7, <2>8, <2>9, <2>10, <2>11, <2>12 DEF Next, JobStep
<1>4. ASSUME NEW i \in DOMAIN child,
             ChildSucceeds(i) \/ ChildFails(i) \/ ChildIsRerun(i) \/ ArtifactExpires(i)
      PROVE  OnceHolds(r, t)'
  <2>1. DOMAIN child' = DOMAIN child /\ \A k \in DOMAIN child : Kept(k)
    BY <1>1, <1>4, SteppedChild DEF ChildSucceeds, ChildFails, ChildIsRerun, ArtifactExpires
  <2>2. Own(r, t)' = Own(r, t)
    BY <2>1 DEF Own, OwnRequest, Kept
  <2>3. UNCHANGED <<run, job>>
    BY <1>4 DEF ChildSucceeds, ChildFails, ChildIsRerun, ArtifactExpires, ChildStep
  <2>4. QED
    BY <1>1, <2>2, <2>3 DEF OnceHolds, At
<1>5. ASSUME NEW u \in Target, DispatchByHand(u) PROVE OnceHolds(r, t)'
  <2>1. PICK c \in 1 .. head : AddChild(u, ByHand, c)
    BY <1>5 DEF DispatchByHand
  <2>2. c \in Commit /\ ByHand \in Request /\ ByHand \notin OwnRequest(r)
    BY <1>1, BoundAssumption DEF TypeOK, Commit, Request, OwnRequest
  <2>3. Cardinality(Own(r, t))' = Cardinality(Own(r, t))
    BY <1>1, <2>1, <2>2, OwnGrows
  <2>4. QED
    BY <1>1, <1>5, <2>3 DEF DispatchByHand, OnceHolds, At
<1>6. ASSUME NEW q \in Run, NEW u \in Target, Dispatch(q, u) \/ DispatchLost(q, u)
      PROVE  OnceHolds(r, t)'
  <2>1. /\ run[q].request \in Request /\ run[q].source \in Commit
        /\ run[q].at = "build" /\ run[q].reuse = None /\ job[q][u].at = "select"
        /\ AddChild(u, run[q].request, run[q].source)
    BY <1>1, <1>6 DEF Dispatch, DispatchLost, At, Plan
  <2>2. run[q].request \in OwnRequest(q)
    BY <2>1 DEF IInv, PlanHolds
  <2>3. JobStep(q, u)
    BY <1>6 DEF JobStep
  <2>4. run' = run /\ (<<q, u>> # <<r, t>> => job'[r][t] = job[r][t])
    BY <2>3, JobMoves
  <2>5. CASE q = r /\ u = t
    <3>1. Cardinality(Own(r, t))' = Cardinality(Own(r, t)) + 1
      BY <1>1, <2>1, <2>2, <2>5, OwnGrows
    <3>2. Cardinality(Own(r, t)) < run[r].attempt
      BY <1>1, <2>1, <2>5 DEF OnceHolds, At
    <3>3. job'[r][t].at # "select"
      <4>1. CASE Dispatch(r, t)
        BY <1>1, <4>1 DEF Dispatch, SetJob, Job
      <4>2. CASE DispatchLost(r, t)
        BY <1>1, <4>2 DEF DispatchLost, Goto, SetJob, Job
      <4>3. QED
        BY <1>6, <2>5, <4>1, <4>2
    <3>4. QED
      BY <1>2, <2>4, <3>1, <3>2, <3>3 DEF OnceHolds, At
  <2>6. CASE ~ (q = r /\ u = t)
    <3>1. ~ (u = t /\ run[q].request \in OwnRequest(r))
      BY <2>2, <2>6 DEF OwnRequest
    <3>2. Cardinality(Own(r, t))' = Cardinality(Own(r, t))
      BY <1>1, <2>1, <3>1, OwnGrows
    <3>3. QED
      BY <1>1, <2>4, <2>6, <3>2 DEF OnceHolds, At
  <2>7. QED
    BY <2>5, <2>6
<1>7. CASE NewCommit \/ UNCHANGED vars
  BY <1>3, <1>7 DEF NewCommit, vars
<1>8. ASSUME NEW q \in Run,
             \/ StartBuild(q) \/ StartReuse(q) \/ Bundle(q) \/ BreakBundle(q)
             \/ \E all \in BOOLEAN : Rerun(q, all)
             \/ \E u \in Target : Lookup(q, u) \/ Watch(q, u) \/ View(q, u) \/ Download(q, u)
                                    \/ WatchBreaks(q, u) \/ Break(q, u)
      PROVE  UNCHANGED child
  BY <1>8 DEF StartBuild, StartReuse, Planned, Bundle, BreakBundle, Rerun, Lookup, Watch, View,
              Download, WatchBreaks, Break
<1>9. QED
  BY <1>3, <1>4, <1>5, <1>6, <1>7, <1>8 DEF Next, JobStep

LEMMA NextIInv == IInv /\ [Next]_vars => IInv'
BY TypeStep, HoldsStep, OnceStep DEF IInv

(* The inductive invariant holds in every state of the release broker. *)
THEOREM Inductive == Spec => []IInv
<1>1. QED
  BY InitIInv, NextIInv, PTL DEF Spec

(* A bundle holds, for every target, the artifact of a successful child for
   that target, of one request and one source with the build inputs of the
   run's commit: the bundle job's checks on a run whose jobs were re-run, whose
   builds were reused and whose children are anybody's. *)
THEOREM BundlesAreOfOneBuild == Spec => []BundleIsOfOneBuild
<1>1. IInv => BundleIsOfOneBuild
  <2>1. SUFFICES ASSUME IInv, NEW r \in Run, run[r].at = "done", NEW t \in Target
                 PROVE  /\ inputs[run[r].source] = inputs[run[r].commit]
                        /\ upload[r][t] # None /\ Succeeded(upload[r][t])
                        /\ Verified(r, t, child[upload[r][t]])
    <3>1. ASSUME NEW r \in Run, run[r].at = "done", IInv
          PROVE  inputs[run[r].source] = inputs[run[r].commit]
      BY <3>1 DEF IInv, PlanHolds
    <3>2. QED
      BY <2>1, <3>1 DEF BundleIsOfOneBuild, IInv, Verified
  <2>2. job[r][t].at = "done" /\ inputs[run[r].source] = inputs[run[r].commit]
    BY <2>1 DEF IInv, PlanHolds
  <2>3. upload[r][t] \in DOMAIN child /\ Verified(r, t, child[upload[r][t]])
        /\ Succeeded(upload[r][t])
    BY <2>1, <2>2 DEF IInv, JobHolds
  <2>4. upload[r][t] # None
    BY <2>1, <2>3, BoundAssumption DEF IInv, TypeOK
  <2>5. QED
    BY <2>2, <2>3, <2>4
<1>2. QED
  BY <1>1, Inductive, PTL

(* The broker never dispatches a target a second time in one attempt of a run,
   whatever answers and status requests are lost. *)
THEOREM DispatchesAreSingle == Spec => []OneChildPerAttempt
<1>1. IInv => OneChildPerAttempt
  BY DEF IInv, OnceHolds, OneChildPerAttempt, Own, OwnRequest
<1>2. QED
  BY <1>1, Inductive, PTL

(* A job calls a build failed only when it has failed, and its result unknown
   only after the last watch. *)
THEOREM VerdictsAreTrue == Spec => VerdictIsTrue
<1> DEFINE Truth(r, t) ==
      job'[r][t].verdict # job[r][t].verdict =>
        /\ job'[r][t].verdict = "failed" => child[job[r][t].child].at = "failure"
        /\ job'[r][t].verdict = "unknown" => job[r][t].watch = Watches
<1>1. ASSUME IInv, [Next]_vars, NEW r \in Run, NEW t \in Target PROVE Truth(r, t)
  <2>1. job \in [Run -> [Target -> Job]] /\ job[r][t] \in Job
    BY <1>1 DEF IInv, TypeOK
  <2>2. CASE job'[r][t] = job[r][t]
    BY <2>2
  <2>3. ASSUME NEW all \in BOOLEAN, Rerun(r, all) PROVE Truth(r, t)
    BY <2>1, <2>3 DEF Rerun, NewJob
  <2>4. CASE View(r, t)
    <3>1. CASE Goto(r, t, "download")
      BY <2>1, <3>1 DEF Goto, SetJob, Job
    <3>2. CASE SetJob(r, t, [job[r][t] EXCEPT !.at = "watch", !.watch = @ + 1])
      BY <2>1, <3>2 DEF SetJob, Job
    <3>3. ASSUME NEW v, SetJob(r, t, [job[r][t] EXCEPT !.at = "failed", !.verdict = v])
          PROVE  job'[r][t].verdict = v
      BY <2>1, <3>3 DEF SetJob, Job
    <3>4. QED
      BY <2>4, <3>1, <3>2, <3>3 DEF View
  <2>5. ASSUME NEW a, Goto(r, t, a) PROVE Truth(r, t)
    BY <2>1, <2>5 DEF Goto, SetJob, Job
  <2>6. ASSUME NEW q \in Run, NEW u \in Target,
               JobStep(q, u) \/ WatchBreaks(q, u) \/ Break(q, u), <<q, u>> # <<r, t>>
        PROVE  job'[r][t] = job[r][t]
    BY <1>1, <2>6, JobMoves
  <2>7. CASE JobStep(r, t) \/ WatchBreaks(r, t) \/ Break(r, t)
    <3>1. CASE Dispatch(r, t)
      BY <2>1, <3>1 DEF Dispatch, SetJob, Job
    <3>2. CASE Lookup(r, t)
      <4>1. Goto(r, t, "failed")
              \/ SetJob(r, t, [job[r][t] EXCEPT !.at = "watch", !.child = run[r].reuse[t]])
        BY <3>2 DEF Lookup
      <4>2. CASE SetJob(r, t, [job[r][t] EXCEPT !.at = "watch", !.child = run[r].reuse[t]])
        BY <2>1, <4>2 DEF SetJob, Job
      <4>3. QED
        BY <2>5, <4>1, <4>2
    <3>3. CASE DispatchLost(r, t) \/ Watch(r, t) \/ Download(r, t) \/ WatchBreaks(r, t)
               \/ Break(r, t)
      BY <2>5, <3>3 DEF DispatchLost, Watch, Download, WatchBreaks, Break
    <3>4. QED
      BY <2>4, <2>7, <3>1, <3>2, <3>3 DEF JobStep
  <2>8. ASSUME NEW q \in Run, q # r, NEW all \in BOOLEAN, Rerun(q, all)
        PROVE  job'[r] = job[r]
    BY <2>1, <2>8 DEF Rerun
  <2>9. CASE UNCHANGED job
    BY <2>2, <2>9
  <2>10. ASSUME NEW q \in Run, StartBuild(q) \/ StartReuse(q) \/ Bundle(q) \/ BreakBundle(q)
         PROVE  UNCHANGED job
    BY <2>10 DEF StartBuild, StartReuse, Planned, Bundle, BreakBundle
  <2>11. ASSUME NEW i \in DOMAIN child,
                ChildSucceeds(i) \/ ChildFails(i) \/ ChildIsRerun(i) \/ ArtifactExpires(i)
         PROVE  UNCHANGED job
    BY <2>11 DEF ChildSucceeds, ChildFails, ChildIsRerun, ArtifactExpires, ChildStep
  <2>12. CASE NewCommit \/ UNCHANGED vars \/ \E u \in Target : DispatchByHand(u)
    BY <2>9, <2>12 DEF NewCommit, DispatchByHand, vars
  <2>13. QED
    BY <1>1, <2>2, <2>3, <2>6, <2>7, <2>8, <2>9, <2>10, <2>11, <2>12 DEF Next
<1>2. IInv /\ [Next]_vars => [\A r \in Run, t \in Target : Truth(r, t)]_vars
  BY <1>1
<1>3. Spec => [][\A r \in Run, t \in Target : Truth(r, t)]_vars
  BY <1>2, Inductive, PTL DEF Spec
<1>4. QED
  BY <1>3 DEF VerdictIsTrue
=============================================================================
