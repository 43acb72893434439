------------------------ MODULE ReleasePublish_proofs ------------------------
(* Safety of the publish job for every set of runs, payloads, scripts and
   commits, wherever its runs stop and are re-run, and whichever overlap. *)
EXTENDS ReleasePublish, TLAPS

(* What holds of every run, also next to others: the payload it packs is that
   of its source; the tag it has read stands, and is that of its source once
   the run is past it; the release it fills exists. *)
Tagged == {"load", "takedown", "create", "edit", "list", "delete", "upload", "publish"}
Made == {"takedown", "edit", "list", "delete", "upload", "publish"}

Bears(r) ==
  /\ run[r].pc # "idle" => payload[run[r].commit] = payload[run[r].src]
  /\ run[r].pc = "tag" => run[r].local \in {NoTag, run[r].src}
                            /\ (run[r].local # NoTag => tag = run[r].local)
  /\ run[r].pc \in Tagged => tag = run[r].src
  /\ run[r].pc \in Made => release.state # "none"

(* Every asset, of drafts too, is of the tagged commit and its payload. *)
Sourced ==
  \A n \in Name :
    release.assets[n] # Missing =>
      release.assets[n].src = tag /\ n \in {"descriptor", payload[tag]} \cup Recipe

TInv == TypeOK /\ (\A r \in Run : Bears(r)) /\ Sourced

Excluded == \A r, s \in Run : run[r].pc \in Active /\ run[s].pc \in Active => r = s

(* What an active run knows when no two have overlapped: once it has read the
   tag nobody else writes it; the release is in the state it found or made;
   and what it publishes is what it has verified. *)
Filling == {"list", "delete", "upload", "publish"}

Knows(r) ==
  /\ run[r].pc # "idle" => payload[run[r].commit] = payload[run[r].src]
  /\ run[r].pc = "tag" => run[r].local = tag /\ tag \in {NoTag, run[r].src}
  /\ run[r].pc \in Tagged => tag = run[r].src
  /\ run[r].pc = "create" => release.state = "none"
  /\ run[r].pc = "takedown" => Repairs(r)
  /\ run[r].pc \in {"takedown", "edit"} => release.state # "none"
  /\ run[r].pc = "edit" => release.state = "draft"
  /\ run[r].pc \in Filling => release.state = "draft"
  /\ run[r].pc = "publish" => release.assets = Bundle(r)

(* A published release is the bundle of a run that was planned, whose source
   is the tagged commit.  It outlives that run, whose record no step changes
   any more. *)
Public ==
  release.state = "published" =>
    \E r \in Run : run[r].pc # "idle" /\ run[r].src = tag /\ release.assets = Bundle(r)

Alone == TypeOK /\ Excluded /\ (\A r \in Run : Knows(r)) /\ Public

IInv == TInv /\ (~overlapped => Alone)

-----------------------------------------------------------------------------

LEMMA InitIInv == Init => IInv
<1>. SUFFICES ASSUME Init PROVE IInv
  OBVIOUS
<1>. USE BoundAssumption DEF Init
<1>1. NoAssets \in Assets
  BY DEF NoAssets, Assets
<1>2. 1 \in Commit /\ 0 \in 0 .. MaxTrouble
  BY DEF Commit
<1>3. TypeOK
  <2>1. overlapped \in BOOLEAN
    BY Zenon
  <2>2. run \in [Run -> Job]
    BY <1>1, <1>2 DEF Job
  <2>3. tag \notin Commit /\ head \in Commit /\ trouble \in 0 .. MaxTrouble
    BY <1>2 DEF Commit
  <2>4. QED
    BY <1>1, <2>1, <2>2, <2>3 DEF TypeOK
<1>4. Excluded /\ (\A r \in Run : Knows(r)) /\ Public
  BY DEF Excluded, Knows, Public, Active, Tagged, Filling
<1>5. (\A r \in Run : Bears(r)) /\ Sourced
  BY DEF Bears, Sourced, Tagged, Made, NoAssets
<1>6. QED
  BY <1>3, <1>4, <1>5 DEF IInv, TInv, Alone

-----------------------------------------------------------------------------
(* What holds of every run, overlapping or not.                            *)

ReleaseTyped ==
  /\ release \in [state : {"none", "draft", "published"}, assets : Assets]
  /\ release.state = "none" => release.assets = NoAssets
  /\ release.state # "none" => tag # NoTag
Counted == overlapped \in BOOLEAN /\ trouble \in 0 .. MaxTrouble

LEMMA Counts ==
  ASSUME TInv, [Next]_vars
  PROVE  Counted'
<1>1. overlapped \in BOOLEAN /\ trouble \in 0 .. MaxTrouble
  BY DEF TInv, TypeOK
<1>2. UNCHANGED <<overlapped, trouble>> \/ \E n \in {0, 1} : Enter(n)
  <2>1. ASSUME NEW r \in Run, Start(r) PROVE Enter(0)
    BY <2>1 DEF Start
  <2>2. ASSUME NEW r \in Run, Rerun(r) PROVE Enter(1)
    BY <2>2 DEF Rerun
  <2>3. ASSUME NEW r \in Run,
               \/ Catalog(r) \/ CreateTag(r) \/ LoadRelease(r) \/ CreateDraft(r) \/ EditDraft(r)
               \/ ListAssets(r) \/ Enumerate(r) \/ Verify(r) \/ Publish(r) \/ Break(r)
               \/ \E n \in Name : DeleteAsset(r, n) \/ Clobber(r, n) \/ Upload(r, n)
        PROVE  UNCHANGED <<overlapped, trouble>>
    BY <2>3 DEF Catalog, CreateTag, LoadRelease, CreateDraft, EditDraft, ListAssets, Enumerate,
       Verify, Publish, Break, DeleteAsset, Clobber, Upload
  <2>4. QED
    BY <2>1, <2>2, <2>3 DEF Next, vars, NewCommit
<1>3. ASSUME NEW n \in {0, 1}, Enter(n) PROVE Counted'
  <2>1. overlapped' \in BOOLEAN
    BY <1>1, <1>3 DEF Enter
  <2>2. trouble' \in 0 .. MaxTrouble
    BY <1>1, <1>3, BoundAssumption DEF Enter
  <2>3. QED
    BY <2>1, <2>2 DEF Counted
<1>4. QED
  BY <1>1, <1>2, <1>3 DEF Counted

(* Tags stay and releases are not deleted, so nobody else loses anything. *)
LEMMA BearStep ==
  ASSUME TInv, [Next]_vars, NEW r \in Run, NEW j \in Job, run' = [run EXCEPT ![r] = j],
         UNCHANGED repository, tag' \in Commit \cup {NoTag}, tag # NoTag => tag' = tag,
         release.state # "none" => release'.state # "none", ReleaseTyped', Bears(r)', Sourced'
  PROVE  TInv' /\ (tag # NoTag => tag' = tag)
<1>1. \A s \in Run : s # r => run'[s] = run[s]
  BY DEF TInv, TypeOK
<1>2. ASSUME NEW s \in Run, s # r PROVE Bears(s)'
  <2>1. Bears(s) /\ run'[s] = run[s] /\ payload' = payload /\ run[s].src # NoTag
    BY <1>1, <1>2, BoundAssumption DEF TInv, TypeOK, Job, Commit, repository
  <2>2. run[s].pc \in Tagged => tag # NoTag
    BY <2>1 DEF Bears
  <2>3. QED
    BY <2>1, <2>2 DEF Bears
<1>3. TypeOK'
  BY Counts DEF Counted, ReleaseTyped, TInv, TypeOK, repository
<1>4. QED
  BY <1>2, <1>3 DEF TInv

(* Steps of one run that write neither the tag nor the release's assets. *)
LEMMA BearsOn ==
  ASSUME TInv, [Next]_vars, NEW r \in Run, NEW j \in Job, run' = [run EXCEPT ![r] = j],
         UNCHANGED <<repository, tag>>, ReleaseTyped', release'.assets = release.assets,
         release.state # "none" => release'.state # "none", Bears(r)'
  PROVE  TInv' /\ (tag # NoTag => tag' = tag)
<1>1. Sourced'
  BY DEF TInv, Sourced, repository
<1>2. tag' \in Commit \cup {NoTag}
  BY DEF TInv, TypeOK
<1>3. QED
  BY <1>1, <1>2, BearStep

LEMMA BearsReading ==
  ASSUME TInv, Next, NEW r \in Run,
         \/ Catalog(r) \/ LoadRelease(r) \/ ListAssets(r) \/ Enumerate(r) \/ Verify(r)
         \/ Break(r) \/ Rerun(r)
  PROVE  TInv' /\ (tag # NoTag => tag' = tag)
<1>0. /\ run \in [Run -> Job] /\ run[r] \in Job /\ UNCHANGED <<repository, tag, release>>
      /\ release.assets \in Assets /\ tag \in Commit \cup {NoTag} /\ run[r].pc # "idle"
      /\ payload[run[r].commit] = payload[run[r].src]
      /\ run[r].pc \in Tagged => tag = run[r].src
      /\ run[r].pc \in Made => release.state # "none"
  BY DEF TInv, TypeOK, Bears, Catalog, LoadRelease, ListAssets, Enumerate, Verify, Break, Rerun, Active
<1>1. ReleaseTyped'
  BY <1>0 DEF TInv, TypeOK, ReleaseTyped
<1>2. ASSUME NEW j \in Job, run' = [run EXCEPT ![r] = j],
             j.commit = run[r].commit, j.src = run[r].src,
             j.pc # "tag" \/ (j.local = tag /\ tag \in {NoTag, j.src}),
             j.pc \in Tagged => run[r].pc \in Tagged,
             j.pc \in Made => run[r].pc \in Made \/ release.state # "none"
      PROVE  TInv' /\ (tag # NoTag => tag' = tag)
  <2>1. run'[r] = j
    BY <1>0, <1>2
  <2>2. Bears(r)'
    BY <1>0, <1>2, <2>1 DEF Bears, repository
  <2>3. QED
    BY <1>0, <1>1, <1>2, <2>2, BearsOn
<1>3. CASE Catalog(r)
  <2> DEFINE j == [run[r] EXCEPT !.local = tag,
                                 !.pc = IF tag \in {NoTag, run[r].src} THEN "tag" ELSE "failed"]
  <2>1. j \in Job
    BY <1>0 DEF Job, Active
  <2>2. j.pc \notin Tagged /\ j.pc \notin Made /\ j.commit = run[r].commit /\ j.src = run[r].src
        /\ (j.pc # "tag" \/ (j.local = tag /\ tag \in {NoTag, j.src}))
    BY <1>0 DEF Job, Tagged, Made
  <2>3. QED
    BY <1>2, <1>3, <2>1, <2>2 DEF Catalog
<1>4. ASSUME NEW pc, Goto(r, pc), pc \in Active \cup {"done", "failed"}, pc # "tag",
             pc \in Tagged => run[r].pc \in Tagged,
             pc \in Made => run[r].pc \in Made \/ release.state # "none"
      PROVE  TInv' /\ (tag # NoTag => tag' = tag)
  <2> DEFINE j == [run[r] EXCEPT !.pc = pc]
  <2>1. j \in Job /\ j.pc = pc /\ j.commit = run[r].commit /\ j.src = run[r].src
    BY <1>0, <1>4 DEF Job
  <2>2. QED
    BY <1>2, <1>4, <2>1 DEF Goto
<1>5. CASE LoadRelease(r)
  <2>1. PICK pc \in {"create", "list", "edit", "takedown", "done", "failed"} :
          Goto(r, pc) /\ run[r].pc = "load" /\ (pc \in Made => release.state # "none")
    BY <1>0, <1>5 DEF LoadRelease, TInv, TypeOK, Made
  <2>2. pc \in Active \cup {"done", "failed"} /\ pc # "tag" /\ run[r].pc \in Tagged
    BY <2>1 DEF Active, Tagged
  <2>3. QED
    BY <1>4, <2>1, <2>2
<1>6. CASE ListAssets(r)
  <2> DEFINE j == [run[r] EXCEPT !.pc = "delete",
                     !.todo = {n \in Name : release.assets[n] # Missing} \ Expected(r)]
  <2>1. j \in Job /\ j.pc = "delete" /\ j.commit = run[r].commit /\ j.src = run[r].src
    BY <1>0 DEF Job, Active
  <2>2. run[r].pc \in Tagged /\ run[r].pc \in Made
    BY <1>6 DEF ListAssets, Tagged, Made
  <2>3. QED
    BY <1>2, <1>6, <2>1, <2>2 DEF ListAssets
<1>7. CASE Enumerate(r)
  <2> DEFINE j == [run[r] EXCEPT !.pc = "upload", !.todo = Expected(r), !.seen = release.assets]
  <2>1. Expected(r) \in SUBSET Name
    BY <1>0 DEF Expected, Name, TInv, TypeOK, Job
  <2>2. j \in Job /\ j.pc = "upload" /\ j.commit = run[r].commit /\ j.src = run[r].src
    BY <1>0, <2>1 DEF Job, Active
  <2>3. run[r].pc \in Tagged /\ run[r].pc \in Made
    BY <1>7 DEF Enumerate, Tagged, Made
  <2>4. QED
    BY <1>2, <1>7, <2>2, <2>3 DEF Enumerate
<1>8. CASE Verify(r)
  <2>1. PICK pc \in {"publish", "failed"} : Goto(r, pc) /\ run[r].pc = "upload"
    BY <1>8 DEF Verify
  <2>2. pc \in Active \cup {"done", "failed"} /\ run[r].pc \in Tagged /\ run[r].pc \in Made
    BY <2>1 DEF Active, Tagged, Made
  <2>3. QED
    BY <1>4, <2>1, <2>2
<1>9. CASE Break(r)
  BY <1>4, <1>9 DEF Break, Tagged, Made
<1>10. CASE Rerun(r)
  <2>1. Goto(r, "catalog")
    BY <1>10 DEF Rerun, Goto
  <2>2. QED
    BY <1>4, <2>1 DEF Active, Tagged, Made
<1>11. QED
  BY <1>3, <1>5, <1>6, <1>7, <1>8, <1>9, <1>10

LEMMA BearsWriting ==
  ASSUME TInv, Next, NEW r \in Run,
         \/ CreateDraft(r) \/ EditDraft(r) \/ Publish(r)
         \/ \E n \in Name : DeleteAsset(r, n) \/ Clobber(r, n) \/ Upload(r, n)
  PROVE  TInv' /\ (tag # NoTag => tag' = tag)
<1>0. /\ run \in [Run -> Job] /\ run[r] \in Job /\ UNCHANGED <<repository, tag>>
      /\ release \in [state : {"none", "draft", "published"}, assets : Assets]
      /\ (release.state = "none" => release.assets = NoAssets)
      /\ tag = run[r].src /\ tag # NoTag /\ run[r].pc # "idle" /\ tag \in Commit \cup {NoTag}
      /\ payload[run[r].commit] = payload[run[r].src]
      /\ run[r].pc \in Made => release.state # "none"
  BY BoundAssumption DEF TInv, TypeOK, Bears, CreateDraft, EditDraft, Publish, DeleteAsset, Clobber,
     Upload, Tagged, Job, Commit
<1>1. ASSUME NEW j \in Job, run' = [run EXCEPT ![r] = j], j.commit = run[r].commit,
             j.src = run[r].src, j.pc # "tag", release'.state # "none"
      PROVE  Bears(r)'
  <2>1. run'[r] = j
    BY <1>0, <1>1
  <2>2. QED
    BY <1>0, <1>1, <2>1 DEF Bears, repository
<1>2. ASSUME NEW pc \in {"list", "done", "failed"}, Goto(r, pc), NEW st \in {"draft", "published"},
             release' = [release EXCEPT !.state = st]
      PROVE  TInv' /\ (tag # NoTag => tag' = tag)
  <2> DEFINE j == [run[r] EXCEPT !.pc = pc]
  <2>1. j \in Job /\ j.pc = pc /\ j.commit = run[r].commit /\ j.src = run[r].src
    BY <1>0, <1>2 DEF Job, Active
  <2>2. run' = [run EXCEPT ![r] = j]
    BY <1>2 DEF Goto
  <2>3. ReleaseTyped' /\ release'.assets = release.assets /\ release'.state # "none"
    BY <1>0, <1>2 DEF ReleaseTyped
  <2>4. Bears(r)'
    BY <1>1, <2>1, <2>2, <2>3
  <2>5. QED
    BY <1>0, <2>1, <2>2, <2>3, <2>4, BearsOn
<1>3. CASE CreateDraft(r)
  <2>1. CASE release.state = "none"
    BY <1>2, <1>3, <2>1 DEF CreateDraft, Mark
  <2>2. CASE release.state # "none"
    <3>1. Goto(r, "failed") /\ release' = release
      BY <1>3, <2>2 DEF CreateDraft, Refuse
    <3>2. release' = [release EXCEPT !.state = release.state]
          /\ release.state \in {"draft", "published"}
      BY <1>0, <2>2, <3>1
    <3>3. QED
      BY <1>2, <3>1, <3>2
  <2>3. QED
    BY <2>1, <2>2
<1>4. CASE EditDraft(r) \/ Publish(r)
  BY <1>2, <1>4 DEF EditDraft, Publish, Mark
<1>5. ASSUME NEW n \in Name, DeleteAsset(r, n) \/ Clobber(r, n) \/ Upload(r, n)
      PROVE  TInv' /\ (tag # NoTag => tag' = tag)
  <2>1. release.state # "none" /\ run[r].pc \in {"delete", "upload"}
    BY <1>0, <1>5 DEF DeleteAsset, Clobber, Upload, Made
  <2>2. PICK j \in Job : /\ run' = [run EXCEPT ![r] = j] /\ j.commit = run[r].commit
                         /\ j.src = run[r].src /\ j.pc # "tag"
    <3>1. CASE Refuse(r)
      <4>1. [run[r] EXCEPT !.pc = "failed"] \in Job
        BY <1>0 DEF Job
      <4>2. QED
        BY <1>0, <3>1, <4>1 DEF Refuse, Goto, Job
    <3>2. CASE run' = [run EXCEPT ![r].todo = @ \ {n}]
      <4>1. [run[r] EXCEPT !.todo = @ \ {n}] \in Job
        BY <1>0 DEF Job
      <4>2. QED
        BY <1>0, <2>1, <3>2, <4>1 DEF Job
    <3>3. CASE run' = [run EXCEPT ![r].seen[n] = Missing]
      <4>1. [run[r].seen EXCEPT ![n] = Missing] \in Assets
        BY <1>0 DEF Job, Assets
      <4>2. [run[r] EXCEPT !.seen = [run[r].seen EXCEPT ![n] = Missing]] \in Job
        BY <1>0, <4>1 DEF Job
      <4>3. QED
        BY <1>0, <2>1, <3>3, <4>2 DEF Job
    <3>4. QED
      BY <1>5, <3>1, <3>2, <3>3 DEF DeleteAsset, Clobber, Upload
  <2>3. ASSUME NEW c, c = Missing \/ c = Bundle(r)[n], Put(n, c)
        PROVE  ReleaseTyped' /\ Sourced' /\ release'.state # "none"
    <3>1. c # Missing => c \in Content /\ c.src = tag /\ n \in {"descriptor", payload[tag]} \cup Recipe
      <4>1. recipe[run[r].commit] \in Recipe
        BY <1>0 DEF TInv, TypeOK, Job
      <4>2. QED
        BY <1>0, <2>3, <4>1 DEF Bundle, Expected, Content, Job
    <3>2. release' = [release EXCEPT !.assets = [release.assets EXCEPT ![n] = c]]
      BY <1>0, <2>3 DEF Put
    <3>3. [release.assets EXCEPT ![n] = c] \in Assets
      BY <1>0, <3>1 DEF Assets
    <3>4. ReleaseTyped' /\ release'.state # "none"
      BY <1>0, <2>1, <3>2, <3>3 DEF ReleaseTyped
    <3>5. ASSUME NEW m \in Name, release'.assets[m] # Missing
          PROVE  release'.assets[m].src = tag /\ m \in {"descriptor", payload[tag]} \cup Recipe
      <4>1. release'.assets[m] = IF m = n THEN c ELSE release.assets[m]
        BY <1>0, <3>2 DEF Assets
      <4>2. QED
        BY <3>1, <3>5, <4>1 DEF TInv, Sourced
    <3>6. QED
      BY <1>0, <3>4, <3>5 DEF Sourced, repository
  <2>4. ReleaseTyped' /\ Sourced' /\ release'.state # "none"
    <3>1. CASE release' = release
      BY <1>0, <2>1, <3>1 DEF ReleaseTyped, TInv, Sourced, repository
    <3>2. QED
      BY <1>5, <2>3, <3>1 DEF DeleteAsset, Clobber, Upload
  <2>5. Bears(r)'
    BY <1>1, <2>2, <2>4
  <2>6. QED
    BY <1>0, <2>2, <2>4, <2>5, BearStep
<1>6. QED
  BY <1>3, <1>4, <1>5

(* A tag that exists is never moved: the catalog has refused the run if the
   tag it fetched is not that of its source. *)
LEMMA BearsTag ==
  ASSUME TInv, Next, NEW r \in Run, CreateTag(r)
  PROVE  TInv' /\ (tag # NoTag => tag' = tag)
<1>0. /\ run \in [Run -> Job] /\ run[r] \in Job /\ UNCHANGED <<repository, release>>
      /\ run[r].pc = "tag" /\ run[r].local \in {NoTag, run[r].src}
      /\ (run[r].local # NoTag => tag = run[r].local)
      /\ run[r].src \in Commit /\ tag \in Commit \cup {NoTag}
      /\ payload[run[r].commit] = payload[run[r].src]
  BY DEF TInv, TypeOK, Bears, CreateTag, Job
<1>1. PICK pc \in {"failed", "load"} :
        /\ run' = [run EXCEPT ![r].pc = pc] /\ tag' \in {tag, run[r].src}
        /\ (tag # NoTag => tag' = tag) /\ (pc = "load" => tag' = run[r].src)
  <2>1. CASE run[r].local = NoTag /\ tag # NoTag
    BY <2>1 DEF CreateTag, Refuse, Goto
  <2>2. CASE ~(run[r].local = NoTag /\ tag # NoTag)
    BY <1>0, <2>2 DEF CreateTag, Goto
  <2>3. QED
    BY <2>1, <2>2
<1> DEFINE j == [run[r] EXCEPT !.pc = pc]
<1>2. j \in Job /\ run' = [run EXCEPT ![r] = j] /\ run'[r] = j
  BY <1>0, <1>1 DEF Job, Active
<1>3. Bears(r)'
  BY <1>0, <1>1, <1>2 DEF Bears, Tagged, Made, Job, repository
<1>4. ReleaseTyped' /\ tag' \in Commit \cup {NoTag}
  BY <1>0, <1>1, BoundAssumption DEF ReleaseTyped, TInv, TypeOK
<1>5. Sourced'
  <2>1. CASE tag = NoTag
    BY <1>0, <2>1 DEF TInv, TypeOK, Sourced, NoAssets
  <2>2. CASE tag # NoTag
    BY <1>0, <1>1, <2>2 DEF TInv, Sourced, repository
  <2>3. QED
    BY <2>1, <2>2
<1>6. QED
  BY <1>0, <1>1, <1>2, <1>3, <1>4, <1>5, BearStep

LEMMA PlanBinds ==
  ASSUME TInv, NEW r \in Run, Start(r)
  PROVE  \E commit \in Commit, src \in Commit :
           /\ Bound(r, commit, src) /\ payload[commit] = payload[src]
           /\ tag' = tag \/ (tag = NoTag /\ tag' \in Commit)
<1>0. tag \in Commit \cup {NoTag} /\ head \in Commit
  BY DEF TInv, TypeOK
<1>1. CASE PlanRepair(r)
  BY <1>0, <1>1 DEF PlanRepair
<1>2. CASE PlanDispatch(r)
  BY <1>0, <1>2 DEF PlanDispatch
<1>3. CASE PlanPush(r)
  <2>1. PICK c \in 1 .. head : tag' = c /\ Bound(r, c, c)
    BY <1>3 DEF PlanPush
  <2>2. c \in Commit
    BY <1>0, BoundAssumption DEF Commit
  <2>3. QED
    BY <1>3, <2>1, <2>2 DEF PlanPush
<1>4. QED
  BY <1>1, <1>2, <1>3 DEF Start

LEMMA BearsStart ==
  ASSUME TInv, Next, NEW r \in Run, Start(r)
  PROVE  TInv' /\ (tag # NoTag => tag' = tag)
<1>0. /\ run \in [Run -> Job] /\ run[r] \in Job /\ UNCHANGED <<repository, release>>
      /\ tag \in Commit \cup {NoTag} /\ (release.state # "none" => tag # NoTag)
  BY DEF TInv, TypeOK, Start
<1>1. PICK commit \in Commit, src \in Commit :
        /\ Bound(r, commit, src) /\ payload[commit] = payload[src]
        /\ tag' = tag \/ (tag = NoTag /\ tag' \in Commit)
  BY PlanBinds
<1> DEFINE j == [run[r] EXCEPT !.pc = "catalog", !.commit = commit, !.src = src]
<1>2. j \in Job /\ run' = [run EXCEPT ![r] = j] /\ run'[r] = j
  BY <1>0, <1>1 DEF Bound, Job, Active
<1>3. Bears(r)'
  BY <1>0, <1>1, <1>2 DEF Bears, Tagged, Made, Job, repository
<1>4. ReleaseTyped' /\ tag' \in Commit \cup {NoTag}
  BY <1>0, <1>1, BoundAssumption DEF ReleaseTyped, TInv, TypeOK, Commit
<1>5. Sourced'
  <2>1. CASE tag = NoTag
    BY <1>0, <2>1 DEF TInv, TypeOK, Sourced, NoAssets
  <2>2. CASE tag # NoTag
    BY <1>0, <1>1, <2>2 DEF TInv, Sourced, repository
  <2>3. QED
    BY <2>1, <2>2
<1>6. QED
  BY <1>0, <1>1, <1>2, <1>3, <1>4, <1>5, BearStep

LEMMA NextTInv ==
  ASSUME TInv, [Next]_vars
  PROVE  TInv' /\ (tag # NoTag => tag' = tag)
<1>1. CASE NewCommit \/ UNCHANGED vars
  <2>1. UNCHANGED <<payload, recipe, tag, release, run, overlapped, trouble>> /\ head' \in Commit
    BY <1>1, BoundAssumption DEF NewCommit, TInv, TypeOK, Commit, vars, repository
  <2>2. TypeOK'
    BY <2>1 DEF TInv, TypeOK
  <2>3. (\A r \in Run : Bears(r)') /\ Sourced'
    BY <2>1 DEF TInv, Bears, Sourced
  <2>4. QED
    BY <2>1, <2>2, <2>3 DEF TInv
<1>2. CASE Next /\ ~NewCommit
  BY <1>2, BearsReading, BearsWriting, BearsTag, BearsStart DEF Next
<1>3. QED
  BY <1>1, <1>2

-----------------------------------------------------------------------------
(* What holds besides as long as no two runs have overlapped.              *)
(* No other run is active while one is, or starts without overlapping. *)
LEMMA OthersRest ==
  ASSUME Alone, NEW r \in Run, run[r].pc \in Active \/ InProgress = {}, NEW s \in Run, s # r
  PROVE  run[s].pc \notin Active
<1>1. CASE run[r].pc \in Active
  BY <1>1 DEF Alone, Excluded
<1>2. CASE InProgress = {}
  BY <1>2 DEF InProgress
<1>3. QED
  BY <1>1, <1>2

(* A step of one run while the others rest: what they know does not change. *)
LEMMA RestersKnow ==
  ASSUME Alone, NEW r \in Run, NEW j \in Job, run' = [run EXCEPT ![r] = j],
         UNCHANGED payload, \A s \in Run : s # r => run[s].pc \notin Active
  PROVE  /\ run'[r] = j /\ \A s \in Run : s # r => run'[s] = run[s]
         /\ Excluded' /\ \A s \in Run : s # r => Knows(s)'
<1>1. run'[r] = j /\ \A s \in Run : s # r => run'[s] = run[s]
  BY DEF Alone, TypeOK
<1>2. Excluded'
  BY <1>1 DEF Excluded
<1>3. ASSUME NEW s \in Run, s # r PROVE Knows(s)'
  <2>1. run'[s].pc \notin Active /\ run'[s] = run[s]
    BY <1>1, <1>3
  <2>2. run[s].pc # "idle" => payload[run[s].commit] = payload[run[s].src]
    BY DEF Alone, Knows
  <2>3. QED
    BY <2>1, <2>2 DEF Knows, Active, Tagged, Filling
<1>4. QED
  BY <1>1, <1>2, <1>3

(* A run in progress keeps what its plan bound. *)
Continues(r, j) ==
  /\ j \in Job /\ run' = [run EXCEPT ![r] = j]
  /\ j.trigger = run[r].trigger /\ j.commit = run[r].commit /\ j.src = run[r].src
  /\ j.pc # "idle" /\ run[r].pc # "idle"

LEMMA PublicKept ==
  ASSUME Alone, NEW r \in Run, NEW j, Continues(r, j), UNCHANGED <<repository, tag>>,
         release' = release \/ release'.state # "published"
  PROVE  Public'
<1>1. CASE release'.state # "published"
  BY <1>1 DEF Public
<1>2. CASE release' = release /\ release.state = "published"
  <2>1. PICK s \in Run : run[s].pc # "idle" /\ run[s].src = tag /\ release.assets = Bundle(s)
    BY <1>2 DEF Alone, Public
  <2>2. run'[s].pc # "idle" /\ run'[s].src = run[s].src /\ run'[s].commit = run[s].commit
    BY <2>1 DEF Continues, Alone, TypeOK
  <2>3. Bundle(s)' = Bundle(s)
    BY <2>2 DEF Bundle, Expected, repository
  <2>4. QED
    BY <1>2, <2>1, <2>2, <2>3 DEF Public
<1>3. QED
  BY <1>1, <1>2

LEMMA BundleKept ==
  ASSUME Alone, NEW r \in Run, NEW j, Continues(r, j), UNCHANGED repository
  PROVE  Bundle(r)' = Bundle(r) /\ Expected(r)' = Expected(r) /\ Bundle(r) \in Assets
<1>1. run'[r] = j
  BY DEF Continues, Alone, TypeOK
<1>2. Expected(r)' = Expected(r)
  BY <1>1 DEF Continues, Expected, repository
<1>3. Bundle(r)' = Bundle(r)
  BY <1>1, <1>2 DEF Continues, Bundle
<1>4. Bundle(r) \in Assets
  BY DEF Bundle, Assets, Content, Alone, TypeOK, Job
<1>5. QED
  BY <1>2, <1>3, <1>4

(* What is left to show of a step of one run. *)
LEMMA RunStep ==
  ASSUME Alone, TypeOK', NEW r \in Run, run[r].pc \in Active \/ InProgress = {},
         NEW j \in Job, run' = [run EXCEPT ![r] = j],
         UNCHANGED repository, Knows(r)', Public'
  PROVE  Alone'
<1>1. \A s \in Run : s # r => run[s].pc \notin Active
  BY OthersRest
<1>2. Excluded' /\ \A s \in Run : s # r => Knows(s)'
  BY <1>1, RestersKnow DEF repository
<1>3. QED
  BY <1>2 DEF Alone

(* Steps that only read the release, and those that move its state. *)
LEMMA ReadingStep ==
  ASSUME Alone, TypeOK', ~overlapped', NEW r \in Run,
         \/ Catalog(r) \/ LoadRelease(r) \/ ListAssets(r) \/ Enumerate(r) \/ Verify(r)
         \/ Break(r) \/ Rerun(r)
  PROVE  Alone'
<1>0. /\ run \in [Run -> Job] /\ run[r] \in Job /\ Knows(r) /\ UNCHANGED <<repository, tag, release>>
      /\ release.assets \in Assets /\ tag \in Commit \cup {NoTag}
  BY DEF Alone, TypeOK, Catalog, LoadRelease, ListAssets, Enumerate, Verify, Break, Rerun
<1>2. run[r].pc \in Active \/ InProgress = {}
  BY DEF Catalog, LoadRelease, ListAssets, Enumerate, Verify, Break, Rerun, Enter, Active
<1>3. ASSUME NEW j, Continues(r, j), Knows(r)' PROVE Alone'
  <2>1. Public'
    BY <1>0, <1>3, PublicKept
  <2>2. QED
    BY <1>0, <1>2, <1>3, <2>1, RunStep DEF Continues
<1>4. ASSUME NEW j, Continues(r, j)
      PROVE  run'[r] = j /\ Bundle(r)' = Bundle(r) /\ (Repairs(r)' <=> Repairs(r))
  BY <1>0, <1>4, BundleKept DEF Continues, Repairs
<1>5. CASE Catalog(r)
  <2> DEFINE j == [run[r] EXCEPT !.local = tag,
                                 !.pc = IF tag \in {NoTag, run[r].src} THEN "tag" ELSE "failed"]
  <2>1. Continues(r, j)
    BY <1>0, <1>5 DEF Catalog, Continues, Job, Active
  <2>2. Knows(r)'
    BY <1>0, <1>4, <1>5, <2>1 DEF Catalog, Knows, Job, Tagged, Filling, repository
  <2>3. QED
    BY <1>3, <2>1, <2>2
<1>6. CASE LoadRelease(r)
  <2>1. PICK pc \in {"create", "list", "edit", "takedown", "done", "failed"} :
          /\ Goto(r, pc) /\ run[r].pc = "load"
          /\ pc = "create" => release.state = "none"
          /\ pc \in {"list", "edit"} => release.state = "draft"
          /\ pc = "takedown" => release.state = "published" /\ Repairs(r)
    BY <1>0, <1>6 DEF LoadRelease, Alone, TypeOK
  <2> DEFINE j == [run[r] EXCEPT !.pc = pc]
  <2>2. Continues(r, j)
    BY <1>0, <2>1 DEF Goto, Continues, Job, Active
  <2>3. Knows(r)'
    BY <1>0, <1>4, <2>1, <2>2 DEF Knows, Job, Tagged, Filling, repository
  <2>4. QED
    BY <1>3, <2>2, <2>3
<1>7. CASE ListAssets(r)
  <2> DEFINE j == [run[r] EXCEPT !.pc = "delete",
                     !.todo = {n \in Name : release.assets[n] # Missing} \ Expected(r)]
  <2>1. Continues(r, j)
    BY <1>0, <1>7 DEF ListAssets, Continues, Job, Active
  <2>2. Knows(r)'
    BY <1>0, <1>4, <1>7, <2>1 DEF ListAssets, Knows, Job, Tagged, Filling, repository
  <2>3. QED
    BY <1>3, <2>1, <2>2
<1>8. CASE Enumerate(r)
  <2> DEFINE j == [run[r] EXCEPT !.pc = "upload", !.todo = Expected(r), !.seen = release.assets]
  <2>1. Expected(r) \in SUBSET Name
    BY <1>0 DEF Expected, Name, Alone, TypeOK, Job
  <2>2. Continues(r, j)
    BY <1>0, <1>8, <2>1 DEF Enumerate, Continues, Job, Active
  <2>3. Knows(r)'
    BY <1>0, <1>4, <1>8, <2>2 DEF Enumerate, Knows, Job, Tagged, Filling, repository
  <2>4. QED
    BY <1>3, <2>2, <2>3
<1>9. CASE Verify(r)
  <2>1. PICK pc \in {"publish", "failed"} :
          Goto(r, pc) /\ run[r].pc = "upload" /\ (pc = "publish" => release.assets = Bundle(r))
    BY <1>9 DEF Verify
  <2> DEFINE j == [run[r] EXCEPT !.pc = pc]
  <2>2. Continues(r, j)
    BY <1>0, <2>1 DEF Goto, Continues, Job, Active
  <2>3. Knows(r)'
    BY <1>0, <1>4, <2>1, <2>2 DEF Knows, Job, Tagged, Filling, repository
  <2>4. QED
    BY <1>3, <2>2, <2>3
<1>10. CASE Break(r)
  <2> DEFINE j == [run[r] EXCEPT !.pc = "failed"]
  <2>1. Continues(r, j)
    BY <1>0, <1>10 DEF Break, Goto, Continues, Job, Active
  <2>2. Knows(r)'
    BY <1>0, <1>4, <1>10, <2>1 DEF Break, Knows, Job, Active, Tagged, Filling, repository
  <2>3. QED
    BY <1>3, <2>1, <2>2
<1>11. CASE Rerun(r)
  <2> DEFINE j == [run[r] EXCEPT !.pc = "catalog"]
  <2>1. Continues(r, j)
    BY <1>0, <1>11 DEF Rerun, Continues, Job, Active
  <2>2. Knows(r)'
    BY <1>0, <1>4, <1>11, <2>1 DEF Rerun, Knows, Job, Tagged, Filling, repository
  <2>3. QED
    BY <1>3, <2>1, <2>2
<1>12. QED
  BY <1>5, <1>6, <1>7, <1>8, <1>9, <1>10, <1>11

(* Steps that change the assets or the state of a draft. *)
LEMMA WritingStep ==
  ASSUME Alone, TypeOK', ~overlapped', NEW r \in Run,
         \/ CreateDraft(r) \/ EditDraft(r)
         \/ \E n \in Name : DeleteAsset(r, n) \/ Clobber(r, n) \/ Upload(r, n)
  PROVE  Alone'
<1>0. /\ run \in [Run -> Job] /\ run[r] \in Job /\ Knows(r) /\ UNCHANGED <<repository, tag>>
      /\ release \in [state : {"none", "draft", "published"}, assets : Assets]
      /\ tag \in Commit \cup {NoTag} /\ (release.state # "none" => tag # NoTag)
      /\ run[r].pc \in Tagged /\ run[r].pc \in Active /\ run[r].pc # "publish"
  BY DEF Alone, TypeOK, CreateDraft, EditDraft, DeleteAsset, Clobber, Upload, Tagged, Active
<1>1. tag = run[r].src /\ tag # NoTag
  BY <1>0, BoundAssumption DEF Knows, Job, Commit
<1>2. ASSUME NEW j, Continues(r, j), j.pc \in {"list", "delete", "upload", "failed"},
             release'.state # "published",
             j.pc # "failed" => release'.state = "draft",
             release' \in [state : {"none", "draft", "published"}, assets : Assets],
             release'.state = "none" => release' = release
      PROVE  Alone'
  <2>1. run'[r] = j
    BY <1>0, <1>2 DEF Continues
  <2>2. Knows(r)'
    BY <1>0, <1>1, <1>2, <2>1 DEF Continues, Knows, Job, Tagged, Filling, repository
  <2>3. Public'
    BY <1>0, <1>2, PublicKept
  <2>4. QED
    BY <1>0, <1>2, <2>2, <2>3, RunStep DEF Continues
<1>3. ASSUME NEW pc \in {"list", "failed"}, Goto(r, pc)
      PROVE  Continues(r, [run[r] EXCEPT !.pc = pc])
  BY <1>0, <1>3 DEF Goto, Continues, Job, Active
<1>4. CASE CreateDraft(r)
  <2>1. CASE release.state = "none"
    BY <1>0, <1>2, <1>3, <1>4, <2>1 DEF CreateDraft, Mark, Job
  <2>2. CASE release.state # "none"
    BY <1>0, <1>4, <2>2 DEF CreateDraft, Knows
  <2>3. QED
    BY <2>1, <2>2
<1>5. CASE EditDraft(r)
  BY <1>0, <1>2, <1>3, <1>5 DEF EditDraft, Mark, Job
<1>6. ASSUME NEW n \in Name, DeleteAsset(r, n) \/ Clobber(r, n) \/ Upload(r, n) PROVE Alone'
  <2>1. release.state = "draft" /\ run[r].pc \in {"delete", "upload"}
    BY <1>0, <1>6 DEF DeleteAsset, Clobber, Upload, Knows, Filling
  <2>2. Bundle(r)[n] \in Content \cup {Missing}
    BY <1>0, <1>6, BundleKept DEF Bundle, Content, Job
  <2>3. PICK a \in Assets : release' = [release EXCEPT !.assets = a]
    <3>1. CASE release' = release
      BY <1>0, <3>1
    <3>2. ASSUME NEW c \in Content \cup {Missing}, Put(n, c)
          PROVE  \E a \in Assets : release' = [release EXCEPT !.assets = a]
      <4>1. [release.assets EXCEPT ![n] = c] \in Assets
        BY <1>0 DEF Assets
      <4>2. release' = [release EXCEPT !.assets = [release.assets EXCEPT ![n] = c]]
        BY <1>0, <3>2 DEF Put
      <4>3. QED
        BY <4>1, <4>2
    <3>3. QED
      BY <1>6, <2>2, <3>1, <3>2 DEF DeleteAsset, Clobber, Upload
  <2>4. release' \in [state : {"none", "draft", "published"}, assets : Assets]
        /\ release'.state = "draft"
    BY <1>0, <2>1, <2>3
  <2>5. PICK j : Continues(r, j) /\ j.pc \in {"delete", "upload", "failed"}
    <3>1. CASE Refuse(r)
      BY <1>0, <1>3, <3>1 DEF Refuse, Job
    <3>2. CASE run' = [run EXCEPT ![r].todo = @ \ {n}]
      <4>1. Continues(r, [run[r] EXCEPT !.todo = @ \ {n}])
        BY <1>0, <2>1, <3>2 DEF Continues, Job
      <4>2. QED
        BY <1>0, <2>1, <4>1 DEF Job
    <3>3. CASE run' = [run EXCEPT ![r].seen[n] = Missing]
      <4>1. [run[r].seen EXCEPT ![n] = Missing] \in Assets
        BY <1>0 DEF Job, Assets
      <4>2. Continues(r, [run[r] EXCEPT !.seen = [run[r].seen EXCEPT ![n] = Missing]])
        BY <1>0, <2>1, <3>3, <4>1 DEF Continues, Job
      <4>3. QED
        BY <1>0, <2>1, <4>2 DEF Job
    <3>4. QED
      BY <1>6, <3>1, <3>2, <3>3 DEF DeleteAsset, Clobber, Upload
  <2>6. QED
    BY <1>2, <2>4, <2>5
<1>7. QED
  BY <1>4, <1>5, <1>6

(* The tag is written while there is no tag, and no release. *)
LEMMA TagStep ==
  ASSUME Alone, TypeOK', ~overlapped', NEW r \in Run, CreateTag(r)
  PROVE  Alone'
<1>0. /\ run \in [Run -> Job] /\ run[r] \in Job /\ Knows(r) /\ UNCHANGED <<repository, release>>
      /\ (release.state # "none" => tag # NoTag) /\ run[r].pc = "tag" /\ run[r].pc \in Active
      /\ run[r].local = tag /\ tag \in {NoTag, run[r].src}
      /\ run[r].src \in Commit /\ run[r].src # NoTag
  BY BoundAssumption DEF Alone, TypeOK, CreateTag, Knows, Active, Job, Commit
<1> DEFINE j == [run[r] EXCEPT !.pc = "load"]
<1>1. tag' = run[r].src /\ run' = [run EXCEPT ![r] = j]
  BY <1>0 DEF CreateTag, Goto
<1>2. j \in Job /\ run'[r] = j /\ Continues(r, j)
  BY <1>0, <1>1 DEF Job, Active, Continues
<1>4. Knows(r)'
  BY <1>0, <1>1, <1>2 DEF Knows, Tagged, Filling, repository, Job
<1>5. Public'
  <2>1. CASE tag = NoTag
    BY <1>0, <2>1 DEF Public
  <2>2. CASE tag # NoTag
    BY <1>0, <1>1, <1>2, <2>2, PublicKept
  <2>3. QED
    BY <2>1, <2>2
<1>6. QED
  BY <1>0, <1>1, <1>2, <1>4, <1>5, RunStep

LEMMA PublishStep ==
  ASSUME Alone, TypeOK', ~overlapped', NEW r \in Run, Publish(r)
  PROVE  Alone'
<1>0. /\ run \in [Run -> Job] /\ run[r] \in Job /\ Knows(r) /\ UNCHANGED <<repository, tag>>
      /\ release \in [state : {"none", "draft", "published"}, assets : Assets]
      /\ tag \in Commit \cup {NoTag}
      /\ run[r].pc = "publish" /\ run[r].pc \in Active /\ tag = run[r].src
      /\ release.assets = Bundle(r)
      /\ run[r].src # NoTag
  BY BoundAssumption DEF Alone, TypeOK, Publish, Knows, Active, Tagged, Job, Commit
<1> DEFINE j == [run[r] EXCEPT !.pc = "done"]
<1>1. run' = [run EXCEPT ![r] = j] /\ release' = [release EXCEPT !.state = "published"]
  BY DEF Publish, Goto, Mark
<1>2. j \in Job /\ run'[r] = j /\ Continues(r, j)
  BY <1>0, <1>1 DEF Job, Active, Continues
<1>4. Knows(r)'
  BY <1>0, <1>2 DEF Knows, Tagged, Filling, repository, Job
<1>5. Public'
  <2>1. release'.assets = Bundle(r)'
    BY <1>0, <1>1, <1>2, BundleKept
  <2>2. run'[r].pc # "idle" /\ run'[r].src = tag'
    BY <1>0, <1>2 DEF Job
  <2>3. QED
    BY <2>1, <2>2 DEF Public
<1>6. QED
  BY <1>0, <1>1, <1>2, <1>4, <1>5, RunStep

LEMMA StartStep ==
  ASSUME Alone, TypeOK', ~overlapped', NEW r \in Run, Start(r)
  PROVE  Alone'
<1>0. /\ run \in [Run -> Job] /\ run[r] \in Job /\ UNCHANGED <<repository, release>>
      /\ (release.state # "none" => tag # NoTag) /\ run[r].pc = "idle" /\ InProgress = {}
      /\ tag \in Commit \cup {NoTag} /\ head \in Commit
  BY DEF Alone, TypeOK, Start, Enter
<1>1. PICK commit \in Commit, src \in Commit :
        Bound(r, commit, src) /\ payload[commit] = payload[src]
          /\ (tag' = tag \/ (tag = NoTag /\ tag' \in Commit))
  <2>1. CASE PlanRepair(r)
    BY <1>0, <2>1 DEF PlanRepair
  <2>2. CASE PlanDispatch(r)
    BY <1>0, <2>2 DEF PlanDispatch
  <2>3. CASE PlanPush(r)
    <3>1. PICK c \in 1 .. head : tag' = c /\ Bound(r, c, c)
      BY <2>3 DEF PlanPush
    <3>2. c \in Commit
      BY <1>0, BoundAssumption DEF Commit
    <3>3. QED
      BY <2>3, <3>1, <3>2 DEF PlanPush
  <2>4. QED
    BY <2>1, <2>2, <2>3 DEF Start
<1> DEFINE j == [run[r] EXCEPT !.pc = "catalog", !.commit = commit, !.src = src]
<1>3. j \in Job /\ run' = [run EXCEPT ![r] = j]
  BY <1>0, <1>1 DEF Bound, Job, Active
<1>4. run'[r] = j /\ \A s \in Run : s # r => run'[s] = run[s]
  BY <1>0, <1>3
<1>6. Knows(r)'
  BY <1>0, <1>1, <1>4 DEF Knows, Tagged, Filling, repository, Job
<1>7. Public'
  <2>1. CASE release.state = "published"
    <3>1. PICK s \in Run : run[s].pc # "idle" /\ run[s].src = tag /\ release.assets = Bundle(s)
      BY <2>1 DEF Alone, Public
    <3>2. run'[s] = run[s] /\ tag' = tag
      BY <1>0, <1>1, <1>4, <2>1, <3>1
    <3>3. Bundle(s)' = Bundle(s)
      BY <1>0, <3>2 DEF Bundle, Expected, repository
    <3>4. QED
      BY <1>0, <3>1, <3>2, <3>3 DEF Public
  <2>2. CASE release.state # "published"
    BY <1>0, <2>2 DEF Public
  <2>3. QED
    BY <2>1, <2>2
<1>8. QED
  BY <1>0, <1>3, <1>6, <1>7, RunStep

LEMMA NextAlone ==
  ASSUME Alone, TypeOK', ~overlapped', [Next]_vars
  PROVE  Alone'
<1>1. CASE NewCommit \/ UNCHANGED vars
  <2>1. UNCHANGED <<payload, recipe, tag, release, run>>
    BY <1>1 DEF NewCommit, vars, repository
  <2>2. Excluded'
    BY <2>1 DEF Alone, Excluded
  <2>3. \A r \in Run : Bundle(r)' = Bundle(r) /\ (Repairs(r)' <=> Repairs(r))
    BY <2>1 DEF Bundle, Expected, Repairs
  <2>4. (\A r \in Run : Knows(r)') /\ Public'
    BY <2>1, <2>3 DEF Alone, Knows, Public
  <2>5. QED
    BY <2>2, <2>4 DEF Alone
<1>2. QED
  BY <1>1, ReadingStep, WritingStep, TagStep, PublishStep, StartStep DEF Next

LEMMA OverlapStays ==
  ASSUME [Next]_vars, overlapped
  PROVE  overlapped'
BY DEF Next, vars, NewCommit, Start, Rerun, Enter, Catalog, CreateTag, LoadRelease, CreateDraft,
   EditDraft, ListAssets, Enumerate, Verify, Publish, Break, DeleteAsset, Clobber, Upload

LEMMA NextIInv == IInv /\ [Next]_vars => IInv'
<1>. SUFFICES ASSUME IInv, [Next]_vars PROVE IInv'
  OBVIOUS
<1>1. TInv' /\ TypeOK'
  BY NextTInv DEF IInv, TInv
<1>2. ~overlapped' => Alone'
  <2>1. overlapped \in BOOLEAN /\ overlapped' \in BOOLEAN
    BY <1>1 DEF IInv, TInv, TypeOK
  <2>2. QED
    BY <1>1, <2>1, NextAlone, OverlapStays DEF IInv
<1>3. QED
  BY <1>1, <1>2 DEF IInv

(* The inductive invariant holds in every state of the publish job. *)
THEOREM Inductive == Spec => []IInv
BY InitIInv, NextIInv, PTL DEF Spec

(* A published release is of the tagged commit and the payload in it, wherever
   runs stopped and whether or not they overlap; it is the whole of one build
   as long as none have overlapped: publish's order of taking down, emptying,
   filling, verifying and publishing. *)
THEOREM PublicationsAreSound == Spec => []PublishedIsSound
<1>1. IInv => PublishedIsSound
  <2>. SUFFICES ASSUME IInv PROVE PublishedIsSound
    OBVIOUS
  <2>1. PublishedIsTagged
    BY DEF IInv, TInv, TypeOK, Sourced, PublishedIsTagged
  <2>2. PublishedIsWhole
    BY DEF IInv, Alone, Public, PublishedIsWhole
  <2>3. QED
    BY <2>1, <2>2 DEF PublishedIsSound, IInv, TInv
<1>2. QED
  BY <1>1, Inductive, PTL

(* A tag never moves: the catalog's check makes create_tag's moving branch
   unreachable.  And only a repair touches a published release, as long as no
   two runs have overlapped. *)
THEOREM PublicationsAreFinal == Spec => PublicationIsFinal
<1> DEFINE Final ==
      /\ tag # NoTag => tag' = tag
      /\ release.state = "published" /\ release' # release /\ ~overlapped =>
           \E r \in Run : Repairs(r) /\ run[r].pc \in Active
<1>1. IInv /\ [Next]_vars => [Final]_vars
  <2>. SUFFICES ASSUME IInv, Next PROVE Final
    BY DEF vars
  <2>0. tag # NoTag => tag' = tag
    BY NextTInv DEF IInv
  <2>1. ASSUME NEW r \in Run, CreateDraft(r) \/ EditDraft(r) \/ Publish(r)
                 \/ \E n \in Name : DeleteAsset(r, n) \/ Clobber(r, n) \/ Upload(r, n)
        PROVE  Final
    <3>. SUFFICES ASSUME release.state = "published", ~overlapped
                  PROVE  Repairs(r) /\ run[r].pc \in Active
      BY <2>0
    <3>1. Knows(r) /\ run[r].pc \in Active
      BY <2>1 DEF CreateDraft, EditDraft, Publish, DeleteAsset, Clobber, Upload, IInv, Alone, Active
    <3>2. run[r].pc \in {"takedown", "create", "edit"} \cup Filling
      BY <2>1 DEF CreateDraft, EditDraft, Publish, DeleteAsset, Clobber, Upload, Filling
    <3>3. QED
      BY <3>1, <3>2 DEF Knows
  <2>2. CASE release' = release
    BY <2>0, <2>2
  <2>3. ASSUME NEW r \in Run,
               \/ Catalog(r) \/ LoadRelease(r) \/ ListAssets(r) \/ Enumerate(r) \/ Verify(r)
               \/ Break(r) \/ Rerun(r) \/ CreateTag(r) \/ Start(r)
        PROVE  release' = release
    BY <2>3 DEF Catalog, LoadRelease, ListAssets, Enumerate, Verify, Break, Rerun, CreateTag, Start
  <2>4. QED
    BY <2>1, <2>2, <2>3 DEF Next, NewCommit
<1>2. Spec => [][Final]_vars
  BY <1>1, Inductive, PTL DEF Spec
<1>3. QED
  BY <1>2 DEF PublicationIsFinal
=============================================================================
