--------------------------- MODULE ReleasePublish ---------------------------
(***************************************************************************)
(* The publish job of .github/workflows/release-patched-codex.yml: runs of *)
(* the release workflow that tag, draft, fill, verify and publish the      *)
(* GitHub Release of one compatibility, or repair a published one.         *)
(*                                                                         *)
(* Every call of the GitHub API is a step.  A run can stop between any two *)
(* of them and have its failed job re-run later.  Runs of one concurrency  *)
(* group exclude each other; the group is named after the selector as it   *)
(* was written, or after the pushed tag, so one compatibility has several. *)
(***************************************************************************)
EXTENDS Naturals, FiniteSets

CONSTANTS
  Run,          \* runs of the release workflow
  Trigger,      \* how runs are started: "push", "current", "exact", "repair"
  Payload,      \* contents of the compatibility's payload directory
  Recipe,       \* versions of the scripts that pack the other assets
  MaxCommits,   \* bound: commits of the default branch
  MaxTrouble,   \* bound: jobs re-run; one that overlaps another run counts for two more
  NoTag, Missing

ASSUME TriggerAssumption == Trigger \subseteq {"push", "current", "exact", "repair"}
ASSUME BoundAssumption ==
  /\ MaxCommits \in Nat \ {0} /\ MaxTrouble \in Nat
  /\ NoTag \notin Nat

VARIABLES
  head,     \* tip of the default branch; commits are numbered
  payload,  \* [Commit -> Payload], the payload directory in each commit
  recipe,   \* [Commit -> Recipe], the scripts in each commit
  tag,      \* commit of the annotated tag, or NoTag
  release,  \* [state, assets], the GitHub Release of the tag
  run,      \* [Run -> the state of its publish job]
  overlapped, \* history: have two runs ever been in progress at once?
  trouble   \* what counts towards MaxTrouble

repository == <<head, payload, recipe>>
vars == <<repository, tag, release, run, overlapped, trouble>>

Commit == 1 .. MaxCommits

(* The assets are the descriptor and what the payload and the scripts name. *)
Name == {"descriptor"} \cup Payload \cup Recipe
Content == [by : Run, src : Commit]
Assets == [Name -> Content \cup {Missing}]
NoAssets == [n \in Name |-> Missing]

Active == {"catalog", "tag", "load", "takedown", "create", "edit", "list", "delete",
           "upload", "publish"}
Job == [pc : Active \cup {"idle", "done", "failed"}, trigger : Trigger,
        commit : Commit, src : Commit, local : Commit \cup {NoTag},
        todo : SUBSET Name, seen : Assets]

TypeOK ==
  /\ head \in Commit
  /\ payload \in [Commit -> Payload]
  /\ recipe \in [Commit -> Recipe]
  /\ tag \in Commit \cup {NoTag}
  /\ release \in [state : {"none", "draft", "published"}, assets : Assets]
  /\ release.state = "none" => release.assets = NoAssets
  /\ release.state # "none" => tag # NoTag
  /\ run \in [Run -> Job]
  /\ overlapped \in BOOLEAN
  /\ trouble \in 0 .. MaxTrouble

Init ==
  /\ head = 1
  /\ payload \in [Commit -> Payload]
  /\ recipe \in [Commit -> Recipe]
  /\ tag = NoTag
  /\ release = [state |-> "none", assets |-> NoAssets]
  /\ run \in [Run -> {[pc |-> "idle", trigger |-> t, commit |-> 1, src |-> 1, local |-> NoTag,
                       todo |-> {}, seen |-> NoAssets] : t \in Trigger}]
  /\ overlapped = FALSE
  /\ trouble = 0

-----------------------------------------------------------------------------
Group(r) == IF run[r].trigger = "repair" THEN "exact" ELSE run[r].trigger
InProgress == {s \in Run : run[s].pc \in Active}
MayRun(r) == \A s \in InProgress : Group(s) # Group(r)
Enter(reruns) ==
  /\ overlapped' = (overlapped \/ InProgress # {})
  /\ trouble' = trouble + reruns + (IF InProgress = {} THEN 0 ELSE 2)
  /\ trouble' <= MaxTrouble
Repairs(r) == run[r].trigger = "repair"

Expected(r) == {"descriptor", payload[run[r].commit], recipe[run[r].commit]}
Bundle(r) ==
  [n \in Name |-> IF n \in Expected(r) THEN [by |-> r, src |-> run[r].src] ELSE Missing]

Goto(r, pc) == run' = [run EXCEPT ![r].pc = pc]
Refuse(r) == Goto(r, "failed")
Put(n, content) == release' = [release EXCEPT !.assets[n] = content]
Mark(state) == release' = [release EXCEPT !.state = state]

(* The default branch moves on. *)
NewCommit ==
  /\ head < MaxCommits
  /\ head' = head + 1
  /\ UNCHANGED <<payload, recipe, tag, release, run, overlapped, trouble>>

(* plan, build and bundle: the source commit is bound and its targets are
   built.  A repair takes the commit of the existing tag, and is refused if
   the payload has changed since. *)
Bound(r, commit, src) ==
  run' = [run EXCEPT ![r].pc = "catalog", ![r].commit = commit, ![r].src = src]

PlanRepair(r) ==
  /\ release.state # "none" /\ tag # NoTag
  /\ payload[tag] = payload[head]
  /\ Bound(r, head, tag)
  /\ UNCHANGED tag

PlanDispatch(r) == Bound(r, head, head) /\ UNCHANGED tag

(* A maintainer pushes the tag of a commit on the default branch. *)
PlanPush(r) ==
  /\ tag = NoTag
  /\ \E c \in 1 .. head : tag' = c /\ Bound(r, c, c)

Start(r) ==
  /\ run[r].pc = "idle"
  /\ MayRun(r)
  /\ \/ run[r].trigger = "repair" /\ PlanRepair(r)
     \/ run[r].trigger \in {"current", "exact"} /\ PlanDispatch(r)
     \/ run[r].trigger = "push" /\ PlanPush(r)
  /\ Enter(0)
  /\ UNCHANGED <<repository, release>>

(* Mutant: the catalog does not look at the tag. *)
CatalogUnchecked(r) ==
  /\ run[r].pc = "catalog"
  /\ run' = [run EXCEPT ![r].local = tag, ![r].pc = "tag"]
  /\ UNCHANGED <<repository, tag, release, overlapped, trouble>>

(* The tags are fetched, and build_install_catalog refuses a release whose
   tag is that of another commit. *)
Catalog(r) ==
  /\ run[r].pc = "catalog"
  /\ run' = [run EXCEPT ![r].local = tag,
                        ![r].pc = IF tag \in {NoTag, run[r].src} THEN "tag" ELSE "failed"]
  /\ UNCHANGED <<repository, tag, release, overlapped, trouble>>

(* The tag is created, which fails if it exists by now; a fetched tag of
   another commit stays if the release is published, and is moved if not. *)
CreateTag(r) ==
  LET local == run[r].local
      moves == local \notin {NoTag, run[r].src} /\ release.state # "published"
  IN
  /\ run[r].pc = "tag"
  /\ IF local = NoTag /\ tag # NoTag
       THEN Refuse(r) /\ UNCHANGED tag
       ELSE /\ tag' = IF local = NoTag \/ moves THEN run[r].src ELSE tag
            /\ Goto(r, "load")
  /\ UNCHANGED <<repository, release, overlapped, trouble>>

(* Mutant: a repair replaces the assets in place. *)
RepairInPlace(r) ==
  /\ run[r].pc = "load"
  /\ Goto(r, CASE release.state = "none" -> IF Repairs(r) THEN "failed" ELSE "create"
               [] release.state # "none" ->
                    IF Repairs(r) THEN "list"
                    ELSE IF release.state = "draft" THEN "edit"
                    ELSE IF release.assets = Bundle(r) THEN "done" ELSE "failed")
  /\ UNCHANGED <<repository, tag, release, overlapped, trouble>>

(* load_release: a repair takes a published release down, any other run only
   compares it with its own assets. *)
LoadRelease(r) ==
  /\ run[r].pc = "load"
  /\ Goto(r, CASE release.state = "none" -> IF Repairs(r) THEN "failed" ELSE "create"
               [] release.state = "draft" -> IF Repairs(r) THEN "list" ELSE "edit"
               [] release.state = "published" ->
                    IF Repairs(r) THEN "takedown"
                    ELSE IF release.assets = Bundle(r) THEN "done" ELSE "failed")
  /\ UNCHANGED <<repository, tag, release, overlapped, trouble>>

(* gh release create --draft, gh release edit --draft *)
CreateDraft(r) ==
  /\ run[r].pc = "create"
  /\ IF release.state = "none"
       THEN Mark("draft") /\ Goto(r, "list")
       ELSE Refuse(r) /\ UNCHANGED release
  /\ UNCHANGED <<repository, tag, overlapped, trouble>>

EditDraft(r) ==
  /\ run[r].pc \in {"takedown", "edit"}
  /\ Mark("draft")
  /\ Goto(r, "list")
  /\ UNCHANGED <<repository, tag, overlapped, trouble>>

(* Assets that are not expected are listed and deleted by name. *)
ListAssets(r) ==
  /\ run[r].pc = "list"
  /\ run' = [run EXCEPT ![r].pc = "delete",
                        ![r].todo = {n \in Name : release.assets[n] # Missing} \ Expected(r)]
  /\ UNCHANGED <<repository, tag, release, overlapped, trouble>>

DeleteAsset(r, n) ==
  /\ run[r].pc = "delete"
  /\ n \in run[r].todo
  /\ IF release.assets[n] = Missing
       THEN Refuse(r) /\ UNCHANGED release
       ELSE Put(n, Missing) /\ run' = [run EXCEPT ![r].todo = @ \ {n}]
  /\ UNCHANGED <<repository, tag, overlapped, trouble>>

(* gh release upload --clobber enumerates the assets, deletes those it
   replaces, and uploads its own; an existing name is refused. *)
Enumerate(r) ==
  /\ run[r].pc = "delete"
  /\ run[r].todo = {}
  /\ run' = [run EXCEPT ![r].pc = "upload", ![r].todo = Expected(r), ![r].seen = release.assets]
  /\ UNCHANGED <<repository, tag, release, overlapped, trouble>>

Clobber(r, n) ==
  /\ run[r].pc = "upload"
  /\ n \in run[r].todo /\ run[r].seen[n] # Missing
  /\ IF release.assets[n] # run[r].seen[n]
       THEN Refuse(r) /\ UNCHANGED release
       ELSE Put(n, Missing) /\ run' = [run EXCEPT ![r].seen[n] = Missing]
  /\ UNCHANGED <<repository, tag, overlapped, trouble>>

Upload(r, n) ==
  /\ run[r].pc = "upload"
  /\ n \in run[r].todo /\ run[r].seen[n] = Missing
  /\ IF release.assets[n] # Missing
       THEN Refuse(r) /\ UNCHANGED release
       ELSE Put(n, Bundle(r)[n]) /\ run' = [run EXCEPT ![r].todo = @ \ {n}]
  /\ UNCHANGED <<repository, tag, overlapped, trouble>>

(* verify_release_asset_set.py remote: names, sizes and digests are equal. *)
Verify(r) ==
  /\ run[r].pc = "upload"
  /\ run[r].todo = {}
  /\ Goto(r, IF release.assets = Bundle(r) THEN "publish" ELSE "failed")
  /\ UNCHANGED <<repository, tag, release, overlapped, trouble>>

(* gh release edit --draft=false *)
Publish(r) ==
  /\ run[r].pc = "publish"
  /\ Mark("published")
  /\ Goto(r, "done")
  /\ UNCHANGED <<repository, tag, overlapped, trouble>>

(* A call fails, or the runner is lost or cancelled.  The failed job can be
   re-run, with the outputs and the assets of the jobs before it. *)
Break(r) ==
  /\ run[r].pc \in Active
  /\ Goto(r, "failed")
  /\ UNCHANGED <<repository, tag, release, overlapped, trouble>>

Rerun(r) ==
  /\ run[r].pc = "failed"
  /\ MayRun(r)
  /\ Enter(1)
  /\ run' = [run EXCEPT ![r].pc = "catalog"]
  /\ UNCHANGED <<repository, tag, release>>

Next ==
  \/ NewCommit
  \/ \E r \in Run :
       \/ Start(r) \/ Catalog(r) \/ CreateTag(r) \/ LoadRelease(r) \/ CreateDraft(r) \/ EditDraft(r)
       \/ ListAssets(r) \/ Enumerate(r) \/ Verify(r) \/ Publish(r) \/ Break(r) \/ Rerun(r)
       \/ \E n \in Name : DeleteAsset(r, n) \/ Clobber(r, n) \/ Upload(r, n)

Spec == Init /\ [][Next]_vars

-----------------------------------------------------------------------------
(* Properties.                                                             *)

(* A published release carries the exact assets of one build: never a part
   of them, never two builds mixed, whatever stopped between taking it down
   and publishing it again (the publish step of the workflow).  Runs that
   overlap, which their concurrency groups do not rule out, can mix theirs. *)
PublishedIsWhole ==
  release.state = "published" /\ ~overlapped => \E r \in Run : release.assets = Bundle(r)

(* The tag, the descriptor and the payload of a published release agree: its
   assets are of the tagged commit and of the payload in that commit, also
   after a repair by a later commit (plan's repair authority) and when runs
   overlap. *)
PublishedIsTagged ==
  release.state = "published" =>
    /\ tag # NoTag
    /\ \A n \in Name :
         release.assets[n] # Missing =>
           release.assets[n].src = tag /\ n \in {"descriptor", payload[tag]} \cup Recipe

(* A published release is of the tagged commit, and it is the whole of one
   build unless runs have overlapped. *)
PublishedIsSound == TypeOK /\ PublishedIsWhole /\ PublishedIsTagged

(* A tag never moves, not even that of a draft nobody has seen and when runs
   overlap, although the workflow has a branch that moves it: the install
   catalog comes first.  And what is public changes by a repair only, unless
   runs have overlapped: nothing else takes a published release down. *)
PublicationIsFinal ==
  [][/\ tag # NoTag => tag' = tag
     /\ release.state = "published" /\ release' # release /\ ~overlapped =>
          \E r \in Run : Repairs(r) /\ run[r].pc \in Active]_vars
=============================================================================
