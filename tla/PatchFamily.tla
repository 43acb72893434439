----------------------------- MODULE PatchFamily -----------------------------
(***************************************************************************)
(* A patch family below payload/codex: an index, family.toml, of exact     *)
(* bindings to upstream releases; one directory per binding, with its      *)
(* manifest and its adapters; and the patches that bindings share.         *)
(*                                                                         *)
(* port (a new binding from an old one) and finalize (the digest of the    *)
(* built artifact) of scripts/compat_release.py write several files and    *)
(* the index, undo their writes on an error, and may be killed anywhere.   *)
(* scripts/verify_patch_payload.py decides what loads and what verifies,   *)
(* scripts/compatibility_audit.py what may be merged, and                  *)
(* scripts/patch_family.py who owns which path.  A digest is the content   *)
(* it is taken of, a patch what it does to each path it touches.           *)
(***************************************************************************)
EXTENDS Naturals, FiniteSets, SequencesExt

CONSTANTS
  Version,     \* upstream releases, each of which has at most one binding
  Tree,        \* [Version -> [SourcePath -> a blob or None]]: their sources
  SourcePath,
  Text,        \* contents of patch files
  Touch,       \* [Text -> [paths it touches -> [onto : blobs, gives : a blob]]]
  Slot,        \* places of a patch in the order of application
  Artifact,    \* built executables
  Placeholder, \* the digest a ported binding declares, of 64 zeros
  Seed,        \* the family as first committed: [index, bound, files]
  MaxEdits,    \* bound: manual edits
  MaxKills,    \* bound: kills before the work tree is clean again
  None,
  Torn         \* a file that was truncated and not yet written

Shared == {"additions", "patches"}
File == (Shared \cup Version) \X Slot
Artifacts == Artifact \cup {Placeholder}

VARIABLES
  disk,    \* the work tree
  main,    \* the merged family
  cmd,     \* the command under way
  killed,  \* what was killed since the work tree was last clean: nothing, a command, an undo
  kills,   \* how often
  edits

vars == <<disk, main, cmd, killed, kills, edits>>

Idle == [op |-> "none", at |-> "idle", target |-> None, manifest |-> None,
         origin |-> None, undo |-> <<>>]

-----------------------------------------------------------------------------
(* What a manifest says of its patches and what they find upstream. *)

Texts(d, manifest) == [i \in DOMAIN manifest.patches |-> d.files[manifest.patches[i].file]]

Touched(texts) == UNION {DOMAIN Touch[t] : t \in Range(texts)}

Present(paths, v) ==
  [p \in {q \in paths : Tree[v][q] # None} |-> Tree[v][p]]

PatchesMatch(d, manifest) ==
  \A p \in Range(manifest.patches) : d.files[p.file] = p.sha

WellFormed(v, manifest) ==
  /\ manifest \notin {None, Torn}
  /\ manifest.id = v
  /\ manifest.patches # <<>>
  /\ \A i, j \in DOMAIN manifest.patches :
       i < j => manifest.patches[i].file[2] < manifest.patches[j].file[2]
  /\ DOMAIN manifest.present # {}
  /\ DOMAIN manifest.present \cap manifest.absent = {}

Ids(index) == {row.id : row \in Range(index)}

(* One row that does not match its manifest makes every binding unloadable. *)
IndexMatches(d) ==
  /\ d.index # <<>>
  /\ Cardinality(Ids(d.index)) = Len(d.index)
  /\ \A row \in Range(d.index) : d.bound[row.id] = row.sha

Loads(d, v) ==
  /\ v \in Ids(d.index)
  /\ IndexMatches(d)
  /\ WellFormed(v, d.bound[v])

(* The patches apply one after the other to the exact sources. *)
Apply(texts, tree) ==
  FoldLeft(LAMBDA trees, t :
             {[p \in SourcePath |-> IF p \in DOMAIN Touch[t] THEN Touch[t][p].gives ELSE s[p]] :
                s \in {u \in trees : \A p \in DOMAIN Touch[t] : u[p] \in Touch[t][p].onto}},
           {tree}, texts)

Verifies(d, v) ==
  /\ Loads(d, v)
  /\ LET manifest == d.bound[v] IN
     /\ \A p \in DOMAIN manifest.present : Tree[v][p] = manifest.present[p]
     /\ \A p \in manifest.absent : Tree[v][p] = None
     /\ PatchesMatch(d, manifest)
     /\ Touched(Texts(d, manifest)) = DOMAIN manifest.present \cup manifest.absent
     /\ Apply(Texts(d, manifest), Tree[v]) # {}

SameRelease(d, v, w) == v = w  \* for a mutant: neither preimages nor patches are tried

(* The drift report of the binding of v against the sources of w. *)
Unchanged(d, v, w) ==
  LET manifest == d.bound[v] IN
  /\ v = w
  /\ \A p \in DOMAIN manifest.present : Tree[w][p] = manifest.present[p]
  /\ \A p \in manifest.absent : Tree[w][p] = None
  /\ Apply(Texts(d, manifest), Tree[w]) # {}

-----------------------------------------------------------------------------
(* Ownership: scripts/patch_family.py. *)

FilesOf(manifest) == {p.file : p \in Range(manifest.patches)}

AddedBefore(d, manifest, i) ==
  UNION {DOMAIN Touch[d.files[manifest.patches[j].file]] :
           j \in {k \in 1..(i - 1) : manifest.patches[k].file[1] = "additions"}}

BindingOwns(d, v) ==
  LET manifest == d.bound[v]
      count == Len(manifest.patches)
  IN /\ Loads(d, v)
     /\ \A i \in 1..count :
          LET file == manifest.patches[i].file
              touched == DOMAIN Touch[d.files[file]]
          IN /\ d.files[file] # None
             /\ \/ file[1] = "additions" /\ touched \subseteq manifest.absent
                \/ file[1] = "patches" /\ touched \cap manifest.absent = {}
                \/ /\ file[1] = v
                   /\ touched \cap manifest.absent \subseteq AddedBefore(d, manifest, i)
     /\ AddedBefore(d, manifest, count + 1) = manifest.absent
     /\ manifest.absent # {}
     /\ \E file \in FilesOf(manifest) : file[1] # "additions"

Users(d, file) == {v \in Ids(d.index) : file \in FilesOf(d.bound[v])}

AdaptersDiffer(d) ==
  \A v, w \in Ids(d.index) : \A f \in FilesOf(d.bound[v]), g \in FilesOf(d.bound[w]) :
    f # g /\ f[1] \notin Shared /\ g[1] \notin Shared => d.files[f] # d.files[g]

VerifyFamily(d) ==
  /\ d.index # <<>>
  /\ \A v \in Ids(d.index) : BindingOwns(d, v)
  /\ \A slot \in Slot :
       /\ Users(d, <<"additions", slot>>) \in {{}, Ids(d.index)}
       /\ Cardinality(Users(d, <<"patches", slot>>)) # 1
  /\ AdaptersDiffer(d)

-----------------------------------------------------------------------------
(* What may be merged: scripts/compatibility_audit.py. *)

Existing(d) == {f \in File : d.files[f] # None}

ValidateEntry(d, v) ==
  /\ Loads(d, v)
  /\ PatchesMatch(d, d.bound[v])
  /\ {f \in Existing(d) : f[1] = v} \subseteq FilesOf(d.bound[v])
  /\ d.staged[v] = None

ValidateFamily(d) ==
  /\ d.index # <<>>
  /\ \A v \in Ids(d.index) : ValidateEntry(d, v)
  /\ {v \in Version : d.bound[v] # None} = Ids(d.index)
  /\ Existing(d) = UNION {FilesOf(d.bound[v]) : v \in Ids(d.index)}
  /\ d.next = None /\ d.litter = {}

NewFamilyOnly(before, after) == ValidateFamily(after)  \* for a mutant: no baseline is compared

CheckImmutability(before, after) ==
  /\ IsPrefix(before.index, after.index)
  /\ \A f \in Existing(before) : after.files[f] = before.files[f]
  /\ \A v \in Ids(before.index) : after.bound[v] = before.bound[v]
  /\ ValidateFamily(after)

-----------------------------------------------------------------------------
(* The two commands.  What they stage has a name of its own: a temporary
   directory or manifest.toml.next, and family.toml.next. *)

Start(op, at, v, manifest) ==
  cmd' = [op |-> op, at |-> at, target |-> v, manifest |-> manifest,
          origin |-> disk, undo |-> <<>>]

OwnFile(from, to, file) == IF file[1] = from THEN <<to, file[2]>> ELSE file

Ported(base, v) ==
  LET paths == DOMAIN base.present \cup base.absent IN
  [id |-> v,
   patches |-> [i \in DOMAIN base.patches |->
                  [base.patches[i] EXCEPT !.file = OwnFile(base.id, v, @)]],
   present |-> Present(paths, v),
   absent |-> {p \in paths : Tree[v][p] = None},
   artifact |-> Placeholder]

MayPort(b, v) ==
  /\ cmd = Idle
  /\ disk.bound[v] = None /\ \A f \in Existing(disk) : f[1] # v
  /\ Loads(disk, b)

(* The temporary directory is made before the staged index is looked for, and
   the error that one is there finds nobody to remove it. *)
RefusePort(b, v) ==
  /\ MayPort(b, v)
  /\ disk.next # None
  /\ disk' = [disk EXCEPT !.litter = @ \cup {v}]
  /\ UNCHANGED <<main, cmd, killed, kills, edits>>

(* A base patch that differs from its digest, or a row of v without its
   directory, is noticed when only the temporary directory is there, which is
   removed: nothing is left of the command. *)
BeginPort(b, v) ==
  /\ MayPort(b, v)
  /\ disk.next = None
  /\ PatchesMatch(disk, disk.bound[b])
  /\ v \notin Ids(disk.index)
  /\ Start("port", "bound", v, Ported(disk.bound[b], v))
  /\ UNCHANGED <<disk, main, killed, kills, edits>>

(* Of the executable no more than the file name is compared, which all bindings
   share: it may be any, that of another binding too. *)
BeginFinalize(v, x) ==
  /\ cmd = Idle
  /\ Loads(disk, v)
  /\ disk.staged[v] = None
  /\ disk.next = None
  /\ Start("finalize", "begun", v, [disk.bound[v] EXCEPT !.artifact = x])
  /\ UNCHANGED <<disk, main, killed, kills, edits>>

Step(from, to, d) ==
  /\ cmd.at = from
  /\ disk' = d
  /\ cmd' = [cmd EXCEPT !.at = to]
  /\ UNCHANGED <<main, killed, kills, edits>>

StageManifest == Step("begun", "bound", [disk EXCEPT !.staged[cmd.target] = cmd.manifest])

Row == [id |-> cmd.target, sha |-> cmd.manifest]

Reindexed(index, row) ==
  [i \in DOMAIN index |-> IF index[i].id = row.id THEN row ELSE index[i]]

StageIndexInPlace ==  \* for a mutant: the index is written before its manifest
  Step("bound", "indexed",
       LET index == IF cmd.op = "port" THEN Append(disk.index, Row) ELSE Reindexed(disk.index, Row)
       IN [disk EXCEPT !.index = index, !.next = index])

StageIndex ==
  Step("bound", "indexed",
       [disk EXCEPT !.next = IF cmd.op = "port" THEN Append(disk.index, Row)
                                                ELSE Reindexed(disk.index, Row)])

(* The binding's own adapters are those of the base, byte for byte. *)
Place ==
  Step("indexed", "placed",
       IF cmd.op = "port"
       THEN [disk EXCEPT
               !.bound[cmd.target] = cmd.manifest,
               !.files = [f \in File |-> LET own == {p \in Range(cmd.manifest.patches) : p.file = f}
                                         IN IF f[1] = cmd.target /\ own # {}
                                            THEN (CHOOSE p \in own : TRUE).sha ELSE @[f]]]
       ELSE [disk EXCEPT !.bound[cmd.target] = disk.staged[cmd.target],
                         !.staged[cmd.target] = None])

ReplaceIndex == Step("placed", "replaced", [disk EXCEPT !.index = disk.next, !.next = None])

Accepted == IF cmd.op = "port" THEN Verifies(disk, cmd.target) ELSE Loads(disk, cmd.target)

Finish ==
  /\ cmd.at = "replaced" /\ Accepted
  /\ cmd' = Idle
  /\ UNCHANGED <<disk, main, killed, kills, edits>>

UndoneKeepingNext ==  \* for a mutant: family.toml.next stays
  IF cmd.op = "port" THEN <<"output">> ELSE <<"staged", "truncateManifest", "manifest">>

UndoneKeepingIndex ==  \* for a mutant: a replaced index is not put back
  IF cmd.op = "port" THEN <<"output", "next">>
                     ELSE <<"staged", "next", "truncateManifest", "manifest">>

Undone ==
  CASE cmd.op = "port" /\ cmd.at \in {"bound", "indexed"} -> <<"temporary", "next">>
    [] cmd.op = "port" /\ cmd.at = "placed" -> <<"output", "next">>
    [] cmd.op = "port" /\ cmd.at = "replaced" -> <<"output", "truncateIndex", "index", "next">>
    [] cmd.op = "finalize" /\ cmd.at # "replaced" ->
         <<"staged", "next", "truncateManifest", "manifest">>
    [] cmd.op = "finalize" /\ cmd.at = "replaced" ->
         <<"staged", "next", "truncateManifest", "manifest", "truncateIndex", "index">>

Fail ==
  /\ cmd.at \in {"begun", "bound", "indexed", "placed", "replaced"}
  /\ cmd' = [cmd EXCEPT !.at = "undo", !.undo = Undone]
  /\ UNCHANGED <<disk, main, killed, kills, edits>>

UndoStep(step) ==
  LET v == cmd.target IN
  CASE step = "temporary" -> disk
    [] step = "output" -> [disk EXCEPT !.bound[v] = None,
                                       !.files = [f \in File |-> IF f[1] = v THEN None ELSE @[f]]]
    [] step = "truncateIndex" -> [disk EXCEPT !.index = <<>>]
    [] step = "index" -> [disk EXCEPT !.index = cmd.origin.index]
    [] step = "next" -> [disk EXCEPT !.next = None]
    [] step = "staged" -> [disk EXCEPT !.staged[v] = None]
    [] step = "truncateManifest" -> [disk EXCEPT !.bound[v] = Torn]
    [] step = "manifest" -> [disk EXCEPT !.bound[v] = cmd.origin.bound[v]]

Undo ==
  /\ cmd.at = "undo"
  /\ disk' = UndoStep(Head(cmd.undo))
  /\ cmd' = IF Len(cmd.undo) = 1 THEN Idle ELSE [cmd EXCEPT !.undo = Tail(@)]
  /\ UNCHANGED <<main, killed, kills, edits>>

HasTemporary ==
  /\ cmd.op = "port"
  /\ \/ cmd.at \in {"bound", "indexed"}
     \/ cmd.at = "undo" /\ "temporary" \in Range(cmd.undo)

Kill ==
  /\ cmd # Idle
  /\ kills < MaxKills /\ kills' = kills + 1
  /\ killed' = IF cmd.at = "undo" \/ killed = "undo" THEN "undo" ELSE "forward"
  /\ disk' = IF HasTemporary THEN [disk EXCEPT !.litter = @ \cup {cmd.target}] ELSE disk
  /\ cmd' = Idle
  /\ UNCHANGED <<main, edits>>

-----------------------------------------------------------------------------
(* People: external. *)

Redigested(d, v) ==
  LET texts == Texts(d, d.bound[v]) IN
  [d.bound[v] EXCEPT !.patches = [i \in DOMAIN texts |-> [@[i] EXCEPT !.sha = texts[i]]]]

Renamed(d, v, manifest) ==
  LET touched == Touched(Texts(d, manifest)) IN
  [manifest EXCEPT !.present = Present(touched, v),
                   !.absent = {p \in touched : Tree[v][p] = None}]

MayEdit == cmd = Idle /\ edits < MaxEdits /\ IndexMatches(disk) /\ disk.next = None

(* A patch is changed, and the digests of the bindings vs are brought up to
   date until all of them load again; the paths that they say it touches are
   (named) or are forgotten. *)
Edit(f, t, vs, named) ==
  /\ disk.files[f] \notin {None, t} /\ vs \subseteq Users(disk, f)
  /\ LET d == [disk EXCEPT !.files[f] = t]
         new(v) == IF named THEN Renamed(d, v, Redigested(d, v)) ELSE Redigested(d, v)
         bound == [v \in Version |-> IF v \in vs THEN new(v) ELSE d.bound[v]]
     IN /\ \A v \in vs : WellFormed(v, bound[v])
        /\ disk' = [d EXCEPT !.bound = bound,
                             !.index = [i \in DOMAIN @ |-> [id |-> @[i].id, sha |-> bound[@[i].id]]]]
  /\ edits' = edits + 1
  /\ UNCHANGED <<main, cmd, killed, kills>>

Merge ==
  /\ cmd = Idle
  /\ CheckImmutability(main, disk)
  /\ VerifyFamily(disk)
  /\ main' = disk
  /\ UNCHANGED <<disk, cmd, killed, kills, edits>>

(* The work tree is checked out again, and files that are not in it removed. *)
Reset ==
  /\ cmd = Idle
  /\ disk' = main
  /\ killed' = "no" /\ kills' = 0
  /\ UNCHANGED <<main, cmd, edits>>

-----------------------------------------------------------------------------
Init ==
  /\ disk = [index |-> Seed.index, bound |-> Seed.bound, files |-> Seed.files, next |-> None,
             staged |-> [v \in Version |-> None], litter |-> {}]
  /\ main = disk
  /\ cmd = Idle
  /\ killed = "no" /\ kills = 0
  /\ edits = 0

Next ==
  \/ \E b, v \in Version : BeginPort(b, v) \/ RefusePort(b, v)
  \/ \E v \in Version, x \in Artifact : BeginFinalize(v, x)
  \/ StageManifest \/ StageIndex \/ Place \/ ReplaceIndex \/ Finish
  \/ Fail \/ Undo \/ Kill
  \/ /\ MayEdit
     /\ \E f \in File, t \in Text, vs \in SUBSET Version, named \in BOOLEAN : Edit(f, t, vs, named)
  \/ Merge \/ Reset

Spec == Init /\ [][Next]_vars

-----------------------------------------------------------------------------
(* Manifests and families. *)
Manifest ==
  [id : Version,
   patches : Seq([file : File, sha : Text]),
   present : {Present(paths, v) : paths \in SUBSET SourcePath, v \in Version},
   absent : SUBSET SourcePath,
   artifact : Artifacts]

IndexRow == [id : Version, sha : Manifest]
Index == Seq(IndexRow)

Family ==
  [index : Index,
   bound : [Version -> Manifest \cup {None, Torn}],
   files : [File -> Text \cup {None}],
   next : Index \cup {None},
   staged : [Version -> Manifest \cup {None}],
   litter : SUBSET Version]

ASSUME ValuesDistinct ==
  /\ Version \cap Shared = {}
  /\ None \notin Text \cup Manifest
  /\ Torn \notin Manifest /\ Torn # None

ASSUME PatchAssumption ==
  /\ \A t \in Text : DOMAIN Touch[t] \subseteq SourcePath
  /\ MaxEdits \in Nat /\ MaxKills \in Nat

(* The family that was first committed may itself be merged, and verifies. *)
ASSUME SeedAssumption ==
  LET d == [index |-> Seed.index, bound |-> Seed.bound, files |-> Seed.files, next |-> None,
            staged |-> [v \in Version |-> None], litter |-> {}]
  IN /\ d \in Family /\ CheckImmutability(d, d) /\ VerifyFamily(d)
     /\ \A v \in Ids(d.index) : Verifies(d, v)

(* Types; an index has at most one row for a binding.  A manifest that port
   has written and not yet verified may be one that does not load. *)
TypeOK ==
  /\ \A d \in {disk, main} : d \in Family /\ Cardinality(Ids(d.index)) = Len(d.index)
  /\ cmd.op \in {"none", "port", "finalize"}
  /\ cmd.at \in {"idle", "begun", "bound", "indexed", "placed", "replaced", "undo"}
  /\ (cmd.at = "undo") <=> (cmd.undo # <<>>)
  /\ killed \in {"no", "forward", "undo"}
  /\ edits \in 0..MaxEdits /\ kills \in 0..MaxKills

(* Between commands, none of which was killed, the index and the directories
   are those of the same bindings, every binding loads, and nothing staged is
   left to refuse the next command: port and finalize undo all their writes
   when a step fails (compat_release.py:766-771, 849-857). *)
RestedIsWhole ==
  /\ TypeOK
  /\ cmd = Idle /\ killed = "no" =>
       /\ disk.next = None /\ disk.staged = [v \in Version |-> None] /\ disk.litter = {}
       /\ \A v \in Version : disk.bound[v] # None => Loads(disk, v)

(* finalize replaces the manifest and then the index: a kill between the two
   makes every binding of the family unloadable.  Whenever a kill outside an
   undo does, moving family.toml.next onto family.toml mends it. *)
TornIsRepairable ==
  killed = "forward" /\ cmd = Idle =>
    IndexMatches(disk) \/ IndexMatches([disk EXCEPT !.index = disk.next])

(* A command that fails at one of its writes leaves the family as it found it;
   so do those refused before, but for a port refused because of a staged
   index that a killed command left, whose temporary directory stays
   (compat_release.py:662-666, 766-772, 850-857). *)
FailureRestores ==
  [][cmd.at = "undo" /\ cmd' = Idle /\ killed' # "undo" => disk' = cmd.origin]_vars

(* A merged binding that verifies against its release is never broken by what
   the audit lets in, though bindings share patches. *)
VerifiedStays ==
  [][main' # main => \A v \in Version : Verifies(main, v) => Verifies(main', v)]_main

(* Of what the verifier compares and the drift report does not, the audit makes
   up for the digests; nothing but the verifier compares the paths that exact
   patches and adapters touch with those the manifest names.  So a binding of a
   merged family that the report calls unchanged verifies, or is wrong about a
   path that it does not declare absent; and the report calls no binding changed
   that verifies (compatibility_audit.py:169-272). *)
Misnamed(d, v) ==
  LET manifest == d.bound[v]
      touched == Touched(Texts(d, manifest))
      named == DOMAIN manifest.present \cup manifest.absent
  IN (touched \ named) \cup (named \ touched)

DriftReportAgrees ==
  [][main' # main =>
       \A v \in Ids(main'.index), w \in Version :
         /\ v = w /\ Verifies(main', v) => Unchanged(main', v, w)
         /\ Unchanged(main', v, w) =>
              \/ v = w /\ Verifies(main', v)
              \/ Misnamed(main', v) \ main'.bound[v].absent # {}]_main
=============================================================================
