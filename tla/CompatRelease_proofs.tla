------------------------ MODULE CompatRelease_proofs ------------------------
(* Safety of what scripts/compat_release.py does: of the patch family, for
   every set of releases, sources, patches and seeds, wherever its commands
   fail or are killed; and of the upstream watcher, for every number of
   releases, of issues, of lost and repeated runs and of interventions. *)
EXTENDS PatchFamily, UpstreamWatch, FiniteSetTheorems, SequenceTheorems, TLAPS

-----------------------------------------------------------------------------
(* The patch family. *)

(* A manifest of v uses shared patches and its own only. *)
Faithful(v, m) ==
  /\ m.id = v
  /\ \A p \in Range(m.patches) : p.file[1] \in Shared \cup {v}
Bound(d, v) == d.bound[v] \notin {None, Torn}

(* What always holds of a work tree, in whatever state a command left it. *)
FamilyHolds(d) ==
  /\ d \in Family /\ Cardinality(Ids(d.index)) = Len(d.index)
  /\ \A v \in Version :
       /\ Bound(d, v) => /\ Faithful(v, d.bound[v])
                         /\ \A f \in FilesOf(d.bound[v]) : d.files[f] # None
       /\ d.staged[v] # None /\ d.index # <<>> => v \in Ids(d.index)

Whole(d) ==
  /\ d.next = None /\ d.staged = [v \in Version |-> None] /\ d.litter = {}
  /\ \A v \in Version : d.bound[v] # None => Loads(d, v)

Mendable(d) == IndexMatches(d) \/ IndexMatches([d EXCEPT !.index = d.next])

(* A command knows what it found, which it will put back when it fails. *)
UndoSteps == {"temporary", "output", "truncateIndex", "index", "next", "staged",
              "truncateManifest", "manifest"}
Command ==
  [op : {"none", "port", "finalize"},
   at : {"idle", "begun", "bound", "indexed", "placed", "replaced", "undo"},
   target : Version \cup {None}, manifest : Manifest \cup {None},
   origin : Family \cup {None}, undo : Seq(UndoSteps)]

StartHolds ==
  LET v == cmd.target
      o == cmd.origin
  IN /\ v \in Version /\ cmd.manifest \in Manifest /\ Faithful(v, cmd.manifest)
     /\ FamilyHolds(o) /\ IndexMatches(o) /\ o.next = None
     /\ cmd.op = "port" =>
          /\ cmd.at # "begun"
          /\ v \notin Ids(o.index) /\ o.bound[v] = None
          /\ \A f \in File : f[1] = v => o.files[f] = None
          /\ \A f \in FilesOf(cmd.manifest) : f[1] \in Shared => o.files[f] # None
     /\ cmd.op = "finalize" =>
          /\ v \in Ids(o.index) /\ Bound(o, v) /\ o.staged[v] = None
          /\ FilesOf(cmd.manifest) = FilesOf(o.bound[v])

(* What it has written so far. *)
NewIndex ==
  IF cmd.op = "port" THEN Append(cmd.origin.index, Row) ELSE Reindexed(cmd.origin.index, Row)

Going == {"begun", "bound", "indexed", "placed", "replaced"}
Installed == cmd.at \in {"placed", "replaced"}
WorkHolds ==
  LET v == cmd.target
      o == cmd.origin
  IN cmd.at \in Going =>
       /\ disk.litter = o.litter
       /\ disk.index = IF cmd.at = "replaced" THEN NewIndex ELSE o.index
       /\ disk.next = IF cmd.at \in {"indexed", "placed"} THEN NewIndex ELSE None
       /\ disk.staged = IF cmd.op = "finalize" /\ cmd.at \in {"bound", "indexed"}
                        THEN [o.staged EXCEPT ![v] = cmd.manifest] ELSE o.staged
       /\ disk.bound = IF Installed THEN [o.bound EXCEPT ![v] = cmd.manifest] ELSE o.bound
       /\ \A f \in File :
            disk.files[f] = o.files[f] \/ (f[1] = v /\ cmd.op = "port" /\ Installed)

(* Whatever differs from what it found is still to be undone. *)
Differs(d, left) ==
  LET v == cmd.target
      o == cmd.origin
  IN /\ d.litter = o.litter
     /\ d.index = o.index \/ "index" \in left
     /\ d.next = None \/ "next" \in left
     /\ \A w \in Version :
          /\ d.staged[w] = o.staged[w] \/ (w = v /\ "staged" \in left)
          /\ d.bound[w] = o.bound[w] \/ (w = v /\ {"output", "manifest"} \cap left # {})
     /\ \A f \in File : d.files[f] = o.files[f] \/ (f[1] = v /\ "output" \in left)

(* A truncated file is written again before the undo ends. *)
Closed(undo, step, last) ==
  \A k \in DOMAIN undo :
    undo[k] = step => \E m \in DOMAIN undo : k < m /\ undo[m] = last

Mends(undo) ==
  /\ Closed(undo, "truncateIndex", "index") /\ Closed(undo, "truncateManifest", "manifest")
  /\ cmd.op = "port" => Range(undo) \cap {"staged", "truncateManifest"} = {}
  /\ cmd.op = "finalize" => "output" \notin Range(undo)

UndoHolds == cmd.at = "undo" => cmd.undo # <<>> /\ Mends(cmd.undo) /\ Differs(disk, Range(cmd.undo))

CommandHolds ==
  /\ cmd \in Command
  /\ cmd.op = "none" => cmd = Idle
  /\ cmd.at = "idle" => cmd = Idle
  /\ cmd # Idle => StartHolds
  /\ WorkHolds /\ UndoHolds
  /\ cmd.at # "undo" => cmd.undo = <<>>

(* Unless something was killed, families at rest are whole; and when a kill
   hit no undo, at most the index is behind. *)
RestHolds ==
  /\ killed = "no" => Whole(IF cmd = Idle THEN disk ELSE cmd.origin)
  /\ killed = "forward" /\ cmd = Idle => Mendable(disk)

AsideHolds ==
  /\ killed \in {"no", "forward", "undo"}
  /\ edits \in 0..MaxEdits /\ kills \in 0..MaxKills

IInv ==
  /\ FamilyHolds(disk) /\ FamilyHolds(main) /\ Whole(main)
  /\ CommandHolds /\ RestHolds /\ AsideHolds

-----------------------------------------------------------------------------
(* Indexes.                                                                  *)

(* Nothing but the rows' manifests decides whether an index matches. *)
LEMMA MatchesStay ==
  ASSUME NEW d, NEW e, e.index = d.index, IndexMatches(d),
         \A row \in Range(d.index) : e.bound[row.id] = d.bound[row.id]
  PROVE  IndexMatches(e)
  BY DEF IndexMatches

LEMMA LoadsStay ==
  ASSUME NEW d, NEW e, NEW v, e.index = d.index, Loads(d, v), e.bound[v] = d.bound[v],
         \A row \in Range(d.index) : e.bound[row.id] = d.bound[row.id]
  PROVE  Loads(e, v)
  BY MatchesStay DEF Loads

LEMMA RangeIn ==
  ASSUME NEW f, NEW S, \A i \in DOMAIN f : f[i] \in S
  PROVE  Range(f) \subseteq S
  BY DEF Range

LEMMA RowsTyped ==
  ASSUME NEW index \in Index
  PROVE  /\ \A row \in Range(index) : row.id \in Version /\ row.sha \in Manifest
         /\ Ids(index) \subseteq Version
<1>1. \A i \in DOMAIN index : index[i] \in IndexRow
  BY DEF Index
<1>2. Range(index) \subseteq IndexRow
  BY <1>1, RangeIn
<1>3. \A row \in Range(index) : row.id \in Version /\ row.sha \in Manifest
  BY <1>2 DEF IndexRow
<1>4. QED
  BY <1>3 DEF Ids

LEMMA PatchesTyped ==
  ASSUME NEW m \in Manifest
  PROVE  \A p \in Range(m.patches) : p.file \in File /\ p.sha \in Text
<1> DEFINE Patch == [file : File, sha : Text]
<1>1. m.patches \in Seq(Patch)
  BY DEF Manifest
<1>. HIDE DEF Patch
<1>2. \A i \in DOMAIN m.patches : m.patches[i] \in Patch
  BY <1>1
<1>3. Range(m.patches) \subseteq Patch
  BY <1>2, RangeIn
<1>4. QED
  BY <1>3 DEF Patch

LEMMA FilesTyped ==
  ASSUME NEW m \in Manifest
  PROVE  FilesOf(m) \subseteq File
  BY PatchesTyped DEF FilesOf

LEMMA NoIds == <<>> \in Index /\ Ids(<<>>) = {} /\ Cardinality(Ids(<<>>)) = Len(<<>>)
  <1>1. Ids(<<>>) = {}
    BY DEF Ids, Range
  <1>2. QED
    BY <1>1, FS_EmptySet DEF Index

LEMMA IdsFinite ==
  ASSUME NEW index \in Index
  PROVE  IsFiniteSet(Ids(index))
<1> DEFINE places == 1 .. Len(index)
           id == [i \in places |-> index[i].id]
<1>1. IsFiniteSet(places)
  BY FS_Interval DEF Index
<1>2. id \in Surjection(places, Ids(index))
  BY DEF Index, IndexRow, Ids, Range, Surjection
<1>3. QED
  BY <1>1, <1>2, FS_Surjection

(* The index that a command writes: that of the family it found, with a row
   for its target that binds its manifest. *)
LEMMA NewIndexHolds ==
  ASSUME CommandHolds, cmd # Idle
  PROVE  LET o == cmd.origin
             v == cmd.target
         IN /\ NewIndex \in Index /\ NewIndex # <<>>
            /\ Cardinality(Ids(NewIndex)) = Len(NewIndex)
            /\ Ids(NewIndex) = Ids(o.index) \cup {v}
            /\ \A row \in Range(NewIndex) :
                 IF row.id = v THEN row.sha = cmd.manifest ELSE row \in Range(o.index)
<1> DEFINE o == cmd.origin
           v == cmd.target
           index == o.index
<1>1. /\ index \in Index /\ Cardinality(Ids(index)) = Len(index) /\ index # <<>>
      /\ v \in Version /\ cmd.manifest \in Manifest
  BY DEF CommandHolds, StartHolds, FamilyHolds, Family, IndexMatches
<1>2. Row \in IndexRow /\ Row.id = v /\ Row.sha = cmd.manifest
  BY <1>1 DEF Row, IndexRow
<1>. HIDE DEF index
<1>3. CASE cmd.op = "port"
  <2>1. v \notin Ids(index)
    BY <1>3 DEF CommandHolds, StartHolds, index
  <2>2. NewIndex = Append(index, Row)
    BY <1>3 DEF NewIndex, index
  <2>3. Append(index, Row) \in Index /\ Len(Append(index, Row)) = Len(index) + 1
    BY <1>1, <1>2 DEF Index
  <2>4. Range(Append(index, Row)) = Range(index) \cup {Row}
    <3> DEFINE new == Append(index, Row)
    <3>1. /\ DOMAIN new = DOMAIN index \cup {Len(index) + 1}
          /\ \A i \in DOMAIN index : new[i] = index[i]
          /\ new[Len(index) + 1] = Row
      BY <1>1, <1>2 DEF Index
    <3>. HIDE DEF new
    <3>2. Range(new) = Range(index) \cup {Row}
      BY <3>1 DEF Range
    <3>3. QED
      BY <3>2 DEF new
  <2>5. Ids(Append(index, Row)) = Ids(index) \cup {v}
    BY <1>2, <2>4 DEF Ids
  <2>6. \A row \in Range(index) : row.id # v
    BY <2>1 DEF Ids
  <2>7. Cardinality(Ids(Append(index, Row))) = Cardinality(Ids(index)) + 1
    BY <1>1, <2>1, <2>5, IdsFinite, FS_AddElement
  <2>8. Len(Append(index, Row)) # 0
    BY <1>1, <2>3 DEF Index
  <2>9. QED
    BY <1>1, <1>2, <2>2, <2>3, <2>4, <2>5, <2>6, <2>7, <2>8 DEF index
<1>4. CASE cmd.op = "finalize"
  <2>1. v \in Ids(index)
    BY <1>4 DEF CommandHolds, StartHolds, index
  <2> DEFINE new == Reindexed(index, Row)
  <2>2. NewIndex = new
    BY <1>4 DEF NewIndex, index
  <2>3. /\ DOMAIN new = DOMAIN index
        /\ \A i \in DOMAIN index : new[i] = IF index[i].id = v THEN Row ELSE index[i]
    BY <1>2 DEF Reindexed
  <2>4. new \in Index /\ Len(new) = Len(index)
    BY <1>1, <1>2, <2>3 DEF Index, Reindexed
  <2>5. \A i \in DOMAIN index : new[i].id = index[i].id
    BY <1>2, <2>3
  <2>6. Ids(new) = Ids(index)
    BY <2>3, <2>5 DEF Ids, Range
  <2>7. \A row \in Range(new) : IF row.id = v THEN row.sha = cmd.manifest ELSE row \in Range(index)
    BY <1>2, <2>3 DEF Range
  <2>8. new # <<>>
    BY <1>1, <2>4 DEF Index
  <2>. HIDE DEF new
  <2>9. QED
    BY <1>1, <2>1, <2>2, <2>4, <2>6, <2>7, <2>8 DEF index
<1>5. QED
  BY <1>3, <1>4 DEF CommandHolds, Command

-----------------------------------------------------------------------------
(* A command goes on from one write to the next. *)

LEMMA CommandGoes ==
  ASSUME IInv, cmd # Idle
  PROVE  /\ cmd \in Command /\ cmd.op \in {"port", "finalize"} /\ cmd.at # "idle"
         /\ StartHolds /\ cmd.target \in Version /\ cmd.manifest \in Manifest
         /\ cmd.origin \in Family /\ disk \in Family
  BY DEF IInv, CommandHolds, StartHolds, FamilyHolds, Command

LEMMA GoesOn ==
  ASSUME IInv, cmd.at \in Going, NEW to \in Going \ {"begun"},
         cmd' = [cmd EXCEPT !.at = to], WorkHolds', UNCHANGED <<main, killed, kills, edits>>
  PROVE  CommandHolds' /\ RestHolds' /\ AsideHolds' /\ FamilyHolds(main)' /\ Whole(main)'
<1>1. cmd # Idle
  BY DEF Going, Idle
<1>2. /\ cmd' \in Command /\ cmd'.at = to /\ cmd'.op = cmd.op /\ cmd'.target = cmd.target
      /\ cmd'.manifest = cmd.manifest /\ cmd'.origin = cmd.origin /\ cmd'.undo = cmd.undo
  BY <1>1, CommandGoes DEF Command, Going
<1>3. cmd' # Idle
  BY <1>2 DEF Going, Idle
<1>4. StartHolds'
  BY <1>1, <1>2, CommandGoes DEF StartHolds, Going
<1>5. CommandHolds'
  BY <1>1, <1>2, <1>3, <1>4, CommandGoes DEF CommandHolds, UndoHolds, Going, IInv
<1>6. RestHolds'
  BY <1>1, <1>2, <1>3 DEF RestHolds, IInv
<1>7. QED
  BY <1>5, <1>6 DEF AsideHolds, IInv

LEMMA StageManifestHolds ==
  ASSUME IInv, StageManifest
  PROVE  IInv'
<1> DEFINE o == cmd.origin
           v == cmd.target
<1>1. cmd.at = "begun" /\ cmd # Idle /\ cmd.at \in Going /\ ~Installed
  BY DEF StageManifest, Step, Idle, Going, Installed
<1>2. cmd.op = "finalize" /\ v \in Ids(o.index)
  BY <1>1, CommandGoes DEF StartHolds
<1>3. cmd' = [cmd EXCEPT !.at = "bound"] /\ UNCHANGED <<main, killed, kills, edits>>
  BY DEF StageManifest, Step
<1>4. /\ cmd'.at = "bound" /\ cmd'.op = cmd.op /\ cmd'.target = v
      /\ cmd'.manifest = cmd.manifest /\ cmd'.origin = o
  BY <1>1, <1>3, CommandGoes DEF Command
<1>5. /\ disk'.index = disk.index /\ disk'.next = disk.next /\ disk'.bound = disk.bound
      /\ disk'.files = disk.files /\ disk'.litter = disk.litter
      /\ disk'.staged = [disk.staged EXCEPT ![v] = cmd.manifest]
      /\ disk' \in Family
  BY <1>1, CommandGoes DEF StageManifest, Step, Family
<1>6. WorkHolds
  BY DEF IInv, CommandHolds
<1>7. WorkHolds'
  BY <1>1, <1>2, <1>4, <1>5, <1>6 DEF WorkHolds, Going, Installed
<1>8. FamilyHolds(disk)'
  <2>1. disk.index = o.index
    BY <1>1, <1>6 DEF WorkHolds
  <2>2. \A w \in Version : disk'.staged[w] = disk.staged[w] \/ w = v
    BY <1>1, <1>5, CommandGoes DEF Family
  <2>3. QED
    BY <1>2, <1>5, <2>1, <2>2 DEF FamilyHolds, Bound, IInv
<1>9. QED
  BY <1>1, <1>3, <1>7, <1>8, GoesOn DEF IInv, Going

LEMMA StageIndexHolds ==
  ASSUME IInv, StageIndex
  PROVE  IInv'
<1> DEFINE o == cmd.origin
           v == cmd.target
<1>1. cmd.at = "bound" /\ cmd # Idle /\ cmd.at \in Going /\ ~Installed
  BY DEF StageIndex, Step, Idle, Going, Installed
<1>2. cmd' = [cmd EXCEPT !.at = "indexed"] /\ UNCHANGED <<main, killed, kills, edits>>
  BY DEF StageIndex, Step
<1>3. /\ cmd'.at = "indexed" /\ cmd'.op = cmd.op /\ cmd'.target = v
      /\ cmd'.manifest = cmd.manifest /\ cmd'.origin = o
  BY <1>1, <1>2, CommandGoes DEF Command
<1>4. WorkHolds
  BY DEF IInv, CommandHolds
<1>5. disk.index = o.index
  BY <1>1, <1>4 DEF WorkHolds
<1>6. NewIndex \in Index /\ NewIndex' = NewIndex
  BY <1>1, <1>3, NewIndexHolds DEF IInv, NewIndex, Row
<1>7. /\ disk'.index = disk.index /\ disk'.bound = disk.bound
      /\ disk'.files = disk.files /\ disk'.litter = disk.litter
      /\ disk'.staged = disk.staged /\ disk'.next = NewIndex
      /\ disk' \in Family
  BY <1>1, <1>5, <1>6, CommandGoes DEF StageIndex, Step, Family, NewIndex
<1>8. WorkHolds'
  BY <1>1, <1>3, <1>4, <1>6, <1>7 DEF WorkHolds, Going, Installed
<1>9. FamilyHolds(disk)'
  BY <1>7 DEF FamilyHolds, Bound, IInv
<1>10. QED
  BY <1>1, <1>2, <1>8, <1>9, GoesOn DEF IInv, Going

LEMMA PlaceHolds ==
  ASSUME IInv, Place
  PROVE  IInv'
<1> DEFINE o == cmd.origin
           v == cmd.target
           m == cmd.manifest
<1>1. cmd.at = "indexed" /\ cmd # Idle /\ cmd.at \in Going /\ ~Installed
  BY DEF Place, Step, Idle, Going, Installed
<1>2. cmd' = [cmd EXCEPT !.at = "placed"] /\ UNCHANGED <<main, killed, kills, edits>>
  BY DEF Place, Step
<1>3. /\ cmd'.at = "placed" /\ cmd'.op = cmd.op /\ cmd'.target = v
      /\ cmd'.manifest = m /\ cmd'.origin = o
  BY <1>1, <1>2, CommandGoes DEF Command
<1>4. WorkHolds /\ StartHolds /\ v \in Version /\ m \in Manifest /\ o \in Family /\ disk \in Family
  BY <1>1, CommandGoes DEF IInv, CommandHolds
<1>5. /\ disk.index = o.index /\ disk.next = NewIndex /\ disk.bound = o.bound
      /\ disk.litter = o.litter
      /\ \A f \in File : disk.files[f] = o.files[f]
  BY <1>1, <1>4 DEF WorkHolds
<1>6. NewIndex' = NewIndex
  BY <1>3 DEF NewIndex, Row
<1>7. \A p \in Range(m.patches) : p.file \in File /\ p.sha \in Text
  BY <1>4, PatchesTyped
<1>8. CASE cmd.op = "port"
  <2> DEFINE own(f) == {p \in Range(m.patches) : p.file = f}
  <2>1. /\ disk'.index = disk.index /\ disk'.next = disk.next /\ disk'.litter = disk.litter
        /\ disk'.staged = disk.staged
        /\ disk'.bound = [disk.bound EXCEPT ![v] = m]
        /\ disk'.files = [f \in File |-> IF f[1] = v /\ own(f) # {}
                                       THEN (CHOOSE p \in own(f) : TRUE).sha ELSE disk.files[f]]
    BY <1>4, <1>8 DEF Place, Step, Family
  <2>2. ASSUME NEW f \in File, own(f) # {}
        PROVE  (CHOOSE p \in own(f) : TRUE).sha \in Text
    <3>1. (CHOOSE p \in own(f) : TRUE) \in Range(m.patches)
      BY <2>2
    <3>2. QED
      BY <1>7, <3>1
  <2>3. disk'.files \in [File -> Text \cup {None}]
    BY <1>4, <2>1, <2>2 DEF Family
  <2>4. disk' \in Family
    <3>1. disk' = [disk EXCEPT !.bound = disk'.bound, !.files = disk'.files]
      BY <1>4, <1>8 DEF Place, Step, Family
    <3>2. disk'.bound \in [Version -> Manifest \cup {None, Torn}]
      BY <1>4, <2>1 DEF Family
    <3>3. QED
      BY <1>4, <2>3, <3>1, <3>2 DEF Family
  <2>5. disk'.staged = o.staged
    BY <1>1, <1>4, <1>8, <2>1 DEF WorkHolds
  <2>6. WorkHolds'
    BY <1>3, <1>5, <1>6, <1>8, <2>1, <2>5 DEF WorkHolds, Going, Installed
  <2>7. ASSUME NEW w \in Version, Bound(disk', w)
        PROVE  Faithful(w, disk'.bound[w]) /\ \A f \in FilesOf(disk'.bound[w]) : disk'.files[f] # None
    <3>1. CASE w = v
      <4>1. disk'.bound[w] = m
        BY <1>4, <2>1, <3>1 DEF Family
      <4>2. Faithful(v, m)
        BY <1>4 DEF StartHolds
      <4>3. ASSUME NEW f \in FilesOf(m) PROVE disk'.files[f] # None
        <5>1. PICK p \in Range(m.patches) : f = p.file
          BY DEF FilesOf
        <5>2. f \in File /\ own(f) # {} /\ f[1] \in Shared \cup {v}
          BY <1>7, <4>2, <5>1 DEF Faithful
        <5>3. CASE f[1] = v
          BY <2>1, <2>2, <5>2, <5>3, ValuesDistinct
        <5>4. CASE f[1] # v
          <6>1. disk.files[f] # None
            BY <1>4, <1>5, <1>8, <5>2, <5>4 DEF StartHolds
          <6>2. QED
            BY <2>1, <5>2, <5>4, <6>1
        <5>5. QED
          BY <5>3, <5>4
      <4>4. QED
        BY <3>1, <4>1, <4>2, <4>3
    <3>2. CASE w # v
      <4>1. disk'.bound[w] = disk.bound[w]
        BY <1>4, <2>1, <3>2 DEF Family
      <4>2. Faithful(w, disk.bound[w]) /\ \A f \in FilesOf(disk.bound[w]) : disk.files[f] # None
        BY <2>7, <4>1 DEF IInv, FamilyHolds, Bound
      <4>3. disk.bound[w] \in Manifest
        BY <1>4, <2>7, <4>1 DEF Family, Bound
      <4>4. ASSUME NEW f \in FilesOf(disk.bound[w]) PROVE disk'.files[f] # None
        <5>1. f \in File
          BY <1>4, <4>3, FilesTyped
        <5>2. f[1] # v
          BY <1>4, <3>2, <4>2, ValuesDistinct DEF FilesOf, Faithful
        <5>3. QED
          BY <2>1, <4>2, <5>1, <5>2
      <4>5. QED
        BY <4>1, <4>2, <4>4
    <3>3. QED
      BY <3>1, <3>2
  <2>8. FamilyHolds(disk)'
    BY <2>1, <2>4, <2>7 DEF FamilyHolds, IInv
  <2>9. QED
    BY <1>1, <1>2, <2>6, <2>8, GoesOn DEF IInv, Going
<1>9. CASE cmd.op = "finalize"
  <2>1. /\ disk'.index = disk.index /\ disk'.next = disk.next /\ disk'.litter = disk.litter
        /\ disk'.files = disk.files
        /\ disk'.bound = [disk.bound EXCEPT ![v] = disk.staged[v]]
        /\ disk'.staged = [disk.staged EXCEPT ![v] = None]
        /\ disk' = [disk EXCEPT !.bound = disk'.bound, !.staged = disk'.staged]
    BY <1>4, <1>9 DEF Place, Step, Family
  <2>2. disk.staged = [o.staged EXCEPT ![v] = m]
    BY <1>1, <1>4, <1>9 DEF WorkHolds
  <2>3. disk.staged[v] = m /\ o.staged[v] = None
    BY <1>4, <1>9, <2>2 DEF StartHolds, Family
  <2>4. disk'.staged = o.staged
    BY <1>4, <2>1, <2>2, <2>3 DEF Family
  <2>5. disk' \in Family
    <3>1. disk'.bound \in [Version -> Manifest \cup {None, Torn}]
      BY <1>4, <2>1, <2>3 DEF Family
    <3>2. disk'.staged \in [Version -> Manifest \cup {None}]
      BY <1>4, <2>4 DEF Family
    <3>3. QED
      BY <1>4, <2>1, <3>1, <3>2 DEF Family
  <2>6. WorkHolds'
    BY <1>3, <1>5, <1>6, <1>9, <2>1, <2>3, <2>4 DEF WorkHolds, Going, Installed
  <2>7. ASSUME NEW w \in Version, Bound(disk', w)
        PROVE  Faithful(w, disk'.bound[w]) /\ \A f \in FilesOf(disk'.bound[w]) : disk'.files[f] # None
    <3>1. CASE w = v
      <4>1. disk'.bound[w] = m /\ Faithful(v, m) /\ FilesOf(m) = FilesOf(disk.bound[v]) /\ Bound(disk, v)
        BY <1>4, <1>5, <1>9, <2>1, <2>3, <3>1 DEF Family, StartHolds, Bound
      <4>2. QED
        BY <2>1, <3>1, <4>1 DEF IInv, FamilyHolds
    <3>2. CASE w # v
      <4>1. disk'.bound[w] = disk.bound[w]
        BY <1>4, <2>1, <3>2 DEF Family
      <4>2. QED
        BY <2>1, <2>7, <4>1 DEF IInv, FamilyHolds, Bound
    <3>3. QED
      BY <3>1, <3>2
  <2>8. ASSUME NEW w \in Version, disk'.staged[w] # None
        PROVE  disk.staged[w] # None
    BY <1>4, <2>1, <2>8 DEF Family
  <2>9. FamilyHolds(disk)'
    BY <2>1, <2>5, <2>7, <2>8 DEF FamilyHolds, IInv
  <2>10. QED
    BY <1>1, <1>2, <2>6, <2>9, GoesOn DEF IInv, Going
<1>10. QED
  BY <1>1, <1>8, <1>9, CommandGoes

LEMMA ReplaceIndexHolds ==
  ASSUME IInv, ReplaceIndex
  PROVE  IInv'
<1> DEFINE o == cmd.origin
           v == cmd.target
<1>1. cmd.at = "placed" /\ cmd # Idle /\ cmd.at \in Going /\ Installed
  BY DEF ReplaceIndex, Step, Idle, Going, Installed
<1>2. cmd' = [cmd EXCEPT !.at = "replaced"] /\ UNCHANGED <<main, killed, kills, edits>>
  BY DEF ReplaceIndex, Step
<1>3. /\ cmd'.at = "replaced" /\ cmd'.op = cmd.op /\ cmd'.target = v
      /\ cmd'.manifest = cmd.manifest /\ cmd'.origin = o
  BY <1>1, <1>2, CommandGoes DEF Command
<1>4. WorkHolds /\ disk.index = o.index /\ disk.next = NewIndex
  BY <1>1 DEF IInv, CommandHolds, WorkHolds
<1>5. /\ NewIndex \in Index /\ NewIndex' = NewIndex
      /\ Cardinality(Ids(NewIndex)) = Len(NewIndex) /\ Ids(o.index) \subseteq Ids(NewIndex)
  BY <1>1, <1>3, NewIndexHolds DEF IInv, NewIndex, Row
<1>6. /\ disk'.index = NewIndex /\ disk'.bound = disk.bound
      /\ disk'.files = disk.files /\ disk'.litter = disk.litter
      /\ disk'.staged = disk.staged /\ disk'.next = None
      /\ disk' \in Family
  BY <1>1, <1>4, <1>5, CommandGoes DEF ReplaceIndex, Step, Family
<1>7. WorkHolds'
  BY <1>1, <1>3, <1>4, <1>5, <1>6 DEF WorkHolds, Going, Installed
<1>8. o.index # <<>>
  BY <1>1, CommandGoes DEF StartHolds, IndexMatches
<1>9. FamilyHolds(disk)'
  BY <1>4, <1>5, <1>6, <1>8 DEF FamilyHolds, Bound, IInv
<1>10. QED
  BY <1>1, <1>2, <1>7, <1>9, GoesOn DEF IInv, Going

(* A command ends. *)
LEMMA IdleHolds ==
  ASSUME cmd' = Idle
  PROVE  CommandHolds'
<1>1. Idle \in Command
  BY DEF Idle, Command
<1>2. QED
  BY <1>1 DEF CommandHolds, WorkHolds, UndoHolds, Idle, Going

LEMMA FinishHolds ==
  ASSUME IInv, Finish
  PROVE  IInv'
<1> DEFINE o == cmd.origin
           v == cmd.target
<1>1. cmd.at = "replaced" /\ cmd # Idle /\ cmd.at \in Going /\ Installed
  BY DEF Finish, Idle, Going, Installed
<1>2. cmd' = Idle /\ UNCHANGED <<disk, main, killed, kills, edits>>
  BY DEF Finish
<1>3. Loads(disk, v)
  BY DEF Finish, Accepted, Verifies
<1>4. Whole(o) => Whole(disk)
  <2>1. SUFFICES ASSUME Whole(o), NEW w \in Version, disk.bound[w] # None
                 PROVE  Loads(disk, w)
    BY <1>1 DEF Whole, WorkHolds, IInv, CommandHolds
  <2>2. CASE w = v
    BY <1>3, <2>2
  <2>3. CASE w # v
    <3>1. disk.bound[w] = o.bound[w]
      BY <1>1, <2>3, CommandGoes DEF WorkHolds, IInv, CommandHolds, Family
    <3>2. w \in Ids(o.index) /\ WellFormed(w, o.bound[w])
      BY <2>1, <3>1 DEF Whole, Loads
    <3>3. Ids(o.index) \subseteq Ids(disk.index)
      BY <1>1, NewIndexHolds DEF WorkHolds, IInv, CommandHolds
    <3>4. QED
      BY <1>3, <3>1, <3>2, <3>3 DEF Loads
  <2>4. QED
    BY <2>2, <2>3
<1>5. RestHolds'
  BY <1>1, <1>2, <1>3, <1>4 DEF RestHolds, IInv, Mendable, Loads
<1>6. QED
  BY <1>2, <1>5, IdleHolds DEF IInv, AsideHolds

(* A command fails, at any of its steps: all it has written is to be undone. *)
LEMMA UndoneMends ==
  ASSUME IInv, Fail
  PROVE  /\ Undone \in Seq(UndoSteps) /\ Undone # <<>> /\ Mends(Undone)
         /\ Differs(disk, Range(Undone))
<1> DEFINE o == cmd.origin
           v == cmd.target
<1>1. cmd.at \in Going /\ cmd # Idle
  BY DEF Fail, Going, Idle
<1>2. cmd.op = "port" => cmd.at # "begun"
  BY <1>1, CommandGoes DEF StartHolds
<1>3. WorkHolds /\ o \in Family /\ v \in Version /\ disk \in Family
  BY <1>1, CommandGoes DEF IInv, CommandHolds
<1>4. CASE cmd.op = "port" /\ cmd.at \in {"bound", "indexed"}
  <2> DEFINE u == <<"temporary", "next">>
  <2>1. Undone = u
    BY <1>4 DEF Undone
  <2>2. /\ u \in Seq(UndoSteps) /\ u # <<>> /\ DOMAIN u = {1, 2}
        /\ u[1] = "temporary" /\ u[2] = "next"
    BY DEF UndoSteps
  <2>. HIDE DEF u
  <2>3. Mends(u) /\ Range(u) = {"temporary", "next"}
    BY <1>4, <2>2 DEF Mends, Closed, Range
  <2>4. Differs(disk, Range(u))
    BY <1>1, <1>2, <1>3, <1>4, <2>3 DEF Differs, WorkHolds, Going, Installed, Family
  <2>5. QED
    BY <2>1, <2>2, <2>3, <2>4
<1>5. CASE cmd.op = "port" /\ cmd.at = "placed"
  <2> DEFINE u == <<"output", "next">>
  <2>1. Undone = u
    BY <1>5 DEF Undone
  <2>2. /\ u \in Seq(UndoSteps) /\ u # <<>> /\ DOMAIN u = {1, 2}
        /\ u[1] = "output" /\ u[2] = "next"
    BY DEF UndoSteps
  <2>. HIDE DEF u
  <2>3. Mends(u) /\ Range(u) = {"output", "next"}
    BY <1>5, <2>2 DEF Mends, Closed, Range
  <2>4. Differs(disk, Range(u))
    BY <1>1, <1>2, <1>3, <1>5, <2>3 DEF Differs, WorkHolds, Going, Installed, Family
  <2>5. QED
    BY <2>1, <2>2, <2>3, <2>4
<1>6. CASE cmd.op = "port" /\ cmd.at = "replaced"
  <2> DEFINE u == <<"output", "truncateIndex", "index", "next">>
  <2>1. Undone = u
    BY <1>6 DEF Undone
  <2>2. /\ u \in Seq(UndoSteps) /\ u # <<>> /\ DOMAIN u = {1, 2, 3, 4}
        /\ u[1] = "output" /\ u[2] = "truncateIndex" /\ u[3] = "index"
        /\ u[4] = "next"
    BY DEF UndoSteps
  <2>. HIDE DEF u
  <2>3. Mends(u) /\ Range(u) = {"output", "truncateIndex", "index", "next"}
    <3>1. Range(u) = {"output", "truncateIndex", "index", "next"}
      BY <2>2 DEF Range
    <3>2. Closed(u, "truncateIndex", "index")
      BY <2>2 DEF Closed
    <3>3. Closed(u, "truncateManifest", "manifest")
      BY <2>2 DEF Closed
    <3>4. QED
      BY <1>6, <3>1, <3>2, <3>3 DEF Mends
  <2>4. Differs(disk, Range(u))
    BY <1>1, <1>2, <1>3, <1>6, <2>3 DEF Differs, WorkHolds, Going, Installed, Family
  <2>5. QED
    BY <2>1, <2>2, <2>3, <2>4
<1>7. CASE cmd.op = "finalize" /\ cmd.at # "replaced"
  <2> DEFINE u == <<"staged", "next", "truncateManifest", "manifest">>
  <2>1. Undone = u
    BY <1>7 DEF Undone
  <2>2. /\ u \in Seq(UndoSteps) /\ u # <<>> /\ DOMAIN u = {1, 2, 3, 4}
        /\ u[1] = "staged" /\ u[2] = "next" /\ u[3] = "truncateManifest"
        /\ u[4] = "manifest"
    BY DEF UndoSteps
  <2>. HIDE DEF u
  <2>3. Mends(u) /\ Range(u) = {"staged", "next", "truncateManifest", "manifest"}
    <3>1. Range(u) = {"staged", "next", "truncateManifest", "manifest"}
      BY <2>2 DEF Range
    <3>2. Closed(u, "truncateIndex", "index")
      BY <2>2 DEF Closed
    <3>3. Closed(u, "truncateManifest", "manifest")
      BY <2>2 DEF Closed
    <3>4. QED
      BY <1>7, <3>1, <3>2, <3>3 DEF Mends
  <2>4. Differs(disk, Range(u))
    BY <1>1, <1>2, <1>3, <1>7, <2>3 DEF Differs, WorkHolds, Going, Installed, Family
  <2>5. QED
    BY <2>1, <2>2, <2>3, <2>4
<1>8. CASE cmd.op = "finalize" /\ cmd.at = "replaced"
  <2> DEFINE u == <<"staged", "next", "truncateManifest", "manifest", "truncateIndex", "index">>
  <2>1. Undone = u
    BY <1>8 DEF Undone
  <2>2. /\ u \in Seq(UndoSteps) /\ u # <<>> /\ DOMAIN u = {1, 2, 3, 4, 5, 6}
        /\ u[1] = "staged" /\ u[2] = "next" /\ u[3] = "truncateManifest"
        /\ u[4] = "manifest" /\ u[5] = "truncateIndex" /\ u[6] = "index"
    BY DEF UndoSteps
  <2>. HIDE DEF u
  <2>3. Mends(u) /\ Range(u) = {"staged", "next", "truncateManifest", "manifest", "truncateIndex", "index"}
    <3>1. Range(u) = {"staged", "next", "truncateManifest", "manifest", "truncateIndex", "index"}
      BY <2>2 DEF Range
    <3>2. Closed(u, "truncateIndex", "index")
      BY <2>2 DEF Closed
    <3>3. Closed(u, "truncateManifest", "manifest")
      BY <2>2 DEF Closed
    <3>4. QED
      BY <1>8, <3>1, <3>2, <3>3 DEF Mends
  <2>4. Differs(disk, Range(u))
    BY <1>1, <1>2, <1>3, <1>8, <2>3 DEF Differs, WorkHolds, Going, Installed, Family
  <2>5. QED
    BY <2>1, <2>2, <2>3, <2>4
<1>9. QED
  BY <1>1, <1>2, <1>4, <1>5, <1>6, <1>7, <1>8, CommandGoes DEF Going

LEMMA FailHolds ==
  ASSUME IInv, Fail
  PROVE  IInv'
<1>1. cmd.at \in Going /\ cmd # Idle
  BY DEF Fail, Going, Idle
<1>2. /\ cmd' = [cmd EXCEPT !.at = "undo", !.undo = Undone]
      /\ UNCHANGED <<disk, main, killed, kills, edits>>
  BY DEF Fail
<1>3. /\ cmd' \in Command /\ cmd'.at = "undo" /\ cmd'.undo = Undone
      /\ cmd'.op = cmd.op /\ cmd'.target = cmd.target
      /\ cmd'.manifest = cmd.manifest /\ cmd'.origin = cmd.origin
  BY <1>1, <1>2, CommandGoes, UndoneMends DEF Command
<1>4. cmd' # Idle
  BY <1>3 DEF Idle
<1>5. StartHolds'
  BY <1>1, <1>3, CommandGoes DEF StartHolds
<1>6. UndoHolds'
  <2>1. PICK u : u = Undone
    OBVIOUS
  <2>2. u # <<>> /\ Mends(u) /\ Differs(disk, Range(u))
    BY <2>1, UndoneMends
  <2>3. Mends(u)' /\ Differs(disk, Range(u))'
    BY <1>2, <1>3, <2>2 DEF Mends, Differs
  <2>4. cmd'.undo = u
    BY <1>3, <2>1
  <2>5. QED
    BY <2>2, <2>3, <2>4 DEF UndoHolds
<1>7. CommandHolds'
  BY <1>1, <1>3, <1>4, <1>5, <1>6, CommandGoes DEF CommandHolds, WorkHolds, Going
<1>8. RestHolds'
  BY <1>1, <1>2, <1>3, <1>4 DEF RestHolds, IInv
<1>9. QED
  BY <1>2, <1>7, <1>8 DEF AsideHolds, IInv

(* What is left to undo after the first step. *)
LEMMA UndoLeft ==
  ASSUME NEW undo \in Seq(UndoSteps), undo # <<>>
  PROVE  /\ Head(undo) \in UndoSteps /\ Tail(undo) \in Seq(UndoSteps)
         /\ Range(undo) = {Head(undo)} \cup Range(Tail(undo))
         /\ Len(undo) = 1 => Range(Tail(undo)) = {}
         /\ Len(undo) # 1 => Tail(undo) # <<>>
         /\ \A step, last : Closed(undo, step, last) =>
              /\ Closed(Tail(undo), step, last)
              /\ Head(undo) = step => last \in Range(Tail(undo))
<1> DEFINE rest == Tail(undo)
           n == Len(undo)
<1>1. /\ n \in Nat \ {0} /\ DOMAIN undo = 1 .. n /\ Head(undo) = undo[1]
      /\ rest \in Seq(UndoSteps) /\ Len(rest) = n - 1 /\ DOMAIN rest = 1 .. (n - 1)
      /\ \A i \in 1 .. (n - 1) : rest[i] = undo[i + 1]
      /\ \A i \in 1 .. n : undo[i] \in UndoSteps
  <2>1. n \in Nat /\ DOMAIN undo = 1 .. n /\ \A i \in 1 .. n : undo[i] \in UndoSteps
    BY ElementOfSeq, LenProperties
  <2>2. n # 0
    BY EmptySeq
  <2>3. QED
    BY <2>1, <2>2, HeadTailProperties
<1>. HIDE DEF rest, n
<1>2. \A i \in 2 .. n : i - 1 \in 1 .. (n - 1) /\ rest[i - 1] = undo[i]
  BY <1>1
<1>3. Range(undo) = {Head(undo)} \cup Range(rest)
  <2>1. ASSUME NEW i \in DOMAIN undo
        PROVE  undo[i] \in {Head(undo)} \cup Range(rest)
    <3>1. i = 1 \/ i \in 2 .. n
      BY <1>1
    <3>2. i \in 2 .. n => i - 1 \in DOMAIN rest /\ rest[i - 1] = undo[i]
      BY <1>1, <1>2
    <3>3. QED
      BY <1>1, <3>1, <3>2 DEF Range
  <2>2. \A i \in DOMAIN rest : rest[i] \in Range(undo)
    <3>1. \A i \in DOMAIN rest : i + 1 \in DOMAIN undo /\ rest[i] = undo[i + 1]
      BY <1>1
    <3>2. QED
      BY <3>1 DEF Range
  <2>3. Head(undo) \in Range(undo)
    BY <1>1 DEF Range
  <2>4. Range(rest) \subseteq Range(undo)
    BY <2>2, RangeIn
  <2>5. Range(undo) \subseteq {Head(undo)} \cup Range(rest)
    BY <2>1, RangeIn
  <2>6. QED
    BY <2>3, <2>4, <2>5
<1>4. ASSUME NEW step, NEW last, Closed(undo, step, last)
      PROVE  /\ Closed(rest, step, last)
             /\ Head(undo) = step => last \in Range(rest)
  <2>1. ASSUME NEW k \in DOMAIN undo, undo[k] = step
        PROVE  \E m \in DOMAIN rest : k < m + 1 /\ rest[m] = last
    <3>1. PICK j \in DOMAIN undo : k < j /\ undo[j] = last
      BY <1>4, <2>1 DEF Closed
    <3>2. j \in 2 .. n /\ k < (j - 1) + 1
      BY <1>1, <3>1
    <3>3. QED
      BY <1>1, <1>2, <3>1, <3>2
  <2>2. Head(undo) = step => last \in Range(rest)
    BY <1>1, <2>1 DEF Range
  <2>3. ASSUME NEW k \in DOMAIN rest, rest[k] = step
        PROVE  \E m \in DOMAIN rest : k < m /\ rest[m] = last
    <3>1. k + 1 \in DOMAIN undo /\ undo[k + 1] = step
      BY <1>1, <2>3
    <3>2. PICK m \in DOMAIN rest : k + 1 < m + 1 /\ rest[m] = last
      BY <2>1, <3>1
    <3>3. k < m
      BY <1>1, <3>2
    <3>4. QED
      BY <3>2, <3>3
  <2>4. QED
    BY <2>2, <2>3 DEF Closed
<1>5. n = 1 => Range(rest) = {}
  BY <1>1 DEF Range
<1>6. n # 1 => rest # <<>>
  BY <1>1
<1>7. QED
  BY <1>1, <1>3, <1>4, <1>5, <1>6 DEF rest, n

LEMMA FamiliesEqual ==
  ASSUME NEW d \in Family, NEW e \in Family,
         d.index = e.index, d.next = e.next, d.litter = e.litter,
         \A w \in Version : d.bound[w] = e.bound[w] /\ d.staged[w] = e.staged[w],
         \A f \in File : d.files[f] = e.files[f]
  PROVE  d = e
<1>1. d.bound = e.bound /\ d.staged = e.staged /\ d.files = e.files
  BY DEF Family
<1>2. QED
  BY <1>1 DEF Family

(* One step of an undo brings the work tree nearer to what the command found. *)
LEMMA UndoBrings ==
  ASSUME IInv, cmd.at = "undo", disk' = UndoStep(Head(cmd.undo)), cmd.undo # <<>>
  PROVE  Differs(disk', Range(Tail(cmd.undo))) /\ FamilyHolds(disk')
<1> DEFINE o == cmd.origin
           v == cmd.target
           left == Range(cmd.undo)
           rest == Range(Tail(cmd.undo))
           step == Head(cmd.undo)
<1>1. cmd # Idle
  BY DEF Idle
<1>2. /\ StartHolds /\ v \in Version /\ o \in Family /\ disk \in Family
      /\ cmd.op \in {"port", "finalize"} /\ cmd.undo \in Seq(UndoSteps)
      /\ Mends(cmd.undo) /\ Differs(disk, left) /\ FamilyHolds(disk) /\ FamilyHolds(o)
  BY <1>1, CommandGoes DEF IInv, CommandHolds, UndoHolds, StartHolds, Command
<1>3. /\ step \in UndoSteps /\ left = {step} \cup rest
      /\ step = "truncateIndex" => "index" \in rest
      /\ step = "truncateManifest" => "manifest" \in rest
  BY <1>2, UndoLeft DEF Mends
<1>4. /\ cmd.op = "port" => left \cap {"staged", "truncateManifest"} = {}
      /\ cmd.op = "finalize" => "output" \notin left
  BY <1>2 DEF Mends
<1>. HIDE DEF left, rest
<1>5. CASE step = "temporary"
  <2>1. disk' = disk
    BY <1>5 DEF UndoStep
  <2>2. QED
    BY <1>2, <1>3, <1>5, <2>1 DEF Differs, rest
<1>6. CASE step = "output"
  <2>1. cmd.op = "port" /\ o.bound[v] = None /\ \A f \in File : f[1] = v => o.files[f] = None
    BY <1>2, <1>3, <1>4, <1>6 DEF StartHolds
  <2>2. /\ disk' = [disk EXCEPT !.bound = disk'.bound, !.files = disk'.files]
        /\ disk'.bound = [disk.bound EXCEPT ![v] = None]
        /\ disk'.files = [f \in File |-> IF f[1] = v THEN None ELSE disk.files[f]]
    BY <1>2, <1>6 DEF UndoStep, Family
  <2>3. /\ disk'.index = disk.index /\ disk'.next = disk.next /\ disk'.litter = disk.litter
        /\ disk'.staged = disk.staged
    BY <1>2, <2>2 DEF Family
  <2>4. \A w \in Version : disk'.bound[w] = IF w = v THEN None ELSE disk.bound[w]
    BY <1>2, <2>2 DEF Family
  <2>5. Differs(disk', rest)
    BY <1>2, <1>3, <1>6, <2>1, <2>2, <2>3, <2>4 DEF Differs
  <2>6. disk' \in Family
    <3>1. disk'.bound \in [Version -> Manifest \cup {None, Torn}]
      BY <1>2, <2>2 DEF Family
    <3>2. disk'.files \in [File -> Text \cup {None}]
      BY <1>2, <2>2 DEF Family
    <3>3. QED
      BY <1>2, <2>2, <3>1, <3>2 DEF Family
  <2>7. ASSUME NEW w \in Version, Bound(disk', w)
        PROVE  Faithful(w, disk'.bound[w]) /\ \A f \in FilesOf(disk'.bound[w]) : disk'.files[f] # None
    <3>1. w # v /\ disk'.bound[w] = disk.bound[w] /\ Bound(disk, w)
      BY <2>4, <2>7 DEF Bound
    <3>2. Faithful(w, disk.bound[w]) /\ \A f \in FilesOf(disk.bound[w]) : disk.files[f] # None
      BY <1>2, <3>1 DEF FamilyHolds
    <3>3. ASSUME NEW f \in FilesOf(disk.bound[w]) PROVE disk'.files[f] # None
      <4>1. f \in File
        BY <1>2, <3>1, FilesTyped DEF Family, Bound
      <4>2. f[1] # v
        BY <1>2, <3>1, <3>2, ValuesDistinct DEF FilesOf, Faithful
      <4>3. QED
        BY <2>2, <3>2, <4>1, <4>2
    <3>4. QED
      BY <3>1, <3>2, <3>3
  <2>8. FamilyHolds(disk')
    BY <1>2, <2>3, <2>6, <2>7 DEF FamilyHolds
  <2>9. QED
    BY <2>5, <2>8 DEF rest
<1>7. CASE step = "truncateIndex"
  <2>1. disk' = [disk EXCEPT !.index = <<>>]
    BY <1>7 DEF UndoStep
  <2>2. /\ disk'.index = <<>> /\ disk'.next = disk.next /\ disk'.litter = disk.litter
        /\ disk'.staged = disk.staged /\ disk'.bound = disk.bound /\ disk'.files = disk.files
        /\ disk' \in Family
    BY <1>2, <2>1, NoIds DEF Family
  <2>3. Differs(disk', rest)
    BY <1>2, <1>3, <1>7, <2>2 DEF Differs
  <2>4. FamilyHolds(disk')
    BY <1>2, <2>2, NoIds DEF FamilyHolds, Bound
  <2>5. QED
    BY <2>3, <2>4 DEF rest
<1>8. CASE step = "index"
  <2>1. disk' = [disk EXCEPT !.index = o.index]
    BY <1>8 DEF UndoStep
  <2>2. /\ disk'.index = o.index /\ disk'.next = disk.next /\ disk'.litter = disk.litter
        /\ disk'.staged = disk.staged /\ disk'.bound = disk.bound /\ disk'.files = disk.files
        /\ disk' \in Family
    BY <1>2, <2>1 DEF Family
  <2>3. Differs(disk', rest)
    BY <1>2, <1>3, <1>8, <2>2 DEF Differs
  <2>4. ASSUME NEW w \in Version, disk'.staged[w] # None, disk'.index # <<>>
        PROVE  w \in Ids(o.index)
    <3>1. disk.staged[w] = o.staged[w] \/ (w = v /\ cmd.op = "finalize")
      BY <1>2, <1>4 DEF Differs
    <3>2. QED
      BY <1>2, <2>2, <2>4, <3>1 DEF FamilyHolds, StartHolds
  <2>5. FamilyHolds(disk')
    BY <1>2, <2>2, <2>4 DEF FamilyHolds, Bound
  <2>6. QED
    BY <2>3, <2>5 DEF rest
<1>9. CASE step = "next"
  <2>1. disk' = [disk EXCEPT !.next = None]
    BY <1>9 DEF UndoStep
  <2>2. /\ disk'.index = disk.index /\ disk'.next = None /\ disk'.litter = disk.litter
        /\ disk'.staged = disk.staged /\ disk'.bound = disk.bound /\ disk'.files = disk.files
        /\ disk' \in Family
    BY <1>2, <2>1 DEF Family
  <2>3. Differs(disk', rest)
    BY <1>2, <1>3, <1>9, <2>2 DEF Differs
  <2>4. FamilyHolds(disk')
    BY <1>2, <2>2 DEF FamilyHolds, Bound
  <2>5. QED
    BY <2>3, <2>4 DEF rest
<1>10. CASE step = "staged"
  <2>1. cmd.op = "finalize" /\ o.staged[v] = None
    BY <1>2, <1>3, <1>4, <1>10 DEF StartHolds
  <2>2. /\ disk'.index = disk.index /\ disk'.next = disk.next /\ disk'.litter = disk.litter
        /\ disk'.bound = disk.bound /\ disk'.files = disk.files
        /\ disk'.staged = [disk.staged EXCEPT ![v] = None]
        /\ disk' \in Family
    BY <1>2, <1>10 DEF UndoStep, Family
  <2>3. \A w \in Version : disk'.staged[w] = IF w = v THEN None ELSE disk.staged[w]
    BY <1>2, <2>2 DEF Family
  <2>4. Differs(disk', rest)
    BY <1>2, <1>3, <1>10, <2>1, <2>2, <2>3 DEF Differs
  <2>5. FamilyHolds(disk')
    BY <1>2, <2>2, <2>3 DEF FamilyHolds, Bound
  <2>6. QED
    BY <2>4, <2>5 DEF rest
<1>11. CASE step = "truncateManifest"
  <2>1. /\ disk'.index = disk.index /\ disk'.next = disk.next /\ disk'.litter = disk.litter
        /\ disk'.staged = disk.staged /\ disk'.files = disk.files
        /\ disk'.bound = [disk.bound EXCEPT ![v] = Torn]
        /\ disk' \in Family
    BY <1>2, <1>11 DEF UndoStep, Family
  <2>2. \A w \in Version : disk'.bound[w] = IF w = v THEN Torn ELSE disk.bound[w]
    BY <1>2, <2>1 DEF Family
  <2>3. Differs(disk', rest)
    BY <1>2, <1>3, <1>11, <2>1, <2>2 DEF Differs
  <2>4. FamilyHolds(disk')
    BY <1>2, <2>1, <2>2 DEF FamilyHolds, Bound
  <2>5. QED
    BY <2>3, <2>4 DEF rest
<1>12. CASE step = "manifest"
  <2>1. /\ disk'.index = disk.index /\ disk'.next = disk.next /\ disk'.litter = disk.litter
        /\ disk'.staged = disk.staged /\ disk'.files = disk.files
        /\ disk'.bound = [disk.bound EXCEPT ![v] = o.bound[v]]
        /\ disk' \in Family
    BY <1>2, <1>12 DEF UndoStep, Family
  <2>2. \A w \in Version : disk'.bound[w] = IF w = v THEN o.bound[v] ELSE disk.bound[w]
    BY <1>2, <2>1 DEF Family
  <2>3. Differs(disk', rest)
    BY <1>2, <1>3, <1>12, <2>1, <2>2 DEF Differs
  <2>4. ASSUME NEW w \in Version, Bound(disk', w)
        PROVE  Faithful(w, disk'.bound[w]) /\ \A f \in FilesOf(disk'.bound[w]) : disk'.files[f] # None
    <3>1. CASE w = v
      <4>1. disk'.bound[w] = o.bound[v] /\ Bound(o, v)
        BY <2>2, <2>4, <3>1 DEF Bound
      <4>2. cmd.op = "finalize"
        BY <1>2, <4>1 DEF StartHolds, Bound
      <4>3. \A f \in File : disk'.files[f] = o.files[f]
        BY <1>2, <1>4, <2>1, <4>2 DEF Differs
      <4>4. FilesOf(o.bound[v]) \subseteq File
        BY <1>2, <4>1, FilesTyped DEF Family, Bound
      <4>5. QED
        BY <1>2, <3>1, <4>1, <4>3, <4>4 DEF FamilyHolds
    <3>2. CASE w # v
      BY <1>2, <2>1, <2>2, <2>4, <3>2 DEF FamilyHolds, Bound
    <3>3. QED
      BY <3>1, <3>2
  <2>5. FamilyHolds(disk')
    BY <1>2, <2>1, <2>4 DEF FamilyHolds
  <2>6. QED
    BY <2>3, <2>5 DEF rest
<1>13. QED
  BY <1>3, <1>5, <1>6, <1>7, <1>8, <1>9, <1>10, <1>11, <1>12 DEF UndoSteps

(* The last step leaves what the command found. *)
LEMMA LastUndo ==
  ASSUME IInv, Undo, Len(cmd.undo) = 1
  PROVE  disk' = cmd.origin
<1> DEFINE o == cmd.origin
           v == cmd.target
<1>1. cmd # Idle /\ cmd.at = "undo" /\ disk' = UndoStep(Head(cmd.undo))
  BY DEF Idle, Undo
<1>2. /\ StartHolds /\ o \in Family /\ cmd.undo \in Seq(UndoSteps) /\ cmd.undo # <<>>
  BY <1>1, CommandGoes DEF IInv, CommandHolds, UndoHolds, Command
<1>3. Range(Tail(cmd.undo)) = {}
  BY <1>2, UndoLeft
<1>4. Differs(disk', {}) /\ disk' \in Family
  BY <1>1, <1>2, <1>3, UndoBrings DEF FamilyHolds
<1>5. o.next = None
  BY <1>2 DEF StartHolds
<1>6. QED
  BY <1>2, <1>4, <1>5, FamiliesEqual DEF Differs

LEMMA UndoGoesOn ==
  ASSUME IInv, Undo
  PROVE  IInv'
<1> DEFINE o == cmd.origin
           v == cmd.target
<1>1. cmd # Idle /\ cmd.at = "undo" /\ disk' = UndoStep(Head(cmd.undo))
  BY DEF Idle, Undo
<1>2. /\ UNCHANGED <<main, killed, kills, edits>>
      /\ cmd' = IF Len(cmd.undo) = 1 THEN Idle ELSE [cmd EXCEPT !.undo = Tail(cmd.undo)]
  BY DEF Undo
<1>3. /\ StartHolds /\ cmd.undo \in Seq(UndoSteps) /\ cmd.undo # <<>> /\ Mends(cmd.undo)
  BY <1>1, CommandGoes DEF IInv, CommandHolds, UndoHolds, Command
<1>4. Differs(disk', Range(Tail(cmd.undo))) /\ FamilyHolds(disk')
  BY <1>1, <1>3, UndoBrings
<1>5. CommandHolds' /\ RestHolds'
  <2>1. CASE Len(cmd.undo) = 1
    <3>1. cmd' = Idle /\ disk' = o
      BY <1>2, <2>1, LastUndo
    <3>2. IndexMatches(o)
      BY <1>3 DEF StartHolds
    <3>3. RestHolds'
      BY <1>1, <1>2, <3>1, <3>2 DEF RestHolds, IInv, Mendable
    <3>4. QED
      BY <3>1, <3>3, IdleHolds
  <2>2. CASE Len(cmd.undo) # 1
    <3>1. PICK rest : rest = Tail(cmd.undo)
      OBVIOUS
    <3>2. /\ rest \in Seq(UndoSteps) /\ rest # <<>> /\ Range(rest) \subseteq Range(cmd.undo)
          /\ Closed(rest, "truncateIndex", "index") /\ Closed(rest, "truncateManifest", "manifest")
      BY <1>3, <2>2, <3>1, UndoLeft DEF Mends
    <3>3. cmd' = [cmd EXCEPT !.undo = rest]
      BY <1>2, <2>2, <3>1
    <3>4. /\ cmd' \in Command /\ cmd'.at = "undo" /\ cmd'.undo = rest
          /\ cmd'.op = cmd.op /\ cmd'.target = cmd.target
          /\ cmd'.manifest = cmd.manifest /\ cmd'.origin = cmd.origin
      BY <1>1, <3>2, <3>3, CommandGoes DEF Command
    <3>5. cmd' # Idle
      BY <3>4 DEF Idle
    <3>6. StartHolds'
      BY <1>1, <1>3, <3>4 DEF StartHolds
    <3>7. Mends(rest)'
      BY <1>3, <3>2, <3>4 DEF Mends
    <3>8. Differs(disk, Range(rest))'
      BY <1>4, <3>1, <3>4 DEF Differs
    <3>9. CommandHolds'
      BY <1>1, <3>2, <3>4, <3>5, <3>6, <3>7, <3>8, CommandGoes
      DEF CommandHolds, WorkHolds, UndoHolds, Going
    <3>10. RestHolds'
      BY <1>1, <1>2, <3>4, <3>5 DEF RestHolds, IInv
    <3>11. QED
      BY <3>9, <3>10
  <2>3. QED
    BY <2>1, <2>2
<1>6. QED
  BY <1>2, <1>4, <1>5 DEF AsideHolds, IInv

(* A command is killed: outside an undo, the index that is staged, if not the
   one that is there, is that of the directories. *)
LEMMA IndexIsNewOrOld ==
  ASSUME CommandHolds, cmd # Idle, cmd.at \in Going, NEW d \in Family, d.bound = disk.bound,
         d.index = IF cmd.at \in {"placed", "replaced"} THEN NewIndex ELSE cmd.origin.index
  PROVE  IndexMatches(d)
<1> DEFINE o == cmd.origin
           v == cmd.target
<1>1. /\ StartHolds /\ WorkHolds /\ o \in Family /\ v \in Version
  BY DEF CommandHolds, StartHolds, FamilyHolds
<1>2. IndexMatches(o)
  BY <1>1 DEF StartHolds
<1>3. CASE ~Installed
  <2>1. disk.bound = o.bound
    BY <1>1, <1>3 DEF WorkHolds
  <2>2. QED
    BY <1>2, <1>3, <2>1, MatchesStay DEF Installed
<1>4. CASE Installed
  <2>1. disk.bound = [o.bound EXCEPT ![v] = cmd.manifest]
    BY <1>1, <1>4 DEF WorkHolds
  <2>2. \A row \in Range(o.index) : row.id \in Version /\ o.bound[row.id] = row.sha
    BY <1>1, <1>2, RowsTyped DEF IndexMatches, Family
  <2>3. \A row \in Range(NewIndex) : disk.bound[row.id] = row.sha
    BY <1>1, <2>1, <2>2, NewIndexHolds DEF Family
  <2>4. QED
    BY <1>4, <2>3, NewIndexHolds DEF IndexMatches, Installed
<1>5. QED
  BY <1>3, <1>4

LEMMA KillHolds ==
  ASSUME IInv, Kill
  PROVE  IInv'
<1>1. /\ cmd # Idle /\ cmd' = Idle /\ UNCHANGED <<main, edits>>
      /\ kills < MaxKills /\ kills' = kills + 1
      /\ killed' \in {"forward", "undo"}
      /\ killed' = "forward" => cmd.at # "undo"
  BY DEF Kill
<1>2. disk \in Family /\ cmd.target \in Version
  BY <1>1, CommandGoes
<1>3. /\ disk'.index = disk.index /\ disk'.next = disk.next /\ disk'.bound = disk.bound
      /\ disk'.files = disk.files /\ disk'.staged = disk.staged /\ disk' \in Family
  BY <1>2 DEF Kill, Family
<1>4. FamilyHolds(disk')
  BY <1>3 DEF IInv, FamilyHolds, Bound
<1>5. ASSUME killed' = "forward"
      PROVE  Mendable(disk')
  <2>1. cmd.at \in Going /\ WorkHolds /\ CommandHolds
    BY <1>1, <1>5, CommandGoes DEF IInv, CommandHolds, Command, Going
  <2>2. CASE cmd.at = "placed"
    <3> DEFINE d == [disk' EXCEPT !.index = disk'.next]
    <3>1. disk'.next = NewIndex /\ NewIndex \in Index
      BY <1>1, <1>3, <2>1, <2>2, NewIndexHolds DEF WorkHolds
    <3>2. d \in Family /\ d.bound = disk.bound /\ d.index = NewIndex
      BY <1>3, <3>1 DEF Family
    <3>. HIDE DEF d
    <3>3. IndexMatches(d)
      BY <1>1, <2>1, <2>2, <3>1, <3>2, IndexIsNewOrOld
    <3>4. QED
      BY <3>3 DEF Mendable, d
  <2>3. CASE cmd.at # "placed"
    <3>1. disk'.index = IF cmd.at = "replaced" THEN NewIndex ELSE cmd.origin.index
      BY <1>3, <2>1 DEF WorkHolds
    <3>2. IndexMatches(disk')
      BY <1>1, <1>3, <2>1, <2>3, <3>1, IndexIsNewOrOld
    <3>3. QED
      BY <3>2 DEF Mendable
  <2>4. QED
    BY <2>2, <2>3
<1>6. RestHolds'
  BY <1>1, <1>5 DEF RestHolds
<1>7. QED
  BY <1>1, <1>4, <1>6, IdleHolds, PatchAssumption DEF AsideHolds, IInv

-----------------------------------------------------------------------------
(* A command begins. *)

LEMMA Begins ==
  ASSUME IInv, cmd = Idle, NEW op \in {"port", "finalize"}, NEW at \in Going, NEW v, NEW m,
         Start(op, at, v, m), disk.next = None, StartHolds',
         op = "finalize" => at = "begun", op = "port" => at = "bound",
         UNCHANGED <<disk, main, killed, kills, edits>>
  PROVE  IInv'
<1>1. /\ cmd'.op = op /\ cmd'.at = at /\ cmd'.target = v /\ cmd'.manifest = m
      /\ cmd'.origin = disk /\ cmd'.undo = <<>>
  BY DEF Start
<1>2. cmd' \in Command /\ cmd' # Idle
  <2>1. v \in Version /\ m \in Manifest /\ disk \in Family
    BY <1>1 DEF StartHolds, IInv, FamilyHolds
  <2>2. QED
    BY <1>1, <2>1 DEF Start, Command, Idle, Going
<1>3. WorkHolds'
  BY <1>1 DEF WorkHolds, Installed
<1>4. CommandHolds'
  BY <1>1, <1>2, <1>3 DEF CommandHolds, UndoHolds, Going
<1>5. RestHolds'
  BY <1>1, <1>2 DEF RestHolds, IInv
<1>6. QED
  BY <1>4, <1>5 DEF IInv, AsideHolds

(* The paths of a manifest are paths of the sources. *)
LEMMA PathsTyped ==
  ASSUME NEW m \in Manifest
  PROVE  /\ DOMAIN m.present \subseteq SourcePath /\ m.absent \subseteq SourcePath
         /\ m.id \in Version /\ m.artifact \in Artifacts
<1>1. PICK paths \in SUBSET SourcePath, w \in Version : m.present = Present(paths, w)
  BY DEF Manifest
<1>2. DOMAIN m.present \subseteq SourcePath
  BY <1>1 DEF Present
<1>3. QED
  BY <1>2 DEF Manifest

LEMMA PresentTyped ==
  ASSUME NEW paths \in SUBSET SourcePath, NEW v \in Version
  PROVE  /\ Present(paths, v) \in {Present(q, w) : q \in SUBSET SourcePath, w \in Version}
         /\ DOMAIN Present(paths, v) = {p \in paths : Tree[v][p] # None}
  BY DEF Present

(* The manifest that port writes. *)
LEMMA PortedHolds ==
  ASSUME NEW b \in Version, NEW v \in Version, NEW base \in Manifest, Faithful(b, base)
  PROVE  /\ Ported(base, v) \in Manifest /\ Faithful(v, Ported(base, v))
         /\ \A f \in FilesOf(Ported(base, v)) : f[1] \in Shared => f \in FilesOf(base)
<1> DEFINE m == Ported(base, v)
           paths == DOMAIN base.present \cup base.absent
           Patch == [file : File, sha : Text]
<1>1. /\ m.id = v /\ m.present = Present(paths, v)
      /\ m.absent = {p \in paths : Tree[v][p] = None} /\ m.artifact = Placeholder
      /\ m.patches = [i \in DOMAIN base.patches |->
                        [base.patches[i] EXCEPT !.file = OwnFile(base.id, v, base.patches[i].file)]]
  BY DEF Ported
<1>2. paths \in SUBSET SourcePath
  BY PathsTyped
<1>3. base.patches \in Seq(Patch) /\ base.id = b
  BY DEF Manifest, Faithful
<1>4. ASSUME NEW i \in DOMAIN base.patches
      PROVE  LET p == m.patches[i]
             IN /\ p \in Patch /\ p.sha = base.patches[i].sha
                /\ p.file[1] \in Shared \cup {v}
                /\ p.file[1] \in Shared => p.file = base.patches[i].file
  <2> DEFINE q == base.patches[i]
             p == m.patches[i]
  <2>1. q \in Patch
    <3>. HIDE DEF Patch
    <3>1. QED
      BY <1>3
  <2>2. q \in Range(base.patches)
    BY DEF Range
  <2>3. q.file[1] \in Shared \cup {b}
    BY <2>2 DEF Faithful
  <2>4. p = [q EXCEPT !.file = OwnFile(b, v, q.file)]
    BY <1>1, <1>3
  <2>. HIDE DEF q, p
  <2>5. p.file = OwnFile(b, v, q.file) /\ p.sha = q.sha /\ DOMAIN p = DOMAIN q
    BY <2>1, <2>4
  <2>6. OwnFile(b, v, q.file) \in File
    BY <2>1 DEF OwnFile, File
  <2>7. p \in Patch
    BY <2>1, <2>4, <2>6
  <2>8. /\ p.file[1] \in Shared \cup {v}
        /\ p.file[1] \in Shared => p.file = q.file
    BY <2>1, <2>3, <2>5, ValuesDistinct DEF OwnFile, File
  <2>9. QED
    BY <2>5, <2>7, <2>8 DEF q, p
<1>5. DOMAIN m.patches = DOMAIN base.patches
  BY <1>1
<1>6. m.patches \in Seq(Patch)
  <2>1. \E n \in Nat : DOMAIN base.patches = 1 .. n
    BY <1>3
  <2>2. m.patches = [i \in DOMAIN base.patches |-> m.patches[i]]
    BY <1>1
  <2>. HIDE DEF m, Patch
  <2>3. QED
    BY <1>4, <2>1, <2>2
<1>7. m \in Manifest
  <2>1. m.present \in {Present(q, w) : q \in SUBSET SourcePath, w \in Version}
    BY <1>1, <1>2, PresentTyped
  <2>2. m.absent \in SUBSET SourcePath
    BY <1>1, <1>2
  <2>3. m = [id |-> m.id, patches |-> m.patches, present |-> m.present,
             absent |-> m.absent, artifact |-> m.artifact]
    BY DEF Ported
  <2>4. m.id \in Version /\ m.artifact \in Artifacts
    BY <1>1 DEF Artifacts
  <2>. HIDE DEF m
  <2>5. QED
    BY <1>6, <2>1, <2>2, <2>3, <2>4 DEF Manifest
<1>. HIDE DEF m
<1>8. \A p \in Range(m.patches) : p.file[1] \in Shared \cup {v}
  BY <1>4, <1>5 DEF Range
<1>9. \A f \in FilesOf(m) : f[1] \in Shared => f \in FilesOf(base)
  BY <1>4, <1>5 DEF Range, FilesOf
<1>10. QED
  BY <1>1, <1>7, <1>8, <1>9 DEF Faithful, m

LEMMA BeginPortHolds ==
  ASSUME IInv, NEW b \in Version, NEW v \in Version, BeginPort(b, v)
  PROVE  IInv'
<1> DEFINE base == disk.bound[b]
           m == Ported(base, v)
<1>1. /\ cmd = Idle /\ disk.bound[v] = None /\ Loads(disk, b) /\ disk.next = None
      /\ v \notin Ids(disk.index)
      /\ \A f \in Existing(disk) : f[1] # v
      /\ Start("port", "bound", v, m)
      /\ UNCHANGED <<disk, main, killed, kills, edits>>
  BY DEF BeginPort, MayPort
<1>2. Bound(disk, b) /\ IndexMatches(disk) /\ FamilyHolds(disk)
  BY <1>1 DEF Loads, WellFormed, Bound, IInv
<1>3. base \in Manifest /\ Faithful(b, base) /\ \A f \in FilesOf(base) : disk.files[f] # None
  BY <1>2 DEF FamilyHolds, Family, Bound
<1>4. /\ m \in Manifest /\ Faithful(v, m)
      /\ \A f \in FilesOf(m) : f[1] \in Shared => disk.files[f] # None
  BY <1>3, PortedHolds
<1>. HIDE DEF m
<1>5. /\ cmd'.op = "port" /\ cmd'.at = "bound" /\ cmd'.target = v /\ cmd'.manifest = m
      /\ cmd'.origin = disk
  BY <1>1 DEF Start
<1>6. \A f \in File : f[1] = v => disk.files[f] = None
  BY <1>1 DEF Existing
<1>7. StartHolds'
  BY <1>1, <1>2, <1>4, <1>5, <1>6 DEF StartHolds
<1>8. QED
  BY <1>1, <1>7, Begins DEF Going

LEMMA BeginFinalizeHolds ==
  ASSUME IInv, NEW v \in Version, NEW x \in Artifact, BeginFinalize(v, x)
  PROVE  IInv'
<1> DEFINE m == [disk.bound[v] EXCEPT !.artifact = x]
<1>1. /\ cmd = Idle /\ Loads(disk, v) /\ disk.next = None /\ disk.staged[v] = None
      /\ Start("finalize", "begun", v, m)
      /\ UNCHANGED <<disk, main, killed, kills, edits>>
  BY DEF BeginFinalize
<1>2. Bound(disk, v) /\ IndexMatches(disk) /\ FamilyHolds(disk) /\ v \in Ids(disk.index)
  BY <1>1 DEF Loads, WellFormed, Bound, IInv
<1>3. disk.bound[v] \in Manifest /\ Faithful(v, disk.bound[v])
  BY <1>2 DEF FamilyHolds, Family, Bound
<1>4. x \in Artifacts
  BY DEF Artifacts
<1>5. m \in Manifest /\ m.id = disk.bound[v].id /\ m.patches = disk.bound[v].patches
      /\ m.present = disk.bound[v].present /\ m.absent = disk.bound[v].absent
  BY <1>3, <1>4 DEF Manifest
<1>. HIDE DEF m
<1>6. Faithful(v, m) /\ FilesOf(m) = FilesOf(disk.bound[v])
  BY <1>3, <1>5 DEF Faithful, FilesOf
<1>7. /\ cmd'.op = "finalize" /\ cmd'.at = "begun" /\ cmd'.target = v /\ cmd'.manifest = m
      /\ cmd'.origin = disk
  BY <1>1 DEF Start
<1>8. StartHolds'
  BY <1>1, <1>2, <1>5, <1>6, <1>7 DEF StartHolds
<1>9. QED
  BY <1>1, <1>8, Begins DEF Going

-----------------------------------------------------------------------------
(* What is done between commands. *)

(* A family that may be merged has nothing staged. *)
LEMMA MergedIsWhole ==
  ASSUME NEW d, FamilyHolds(d), ValidateFamily(d)
  PROVE  Whole(d)
<1>1. d.index # <<>> /\ d.next = None /\ d.litter = {} /\ d \in Family
  BY DEF ValidateFamily, FamilyHolds
<1>2. \A v \in Ids(d.index) : Loads(d, v) /\ d.staged[v] = None
  BY DEF ValidateFamily, ValidateEntry
<1>3. \A v \in Version : d.bound[v] # None => v \in Ids(d.index)
  BY DEF ValidateFamily
<1>4. \A v \in Version : d.staged[v] = None
  BY <1>1, <1>2 DEF FamilyHolds
<1>5. d.staged = [v \in Version |-> None]
  BY <1>1, <1>4 DEF Family
<1>6. QED
  BY <1>1, <1>2, <1>3, <1>5 DEF Whole

LEMMA MergeHolds ==
  ASSUME IInv, Merge
  PROVE  IInv'
<1>1. cmd = Idle /\ main' = disk /\ UNCHANGED <<disk, cmd, killed, kills, edits>>
  BY DEF Merge
<1>2. Whole(disk)
  BY MergedIsWhole DEF Merge, CheckImmutability, IInv
<1>3. FamilyHolds(main') /\ Whole(main')
  BY <1>1, <1>2 DEF IInv
<1>4. CommandHolds'
  BY <1>1, IdleHolds DEF IInv
<1>5. RestHolds'
  BY <1>1 DEF RestHolds, IInv
<1>6. QED
  BY <1>1, <1>3, <1>4, <1>5 DEF IInv, AsideHolds

LEMMA ResetHolds ==
  ASSUME IInv, Reset
  PROVE  IInv'
<1>1. cmd = Idle /\ disk' = main /\ killed' = "no" /\ kills' = 0 /\ UNCHANGED <<main, cmd, edits>>
  BY DEF Reset
<1>2. RestHolds'
  BY <1>1 DEF RestHolds, IInv
<1>3. CommandHolds'
  BY <1>1, IdleHolds
<1>4. QED
  BY <1>1, <1>2, <1>3, PatchAssumption DEF IInv, AsideHolds

LEMMA RefusePortHolds ==
  ASSUME IInv, NEW b \in Version, NEW v \in Version, RefusePort(b, v)
  PROVE  IInv'
<1>1. /\ cmd = Idle /\ disk.next # None /\ disk' = [disk EXCEPT !.litter = @ \cup {v}]
      /\ UNCHANGED <<main, cmd, killed, kills, edits>>
  BY DEF RefusePort, MayPort
<1>2. disk \in Family /\ FamilyHolds(disk)
  BY DEF IInv, FamilyHolds
<1>3. /\ disk'.index = disk.index /\ disk'.next = disk.next /\ disk'.bound = disk.bound
      /\ disk'.files = disk.files /\ disk'.staged = disk.staged /\ disk' \in Family
  BY <1>1, <1>2 DEF Family
<1>4. FamilyHolds(disk')
  BY <1>2, <1>3 DEF FamilyHolds, Bound
<1>5. killed # "no"
  BY <1>1 DEF IInv, RestHolds, Whole
<1>6. ASSUME Mendable(disk) PROVE Mendable(disk')
  <2>1. CASE IndexMatches(disk)
    BY <1>3, <2>1 DEF IndexMatches, Mendable
  <2>2. CASE IndexMatches([disk EXCEPT !.index = disk.next])
    <3>1. /\ [disk EXCEPT !.index = disk.next].index = disk.next
          /\ [disk EXCEPT !.index = disk.next].bound = disk.bound
          /\ [disk' EXCEPT !.index = disk'.next].index = disk.next
          /\ [disk' EXCEPT !.index = disk'.next].bound = disk.bound
      BY <1>2, <1>3 DEF Family
    <3>2. QED
      BY <2>2, <3>1 DEF IndexMatches, Mendable
  <2>3. QED
    BY <1>6, <2>1, <2>2 DEF Mendable
<1>7. RestHolds'
  BY <1>1, <1>5, <1>6 DEF IInv, RestHolds
<1>8. QED
  BY <1>1, <1>4, <1>7, IdleHolds DEF IInv, AsideHolds

(* The manifest of a binding whose patches were changed: of its digests, and of
   the paths it names. *)
LEMMA RedigestedHolds ==
  ASSUME NEW d, d.files \in [File -> Text \cup {None}], NEW v \in Version,
         NEW m \in Manifest, m = d.bound[v], Faithful(v, m),
         \A f \in FilesOf(m) : d.files[f] # None
  PROVE  /\ Redigested(d, v) \in Manifest /\ Faithful(v, Redigested(d, v))
         /\ FilesOf(Redigested(d, v)) = FilesOf(m)
<1> DEFINE texts == Texts(d, m)
           r == Redigested(d, v)
           Patch == [file : File, sha : Text]
<1>1. m.patches \in Seq(Patch)
  BY DEF Manifest
<1>2. ASSUME NEW i \in DOMAIN m.patches
      PROVE  /\ m.patches[i] \in Patch /\ texts[i] \in Text
             /\ m.patches[i].file[1] \in Shared \cup {v}
  <2>1. m.patches[i] \in Patch
    <3>. HIDE DEF Patch
    <3>1. QED
      BY <1>1
  <2>2. m.patches[i] \in Range(m.patches)
    BY DEF Range
  <2>3. d.files[m.patches[i].file] \in Text
    BY <2>1, <2>2 DEF FilesOf
  <2>4. QED
    BY <2>1, <2>2, <2>3 DEF Texts, Faithful
<1>3. DOMAIN texts = DOMAIN m.patches
  BY DEF Texts
<1>. HIDE DEF texts
<1>4. /\ r.id = m.id /\ r.artifact = m.artifact /\ r.present = m.present /\ r.absent = m.absent
      /\ r.patches = [i \in DOMAIN texts |-> [m.patches[i] EXCEPT !.sha = texts[i]]]
      /\ r = [id |-> r.id, patches |-> r.patches, present |-> r.present,
              absent |-> r.absent, artifact |-> r.artifact]
  <2> DEFINE patches == [i \in DOMAIN texts |-> [m.patches[i] EXCEPT !.sha = texts[i]]]
  <2>1. r = [m EXCEPT !.patches = patches]
    BY DEF Redigested, texts
  <2>2. m = [id |-> m.id, patches |-> m.patches, present |-> m.present,
             absent |-> m.absent, artifact |-> m.artifact]
    BY DEF Manifest
  <2>. HIDE DEF r, patches
  <2>3. r = [id |-> m.id, patches |-> patches, present |-> m.present,
             absent |-> m.absent, artifact |-> m.artifact]
    BY <2>1, <2>2
  <2>4. QED
    BY <2>3 DEF patches
<1>. HIDE DEF r
<1>5. DOMAIN r.patches = DOMAIN m.patches
  BY <1>3, <1>4
<1>6. ASSUME NEW i \in DOMAIN m.patches
      PROVE  r.patches[i] \in Patch /\ r.patches[i].file = m.patches[i].file
  <2>1. r.patches[i] = [m.patches[i] EXCEPT !.sha = texts[i]]
    BY <1>3, <1>4
  <2>2. QED
    BY <1>2, <2>1
<1>7. r.patches \in Seq(Patch)
  <2>1. \E n \in Nat : DOMAIN m.patches = 1 .. n
    BY <1>1
  <2>2. r.patches = [i \in DOMAIN m.patches |-> r.patches[i]]
    BY <1>3, <1>4
  <2>. HIDE DEF Patch
  <2>3. QED
    BY <1>6, <2>1, <2>2
<1>8. r \in Manifest
  <2>1. /\ m.present \in {Present(q, w) : q \in SUBSET SourcePath, w \in Version}
        /\ m.absent \in SUBSET SourcePath /\ m.id \in Version /\ m.artifact \in Artifacts
    BY DEF Manifest
  <2>2. /\ r.present \in {Present(q, w) : q \in SUBSET SourcePath, w \in Version}
        /\ r.absent \in SUBSET SourcePath /\ r.id \in Version /\ r.artifact \in Artifacts
    BY <1>4, <2>1
  <2>3. r = [id |-> r.id, patches |-> r.patches, present |-> r.present,
             absent |-> r.absent, artifact |-> r.artifact]
    BY <1>4
  <2>4. QED
    BY <1>7, <2>2, <2>3 DEF Manifest
<1>9. \A p \in Range(r.patches) : p.file[1] \in Shared \cup {v}
  BY <1>2, <1>5, <1>6 DEF Range
<1>10. FilesOf(r) = FilesOf(m)
  BY <1>5, <1>6 DEF FilesOf, Range
<1>11. QED
  BY <1>4, <1>8, <1>9, <1>10 DEF Faithful, r

LEMMA RenamedHolds ==
  ASSUME NEW d, d.files \in [File -> Text \cup {None}], NEW v \in Version,
         NEW m \in Manifest, Faithful(v, m), \A f \in FilesOf(m) : d.files[f] # None
  PROVE  /\ Renamed(d, v, m) \in Manifest /\ Faithful(v, Renamed(d, v, m))
         /\ FilesOf(Renamed(d, v, m)) = FilesOf(m)
<1> DEFINE texts == Texts(d, m)
           touched == Touched(texts)
           r == Renamed(d, v, m)
<1>1. Range(texts) \subseteq Text
  <2>1. \A p \in Range(m.patches) : p.file \in File /\ d.files[p.file] \in Text
    BY PatchesTyped DEF FilesOf
  <2>2. \A i \in DOMAIN texts : texts[i] \in Text
    BY <2>1 DEF Texts, Range
  <2>3. QED
    BY <2>2, RangeIn
<1>2. touched \in SUBSET SourcePath
  BY <1>1, PatchAssumption DEF Touched
<1>3. r = [m EXCEPT !.present = Present(touched, v), !.absent = {p \in touched : Tree[v][p] = None}]
  BY DEF Renamed
<1>. HIDE DEF touched, r
<1>4. /\ Present(touched, v) \in {Present(q, w) : q \in SUBSET SourcePath, w \in Version}
      /\ {p \in touched : Tree[v][p] = None} \in SUBSET SourcePath
  BY <1>2, PresentTyped
<1>5. r.id = m.id /\ r.patches = m.patches /\ r \in Manifest
  <2> DEFINE present == Present(touched, v)
             absent == {p \in touched : Tree[v][p] = None}
  <2>1. /\ m = [id |-> m.id, patches |-> m.patches, present |-> m.present,
                absent |-> m.absent, artifact |-> m.artifact]
        /\ m.id \in Version /\ m.artifact \in Artifacts
        /\ m.patches \in Seq([file : File, sha : Text])
    BY DEF Manifest
  <2>2. r = [m EXCEPT !.present = present, !.absent = absent]
    BY <1>3
  <2>3. /\ present \in {Present(q, w) : q \in SUBSET SourcePath, w \in Version}
        /\ absent \in SUBSET SourcePath
    BY <1>4
  <2>. HIDE DEF present, absent
  <2>4. r = [id |-> m.id, patches |-> m.patches, present |-> present,
             absent |-> absent, artifact |-> m.artifact]
    BY <2>1, <2>2
  <2>5. QED
    BY <2>1, <2>3, <2>4 DEF Manifest
<1>6. QED
  BY <1>5 DEF Faithful, FilesOf, r

LEMMA EditLeaves ==
  ASSUME NEW f, NEW t, NEW vs, NEW named, Edit(f, t, vs, named)
  PROVE  UNCHANGED <<main, cmd, killed, kills>>
BY DEF Edit

LEMMA EditHolds ==
  ASSUME IInv, NEW f \in File, NEW t \in Text, NEW vs \in SUBSET Version,
         NEW named \in BOOLEAN, MayEdit, Edit(f, t, vs, named)
  PROVE  IInv'
<1> DEFINE d == [disk EXCEPT !.files[f] = t]
           new(v) == IF named THEN Renamed(d, v, Redigested(d, v)) ELSE Redigested(d, v)
           bound == [v \in Version |-> IF v \in vs THEN new(v) ELSE d.bound[v]]
           index == [i \in DOMAIN disk.index |->
                       [id |-> disk.index[i].id, sha |-> bound[disk.index[i].id]]]
<1>1. /\ cmd = Idle /\ edits < MaxEdits /\ edits' = edits + 1
      /\ IndexMatches(disk) /\ vs \subseteq Users(disk, f)
      /\ \A v \in vs : WellFormed(v, bound[v])
      /\ UNCHANGED <<main, cmd, killed, kills>>
  BY DEF Edit, MayEdit
<1>2. FamilyHolds(disk) /\ disk \in Family
  BY DEF IInv, FamilyHolds
<1>3. disk' = [d EXCEPT !.bound = bound, !.index = index]
  BY <1>2 DEF Edit, Family
<1>4. /\ d.files = [disk.files EXCEPT ![f] = t] /\ d.bound = disk.bound
      /\ d.files \in [File -> Text \cup {None}]
      /\ \A g \in File : disk.files[g] # None => d.files[g] # None
  BY <1>2, ValuesDistinct DEF Family
<1>5. /\ disk'.files = d.files /\ disk'.bound = bound /\ disk'.index = index
      /\ disk'.next = disk.next /\ disk'.staged = disk.staged /\ disk'.litter = disk.litter
  BY <1>2, <1>3 DEF Family
<1>6. \A row \in Range(disk.index) :
        row.id \in Version /\ disk.bound[row.id] = row.sha /\ row.sha \in Manifest
  BY <1>1, <1>2, RowsTyped DEF IndexMatches, Family
<1>7. vs \subseteq Ids(disk.index)
  BY <1>1 DEF Users
<1>8. ASSUME NEW v \in Version, Bound(disk, v)
      PROVE  /\ d.bound[v] \in Manifest /\ Faithful(v, d.bound[v])
             /\ \A g \in FilesOf(d.bound[v]) : d.files[g] # None
  <2>1. disk.bound[v] \in Manifest /\ Faithful(v, disk.bound[v])
    BY <1>2, <1>8 DEF FamilyHolds, Family, Bound
  <2>2. QED
    BY <1>2, <1>4, <1>8, <2>1, FilesTyped DEF FamilyHolds
<1>9. ASSUME NEW v \in vs
      PROVE  /\ bound[v] \in Manifest /\ Faithful(v, bound[v])
             /\ \A g \in FilesOf(bound[v]) : d.files[g] # None
  <2>1. v \in Version /\ Bound(disk, v)
    BY <1>6, <1>7, ValuesDistinct DEF Ids, Bound
  <2>2. bound[v] = new(v)
    BY <2>1
  <2>. HIDE DEF d, bound
  <2>3. /\ d.files \in [File -> Text \cup {None}] /\ d.bound[v] \in Manifest
        /\ Faithful(v, d.bound[v]) /\ \A g \in FilesOf(d.bound[v]) : d.files[g] # None
    BY <1>4, <1>8, <2>1
  <2>4. /\ Redigested(d, v) \in Manifest /\ Faithful(v, Redigested(d, v))
        /\ FilesOf(Redigested(d, v)) = FilesOf(d.bound[v])
    BY <2>1, <2>3, RedigestedHolds
  <2>5. /\ Renamed(d, v, Redigested(d, v)) \in Manifest
        /\ Faithful(v, Renamed(d, v, Redigested(d, v)))
        /\ FilesOf(Renamed(d, v, Redigested(d, v))) = FilesOf(d.bound[v])
    BY <2>1, <2>3, <2>4, RenamedHolds
  <2>6. QED
    BY <2>2, <2>3, <2>4, <2>5
<1>. HIDE DEF d
<1>10. \A v \in Version : v \notin vs => bound[v] = disk.bound[v]
  BY <1>4
<1>. HIDE DEF bound
<1>11. \A row \in Range(disk.index) : bound[row.id] \in Manifest
  BY <1>6, <1>9, <1>10
<1>12. bound \in [Version -> Manifest \cup {None, Torn}]
  <2>1. \A v \in Version : bound[v] \in Manifest \cup {None, Torn}
    BY <1>2, <1>9, <1>10 DEF Family
  <2>2. QED
    BY <2>1 DEF bound
<1>13. index \in Index /\ Len(index) = Len(disk.index) /\ Ids(index) = Ids(disk.index)
  <2>1. \A i \in DOMAIN disk.index :
          index[i] \in IndexRow /\ index[i].id = disk.index[i].id
    BY <1>6, <1>11 DEF IndexRow, Range
  <2>2. disk.index \in Seq(IndexRow)
    BY <1>2 DEF Family, Index
  <2>3. index \in Seq(IndexRow) /\ Len(index) = Len(disk.index) /\ DOMAIN index = DOMAIN disk.index
    <3>1. index = [i \in DOMAIN disk.index |-> index[i]]
      OBVIOUS
    <3>. HIDE DEF index
    <3>2. Len(disk.index) \in Nat /\ DOMAIN disk.index = 1 .. Len(disk.index)
      BY <2>2
    <3>3. QED
      BY <2>1, <3>1, <3>2
  <2>. HIDE DEF index
  <2>4. Ids(index) = Ids(disk.index)
    BY <2>1, <2>3 DEF Ids, Range
  <2>5. QED
    BY <2>3, <2>4 DEF Index
<1>14. IndexMatches(disk')
  <2>1. index # <<>>
    BY <1>1, <1>2, <1>13 DEF IndexMatches, Family, Index
  <2>2. \A row \in Range(index) : bound[row.id] = row.sha
    <3>1. \A i \in DOMAIN index : bound[index[i].id] = index[i].sha
      OBVIOUS
    <3>. HIDE DEF index
    <3>2. QED
      BY <3>1 DEF Range
  <2>3. QED
    BY <1>1, <1>5, <1>13, <2>1, <2>2 DEF IndexMatches
<1>15. disk' \in Family
  BY <1>2, <1>3, <1>4, <1>12, <1>13 DEF Family, d
<1>16. ASSUME NEW v \in Version, Bound(disk', v)
       PROVE  Faithful(v, disk'.bound[v]) /\ \A g \in FilesOf(disk'.bound[v]) : disk'.files[g] # None
  BY <1>4, <1>5, <1>8, <1>9, <1>10, <1>16 DEF Bound
<1>17. FamilyHolds(disk')
  <2>1. \A v \in Version : disk'.staged[v] # None => v \in Ids(index)
    BY <1>1, <1>2, <1>5, <1>13 DEF FamilyHolds, IndexMatches
  <2>2. QED
    BY <1>2, <1>5, <1>13, <1>15, <1>16, <2>1 DEF FamilyHolds
<1>18. Whole(disk) => Whole(disk')
  <2>1. SUFFICES ASSUME Whole(disk), NEW v \in Version, bound[v] # None
                 PROVE  v \in Ids(index) /\ WellFormed(v, bound[v])
    BY <1>5, <1>14 DEF Whole, Loads
  <2>2. CASE v \in vs
    BY <1>1, <1>7, <1>13, <2>2 DEF bound
  <2>3. CASE v \notin vs
    BY <1>10, <1>13, <2>1, <2>3 DEF Whole, Loads
  <2>4. QED
    BY <2>2, <2>3
<1>19. RestHolds'
  BY <1>1, <1>14, <1>18 DEF RestHolds, IInv, Mendable
<1>20. AsideHolds'
  BY <1>1, PatchAssumption DEF AsideHolds, IInv
<1>21. QED
  BY <1>1, <1>17, <1>19, <1>20, IdleHolds DEF IInv

-----------------------------------------------------------------------------
(* The invariant holds. *)

(* What is first committed. *)
LEMMA SeedHolds ==
  ASSUME NEW d, d \in Family, CheckImmutability(d, d), VerifyFamily(d),
         \A v \in Ids(d.index) : Verifies(d, v), d.staged = [v \in Version |-> None]
  PROVE  FamilyHolds(d) /\ Whole(d)
<1>1. ValidateFamily(d) /\ d.index # <<>>
  BY DEF CheckImmutability, ValidateFamily
<1>2. Ids(d.index) # {}
  <2>1. DOMAIN d.index # {}
    <3>1. d.index \in Seq(IndexRow)
      BY DEF Family, Index
    <3>2. DOMAIN d.index = 1 .. Len(d.index) /\ Len(d.index) \in Nat /\ Len(d.index) # 0
      BY <1>1, <3>1, EmptySeq, LenProperties
    <3>3. 1 \in 1 .. Len(d.index)
      BY <3>2
    <3>4. QED
      BY <3>2, <3>3
  <2>2. QED
    BY <2>1 DEF Ids, Range
<1>3. Cardinality(Ids(d.index)) = Len(d.index)
  BY <1>2 DEF Verifies, Loads, IndexMatches
<1>4. ASSUME NEW v \in Version, Bound(d, v)
      PROVE  Faithful(v, d.bound[v]) /\ \A f \in FilesOf(d.bound[v]) : d.files[f] # None
  <2> DEFINE m == d.bound[v]
  <2>1. v \in Ids(d.index)
    BY <1>1, <1>4 DEF ValidateFamily, Bound
  <2>2. Loads(d, v) /\ m \in Manifest
    BY <1>4, <2>1 DEF Verifies, Family, Bound
  <2>3. m.id = v
    BY <2>2 DEF Loads, WellFormed
  <2>4. BindingOwns(d, v)
    BY <2>1 DEF VerifyFamily
  <2>5. ASSUME NEW p \in Range(m.patches)
        PROVE  p.file[1] \in Shared \cup {v} /\ d.files[p.file] # None
    <3>1. PICK i \in DOMAIN m.patches : p = m.patches[i]
      BY DEF Range
    <3>2. i \in 1 .. Len(m.patches)
      BY <2>2 DEF Manifest
    <3>3. QED
      BY <2>4, <3>1, <3>2 DEF BindingOwns, Shared
  <2>6. QED
    BY <2>2, <2>3, <2>5 DEF Faithful, FilesOf
<1>5. FamilyHolds(d)
  BY <1>3, <1>4 DEF FamilyHolds
<1>6. QED
  BY <1>1, <1>5, MergedIsWhole

LEMMA InitIInv == Init => IInv
<1>. SUFFICES ASSUME Init PROVE IInv
  OBVIOUS
<1> DEFINE d == [index |-> Seed.index, bound |-> Seed.bound, files |-> Seed.files, next |-> None,
                 staged |-> [v \in Version |-> None], litter |-> {}]
<1>1. /\ disk = d /\ main = d /\ cmd = Idle /\ killed = "no" /\ kills = 0
      /\ edits = 0 /\ d.staged = [v \in Version |-> None]
  BY DEF Init
<1>2. /\ d \in Family /\ CheckImmutability(d, d) /\ VerifyFamily(d)
      /\ \A v \in Ids(d.index) : Verifies(d, v)
  BY SeedAssumption
<1>. HIDE DEF d
<1>3. FamilyHolds(d) /\ Whole(d)
  BY <1>1, <1>2, SeedHolds
<1>4. CommandHolds
  <2>1. Idle \in Command
    BY DEF Idle, Command
  <2>2. QED
    BY <1>1, <2>1 DEF CommandHolds, WorkHolds, UndoHolds, Idle, Going
<1>5. RestHolds /\ AsideHolds
  BY <1>1, <1>3, PatchAssumption DEF RestHolds, AsideHolds
<1>6. QED
  BY <1>1, <1>3, <1>4, <1>5 DEF IInv

LEMMA NextIInv ==
  ASSUME IInv, [Next]_vars
  PROVE  IInv'
<1>1. CASE \E b, v \in Version : BeginPort(b, v) \/ RefusePort(b, v)
  BY <1>1, BeginPortHolds, RefusePortHolds
<1>2. CASE \E v \in Version, x \in Artifact : BeginFinalize(v, x)
  BY <1>2, BeginFinalizeHolds
<1>3. CASE StageManifest \/ StageIndex \/ Place \/ ReplaceIndex \/ Finish
  BY <1>3, StageManifestHolds, StageIndexHolds, PlaceHolds, ReplaceIndexHolds, FinishHolds
<1>4. CASE Fail \/ Undo \/ Kill
  BY <1>4, FailHolds, UndoGoesOn, KillHolds
<1>5. CASE MayEdit /\ \E f \in File, t \in Text, vs \in SUBSET Version, named \in BOOLEAN :
                          Edit(f, t, vs, named)
  BY <1>5, EditHolds
<1>6. CASE Merge \/ Reset
  BY <1>6, MergeHolds, ResetHolds
<1>7. CASE UNCHANGED vars
  <2>1. UNCHANGED <<disk, main, cmd, killed, kills, edits>>
    BY <1>7 DEF vars
  <2>2. CommandHolds'
    BY <2>1 DEF IInv, CommandHolds, StartHolds, WorkHolds, UndoHolds, Mends, Differs, NewIndex,
                Row, Installed
  <2>3. RestHolds' /\ AsideHolds'
    BY <2>1 DEF IInv, RestHolds, AsideHolds
  <2>4. QED
    BY <2>1, <2>2, <2>3 DEF IInv
<1>8. QED
  BY <1>1, <1>2, <1>3, <1>4, <1>5, <1>6, <1>7 DEF Next

-----------------------------------------------------------------------------
(* What follows. *)

(* The invariant holds in every reachable state. *)
THEOREM FamilyInductive == Spec => []IInv
<1>1. IInv /\ [Next]_vars => IInv'
  BY NextIInv
<1>2. QED
  BY InitIInv, <1>1, PTL DEF Spec

(* Between commands of which none was killed, the index and the directories are
   of the same bindings, every binding loads and nothing staged is left. *)
THEOREM CommandsUndoThemselves == Spec => []RestedIsWhole
<1>1. ASSUME IInv PROVE TypeOK
  <2>1. \A d \in {disk, main} : d \in Family /\ Cardinality(Ids(d.index)) = Len(d.index)
    BY <1>1 DEF IInv, FamilyHolds
  <2>2. cmd \in Command
    BY <1>1 DEF IInv, CommandHolds
  <2>3. (cmd.at = "undo") <=> (cmd.undo # <<>>)
    BY <1>1 DEF IInv, CommandHolds, UndoHolds
  <2>4. QED
    BY <1>1, <2>1, <2>2, <2>3 DEF TypeOK, Command, IInv, AsideHolds
<1>2. IInv => RestedIsWhole
  BY <1>1 DEF RestedIsWhole, IInv, AsideHolds, RestHolds, Whole
<1>3. QED
  BY FamilyInductive, <1>2, PTL

(* A kill outside an undo leaves a family that loads, or one that does when the
   staged index is moved onto the index. *)
THEOREM KillsAreMended == Spec => []TornIsRepairable
<1>1. IInv => TornIsRepairable
  BY DEF IInv, RestHolds, Mendable, TornIsRepairable
<1>2. QED
  BY FamilyInductive, <1>1, PTL

(* The undo of a failed command ends where the command began. *)
THEOREM FailuresRestore == Spec => FailureRestores
<1>1. ASSUME IInv, [Next]_vars
      PROVE  [cmd.at = "undo" /\ cmd' = Idle /\ killed' # "undo" => disk' = cmd.origin]_vars
  <2>1. SUFFICES ASSUME Next, cmd.at = "undo", cmd' = Idle, killed' # "undo"
                 PROVE  disk' = cmd.origin
    BY <1>1
  <2>2. cmd # Idle /\ cmd' # cmd
    BY <2>1 DEF Idle
  <2>3. Undo
    BY <2>1, <2>2, EditLeaves
    DEF Next, MayPort, RefusePort, BeginPort, BeginFinalize, StageManifest, StageIndex, Place,
        ReplaceIndex, Finish, Step, Fail, Kill, Merge, Reset
  <2>4. Len(cmd.undo) = 1
    <3>1. cmd' # Idle \/ Len(cmd.undo) = 1
      <4>1. cmd \in Command
        BY <1>1 DEF IInv, CommandHolds
      <4>2. [cmd EXCEPT !.undo = Tail(cmd.undo)].at = "undo"
        BY <2>1, <4>1 DEF Command
      <4>3. Idle.at # "undo"
        BY DEF Idle
      <4>4. QED
        BY <2>3, <4>2, <4>3 DEF Undo
    <3>2. QED
      BY <2>1, <3>1
  <2>5. QED
    BY <1>1, <2>3, <2>4, LastUndo
<1>2. QED
  BY FamilyInductive, <1>1, PTL DEF Spec, FailureRestores

LEMMA MainStays ==
  ASSUME Next, main' # main
  PROVE  Merge
  BY EditLeaves
     DEF Next, RefusePort, BeginPort, BeginFinalize, StageManifest, StageIndex, Place,
         ReplaceIndex, Finish, Step, Fail, Undo, Kill, Reset

(* What the audit lets in breaks no merged binding. *)
THEOREM MergesKeepVerified == Spec => VerifiedStays
<1>1. ASSUME IInv, Merge, NEW v \in Version, Verifies(main, v)
      PROVE  Verifies(main', v)
  <2> DEFINE m == main.bound[v]
  <2>1. main' = disk /\ CheckImmutability(main, disk)
    BY <1>1 DEF Merge
  <2>2. Loads(main, v) /\ m \in Manifest /\ v \in Ids(main.index)
    BY <1>1 DEF Verifies, Loads, WellFormed, IInv, FamilyHolds, Family
  <2>3. disk.bound[v] = m
    BY <2>1, <2>2 DEF CheckImmutability
  <2>4. Loads(disk, v)
    <3>1. \A w \in Ids(disk.index) : Loads(disk, w)
      BY <2>1 DEF CheckImmutability, ValidateFamily, ValidateEntry
    <3>2. v \in Ids(disk.index)
      <4>1. v \in Version /\ disk.bound[v] # None
        BY <2>2, <2>3, ValuesDistinct
      <4>2. QED
        BY <2>1, <4>1 DEF CheckImmutability, ValidateFamily
    <3>3. QED
      BY <3>1, <3>2
  <2>5. PatchesMatch(main, m)
    BY <1>1 DEF Verifies
  <2>6. \A p \in Range(m.patches) : disk.files[p.file] = main.files[p.file]
    <3>1. \A p \in Range(m.patches) : p.file \in File /\ p.sha # None
      BY <2>2, PatchesTyped, ValuesDistinct
    <3>2. \A p \in Range(m.patches) : p.file \in Existing(main)
      BY <2>5, <3>1 DEF Existing, PatchesMatch
    <3>3. QED
      BY <2>1, <3>2 DEF CheckImmutability
  <2>7. Texts(disk, m) = Texts(main, m)
    BY <2>6 DEF Texts, Range
  <2>8. PatchesMatch(disk, m)
    BY <2>5, <2>6 DEF PatchesMatch
  <2>9. QED
    BY <1>1, <2>1, <2>3, <2>4, <2>7, <2>8 DEF Verifies
<1>2. IInv /\ [Next]_vars =>
        [main' # main => \A v \in Version : Verifies(main, v) => Verifies(main', v)]_main
  BY <1>1, MainStays DEF vars
<1>3. QED
  BY FamilyInductive, <1>2, PTL DEF Spec, VerifiedStays

(* The manifest of a binding that loads is one. *)
LEMMA ManifestOf ==
  ASSUME IInv, NEW v \in Ids(disk.index), Loads(disk, v)
  PROVE  /\ disk.bound[v] \in Manifest
         /\ Len(disk.bound[v].patches) \in Nat
         /\ DOMAIN disk.bound[v].patches = 1 .. Len(disk.bound[v].patches)
<1>1. disk \in Family /\ v \in Version
  BY RowsTyped DEF IInv, FamilyHolds, Family
<1>2. disk.bound[v] \in Manifest
  BY <1>1 DEF Loads, WellFormed, Family
<1>3. disk.bound[v].patches \in Seq([file : File, sha : Text])
  BY <1>2 DEF Manifest
<1>4. QED
  BY <1>2, <1>3

(* The drift report agrees with the verifier but for the paths that nothing
   compares with the manifest. *)
THEOREM DriftIsVerification == Spec => DriftReportAgrees
<1>1. ASSUME IInv, Merge, NEW v \in Ids(main'.index), NEW w \in Version
      PROVE  /\ v = w /\ Verifies(main', v) => Unchanged(main', v, w)
             /\ Unchanged(main', v, w) =>
                  \/ v = w /\ Verifies(main', v)
                  \/ Misnamed(main', v) \ main'.bound[v].absent # {}
  <2> DEFINE m == disk.bound[v]
             named == DOMAIN m.present \cup m.absent
             touched == Touched(Texts(disk, m))
  <2>1. main' = disk /\ ValidateFamily(disk) /\ VerifyFamily(disk)
    BY <1>1 DEF Merge, CheckImmutability
  <2>2. Loads(disk, v) /\ PatchesMatch(disk, m) /\ BindingOwns(disk, v)
    BY <1>1, <2>1 DEF ValidateFamily, ValidateEntry, VerifyFamily
  <2>3. m.absent \subseteq touched
    <3>1. m.absent = AddedBefore(disk, m, Len(m.patches) + 1)
      BY <2>2 DEF BindingOwns
    <3>2. ASSUME NEW j \in 1 .. Len(m.patches) PROVE DOMAIN Touch[disk.files[m.patches[j].file]] \subseteq touched
      <4>1. j \in DOMAIN m.patches
        BY <1>1, <2>1, <2>2, <3>2, ManifestOf
      <4>2. disk.files[m.patches[j].file] \in Range(Texts(disk, m))
        BY <4>1 DEF Texts, Range
      <4>3. QED
        BY <4>2 DEF Touched
    <3>3. Len(m.patches) \in Nat
      BY <1>1, <2>1, <2>2, ManifestOf
    <3>4. \A k \in 1 .. (Len(m.patches) + 1 - 1) : k \in 1 .. Len(m.patches)
      BY <3>3
    <3>5. QED
      BY <3>1, <3>2, <3>4 DEF AddedBefore
  <2>. HIDE DEF touched
  <2>4. touched # named => ((touched \ named) \cup (named \ touched)) \ m.absent # {}
    BY <2>3
  <2>5. Misnamed(disk, v) = (touched \ named) \cup (named \ touched)
    BY DEF Misnamed, touched
  <2>6. CASE touched = named
    BY <2>1, <2>2, <2>6 DEF Unchanged, Verifies, touched
  <2>7. CASE touched # named
    BY <2>1, <2>4, <2>5, <2>7 DEF Unchanged, Verifies
  <2>8. QED
    BY <2>6, <2>7
<1>2. IInv /\ [Next]_vars =>
        [main' # main =>
           \A v \in Ids(main'.index), w \in Version :
             /\ v = w /\ Verifies(main', v) => Unchanged(main', v, w)
             /\ Unchanged(main', v, w) =>
                  \/ v = w /\ Verifies(main', v)
                  \/ Misnamed(main', v) \ main'.bound[v].absent # {}]_main
  BY <1>1, MainStays DEF vars
<1>3. QED
  BY FamilyInductive, <1>2, PTL DEF Spec, DriftReportAgrees

-----------------------------------------------------------------------------
(* The upstream watcher. *)

(* What the runs know. *)
Job == [at : {"idle", "latest", "release", "issues", "pulls", "view", "update", "port", "push",
              "create", "track", "record"},
        head : SUBSET Release, target : Release \cup {0}, issue : Issue \cup {Nothing}, again : BOOLEAN]

JobHolds(r) == r \in Job /\ (r.at \in {"idle", "latest"} \/ r.target \in Release)

(* A run that waits starts with its detect job, or is a repeated one. *)
Fresh(r) == r.at = "latest" \/ (r.at = "port" /\ r.again)

RunsHold ==
  /\ JobHolds(run)
  /\ pending # Nothing => JobHolds(pending) /\ Fresh(pending)
  /\ failed # Nothing => JobHolds(failed) /\ Fresh(failed)

(* Every blocker but one was opened after a lost listing; and a run that opens
   one knows of none, or has lost the listing. *)
Searched == {"pulls", "port", "push", "create", "track"}

BlockersHold ==
  /\ IsFiniteSet(Open)
  /\ Cardinality(Open) <= 1 + unlisted
  /\ run.at \in Searched /\ ~run.again => Open = {}
  /\ run.at = "record" /\ run.issue = Nothing => Cardinality(Open) <= unlisted

(* A candidate under review has its branch. *)
CandidatesHold == \A v \in pulls : branch[v] # Nothing

WatchIInv == WatchTypeOK /\ RunsHold /\ BlockersHold /\ CandidatesHold

-----------------------------------------------------------------------------
LEMMA WatchInitIInv == WatchInit => WatchIInv
<1>. SUFFICES ASSUME WatchInit PROVE WatchIInv
  OBVIOUS
<1>. USE DEF WatchInit
<1>1. 1 \in Release
  <2>1. Latest \in Nat /\ Latest >= 1
    BY LatestAssumption
  <2>2. QED
    BY <2>1 DEF Release
<1>2. WatchTypeOK
  <2>1. tagged \in [Release -> (SUBSET Release) \cup {Nothing}] /\ tagged[1] # Nothing
    BY <1>1, NothingAssumption
  <2>2. QED
    BY <1>1, <2>1 DEF WatchTypeOK, NoRun
<1>3. RunsHold
  BY DEF RunsHold, JobHolds, Job, NoRun
<1>4. BlockersHold /\ CandidatesHold
  <2>1. Open = {}
    BY DEF Open
  <2>2. QED
    BY <2>1, FS_EmptySet DEF BlockersHold, CandidatesHold, NoRun
<1>5. QED
  BY <1>2, <1>3, <1>4 DEF WatchIInv

(* The steps of a run: where they lead, and what they leave alone. *)
LEMMA ReleaseTyped == \A v \in Release : v \in Nat /\ v # 0
BY LatestAssumption DEF Release

LEMMA EndedHolds == JobHolds(NoRun) /\ NoRun.at = "idle"
BY DEF JobHolds, Job, NoRun

LEMMA RunsStep ==
  ASSUME WatchIInv, WatchNext
  PROVE  RunsHold'
<1>0. /\ RunsHold /\ WatchTypeOK /\ head \in SUBSET Release /\ upstream \in Release
      /\ JobHolds(run) /\ run \in Job /\ run.head \in SUBSET Release
  BY DEF WatchIInv, RunsHold, WatchTypeOK, JobHolds, Job
<1>1. CASE Trigger
  <2>1. JobHolds(pending') /\ pending'.at = "latest"
    BY <1>0, <1>1 DEF Trigger, Run, JobHolds, Job
  <2>2. QED
    BY <1>0, <1>1, <2>1 DEF Trigger, RunsHold, Fresh
<1>2. CASE Rerun
  BY <1>0, <1>2 DEF Rerun, RunsHold
<1>3. CASE StartRun
  BY <1>0, <1>3 DEF StartRun, RunsHold
<1>4. CASE Die
  BY <1>0, <1>4, EndedHolds DEF Die, RunsHold
<1>5. ASSUME JobHolds(run'), UNCHANGED <<pending, failed>> PROVE RunsHold'
  BY <1>0, <1>5 DEF RunsHold
<1>6. CASE GetLatest
  <2>1. JobHolds([run EXCEPT !.at = "release", !.target = upstream])
    BY <1>0 DEF JobHolds, Job
  <2>2. QED
    BY <1>5, <1>6, <2>1 DEF GetLatest, Continue
<1>7. CASE GetRelease
  <2>1. run.at = "release" => JobHolds([run EXCEPT !.at = "issues"])
    BY <1>0 DEF JobHolds, Job
  <2>2. QED
    BY <1>5, <1>7, <2>1, EndedHolds DEF GetRelease, Continue
<1>8. CASE GetIssues
  <2>1. ASSUME NEW i \in Issue, run.at = "issues"
        PROVE  JobHolds([run EXCEPT !.at = "view", !.issue = i])
    BY <1>0, <2>1 DEF JobHolds, Job
  <2>2. run.at = "issues" => JobHolds([run EXCEPT !.at = "pulls"])
    BY <1>0 DEF JobHolds, Job
  <2>3. Open # {} => (CHOOSE j \in Open : TRUE) \in Issue
    BY DEF Open
  <2>4. JobHolds(run')
    <3>1. CASE Cardinality(Open) > 1 /\ Open # {}
      BY <1>8, <3>1, EndedHolds DEF GetIssues, Continue
    <3>2. CASE Open = {}
      BY <1>8, <2>2, <3>2, EndedHolds DEF GetIssues, Continue
    <3>3. CASE ~ (Cardinality(Open) > 1) /\ Open # {}
      BY <1>8, <2>1, <2>3, <3>3, EndedHolds DEF GetIssues, Continue
    <3>4. QED
      BY <3>1, <3>2, <3>3
  <2>5. QED
    BY <1>5, <1>8, <2>4 DEF GetIssues, Continue
<1>9. CASE GetPulls
  <2>1. run.at = "pulls" => JobHolds([run EXCEPT !.at = "port"])
    BY <1>0 DEF JobHolds, Job
  <2>2. QED
    BY <1>5, <1>9, <2>1, EndedHolds DEF GetPulls, Continue
<1>10. CASE ViewBlocker
  <2>1. run.at = "view" => JobHolds([run EXCEPT !.at = "update"])
    BY <1>0 DEF JobHolds, Job
  <2>2. QED
    BY <1>5, <1>10, <2>1 DEF ViewBlocker, Continue
<1>11. CASE UpdateBlocker
  BY <1>5, <1>11, EndedHolds DEF UpdateBlocker
<1>12. ASSUME Report, pending' = pending, run.at \in {"port", "push", "create"} PROVE RunsHold'
  <2>1. JobHolds(Failing) /\ JobHolds(Retry) /\ Fresh(Retry)
    BY <1>0, <1>12 DEF Failing, Retry, Run, JobHolds, Job, Fresh
  <2>2. QED
    BY <1>0, <1>12, <2>1 DEF Report, RunsHold
<1>13. CASE Port
  <2>1. run.at = "port" => JobHolds([run EXCEPT !.at = "push"])
    BY <1>0 DEF JobHolds, Job
  <2>2. QED
    BY <1>5, <1>12, <1>13, <2>1 DEF Port
<1>14. CASE Push
  <2>1. run.at = "push" => JobHolds([run EXCEPT !.at = "create"])
    BY <1>0 DEF JobHolds, Job
  <2>2. QED
    BY <1>5, <1>12, <1>14, <2>1 DEF Push
<1>15. CASE CreatePull
  BY <1>5, <1>12, <1>15, EndedHolds DEF CreatePull
<1>16. CASE TrackFailure
  <2>1. ASSUME NEW i \in Issue \cup {Nothing}, run.at = "track"
        PROVE  JobHolds([run EXCEPT !.at = "record", !.issue = i])
    BY <1>0, <2>1 DEF JobHolds, Job
  <2>2. (IF Open = {} THEN Nothing ELSE CHOOSE i \in Open : TRUE) \in Issue \cup {Nothing}
    BY DEF Open
  <2>3. QED
    BY <1>5, <1>16, <2>1, <2>2, EndedHolds DEF TrackFailure, Continue
<1>17. CASE RecordFailure
  BY <1>5, <1>17, EndedHolds DEF RecordFailure
<1>18. CASE UNCHANGED <<pending, run, failed>>
  BY <1>0, <1>18 DEF RunsHold
<1>19. CASE LoseListing
  <2>1. run.at = "track" => JobHolds([run EXCEPT !.at = "record"])
    BY <1>0 DEF JobHolds, Job
  <2>2. QED
    BY <1>5, <1>19, <2>1 DEF LoseListing
<1>20. QED
  BY <1>1, <1>2, <1>3, <1>4, <1>6, <1>7, <1>8, <1>9, <1>10, <1>11, <1>13, <1>14, <1>15, <1>16,
     <1>17, <1>18, <1>19
  DEF WatchNext, RunStep, ReleaseUpstream, Support, ClosePull, Tag, Publish, Repair, CloseBlocker

(* Rewriting a blocker opens none. *)
LEMMA RewriteOpensNone ==
  ASSUME WatchTypeOK, NEW i, NEW v \in Release, Rewrite(i, v)
  PROVE  blocker' \in [Issue -> Release \cup {Nothing}] /\ Open' \subseteq Open
BY DEF Rewrite, WatchTypeOK, Open

LEMMA WatchTypeStep ==
  ASSUME WatchIInv, WatchNext
  PROVE  WatchTypeOK'
<1>. USE DEF origin, candidates, bounds, WatchTypeOK
<1>0. /\ WatchTypeOK /\ RunsHold /\ head \in SUBSET Release /\ upstream \in Release
      /\ run \in Job /\ run.head \in SUBSET Release
      /\ run.at \in {"update", "record", "push", "create"} => run.target \in Release
  BY DEF WatchIInv, RunsHold, JobHolds, Job
<1>1. run'.at \in {"idle", "latest", "release", "issues", "pulls", "view", "update", "port", "push",
                   "create", "track", "record"}
  BY RunsStep DEF RunsHold, JobHolds, Job
<1>2. CASE UNCHANGED <<upstream, origin, candidates, blocker, unlisted>>
  BY <1>0, <1>1, <1>2
<1>3. CASE UpdateBlocker
  BY <1>0, <1>1, <1>3, RewriteOpensNone DEF UpdateBlocker
<1>4. CASE Push
  BY <1>0, <1>1, <1>4 DEF Push
<1>5. CASE CreatePull
  BY <1>0, <1>1, <1>5 DEF CreatePull
<1>6. CASE RecordFailure
  BY <1>0, <1>1, <1>6, RewriteOpensNone DEF RecordFailure
<1>7. CASE ReleaseUpstream
  <2>1. upstream + 1 \in Release
    BY <1>0, <1>7, LatestAssumption DEF ReleaseUpstream, Release
  <2>2. QED
    BY <1>0, <1>1, <1>7, <2>1 DEF ReleaseUpstream
<1>8. ASSUME NEW v \in Release, Support(v) PROVE WatchTypeOK'
  <2>1. branch' \in [Release -> (SUBSET Release) \cup {Nothing}]
    BY <1>0, <1>8 DEF Support
  <2>2. blocker' \in [Issue -> Release \cup {Nothing}]
    BY <1>0, <1>8 DEF Support
  <2>3. QED
    BY <1>0, <1>1, <1>8, <2>1, <2>2 DEF Support
<1>9. ASSUME NEW v \in Release, ClosePull(v) PROVE WatchTypeOK'
  BY <1>0, <1>1, <1>9 DEF ClosePull
<1>10. ASSUME NEW v \in Release, Tag(v) PROVE WatchTypeOK'
  BY <1>0, <1>1, <1>10 DEF Tag
<1>11. ASSUME NEW v \in Release, Publish(v) PROVE WatchTypeOK'
  BY <1>0, <1>1, <1>11 DEF Publish
<1>12. ASSUME NEW v \in Release, Repair(v) PROVE WatchTypeOK'
  BY <1>0, <1>1, <1>12 DEF Repair
<1>13. ASSUME NEW i \in Issue, CloseBlocker(i) PROVE WatchTypeOK'
  BY <1>0, <1>1, <1>13 DEF CloseBlocker
<1>14. CASE LoseListing
  BY <1>0, <1>1, <1>14 DEF LoseListing
<1>15. QED
  BY <1>2, <1>3, <1>4, <1>5, <1>6, <1>7, <1>8, <1>9, <1>10, <1>11, <1>12, <1>13, <1>14
  DEF WatchNext, RunStep, Trigger, Rerun, StartRun, Die, GetLatest, GetRelease, GetIssues, GetPulls,
      ViewBlocker, Continue, Port, TrackFailure

(* Closing and rewriting blockers does no harm, wherever the run goes on to,
   except that it may not begin to search or to record. *)
LEMMA FewerBlockers ==
  ASSUME WatchIInv, Open' \subseteq Open, unlisted' = unlisted,
         \/ run'.at \notin Searched \cup {"record"}
         \/ run' = run
         \/ run'.at \in Searched /\ (run'.again \/ Open = {})
  PROVE  BlockersHold'
<1>1. IsFiniteSet(Open) /\ Cardinality(Open) \in Nat /\ unlisted \in Nat
  BY FS_CardinalityType DEF WatchIInv, BlockersHold, WatchTypeOK
<1>2. IsFiniteSet(Open') /\ Cardinality(Open') \in Nat /\ Cardinality(Open') <= Cardinality(Open)
  BY <1>1, FS_Subset, FS_CardinalityType
<1>3. "record" \notin Searched
  BY DEF Searched
<1>4. QED
  BY <1>1, <1>2, <1>3 DEF BlockersHold, WatchIInv

(* A run of its own, not a repeated one, opens a blocker when it has seen that
   none was open: whoever else could have opened one since waits for it to end.
   A repeated one has listed them, or counts as one that lost the listing. *)
LEMMA BlockersStep ==
  ASSUME WatchIInv, WatchNext
  PROVE  BlockersHold'
<1>0. /\ WatchTypeOK /\ BlockersHold /\ run \in Job /\ unlisted \in Nat
      /\ run.at \in {"update", "record"} => run.target \in Release
      /\ IsFiniteSet(Open) /\ Cardinality(Open) \in Nat
  BY FS_CardinalityType DEF WatchIInv, RunsHold, JobHolds, WatchTypeOK, BlockersHold
<1>1. ASSUME blocker' = blocker, unlisted' = unlisted,
             \/ run'.at \notin Searched \cup {"record"}
             \/ run' = run
             \/ run'.at \in Searched /\ (run'.again \/ Open = {})
      PROVE  BlockersHold'
  BY <1>1, FewerBlockers DEF Open
<1>2. CASE TrackFailure
  <2>1. Open' = Open /\ unlisted' = unlisted /\ blocker' = blocker
    BY <1>2 DEF TrackFailure, Continue, Open, bounds
  <2>2. CASE run' = NoRun
    BY <1>1, <2>1, <2>2 DEF NoRun, Searched
  <2>3. CASE run' # NoRun
    <3>1. run' = [run EXCEPT !.at = "record",
                             !.issue = IF Open = {} THEN Nothing ELSE CHOOSE i \in Open : TRUE]
      BY <1>2, <2>3 DEF TrackFailure, Continue
    <3>2. /\ run'.issue = IF Open = {} THEN Nothing ELSE CHOOSE i \in Open : TRUE
          /\ run'.at = "record"
      BY <1>0, <3>1 DEF Job
    <3>3. run'.issue = Nothing => Open = {}
      BY <3>2, NothingAssumption DEF Open
    <3>4. Open = {} => Cardinality(Open) = 0
      BY FS_EmptySet
    <3>5. QED
      BY <1>0, <2>1, <3>2, <3>3, <3>4 DEF BlockersHold, Searched
  <2>4. QED
    BY <2>2, <2>3
<1>3. CASE LoseListing
  <2>1. /\ run.at = "track" /\ blocker' = blocker
        /\ unlisted' = IF run.again THEN unlisted + 1 ELSE unlisted
        /\ run'.at = "record"
    BY <1>0, <1>3 DEF LoseListing, Job
  <2>2. Open' = Open
    BY <2>1 DEF Open
  <2>3. Cardinality(Open) <= unlisted'
    <3>1. CASE run.again
      BY <1>0, <2>1, <3>1 DEF BlockersHold
    <3>2. CASE ~ run.again
      <4>1. Open = {}
        BY <1>0, <2>1, <3>2 DEF BlockersHold, Searched
      <4>2. QED
        BY <1>0, <2>1, <3>2, <4>1, FS_EmptySet
    <3>3. QED
      BY <3>1, <3>2
  <2>4. unlisted' \in Nat
    BY <1>0, <2>1
  <2>5. QED
    BY <1>0, <2>1, <2>2, <2>3, <2>4 DEF BlockersHold, Searched
<1>4. CASE RecordFailure
  <2>1. run' = NoRun /\ run.at = "record" /\ unlisted' = unlisted
    BY <1>4 DEF RecordFailure, bounds
  <2>2. run'.at \notin Searched \cup {"record"}
    BY <2>1 DEF NoRun, Searched
  <2>3. CASE run.issue # Nothing
    <3>1. Open' \subseteq Open
      BY <1>0, <1>4, <2>1, <2>3, RewriteOpensNone DEF RecordFailure
    <3>2. QED
      BY <2>1, <2>2, <3>1, FewerBlockers
  <2>4. CASE run.issue = Nothing
    <3>1. PICK i \in Issue \ Open : blocker' = [blocker EXCEPT ![i] = run.target]
      BY <1>4, <2>4 DEF RecordFailure
    <3>2. Open' \subseteq Open \cup {i}
      BY <1>0, <3>1 DEF Open, WatchTypeOK
    <3>3. IsFiniteSet(Open') /\ Cardinality(Open') \in Nat /\ Cardinality(Open') <= Cardinality(Open) + 1
      <4>1. IsFiniteSet(Open \cup {i}) /\ Cardinality(Open \cup {i}) = Cardinality(Open) + 1
        BY <1>0, <3>1, FS_AddElement
      <4>2. QED
        BY <3>2, <4>1, FS_Subset, FS_CardinalityType
    <3>4. Cardinality(Open) <= unlisted
      BY <1>0, <2>1, <2>4 DEF BlockersHold
    <3>5. QED
      BY <1>0, <2>1, <2>2, <3>3, <3>4 DEF BlockersHold
  <2>5. QED
    BY <2>3, <2>4
<1>5. CASE UpdateBlocker
  <2>1. Open' \subseteq Open /\ unlisted' = unlisted
    BY <1>0, <1>5, RewriteOpensNone DEF UpdateBlocker, bounds
  <2>2. run'.at \notin Searched \cup {"record"}
    BY <1>5 DEF UpdateBlocker, NoRun, Searched
  <2>3. QED
    BY <2>1, <2>2, FewerBlockers
<1>6. ASSUME NEW v \in Release, Support(v) PROVE BlockersHold'
  BY <1>6, FewerBlockers DEF Support, Open
<1>7. ASSUME NEW i \in Issue, CloseBlocker(i) PROVE BlockersHold'
  BY <1>0, <1>7, FewerBlockers DEF CloseBlocker, Open, WatchTypeOK
<1>8. CASE StartRun
  BY <1>1, <1>8 DEF StartRun, WatchIInv, RunsHold, Fresh, Searched, bounds
<1>9. CASE GetLatest \/ GetRelease \/ ViewBlocker
  <2>1. /\ [run EXCEPT !.at = "release", !.target = upstream].at = "release"
        /\ \A l \in {"issues", "update"} : [run EXCEPT !.at = l].at = l
    BY <1>0 DEF Job
  <2>2. run'.at \in {"idle", "release", "issues", "update"}
    <3>1. run' \in {NoRun, [run EXCEPT !.at = "release", !.target = upstream],
                   [run EXCEPT !.at = "issues"], [run EXCEPT !.at = "update"]}
      BY <1>9 DEF GetLatest, GetRelease, ViewBlocker, Continue
    <3>2. QED
      BY <2>1, <3>1, EndedHolds
  <2>3. run'.at \notin Searched \cup {"record"}
    BY <2>2 DEF Searched
  <2>4. blocker' = blocker /\ unlisted' = unlisted
    BY <1>9 DEF GetLatest, GetRelease, ViewBlocker, Continue, bounds
  <2>5. QED
    BY <1>1, <2>3, <2>4
<1>10. CASE GetIssues
  <2>1. blocker' = blocker /\ unlisted' = unlisted
    BY <1>10 DEF GetIssues, Continue, bounds
  <2>2. ASSUME NEW i PROVE [run EXCEPT !.at = "view", !.issue = i].at = "view"
    BY <1>0 DEF Job
  <2>3. [run EXCEPT !.at = "pulls"].at = "pulls"
    BY <1>0 DEF Job
  <2>4. CASE Open = {}
    <3>1. Cardinality(Open) = 0
      BY <2>4, FS_EmptySet
    <3>2. run' \in {NoRun, [run EXCEPT !.at = "pulls"]}
      BY <1>10, <2>4, <3>1 DEF GetIssues, Continue
    <3>3. run'.at = "idle" \/ run'.at = "pulls"
      BY <2>3, <3>2, EndedHolds
    <3>4. QED
      BY <1>1, <2>1, <2>4, <3>3 DEF Searched
  <2>5. CASE Open # {}
    <3>1. run' = NoRun \/ \E i : run' = [run EXCEPT !.at = "view", !.issue = i]
      <4>1. CASE Cardinality(Open) > 1
        BY <1>10, <2>5, <4>1 DEF GetIssues, Continue
      <4>2. CASE ~ (Cardinality(Open) > 1)
        BY <1>10, <2>5, <4>2 DEF GetIssues, Continue
      <4>3. QED
        BY <4>1, <4>2
    <3>2. run'.at = "idle" \/ run'.at = "view"
      BY <2>2, <3>1, EndedHolds
    <3>3. QED
      BY <1>1, <2>1, <3>2 DEF Searched
  <2>6. QED
    BY <2>4, <2>5
<1>11. CASE GetPulls \/ Port \/ Push \/ CreatePull
  <2>1. \A l \in {"port", "push", "create"} :
          [run EXCEPT !.at = l].at = l /\ [run EXCEPT !.at = l].again = run.again
    BY <1>0 DEF Job
  <2>2. /\ run' \in {NoRun, Failing, [run EXCEPT !.at = "port"], [run EXCEPT !.at = "push"],
                     [run EXCEPT !.at = "create"]}
        /\ blocker' = blocker /\ unlisted' = unlisted
        /\ run.at \in {"pulls", "port", "push", "create"}
    BY <1>11 DEF GetPulls, Port, Push, CreatePull, Report, Continue, bounds
  <2>3. Failing.at = "track" /\ Failing.again = run.again
    BY DEF Failing, Run
  <2>4. run'.at = "idle" \/ (run'.at \in Searched /\ run'.again = run.again)
    <3>1. run'.at \in {"idle", "port", "push", "create", "track"}
      BY <2>1, <2>2, <2>3, EndedHolds
    <3>2. run'.again = run.again \/ run'.at = "idle"
      BY <2>1, <2>2, <2>3, EndedHolds
    <3>3. QED
      BY <3>1, <3>2 DEF Searched
  <2>5. run.again \/ Open = {}
    BY <1>0, <2>2 DEF BlockersHold, Searched, Job
  <2>6. run.again => run'.at = "idle" \/ run'.again
    BY <2>4
  <2>7. run'.at = "idle" => run'.at \notin Searched \cup {"record"}
    BY DEF Searched
  <2>8. QED
    BY <1>1, <2>2, <2>4, <2>5, <2>6, <2>7
<1>12. CASE Die
  BY <1>1, <1>12 DEF Die, NoRun, Searched
<1>13. CASE UNCHANGED <<blocker, run, unlisted>>
  BY <1>1, <1>13
<1>14. QED
  BY <1>2, <1>3, <1>4, <1>5, <1>6, <1>7, <1>8, <1>9, <1>10, <1>11, <1>12, <1>13
  DEF WatchNext, RunStep, Trigger, Rerun, ReleaseUpstream, ClosePull, Tag, Publish, Repair, bounds

(* A branch under review is neither replaced nor removed. *)
LEMMA CandidateStays ==
  ASSUME WatchIInv, [WatchNext]_watchVars, NEW v \in Release, v \in pulls, v \in pulls'
  PROVE  branch'[v] = branch[v]
<1>0. branch[v] # Nothing /\ branch \in [Release -> (SUBSET Release) \cup {Nothing}]
  BY DEF WatchIInv, CandidatesHold, WatchTypeOK
<1>1. CASE Push
  BY <1>0, <1>1 DEF Push
<1>2. ASSUME NEW w \in Release, Support(w) PROVE branch'[v] = branch[v]
  BY <1>0, <1>2 DEF Support
<1>3. ASSUME NEW w \in Release, ClosePull(w) PROVE branch'[v] = branch[v]
  BY <1>0, <1>3 DEF ClosePull
<1>4. CASE UNCHANGED branch
  BY <1>4
<1>5. QED
  BY <1>1, <1>2, <1>3, <1>4
  DEF WatchNext, RunStep, watchVars, candidates, Trigger, Rerun, StartRun, Die, GetLatest, GetRelease,
      GetIssues, GetPulls, ViewBlocker, Continue, UpdateBlocker, Port, CreatePull, TrackFailure,
      LoseListing, RecordFailure, ReleaseUpstream, Tag, Publish, Repair, CloseBlocker

LEMMA CandidatesStep ==
  ASSUME WatchIInv, WatchNext
  PROVE  CandidatesHold'
<1>1. ASSUME NEW v \in pulls', v \notin pulls PROVE branch'[v] # Nothing
  BY <1>1
  DEF WatchNext, RunStep, candidates, Trigger, Rerun, StartRun, Die, GetLatest, GetRelease, GetIssues,
      GetPulls, ViewBlocker, Continue, UpdateBlocker, Port, Push, CreatePull, TrackFailure,
      LoseListing, RecordFailure, ReleaseUpstream, Support, ClosePull, Tag, Publish, Repair, CloseBlocker
<1>2. ASSUME NEW v \in pulls', v \in pulls PROVE branch'[v] # Nothing
  <2>1. v \in Release
    BY <1>2 DEF WatchIInv, WatchTypeOK
  <2>2. branch'[v] = branch[v]
    BY <1>2, <2>1, CandidateStays
  <2>3. QED
    BY <1>2, <2>2 DEF WatchIInv, CandidatesHold
<1>3. QED
  BY <1>1, <1>2 DEF CandidatesHold

LEMMA WatchNextIInv ==
  ASSUME WatchIInv, [WatchNext]_watchVars
  PROVE  WatchIInv'
<1>1. CASE WatchNext
  BY <1>1, RunsStep, WatchTypeStep, BlockersStep, CandidatesStep DEF WatchIInv
<1>2. CASE UNCHANGED watchVars
  BY <1>2 DEF watchVars, origin, candidates, bounds, WatchIInv, WatchTypeOK, RunsHold, BlockersHold, Open,
              CandidatesHold, Searched
<1>3. QED
  BY <1>1, <1>2

-----------------------------------------------------------------------------
(* What follows.                                                            *)

(* The invariant holds in every reachable state. *)
THEOREM WatchInductive == WatchSpec => []WatchIInv
<1>1. WatchIInv /\ [WatchNext]_watchVars => WatchIInv'
  BY WatchNextIInv
<1>2. QED
  BY WatchInitIInv, <1>1, PTL DEF WatchSpec

(* Every blocker but one costs a repeated run that lost the listing. *)
THEOREM BlockersAreSearched == WatchSpec => []OneBlocker
<1>1. WatchIInv => OneBlocker
  BY DEF WatchIInv, BlockersHold, OneBlocker
<1>2. QED
  BY WatchInductive, <1>1, PTL

(* No run replaces a candidate while it is under review. *)
THEOREM CandidatesAreFinal == WatchSpec => CandidateIsFinal
<1>1. WatchIInv /\ [WatchNext]_watchVars =>
        [\A v \in Release : v \in pulls /\ v \in pulls' => branch'[v] = branch[v]]_watchVars
  BY CandidateStays
<1>2. QED
  BY WatchInductive, <1>1, PTL DEF WatchSpec, CandidateIsFinal
=============================================================================
