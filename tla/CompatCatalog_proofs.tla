------------------------ MODULE CompatCatalog_proofs ------------------------
(* Safety of the compatibility catalog for every set of compatibilities, files,
   paths, executables and reports. *)
EXTENDS CompatCatalog, TLAPS

(* The evidence of an acceptance: an executable that was built from its profile
   and runtime lock; from p14 on also from its manifest, and reported on. *)
Evident(acceptance) ==
  LET record == built[acceptance.artifact] IN
  /\ record # Absent
  /\ record.compat = acceptance.compat
  /\ record.profile = acceptance.profile
  /\ record.runtime = acceptance.runtime
  /\ ReportMatches(acceptance)
  /\ acceptance.compat \in gated =>
       record.manifest = acceptance.manifest /\ acceptance.report \in reports

EntryHolds(c) ==
  entry[c] # Absent =>
    /\ entry[c].accepted <=> entry[c].path # Absent
    /\ entry[c].accepted => Evident(entry[c].acceptance)

(* stage-candidate registers a compatibility that has no entry, with the lock
   that it has written and that only edits have changed since. *)
StagingHolds ==
  cmd.step \in {"lock", "register"} =>
    /\ cmd.compat \in Compat /\ cmd.path \in Path /\ cmd.profile \in Version
    /\ entry[cmd.compat] = Absent
    /\ cmd.step = "register" =>
         file[cmd.path] \in Lock /\ file[cmd.path].compat = cmd.compat

(* accept works on a candidate whose entry nobody else changes; its draft has
   all its evidence, and is what it has written. *)
Accepts == {"hash", "assemble", "write", "bind"}
DraftHolds ==
  LET draft == cmd.acceptance
      e == entry[cmd.compat]
  IN /\ draft \in Acceptance
     /\ draft.compat = cmd.compat /\ draft.profile = e.profile /\ draft.runtime = e.runtime
     /\ cmd.compat \in gated => draft.manifest = e.manifest
     /\ Evident(draft)

AcceptingHolds ==
  cmd.step \in Accepts =>
    /\ cmd.compat \in Compat /\ cmd.path \in Path /\ cmd.artifact \in Artifact
    /\ entry[cmd.compat] # Absent /\ ~entry[cmd.compat].accepted
    /\ Recorded(cmd.artifact, cmd.compat)
    /\ cmd.step \in {"write", "bind"} => DraftHolds
    /\ cmd.step = "bind" => file[cmd.path] = cmd.acceptance

IInv ==
  /\ TypeOK
  /\ \A c \in Compat : EntryHolds(c)
  /\ StagingHolds
  /\ AcceptingHolds

-----------------------------------------------------------------------------
(* Initially, and what the steps have in common.                            *)

LEMMA InitIInv == Init => IInv
<1>. SUFFICES ASSUME Init PROVE IInv
  OBVIOUS
<1>1. PICK v \in Version, provider \in Provider, stamp \in Stamp :
        LET lock == [compat |-> Base, version |-> v]
            record == [compat |-> Base, manifest |-> manifest[Base], profile |-> profile,
                       runtime |-> lock, provider |-> provider]
            acceptance == [compat |-> Base, artifact |-> BaseArtifact, manifest |-> manifest[Base],
                           profile |-> profile, runtime |-> lock, report |-> Absent,
                           stamp |-> stamp]
        IN /\ file = [p \in Path |-> CASE p = BaseLock -> lock
                                       [] p = BaseAcceptance -> acceptance
                                       [] OTHER -> Absent]
           /\ built = [a \in Artifact |-> IF a = BaseArtifact THEN record ELSE Absent]
           /\ entry = [c \in Compat |->
                IF c # Base THEN Absent
                ELSE [accepted |-> TRUE, manifest |-> manifest[Base], profile |-> profile,
                      lock |-> BaseLock, runtime |-> lock,
                      path |-> BaseAcceptance, acceptance |-> acceptance]]
  BY DEF Init
<1> DEFINE lock == [compat |-> Base, version |-> v]
           record == [compat |-> Base, manifest |-> manifest[Base], profile |-> profile,
                      runtime |-> lock, provider |-> provider]
           acceptance == [compat |-> Base, artifact |-> BaseArtifact, manifest |-> manifest[Base],
                          profile |-> profile, runtime |-> lock, report |-> Absent,
                          stamp |-> stamp]
           e == [accepted |-> TRUE, manifest |-> manifest[Base], profile |-> profile,
                 lock |-> BaseLock, runtime |-> lock, path |-> BaseAcceptance,
                 acceptance |-> acceptance]
<1>2. /\ manifest \in [Compat -> Version] /\ profile \in Version /\ current = Base
      /\ reports = {} /\ cmd = Idle /\ gated \in SUBSET (Compat \ {Base})
  BY DEF Init
<1>3. lock \in Lock /\ record \in Record /\ acceptance \in Acceptance /\ e \in Entry
  <2>1. lock \in Lock
    BY CompatAssumption DEF Lock
  <2>2. record \in Record
    BY <1>2, <2>1, CompatAssumption DEF Record
  <2>3. acceptance \in Acceptance
    BY <1>2, <2>1, CompatAssumption, FileAssumption DEF Acceptance
  <2>4. e \in Entry
    BY <1>2, <2>1, <2>3, CompatAssumption, FileAssumption DEF Entry
  <2>5. QED
    BY <2>1, <2>2, <2>3, <2>4
<1>4. /\ record.compat = Base /\ record.profile = profile /\ record.runtime = lock
      /\ acceptance.compat = Base /\ acceptance.profile = profile /\ acceptance.runtime = lock
      /\ acceptance.artifact = BaseArtifact
      /\ e.accepted = TRUE /\ e.path = BaseAcceptance /\ e.acceptance = acceptance
  OBVIOUS
<1>5. /\ file = [p \in Path |-> CASE p = BaseLock -> lock
                                  [] p = BaseAcceptance -> acceptance
                                  [] OTHER -> Absent]
      /\ built = [a \in Artifact |-> IF a = BaseArtifact THEN record ELSE Absent]
      /\ entry = [c \in Compat |-> IF c # Base THEN Absent ELSE e]
  BY <1>1
<1>. HIDE DEF lock, record, acceptance, e
<1>6. cmd \in Command
  BY <1>2 DEF Idle, Command
<1>7. TypeOK
  <2>1. file \in [Path -> Lock \cup Acceptance \cup {Absent}]
    BY <1>3, <1>5
  <2>2. built \in [Artifact -> Record \cup {Absent}] /\ entry \in [Compat -> Entry \cup {Absent}]
    BY <1>3, <1>5
  <2>3. entry[current] # Absent
    BY <1>2, <1>3, <1>5, CompatAssumption, AbsentAssumption
  <2>4. \A c \in Compat : entry[c] # Absent => (entry[c].accepted <=> entry[c].acceptance # Absent)
    BY <1>3, <1>4, <1>5, AbsentAssumption
  <2>5. QED
    BY <1>2, <1>6, <2>1, <2>2, <2>3, <2>4, CompatAssumption DEF TypeOK
<1>8. ASSUME NEW c \in Compat PROVE EntryHolds(c)
  <2>1. CASE c = Base
    <3>1. entry[c] = e /\ built[BaseArtifact] = record
      BY <1>5, <2>1, FileAssumption
    <3>2. Base \notin gated
      BY <1>2
    <3>3. Evident(acceptance)
      BY <1>3, <1>4, <3>1, <3>2, AbsentAssumption DEF Evident, ReportMatches
    <3>4. QED
      BY <1>4, <3>1, <3>3, FileAssumption, AbsentAssumption DEF EntryHolds
  <2>2. CASE c # Base
    BY <1>5, <2>2 DEF EntryHolds
  <2>3. QED
    BY <2>1, <2>2
<1>9. StagingHolds /\ AcceptingHolds
  BY <1>2 DEF StagingHolds, AcceptingHolds, Accepts, Idle
<1>10. QED
  BY <1>7, <1>8, <1>9 DEF IInv

LEMMA LockIsNoAcceptance ==
  ASSUME NEW x \in Lock
  PROVE  x \notin Acceptance
<1>1. DOMAIN x = {"compat", "version"}
  BY DEF Lock
<1>2. ASSUME x \in Acceptance PROVE "artifact" \in DOMAIN x
  BY <1>2 DEF Acceptance
<1>3. QED
  BY <1>1, <1>2

(* Records of builds and reports are only added, and who needs one is settled. *)
EvidenceGrows ==
  /\ \A a \in Artifact : built[a] # Absent => built'[a] = built[a]
  /\ reports \subseteq reports'
  /\ gated' = gated

LEMMA EvidenceStays ==
  ASSUME EvidenceGrows, NEW acceptance \in Acceptance, Evident(acceptance)
  PROVE  Evident(acceptance)'
<1>1. acceptance.artifact \in Artifact
  BY DEF Acceptance
<1>2. built'[acceptance.artifact] = built[acceptance.artifact]
  BY <1>1 DEF EvidenceGrows, Evident
<1>3. QED
  BY <1>2 DEF EvidenceGrows, Evident, ReportMatches

(* Entries that no step touches. *)
LEMMA EntryStays ==
  ASSUME IInv, EvidenceGrows, NEW c \in Compat, entry'[c] = entry[c]
  PROVE  EntryHolds(c)'
<1>1. CASE entry[c] # Absent /\ entry[c].accepted
  <2>1. entry[c].acceptance \in Acceptance /\ EntryHolds(c)
    BY <1>1 DEF IInv, TypeOK, Entry
  <2>2. PICK acceptance \in Acceptance : acceptance = entry[c].acceptance /\ Evident(acceptance)
    BY <1>1, <2>1 DEF EntryHolds
  <2>3. Evident(acceptance)'
    BY <2>2, EvidenceStays
  <2>4. acceptance = entry'[c].acceptance
    BY <2>2
  <2>5. Evident(entry[c].acceptance)'
    BY <2>3, <2>4 DEF Evident, ReportMatches
  <2>6. QED
    BY <1>1, <2>1, <2>5 DEF EntryHolds
<1>2. CASE ~ (entry[c] # Absent /\ entry[c].accepted)
  BY <1>2 DEF IInv, EntryHolds
<1>3. QED
  BY <1>1, <1>2
-----------------------------------------------------------------------------
(* Types.                                                                   *)

LEMMA IdleTyped == Idle \in Command
BY DEF Idle, Command

(* What a resolved compatibility names is there. *)
LEMMA ResolvedTyped ==
  ASSUME TypeOK, NEW c \in Compat, Resolves(c)
  PROVE  /\ entry[c] \in Entry /\ entry[c].lock \in Path
         /\ file[entry[c].lock] = entry[c].runtime /\ entry[c].runtime \in Lock
<1>1. entry[c] \in Entry
  BY DEF TypeOK, Resolves
<1>2. entry[c].lock \in Path /\ entry[c].runtime \in Lock
  BY <1>1 DEF Entry
<1>3. QED
  BY <1>1, <1>2 DEF Resolves

LEMMA NextTyped ==
  ASSUME IInv, Next
  PROVE  TypeOK'
<1>. USE DEF index, builds
<1>0. /\ TypeOK /\ cmd \in Command /\ StagingHolds /\ AcceptingHolds
      /\ \A p \in Path : file[p] \in Lock \cup Acceptance \cup {Absent}
      /\ \A c \in Compat : entry[c] # Absent => entry[c] \in Entry
      /\ \A a \in Artifact : built[a] # Absent => built[a] \in Record
  BY DEF IInv, TypeOK
<1>1. ASSUME NEW a \in Artifact, NEW c \in Compat, Build(a, c) PROVE TypeOK'
  <2>1. PICK provider \in Provider :
          built' = [built EXCEPT ![a] = [compat |-> c, manifest |-> manifest[c], profile |-> profile,
                                         runtime |-> file[entry[c].lock], provider |-> provider]]
    BY <1>1 DEF Build
  <2>2. file[entry[c].lock] \in Lock /\ manifest[c] \in Version /\ profile \in Version
    BY <1>0, <1>1, ResolvedTyped DEF Build, TypeOK
  <2>3. [compat |-> c, manifest |-> manifest[c], profile |-> profile,
         runtime |-> file[entry[c].lock], provider |-> provider] \in Record
    BY <2>2 DEF Record
  <2>4. built' \in [Artifact -> Record \cup {Absent}]
    BY <1>0, <2>1, <2>3 DEF TypeOK
  <2>5. QED
    BY <1>0, <1>1, <2>4 DEF Build, TypeOK
<1>2. ASSUME NEW a \in Artifact, ColdUnplug(a) PROVE TypeOK'
  <2> DEFINE c == built[a].compat
  <2>1. built[a] \in Record /\ c \in Compat /\ Resolves(c)
    BY <1>0, <1>2 DEF ColdUnplug, Record
  <2>2. file[entry[c].lock] \in Lock /\ manifest[c] \in Version /\ profile \in Version
    BY <1>0, <2>1, ResolvedTyped DEF TypeOK
  <2>3. [artifact |-> a, manifest |-> manifest[c], profile |-> profile,
         runtime |-> file[entry[c].lock]] \in Report
    BY <2>2 DEF Report
  <2>4. reports' \subseteq Report
    BY <1>0, <1>2, <2>3 DEF ColdUnplug, TypeOK
  <2>5. QED
    BY <1>0, <1>2, <2>4 DEF ColdUnplug, TypeOK
<1>3. ASSUME NEW c \in Compat, EditManifest(c) PROVE TypeOK'
  BY <1>0, <1>3 DEF EditManifest, TypeOK
<1>4. CASE EditProfile
  BY <1>0, <1>4 DEF EditProfile, TypeOK
<1>5. ASSUME NEW p \in Path, EditLock(p) PROVE TypeOK'
  <2>1. PICK v \in Version : file' = [file EXCEPT ![p] = [file[p] EXCEPT !.version = v]]
    BY <1>5 DEF EditLock
  <2>2. [file[p] EXCEPT !.version = v] \in Lock
    BY <1>5 DEF EditLock, Lock
  <2>3. file' \in [Path -> Lock \cup Acceptance \cup {Absent}]
    BY <1>0, <2>1, <2>2 DEF TypeOK
  <2>4. QED
    BY <1>0, <1>5, <2>3 DEF EditLock, TypeOK
<1>6. ASSUME cmd' \in Command, UNCHANGED <<manifest, profile, file, index, builds>> PROVE TypeOK'
  BY <1>0, <1>6 DEF TypeOK
<1>7. ASSUME NEW p \in Path, NEW value \in Lock \cup Acceptance, NEW next \in {"register", "bind"},
             WriteNewOrEqual(p, value, next), UNCHANGED <<manifest, profile, index, builds>>
      PROVE  TypeOK'
  <2>1. file' \in [Path -> Lock \cup Acceptance \cup {Absent}]
    BY <1>0, <1>7 DEF WriteNewOrEqual, TypeOK
  <2>2. cmd' \in Command
    BY <1>0, <1>7, IdleTyped DEF WriteNewOrEqual, Command
  <2>3. QED
    BY <1>0, <1>7, <2>1, <2>2 DEF TypeOK
<1>8. ASSUME NEW c \in Compat, NEW p \in Path, Stage(c, p) PROVE TypeOK'
  <2>1. cmd' \in Command
    BY <1>0, <1>8 DEF Stage, Idle, Command, TypeOK
  <2>2. QED
    BY <1>6, <1>8, <2>1 DEF Stage
<1>9. CASE WriteLock
  <2>1. PICK v \in Version : WriteNewOrEqual(cmd.path, [compat |-> cmd.compat, version |-> v], "register")
    BY <1>9 DEF WriteLock
  <2>2. cmd.path \in Path /\ [compat |-> cmd.compat, version |-> v] \in Lock
    BY <1>0, <1>9 DEF WriteLock, StagingHolds, Lock
  <2>3. QED
    BY <1>7, <1>9, <2>1, <2>2 DEF WriteLock
<1>10. CASE Register
  <2> DEFINE e == [accepted |-> FALSE, manifest |-> manifest[cmd.compat], profile |-> cmd.profile,
                   lock |-> cmd.path, runtime |-> file[cmd.path], path |-> Absent,
                   acceptance |-> Absent]
  <2>1. /\ cmd.compat \in Compat /\ cmd.path \in Path /\ cmd.profile \in Version
        /\ file[cmd.path] \in Lock /\ manifest[cmd.compat] \in Version
    BY <1>0, <1>10 DEF Register, StagingHolds, TypeOK
  <2>2. e \in Entry /\ e.accepted = FALSE /\ e.acceptance = Absent
    BY <2>1 DEF Entry
  <2>3. /\ entry' = [entry EXCEPT ![cmd.compat] = e] /\ cmd' = Idle
        /\ UNCHANGED <<manifest, profile, file, current, builds>>
    BY <1>10 DEF Register
  <2>. HIDE DEF e
  <2>4. entry' \in [Compat -> Entry \cup {Absent}] /\ entry'[current] # Absent
    BY <1>0, <2>1, <2>2, <2>3, AbsentAssumption DEF TypeOK
  <2>5. \A c \in Compat : entry'[c] # Absent =>
          (entry'[c].accepted <=> entry'[c].acceptance # Absent)
    BY <1>0, <2>1, <2>2, <2>3 DEF TypeOK
  <2>6. QED
    BY <1>0, <2>3, <2>4, <2>5, IdleTyped DEF TypeOK
<1>11. ASSUME NEW c \in Compat, NEW a \in Artifact, NEW p \in Path, NEW promote \in BOOLEAN,
              Accept(c, a, p, promote)
       PROVE  TypeOK'
  <2>1. cmd' \in Command
    BY <1>11 DEF Accept, Accepting, Idle, Command
  <2>2. QED
    BY <1>6, <1>11, <2>1 DEF Accept, Accepting
<1>12. CASE HashInputs
  <2>1. cmd' \in Command
    BY <1>0, <1>12, IdleTyped DEF HashInputs, Command
  <2>2. QED
    BY <1>6, <1>12, <2>1 DEF HashInputs
<1>13. CASE Assemble
  <2>1. PICK report \in reports \cup {Absent}, stamp \in Stamp :
          cmd' = IF ReportMatches(Draft(report, stamp)) /\ Provenance(cmd.artifact)
                   THEN [cmd EXCEPT !.step = "write", !.acceptance = Draft(report, stamp)]
                   ELSE Idle
    BY <1>13 DEF Assemble
  <2>2. /\ cmd.compat \in Compat /\ cmd.artifact \in Artifact /\ entry[cmd.compat] \in Entry
        /\ manifest[cmd.compat] \in Version /\ report \in Report \cup {Absent}
    BY <1>0, <1>13 DEF Assemble, AcceptingHolds, Accepts, TypeOK
  <2>3. entry[cmd.compat].profile \in Version /\ entry[cmd.compat].runtime \in Lock
    BY <2>2 DEF Entry
  <2>4. Draft(report, stamp) \in Acceptance
    BY <2>2, <2>3 DEF Draft, Acceptance
  <2>5. cmd' \in Command
    BY <1>0, <2>1, <2>4, IdleTyped DEF Command
  <2>6. QED
    BY <1>6, <1>13, <2>5 DEF Assemble
<1>14. CASE WriteAcceptance
  <2>1. cmd.path \in Path /\ cmd.acceptance \in Acceptance
    BY <1>0, <1>14 DEF WriteAcceptance, AcceptingHolds, Accepts, DraftHolds
  <2>2. QED
    BY <1>7, <1>14, <2>1 DEF WriteAcceptance
<1>15. CASE Bind
  <2>1. /\ cmd.compat \in Compat /\ cmd.path \in Path /\ entry[cmd.compat] \in Entry
        /\ file[cmd.path] = cmd.acceptance /\ cmd.acceptance \in Acceptance
    BY <1>0, <1>15 DEF Bind, AcceptingHolds, Accepts, DraftHolds
  <2>2. cmd.acceptance.manifest \in Version
    BY <2>1 DEF Acceptance
  <2> DEFINE e == [entry[cmd.compat] EXCEPT !.accepted = TRUE, !.manifest = cmd.acceptance.manifest,
                                            !.path = cmd.path, !.acceptance = file[cmd.path]]
  <2>3. e \in Entry /\ e.accepted = TRUE /\ e.acceptance = cmd.acceptance
    BY <2>1, <2>2 DEF Entry
  <2>4. /\ entry' = [entry EXCEPT ![cmd.compat] = e] /\ cmd' = Idle
        /\ current' \in {current, cmd.compat}
        /\ UNCHANGED <<manifest, profile, file, builds>>
    BY <1>15 DEF Bind
  <2>. HIDE DEF e
  <2>5. /\ entry' \in [Compat -> Entry \cup {Absent}]
        /\ current' \in Compat /\ entry'[current'] # Absent
    BY <1>0, <2>1, <2>3, <2>4, AbsentAssumption DEF TypeOK
  <2>6. \A c \in Compat : entry'[c] # Absent =>
          (entry'[c].accepted <=> entry'[c].acceptance # Absent)
    BY <1>0, <2>1, <2>3, <2>4, AbsentAssumption DEF TypeOK
  <2>7. QED
    BY <1>0, <2>4, <2>5, <2>6, IdleTyped DEF TypeOK
<1>16. CASE Stop
  BY <1>6, <1>16, IdleTyped DEF Stop
<1>17. QED
  BY <1>1, <1>2, <1>3, <1>4, <1>5, <1>8, <1>9, <1>10, <1>11, <1>12, <1>13, <1>14, <1>15, <1>16
  DEF Next
-----------------------------------------------------------------------------
(* The steps.                                                               *)

(* Builds, reports and edits leave the index and the command alone; an edit of
   a lock keeps its compatibility. *)
LEMMA OthersHold ==
  ASSUME IInv, TypeOK', EvidenceGrows, cmd' = cmd, UNCHANGED index,
         \A p \in Path : \/ file'[p] = file[p]
                         \/ /\ file[p] \in Lock /\ file'[p] \in Lock
                            /\ file'[p].compat = file[p].compat
  PROVE  IInv'
<1>1. cmd' = cmd /\ entry' = entry
  BY DEF index
<1>2. \A c \in Compat : EntryHolds(c)'
  BY <1>1, EntryStays
<1>3. StagingHolds'
  BY <1>1 DEF IInv, StagingHolds
<1>4. AcceptingHolds'
  <2>1. SUFFICES ASSUME cmd.step \in Accepts PROVE AcceptingHolds'
    BY <1>1 DEF AcceptingHolds
  <2>2. /\ cmd.compat \in Compat /\ cmd.path \in Path /\ cmd.artifact \in Artifact
        /\ entry[cmd.compat] # Absent /\ ~entry[cmd.compat].accepted
        /\ Recorded(cmd.artifact, cmd.compat)
        /\ cmd.step \in {"write", "bind"} => DraftHolds
        /\ cmd.step = "bind" => file[cmd.path] = cmd.acceptance
    BY <2>1 DEF IInv, AcceptingHolds
  <2>3. Recorded(cmd.artifact, cmd.compat)'
    BY <1>1, <2>2 DEF Recorded, EvidenceGrows
  <2>4. cmd.step \in {"write", "bind"} => DraftHolds'
    <3>1. SUFFICES ASSUME DraftHolds PROVE DraftHolds'
      BY <2>2
    <3>2. PICK draft \in Acceptance : draft = cmd.acceptance /\ Evident(draft)
      BY <3>1 DEF DraftHolds
    <3>3. Evident(draft)'
      BY <3>2, EvidenceStays
    <3>4. Evident(cmd.acceptance)'
      BY <1>1, <3>2, <3>3 DEF Evident, ReportMatches
    <3>5. QED
      BY <1>1, <3>1, <3>4 DEF DraftHolds, EvidenceGrows
  <2>5. cmd.step = "bind" => file'[cmd.path] = cmd.acceptance
    <3>1. cmd.step = "bind" => file[cmd.path] \in Acceptance
      BY <2>2 DEF DraftHolds
    <3>2. QED
      BY <2>2, <3>1, LockIsNoAcceptance
  <2>6. QED
    BY <1>1, <2>2, <2>3, <2>4, <2>5 DEF AcceptingHolds
<1>5. QED
  BY <1>2, <1>3, <1>4 DEF IInv

(* A command that ends without the index has done nothing. *)
LEMMA EndHolds ==
  ASSUME IInv, TypeOK', cmd' = Idle, UNCHANGED <<index, builds>>
  PROVE  IInv'
<1>1. EvidenceGrows /\ entry' = entry
  BY DEF EvidenceGrows, index, builds
<1>2. \A c \in Compat : EntryHolds(c)'
  BY <1>1, EntryStays
<1>3. StagingHolds' /\ AcceptingHolds'
  BY DEF StagingHolds, AcceptingHolds, Accepts, Idle
<1>4. QED
  BY <1>2, <1>3 DEF IInv

LEMMA NextIInv ==
  ASSUME IInv, [Next]_vars
  PROVE  IInv'
<1>0. /\ TypeOK /\ cmd \in Command /\ StagingHolds /\ AcceptingHolds
      /\ \A c \in Compat : EntryHolds(c)
  BY DEF IInv, TypeOK
<1>1. CASE UNCHANGED vars
  <2>1. TypeOK'
    BY <1>0, <1>1 DEF TypeOK, vars, index, builds
  <2>2. EvidenceGrows
    BY <1>1 DEF vars, builds, EvidenceGrows
  <2>3. QED
    BY <1>1, <2>1, <2>2, OthersHold DEF vars
<1>2. ASSUME Next PROVE IInv'
  <2>0. TypeOK'
    BY <1>2, NextTyped
  <2>1. ASSUME NEW a \in Artifact, NEW c \in Compat, Build(a, c) PROVE IInv'
    <3>1. EvidenceGrows
      BY <1>0, <2>1 DEF Build, EvidenceGrows, TypeOK
    <3>2. QED
      BY <2>0, <2>1, <3>1, OthersHold DEF Build
  <2>2. ASSUME NEW a \in Artifact, ColdUnplug(a) PROVE IInv'
    <3>1. EvidenceGrows
      BY <2>2 DEF ColdUnplug, EvidenceGrows
    <3>2. QED
      BY <2>0, <2>2, <3>1, OthersHold DEF ColdUnplug
  <2>3. ASSUME UNCHANGED <<file, index, builds, cmd>> PROVE IInv'
    <3>1. EvidenceGrows
      BY <2>3 DEF builds, EvidenceGrows
    <3>2. QED
      BY <2>0, <2>3, <3>1, OthersHold
  <2>4. ASSUME NEW p \in Path, EditLock(p) PROVE IInv'
    <3>1. EvidenceGrows
      BY <2>4 DEF EditLock, builds, EvidenceGrows
    <3>2. PICK v \in Version : file' = [file EXCEPT ![p] = [file[p] EXCEPT !.version = v]]
      BY <2>4 DEF EditLock
    <3>3. /\ [file[p] EXCEPT !.version = v] \in Lock
          /\ [file[p] EXCEPT !.version = v].compat = file[p].compat
      BY <2>4 DEF EditLock, Lock
    <3>4. \A q \in Path : file'[q] = IF q = p THEN [file[p] EXCEPT !.version = v] ELSE file[q]
      BY <1>0, <3>2 DEF TypeOK
    <3>5. QED
      BY <2>0, <2>4, <3>1, <3>3, <3>4, OthersHold DEF EditLock
  <2>5. ASSUME UNCHANGED <<index, builds>> PROVE EvidenceGrows /\ \A c \in Compat : EntryHolds(c)'
    <3>1. EvidenceGrows /\ entry' = entry
      BY <2>5 DEF index, builds, EvidenceGrows
    <3>2. QED
      BY <3>1, EntryStays
  <2>6. ASSUME NEW c \in Compat, NEW p \in Path, Stage(c, p) PROVE IInv'
    <3>1. /\ entry' = entry /\ entry[c] = Absent /\ UNCHANGED <<index, builds>> /\ profile \in Version
          /\ cmd' = [Idle EXCEPT !.step = "lock", !.compat = c, !.path = p, !.profile = profile]
      BY <1>0, <2>6 DEF Stage, index, TypeOK
    <3>2. /\ cmd'.step = "lock" /\ cmd'.compat = c /\ cmd'.path = p /\ cmd'.profile = profile
      BY <3>1 DEF Idle
    <3>3. StagingHolds' /\ AcceptingHolds'
      BY <3>1, <3>2 DEF StagingHolds, AcceptingHolds, Accepts
    <3>4. QED
      BY <2>0, <2>5, <3>1, <3>3 DEF IInv
  <2>7. CASE WriteLock
    <3>1. PICK v \in Version :
            WriteNewOrEqual(cmd.path, [compat |-> cmd.compat, version |-> v], "register")
      BY <2>7 DEF WriteLock
    <3> DEFINE lock == [compat |-> cmd.compat, version |-> v]
    <3>2. /\ cmd.compat \in Compat /\ cmd.path \in Path /\ cmd.profile \in Version
          /\ entry[cmd.compat] = Absent /\ lock \in Lock /\ lock.compat = cmd.compat
      BY <1>0, <2>7 DEF WriteLock, StagingHolds, Lock
    <3>3. UNCHANGED <<index, builds>> /\ entry' = entry
      BY <2>7 DEF WriteLock, index
    <3>4. CASE cmd' = Idle
      BY <2>0, <3>3, <3>4, EndHolds
    <3>5. CASE cmd' # Idle
      <4>1. file' = [file EXCEPT ![cmd.path] = lock] /\ cmd' = [cmd EXCEPT !.step = "register"]
        BY <3>1, <3>5 DEF WriteNewOrEqual
      <4>. HIDE DEF lock
      <4>2. /\ cmd'.step = "register" /\ cmd'.compat = cmd.compat /\ cmd'.path = cmd.path
            /\ cmd'.profile = cmd.profile
        BY <1>0, <4>1 DEF Command
      <4>3. file'[cmd.path] = lock
        BY <1>0, <3>2, <4>1 DEF TypeOK
      <4>4. StagingHolds' /\ AcceptingHolds'
        BY <3>2, <3>3, <4>2, <4>3 DEF StagingHolds, AcceptingHolds, Accepts
      <4>5. QED
        BY <2>0, <2>5, <3>3, <4>4 DEF IInv
    <3>6. QED
      BY <3>4, <3>5
  <2>8. CASE Register
    <3> DEFINE e == [accepted |-> FALSE, manifest |-> manifest[cmd.compat], profile |-> cmd.profile,
                     lock |-> cmd.path, runtime |-> file[cmd.path], path |-> Absent,
                     acceptance |-> Absent]
    <3>1. /\ cmd.compat \in Compat /\ entry' = [entry EXCEPT ![cmd.compat] = e] /\ cmd' = Idle
          /\ e.accepted = FALSE /\ e.path = Absent /\ UNCHANGED builds
      BY <1>0, <2>8 DEF Register, StagingHolds
    <3>2. EvidenceGrows
      BY <3>1 DEF builds, EvidenceGrows
    <3>. HIDE DEF e
    <3>3. ASSUME NEW c \in Compat PROVE EntryHolds(c)'
      <4>1. CASE c = cmd.compat
        BY <1>0, <3>1, <4>1 DEF EntryHolds, TypeOK
      <4>2. CASE c # cmd.compat
        <5>1. entry'[c] = entry[c]
          BY <1>0, <3>1, <4>2 DEF TypeOK
        <5>2. QED
          BY <3>2, <5>1, EntryStays
      <4>3. QED
        BY <4>1, <4>2
    <3>4. StagingHolds' /\ AcceptingHolds'
      BY <3>1 DEF StagingHolds, AcceptingHolds, Accepts, Idle
    <3>5. QED
      BY <2>0, <3>3, <3>4 DEF IInv
  <2>9. ASSUME NEW c \in Compat, NEW a \in Artifact, NEW p \in Path, NEW promote \in BOOLEAN,
               Accept(c, a, p, promote)
        PROVE  IInv'
    <3>1. /\ entry[c] # Absent /\ ~entry[c].accepted /\ Recorded(a, c)
          /\ entry' = entry /\ built' = built /\ UNCHANGED <<index, builds>>
          /\ cmd'.step = "hash" /\ cmd'.compat = c /\ cmd'.path = p /\ cmd'.artifact = a
      BY <2>9 DEF Accept, Accepting, Idle, index, builds
    <3>2. Recorded(cmd.artifact, cmd.compat)'
      BY <3>1 DEF Recorded
    <3>3. StagingHolds' /\ AcceptingHolds'
      BY <3>1, <3>2 DEF StagingHolds, AcceptingHolds, Accepts
    <3>4. QED
      BY <2>0, <2>5, <3>1, <3>3 DEF IInv
  <2>10. CASE HashInputs
    <3>1. UNCHANGED <<index, builds>> /\ entry' = entry /\ built' = built
      BY <2>10 DEF HashInputs, index, builds
    <3>2. CASE cmd' = Idle
      BY <2>0, <3>1, <3>2, EndHolds
    <3>3. CASE cmd' # Idle
      <4>1. cmd.step = "hash" /\ cmd' = [cmd EXCEPT !.step = "assemble"]
        BY <2>10, <3>3 DEF HashInputs
      <4>2. /\ cmd'.step = "assemble" /\ cmd'.compat = cmd.compat /\ cmd'.path = cmd.path
            /\ cmd'.artifact = cmd.artifact
        BY <1>0, <4>1 DEF Command
      <4>3. StagingHolds' /\ AcceptingHolds'
        BY <1>0, <3>1, <4>1, <4>2 DEF StagingHolds, AcceptingHolds, Accepts, Recorded
      <4>4. QED
        BY <2>0, <2>5, <3>1, <4>3 DEF IInv
    <3>4. QED
      BY <3>2, <3>3
  <2>11. CASE Assemble
    <3>1. /\ UNCHANGED <<index, builds>> /\ entry' = entry /\ built' = built
          /\ reports' = reports /\ gated' = gated
      BY <2>11 DEF Assemble, index, builds
    <3>2. CASE cmd' = Idle
      BY <2>0, <3>1, <3>2, EndHolds
    <3>3. CASE cmd' # Idle
      <4>1. PICK report \in reports \cup {Absent}, stamp \in Stamp :
              /\ ReportMatches(Draft(report, stamp)) /\ Provenance(cmd.artifact)
              /\ cmd' = [cmd EXCEPT !.step = "write", !.acceptance = Draft(report, stamp)]
        BY <2>11, <3>3 DEF Assemble
      <4>2. /\ cmd.compat \in Compat /\ cmd.path \in Path /\ cmd.artifact \in Artifact
            /\ entry[cmd.compat] # Absent /\ ~entry[cmd.compat].accepted
            /\ Recorded(cmd.artifact, cmd.compat)
            /\ entry[cmd.compat] \in Entry /\ manifest[cmd.compat] \in Version
            /\ report \in Report \cup {Absent}
        BY <1>0, <2>11 DEF Assemble, AcceptingHolds, Accepts, TypeOK
      <4> DEFINE draft == Draft(report, stamp)
      <4>3. /\ draft.compat = cmd.compat /\ draft.artifact = cmd.artifact
            /\ draft.manifest = manifest[cmd.compat] /\ draft.profile = entry[cmd.compat].profile
            /\ draft.runtime = entry[cmd.compat].runtime /\ draft.report = report
        BY DEF Draft
      <4>4. draft \in Acceptance
        <5>1. entry[cmd.compat].profile \in Version /\ entry[cmd.compat].runtime \in Lock
          BY <4>2 DEF Entry
        <5>2. QED
          BY <4>2, <5>1 DEF Draft, Acceptance
      <4>5. draft.compat \in gated => draft.report \in reports
        <5>1. draft.artifact \in Artifact /\ draft.manifest \in Version /\ draft.profile \in Version
              /\ draft.runtime \in Lock
          BY <4>4 DEF Acceptance
        <5>2. draft.compat \in gated => draft.report \in Report
          BY <4>1, <5>1 DEF ReportMatches, Report
        <5>3. QED
          BY <4>1, <4>3, <5>2, AbsentAssumption
      <4>. HIDE DEF draft
      <4>6. Evident(draft)
        BY <4>1, <4>2, <4>3, <4>5 DEF Evident, Recorded, Provenance, draft
      <4>7. cmd.compat \in gated => draft.manifest = entry[cmd.compat].manifest
        BY <4>1, <4>2, <4>3 DEF Recorded, Provenance
      <4>8. /\ cmd'.step = "write" /\ cmd'.compat = cmd.compat /\ cmd'.path = cmd.path
            /\ cmd'.artifact = cmd.artifact /\ cmd'.acceptance = draft
        BY <1>0, <4>1 DEF Command, draft
      <4>9. DraftHolds'
        <5>1. PICK d \in Acceptance : d = draft
          BY <4>4
        <5>2. Evident(d)'
          BY <3>1, <4>6, <5>1 DEF Evident, ReportMatches
        <5>3. Evident(cmd.acceptance)'
          BY <4>8, <5>1, <5>2 DEF Evident, ReportMatches
        <5>4. QED
          BY <3>1, <4>3, <4>4, <4>7, <4>8, <5>3 DEF DraftHolds
      <4>10. StagingHolds' /\ AcceptingHolds'
        BY <3>1, <4>2, <4>8, <4>9 DEF StagingHolds, AcceptingHolds, Accepts, Recorded
      <4>11. QED
        BY <2>0, <2>5, <3>1, <4>10 DEF IInv
    <3>4. QED
      BY <3>2, <3>3
  <2>12. CASE WriteAcceptance
    <3>1. /\ UNCHANGED <<index, builds>> /\ entry' = entry /\ built' = built
          /\ reports' = reports /\ gated' = gated
      BY <2>12 DEF WriteAcceptance, index, builds
    <3>2. CASE cmd' = Idle
      BY <2>0, <3>1, <3>2, EndHolds
    <3>3. CASE cmd' # Idle
      <4>1. /\ cmd.step = "write" /\ file' = [file EXCEPT ![cmd.path] = cmd.acceptance]
            /\ cmd' = [cmd EXCEPT !.step = "bind"]
        BY <2>12, <3>3 DEF WriteAcceptance, WriteNewOrEqual
      <4>2. /\ cmd'.step = "bind" /\ cmd'.compat = cmd.compat /\ cmd'.path = cmd.path
            /\ cmd'.artifact = cmd.artifact /\ cmd'.acceptance = cmd.acceptance
        BY <1>0, <4>1 DEF Command
      <4>3. DraftHolds /\ cmd.path \in Path
        BY <1>0, <4>1 DEF AcceptingHolds, Accepts
      <4>4. DraftHolds'
        BY <3>1, <4>2, <4>3 DEF DraftHolds, Evident, ReportMatches
      <4>5. file'[cmd.path] = cmd.acceptance
        BY <1>0, <4>1, <4>3 DEF TypeOK
      <4>6. StagingHolds' /\ AcceptingHolds'
        BY <1>0, <3>1, <4>1, <4>2, <4>4, <4>5 DEF StagingHolds, AcceptingHolds, Accepts, Recorded
      <4>7. QED
        BY <2>0, <2>5, <3>1, <4>6 DEF IInv
    <3>4. QED
      BY <3>2, <3>3
  <2>13. CASE Bind
    <3>1. /\ cmd.compat \in Compat /\ cmd.path \in Path /\ entry[cmd.compat] \in Entry
          /\ DraftHolds /\ file[cmd.path] = cmd.acceptance
      BY <1>0, <2>13 DEF Bind, AcceptingHolds, Accepts, TypeOK
    <3> DEFINE e == [entry[cmd.compat] EXCEPT !.accepted = TRUE,
                       !.manifest = cmd.acceptance.manifest,
                       !.path = cmd.path, !.acceptance = file[cmd.path]]
    <3>2. /\ entry' = [entry EXCEPT ![cmd.compat] = e] /\ cmd' = Idle /\ UNCHANGED builds
          /\ built' = built /\ reports' = reports /\ gated' = gated
      BY <2>13 DEF Bind, builds
    <3>3. e.accepted = TRUE /\ e.path = cmd.path /\ e.acceptance = cmd.acceptance
      BY <3>1 DEF Entry
    <3>4. EvidenceGrows
      BY <3>2 DEF EvidenceGrows
    <3>. HIDE DEF e
    <3>5. ASSUME NEW c \in Compat PROVE EntryHolds(c)'
      <4>1. CASE c = cmd.compat
        <5>1. entry'[c] = e
          BY <1>0, <3>2, <4>1 DEF TypeOK
        <5>2. Evident(cmd.acceptance)
          BY <3>1 DEF DraftHolds
        <5>3. Evident(entry[c].acceptance)'
          BY <3>2, <3>3, <5>1, <5>2 DEF Evident, ReportMatches
        <5>4. QED
          BY <3>1, <3>3, <5>1, <5>3, AbsentAssumption DEF EntryHolds
      <4>2. CASE c # cmd.compat
        <5>1. entry'[c] = entry[c]
          BY <1>0, <3>2, <4>2 DEF TypeOK
        <5>2. QED
          BY <3>4, <5>1, EntryStays
      <4>3. QED
        BY <4>1, <4>2
    <3>6. StagingHolds' /\ AcceptingHolds'
      BY <3>2 DEF StagingHolds, AcceptingHolds, Accepts, Idle
    <3>7. QED
      BY <2>0, <3>5, <3>6 DEF IInv
  <2>14. CASE Stop
    BY <2>0, <2>14, EndHolds DEF Stop
  <2>15. QED
    BY <1>2, <2>1, <2>2, <2>3, <2>4, <2>6, <2>7, <2>8, <2>9, <2>10, <2>11, <2>12, <2>13, <2>14
    DEF Next, EditManifest, EditProfile
<1>3. QED
  BY <1>1, <1>2
-----------------------------------------------------------------------------
(* What follows.                                                            *)

(* The invariant holds in every reachable state. *)
THEOREM Inductive == Spec => []IInv
<1>1. IInv /\ [Next]_vars => IInv'
  BY NextIInv
<1>2. QED
  BY InitIInv, <1>1, PTL DEF Spec

(* What may be released was built, and from p14 on tested, from the files that
   are there now. *)
THEOREM ReleasesAreTested == Spec => []ReleasedIsTested
<1>1. ASSUME IInv PROVE ReleasedIsTested
  <2>1. ASSUME NEW c \in Compat, Releasable(c)
        PROVE  LET a == entry[c].acceptance.artifact
                   now == [manifest |-> manifest[c], profile |-> profile,
                           runtime |-> file[entry[c].lock]]
               IN /\ built[a] # Absent /\ built[a].compat = c
                  /\ built[a].profile = now.profile /\ built[a].runtime = now.runtime
                  /\ c \in gated =>
                       /\ built[a].manifest = now.manifest
                       /\ [artifact |-> a, manifest |-> now.manifest, profile |-> now.profile,
                           runtime |-> now.runtime] \in reports
    <3> DEFINE acceptance == entry[c].acceptance
    <3>1. /\ acceptance.compat = c /\ acceptance.manifest = manifest[c]
          /\ acceptance.profile = profile /\ acceptance.runtime = file[entry[c].lock]
      BY <2>1 DEF Releasable, Resolves
    <3>2. Evident(acceptance)
      BY <1>1, <2>1 DEF IInv, EntryHolds, Releasable, Resolves
    <3>. HIDE DEF acceptance
    <3>3. c \in gated => [artifact |-> acceptance.artifact, manifest |-> manifest[c],
                          profile |-> profile, runtime |-> file[entry[c].lock]] \in reports
      BY <3>1, <3>2 DEF Evident, ReportMatches
    <3>4. QED
      BY <3>1, <3>2, <3>3 DEF Evident, acceptance
  <2>2. QED
    BY <1>1, <2>1 DEF IInv, ReleasedIsTested
<1>2. IInv => ReleasedIsTested
  BY <1>1
<1>3. QED
  BY Inductive, <1>2, PTL

LEMMA AcceptedStays ==
  ASSUME IInv, [Next]_vars, NEW c \in Compat, entry[c] # Absent, entry[c].accepted
  PROVE  entry'[c] = entry[c]
<1>1. CASE Register
  BY <1>1 DEF Register, IInv, TypeOK, StagingHolds
<1>2. CASE Bind
  <2>1. c # cmd.compat
    BY <1>2 DEF Bind, IInv, AcceptingHolds, Accepts
  <2>2. QED
    BY <1>2, <2>1 DEF Bind, IInv, TypeOK
<1>3. CASE UNCHANGED entry
  BY <1>3
<1>4. QED
  BY <1>1, <1>2, <1>3
  DEF Next, vars, index, Build, ColdUnplug, EditManifest, EditProfile, EditLock, Stage,
      WriteLock, Accept, Accepting, HashInputs, Assemble, WriteAcceptance, Stop

(* Nothing revises the entry of an accepted compatibility. *)
THEOREM AcceptancesAreFinal == Spec => AcceptanceIsFinal
<1>1. IInv /\ [Next]_vars =>
        [\A c \in Compat : entry[c] # Absent /\ entry[c].accepted => entry'[c] = entry[c]]_vars
  BY AcceptedStays
<1>2. QED
  BY Inductive, <1>1, PTL DEF Spec, AcceptanceIsFinal

LEMMA WriteBreaksNothing ==
  ASSUME IInv, NEW c \in Compat, Resolves(c), NEW p \in Path,
         NEW value, NEW next, WriteNewOrEqual(p, value, next),
         UNCHANGED <<manifest, profile, index, builds>>
  PROVE  Resolves(c)'
<1>1. /\ entry' = entry /\ manifest' = manifest /\ profile' = profile /\ gated' = gated
      /\ file \in [Path -> Lock \cup Acceptance \cup {Absent}]
  BY DEF index, builds, IInv, TypeOK
<1>2. \A q \in Path : file[q] # Absent => file'[q] = file[q]
  BY <1>1 DEF WriteNewOrEqual
<1>3. /\ entry[c].lock \in Path /\ file[entry[c].lock] \in Lock
  BY ResolvedTyped DEF IInv
<1>4. file'[entry[c].lock] = file[entry[c].lock]
  BY <1>2, <1>3, AbsentAssumption
<1>5. ASSUME entry[c].path # Absent PROVE file'[entry[c].path] = file[entry[c].path]
  <2>1. entry[c] # Absent /\ entry[c] \in Entry
    BY ResolvedTyped, AbsentAssumption DEF IInv
  <2>2. entry[c].path \in Path /\ entry[c].acceptance # Absent
    BY <1>5, <2>1 DEF IInv, TypeOK, EntryHolds, Entry
  <2>3. file[entry[c].path] = entry[c].acceptance
    BY <1>5 DEF Resolves
  <2>4. QED
    BY <1>2, <2>2, <2>3
<1>6. QED
  BY <1>1, <1>4, <1>5 DEF Resolves, ReportMatches

(* No step of a command makes a compatibility unresolvable, unless it accepts
   one that needs no report and whose manifest was another when the command
   hashed it. *)
THEOREM CommandsAreHarmless == Spec => CommandsBreakNothing
<1>1. ASSUME IInv, [Next]_vars, cmd' # cmd, NEW c \in Compat, Resolves(c), ~BindsAnother(c)
      PROVE  Resolves(c)'
  <2>1. CASE UNCHANGED <<manifest, profile, file, entry, gated>>
    BY <1>1, <2>1 DEF Resolves, ReportMatches
  <2>2. CASE WriteLock
    <3>1. cmd.path \in Path
      BY <1>1, <2>2 DEF WriteLock, IInv, StagingHolds
    <3>2. QED
      BY <1>1, <2>2, <3>1, WriteBreaksNothing DEF WriteLock
  <2>3. CASE WriteAcceptance
    <3>1. cmd.path \in Path
      BY <1>1, <2>3 DEF WriteAcceptance, IInv, AcceptingHolds, Accepts
    <3>2. QED
      BY <1>1, <2>3, <3>1, WriteBreaksNothing DEF WriteAcceptance
  <2>4. CASE Register
    <3>1. c # cmd.compat
      BY <1>1, <2>4 DEF Register, IInv, StagingHolds, Resolves
    <3>2. entry'[c] = entry[c]
      BY <1>1, <2>4, <3>1 DEF Register, IInv, TypeOK
    <3>3. UNCHANGED <<manifest, profile, file, gated>>
      BY <2>4 DEF Register, builds
    <3>4. QED
      BY <1>1, <3>2, <3>3 DEF Resolves, ReportMatches
  <2>5. CASE Bind
    <3>1. /\ cmd.compat \in Compat /\ cmd.path \in Path /\ entry[cmd.compat] # Absent
          /\ ~entry[cmd.compat].accepted /\ DraftHolds /\ file[cmd.path] = cmd.acceptance
          /\ UNCHANGED <<manifest, profile, file, gated>>
      BY <1>1, <2>5 DEF Bind, builds, IInv, AcceptingHolds, Accepts
    <3>2. CASE c # cmd.compat
      <4>1. entry'[c] = entry[c]
        BY <1>1, <2>5, <3>2 DEF Bind, IInv, TypeOK
      <4>2. QED
        BY <1>1, <3>1, <4>1 DEF Resolves, ReportMatches
    <3>3. CASE c = cmd.compat
      <4> DEFINE e == [entry[c] EXCEPT !.accepted = TRUE, !.manifest = cmd.acceptance.manifest,
                                       !.path = cmd.path, !.acceptance = cmd.acceptance]
      <4>1. entry'[c] = e
        BY <1>1, <2>5, <3>1, <3>3 DEF Bind, IInv, TypeOK
      <4>2. entry[c] \in Entry
        BY <1>1, ResolvedTyped DEF IInv
      <4>3. e \in Entry
        BY <3>1, <4>2 DEF DraftHolds, Entry, Acceptance
      <4>4. /\ e.manifest = cmd.acceptance.manifest /\ e.profile = entry[c].profile
            /\ e.lock = entry[c].lock /\ e.runtime = entry[c].runtime
            /\ e.path = cmd.path /\ e.acceptance = cmd.acceptance
        BY <4>2 DEF Entry
      <4>. HIDE DEF e
      <4>5. c \in gated => cmd.acceptance.manifest = entry[c].manifest
        BY <3>1, <3>3 DEF DraftHolds
      <4>6. /\ entry[c].manifest = manifest[c] /\ entry[c].profile = profile
            /\ file[entry[c].lock] = entry[c].runtime /\ entry[c].runtime.compat = c
        BY <1>1 DEF Resolves
      <4>7. /\ cmd.acceptance.compat = c /\ cmd.acceptance.profile = profile
            /\ cmd.acceptance.runtime = file[entry[c].lock]
            /\ cmd.acceptance.manifest = manifest[c]
            /\ ReportMatches(cmd.acceptance)
        BY <1>1, <2>5, <3>1, <3>3, <4>5, <4>6 DEF DraftHolds, Evident, Bind, BindsAnother
      <4>8. e # Absent
        BY <4>3, AbsentAssumption
      <4>9. ReportMatches(entry[c].acceptance)'
        BY <3>1, <4>1, <4>4, <4>7 DEF ReportMatches
      <4>10. QED
        BY <3>1, <4>1, <4>4, <4>6, <4>7, <4>8, <4>9 DEF Resolves
    <3>4. QED
      BY <3>2, <3>3
  <2>6. QED
    BY <1>1, <2>1, <2>2, <2>3, <2>4, <2>5
    DEF Next, vars, index, builds, Build, ColdUnplug, EditManifest, EditProfile, EditLock, Stage,
        Accept, Accepting, HashInputs, Assemble, Stop
<1>2. IInv /\ [Next]_vars =>
        [cmd' # cmd => \A c \in Compat : Resolves(c) => Resolves(c)' \/ BindsAnother(c)]_vars
  BY <1>1
<1>3. QED
  BY Inductive, <1>2, PTL DEF Spec, CommandsBreakNothing
=============================================================================
