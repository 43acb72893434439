---------------------------- MODULE CompatCatalog ----------------------------
(***************************************************************************)
(* The compatibility catalog of scripts/compat_catalog.py: the index that  *)
(* binds each compatibility to its authority files by hash, the commands   *)
(* that stage a candidate and accept it, and resolve(), through which      *)
(* every build and every release reads the catalog.                        *)
(*                                                                         *)
(* A command checks many files and then writes two, an authority file and  *)
(* the index.  Reviewed files may be edited between any two of its steps,  *)
(* and it may fail or be killed there.  A file's hash is its content.      *)
(***************************************************************************)
EXTENDS Naturals

CONSTANTS
  Compat,    \* compatibility ids, of one target
  Base,      \* the one that is current to begin with
  Path,      \* paths below release/ that a command may be given
  BaseLock, BaseAcceptance,  \* those of Base
  Version,   \* contents of a manifest, a build profile or a runtime lock
  Artifact,  \* built executables
  BaseArtifact,
  Provider,  \* the builders that candidate records name
  Stamp,     \* recorded_at and accepted_by of an acceptance
  Absent

ASSUME CompatAssumption == Base \in Compat
ASSUME FileAssumption ==
  /\ BaseLock \in Path /\ BaseAcceptance \in Path /\ BaseLock # BaseAcceptance
  /\ BaseArtifact \in Artifact

VARIABLES
  manifest,  \* [Compat -> Version], below payload/
  profile,   \* the build profile, shared by the compatibilities of the target
  file,      \* [Path -> a runtime lock, an acceptance, or Absent]
  entry,     \* [Compat -> its entry in the index, or Absent]
  current,   \* the index's current route
  built,     \* [Artifact -> what its candidate record says, or Absent]
  reports,   \* cold-unplug reports
  gated,     \* compatibilities that need one, p14 and later: chosen once
  cmd        \* the command under way

index == <<entry, current>>
builds == <<built, reports, gated>>
vars == <<manifest, profile, file, index, builds, cmd>>

Lock == [compat : Compat, version : Version]
Record == [compat : Compat, manifest : Version, profile : Version, runtime : Lock,
           provider : Provider]
Report == [artifact : Artifact, manifest : Version, profile : Version, runtime : Lock]
Acceptance == [compat : Compat, artifact : Artifact, manifest : Version, profile : Version,
               runtime : Lock, report : Report \cup {Absent}, stamp : Stamp]
Entry == [accepted : BOOLEAN, manifest : Version, profile : Version, lock : Path, runtime : Lock,
          path : Path \cup {Absent}, acceptance : Acceptance \cup {Absent}]

ASSUME AbsentAssumption ==
  Absent \notin Path \cup Lock \cup Record \cup Report \cup Acceptance \cup Entry

Command == [step : {"idle", "lock", "register", "hash", "assemble", "write", "bind"},
            compat : Compat \cup {Absent}, path : Path \cup {Absent},
            profile : Version \cup {Absent}, artifact : Artifact \cup {Absent},
            acceptance : Acceptance \cup {Absent}, promote : BOOLEAN]
Idle == [step |-> "idle", compat |-> Absent, path |-> Absent, profile |-> Absent,
         artifact |-> Absent, acceptance |-> Absent, promote |-> FALSE]

TypeOK ==
  /\ manifest \in [Compat -> Version]
  /\ profile \in Version
  /\ file \in [Path -> Lock \cup Acceptance \cup {Absent}]
  /\ entry \in [Compat -> Entry \cup {Absent}]
  /\ current \in Compat /\ entry[current] # Absent
  /\ built \in [Artifact -> Record \cup {Absent}]
  /\ reports \subseteq Report
  /\ gated \subseteq Compat
  /\ cmd \in Command
  /\ \A c \in Compat : entry[c] # Absent =>
       (entry[c].accepted <=> entry[c].acceptance # Absent)

(* Base has been accepted and is current; the others are not registered. *)
Init ==
  /\ manifest \in [Compat -> Version]
  /\ profile \in Version
  /\ \E v \in Version, provider \in Provider, stamp \in Stamp :
       LET lock == [compat |-> Base, version |-> v]
           record == [compat |-> Base, manifest |-> manifest[Base], profile |-> profile,
                      runtime |-> lock, provider |-> provider]
           acceptance == [compat |-> Base, artifact |-> BaseArtifact, manifest |-> manifest[Base],
                          profile |-> profile, runtime |-> lock, report |-> Absent,
                          stamp |-> stamp]
       IN /\ file = [p \in Path |-> CASE p = BaseLock -> lock
                                      [] p = BaseAcceptance -> acceptance
                                      [] OTHER -> Absent]
          /\ built = [a \in Artifact |-> IF a = BaseArtifact THEN record ELSE Absent]
          /\ entry = [c \in Compat |->
               IF c # Base THEN Absent
               ELSE [accepted |-> TRUE, manifest |-> manifest[Base], profile |-> profile,
                     lock |-> BaseLock, runtime |-> lock,
                     path |-> BaseAcceptance, acceptance |-> acceptance]]
  /\ current = Base
  /\ reports = {}
  /\ gated \in SUBSET (Compat \ {Base})
  /\ cmd = Idle

-----------------------------------------------------------------------------
(* resolve() and what reads the catalog through it.                        *)

(* validate_cold_unplug: the report is about the accepted artifact and about
   exactly the files that the acceptance names. *)
ReportMatches(acceptance) ==
  acceptance.compat \in gated =>
    acceptance.report = [artifact |-> acceptance.artifact, manifest |-> acceptance.manifest,
                         profile |-> acceptance.profile, runtime |-> acceptance.runtime]

(* Nothing has drifted from the entry; an acceptance that is there fits. *)
Resolves(c) ==
  LET e == entry[c] IN
  /\ e # Absent
  /\ e.manifest = manifest[c]
  /\ e.profile = profile
  /\ file[e.lock] = e.runtime /\ e.runtime.compat = c
  /\ e.path # Absent =>
       /\ file[e.path] = e.acceptance
       /\ e.acceptance.compat = c /\ e.acceptance.manifest = manifest[c]
       /\ e.acceptance.profile = profile /\ e.acceptance.runtime = file[e.lock]
       /\ ReportMatches(e.acceptance)

(* Mutant: the flags of the entry are believed. *)
ReleasableByFlags(c) == entry[c] # Absent /\ entry[c].accepted /\ entry[c].path # Absent

(* resolve with require_acceptance and require_release. *)
Releasable(c) == Resolves(c) /\ entry[c].accepted /\ entry[c].path # Absent

(* A build resolves the candidate and records the executable it made. *)
Build(a, c) ==
  /\ built[a] = Absent
  /\ Resolves(c)
  /\ \E provider \in Provider :
       built' = [built EXCEPT ![a] = [compat |-> c, manifest |-> manifest[c], profile |-> profile,
                                      runtime |-> file[entry[c].lock], provider |-> provider]]
  /\ UNCHANGED <<manifest, profile, file, index, reports, gated, cmd>>

(* verify_cold_unplug resolves the compatibility, verifies that the bundle was
   built from this manifest, and reports on the executable.  Reports on others
   than gated ones are left out: nothing reads them. *)
ColdUnplug(a) ==
  LET c == built[a].compat IN
  /\ built[a] # Absent /\ c \in gated
  /\ Resolves(c)
  /\ built[a].manifest = manifest[c]
  /\ reports' = reports \cup {[artifact |-> a, manifest |-> manifest[c], profile |-> profile,
                               runtime |-> file[entry[c].lock]]}
  /\ UNCHANGED <<manifest, profile, file, index, built, gated, cmd>>

-----------------------------------------------------------------------------
(* Reviewed files change in commits of their own.                          *)

EditManifest(c) ==
  /\ \E v \in Version \ {manifest[c]} : manifest' = [manifest EXCEPT ![c] = v]
  /\ UNCHANGED <<profile, file, index, builds, cmd>>

EditProfile ==
  /\ \E v \in Version \ {profile} : profile' = v
  /\ UNCHANGED <<manifest, file, index, builds, cmd>>

EditLock(p) ==
  /\ file[p] \in Lock
  /\ \E v \in Version \ {file[p].version} : file' = [file EXCEPT ![p].version = v]
  /\ UNCHANGED <<manifest, profile, index, builds, cmd>>

-----------------------------------------------------------------------------
(* stage-candidate                                                         *)

(* Mutant: the file is replaced. *)
WriteAnyway(p, value, next) ==
  /\ file' = [file EXCEPT ![p] = value]
  /\ cmd' = [cmd EXCEPT !.step = next]

(* write_new_or_equal: a different authority file is never overwritten. *)
WriteNewOrEqual(p, value, next) ==
  IF file[p] \in {Absent, value}
    THEN file' = [file EXCEPT ![p] = value] /\ cmd' = [cmd EXCEPT !.step = next]
    ELSE cmd' = Idle /\ UNCHANGED file

(* The compatibility is new, the current route's profile has not drifted, and
   the runtime lock does not exist yet. *)
Stage(c, p) ==
  /\ cmd = Idle
  /\ entry[c] = Absent
  /\ entry[current].profile = profile
  /\ file[p] = Absent
  /\ cmd' = [Idle EXCEPT !.step = "lock", !.compat = c, !.path = p, !.profile = profile]
  /\ UNCHANGED <<manifest, profile, file, index, builds>>

WriteLock ==
  /\ cmd.step = "lock"
  /\ \E v \in Version :
       WriteNewOrEqual(cmd.path, [compat |-> cmd.compat, version |-> v], "register")
  /\ UNCHANGED <<manifest, profile, index, builds>>

(* The entry binds the files as they are now. *)
Register ==
  /\ cmd.step = "register"
  /\ entry' = [entry EXCEPT ![cmd.compat] =
       [accepted |-> FALSE, manifest |-> manifest[cmd.compat], profile |-> cmd.profile,
        lock |-> cmd.path, runtime |-> file[cmd.path], path |-> Absent, acceptance |-> Absent]]
  /\ cmd' = Idle
  /\ UNCHANGED <<manifest, profile, file, current, builds>>

-----------------------------------------------------------------------------
(* accept                                                                  *)

Recorded(a, c) ==
  /\ built[a] # Absent
  /\ built[a].compat = c
  /\ built[a].manifest = entry[c].manifest
  /\ built[a].profile = entry[c].profile
  /\ built[a].runtime = entry[c].runtime

Accepting(c, a, p, promote) ==
  /\ cmd' = [Idle EXCEPT !.step = "hash", !.compat = c, !.artifact = a, !.path = p,
                         !.promote = promote]
  /\ UNCHANGED <<manifest, profile, file, index, builds>>

(* Mutant: what is accepted already may be accepted again. *)
AcceptAgain(c, a, p, promote) ==
  /\ cmd = Idle
  /\ entry[c] # Absent
  /\ Recorded(a, c)
  /\ Accepting(c, a, p, promote)

(* A candidate without acceptance, and a record of this executable that was
   made from the files which the entry binds. *)
Accept(c, a, p, promote) ==
  /\ cmd = Idle
  /\ entry[c] # Absent
  /\ ~entry[c].accepted /\ entry[c].path = Absent
  /\ Recorded(a, c)
  /\ Accepting(c, a, p, promote)

(* The profile and the runtime lock are hashed again. *)
HashInputs ==
  /\ cmd.step = "hash"
  /\ cmd' = IF entry[cmd.compat].profile = profile
               /\ file[entry[cmd.compat].lock] = entry[cmd.compat].runtime
              THEN [cmd EXCEPT !.step = "assemble"] ELSE Idle
  /\ UNCHANGED <<manifest, profile, file, index, builds>>

Draft(report, stamp) ==
  [compat |-> cmd.compat, artifact |-> cmd.artifact, manifest |-> manifest[cmd.compat],
   profile |-> entry[cmd.compat].profile, runtime |-> entry[cmd.compat].runtime,
   report |-> report, stamp |-> stamp]

(* The target record that the report carries, and the build's provenance. *)
Provenance(a) ==
  cmd.compat \in gated =>
    built[a].manifest = manifest[cmd.compat] /\ built[a].provider = "github"

(* The acceptance is put together with the manifest as it is now, and checked
   with its evidence; it is dropped if they do not fit.  Evidence that is not
   checked carries no report. *)
Assemble ==
  /\ cmd.step = "assemble"
  /\ \E report \in reports \cup {Absent}, stamp \in Stamp :
       LET draft == Draft(IF cmd.compat \in gated THEN report ELSE Absent, stamp) IN
       cmd' = IF ReportMatches(draft) /\ Provenance(cmd.artifact)
                THEN [cmd EXCEPT !.step = "write", !.acceptance = draft] ELSE Idle
  /\ UNCHANGED <<manifest, profile, file, index, builds>>

WriteAcceptance ==
  /\ cmd.step = "write"
  /\ WriteNewOrEqual(cmd.path, cmd.acceptance, "bind")
  /\ UNCHANGED <<manifest, profile, index, builds>>

(* The index is replaced last. *)
Bind ==
  /\ cmd.step = "bind"
  /\ entry' = [entry EXCEPT ![cmd.compat].accepted = TRUE,
                            ![cmd.compat].manifest = cmd.acceptance.manifest,
                            ![cmd.compat].path = cmd.path,
                            ![cmd.compat].acceptance = file[cmd.path]]
  /\ current' = IF cmd.promote THEN cmd.compat ELSE current
  /\ cmd' = Idle
  /\ UNCHANGED <<manifest, profile, file, builds>>

(* A command fails or is killed between two steps. *)
Stop ==
  /\ cmd # Idle
  /\ cmd' = Idle
  /\ UNCHANGED <<manifest, profile, file, index, builds>>

-----------------------------------------------------------------------------
Next ==
  \/ \E a \in Artifact, c \in Compat : Build(a, c)
  \/ \E a \in Artifact : ColdUnplug(a)
  \/ \E c \in Compat : EditManifest(c)
  \/ EditProfile
  \/ \E p \in Path : EditLock(p)
  \/ \E c \in Compat, p \in Path : Stage(c, p)
  \/ WriteLock \/ Register
  \/ \E c \in Compat, a \in Artifact, p \in Path, promote \in BOOLEAN : Accept(c, a, p, promote)
  \/ HashInputs \/ Assemble \/ WriteAcceptance \/ Bind
  \/ Stop

Spec == Init /\ [][Next]_vars

-----------------------------------------------------------------------------
(* Properties.                                                             *)

(* What may be released was built from the very profile and runtime lock that
   are there now; from p14 on also from this manifest, and this executable was
   cold-unplug tested with all three, whatever was edited or reverted while the
   acceptance was prepared and wherever an earlier attempt stopped
   (docs/cold-unplug-validation.md, accept_candidate and resolve). *)
ReleasedIsTested ==
  TypeOK /\ \A c \in Compat : Releasable(c) =>
    LET a == entry[c].acceptance.artifact
        now == [manifest |-> manifest[c], profile |-> profile, runtime |-> file[entry[c].lock]]
    IN /\ built[a] # Absent /\ built[a].compat = c
       /\ built[a].profile = now.profile /\ built[a].runtime = now.runtime
       /\ c \in gated =>
            /\ built[a].manifest = now.manifest
            /\ [artifact |-> a, manifest |-> now.manifest, profile |-> now.profile,
                runtime |-> now.runtime] \in reports

(* An acceptance is never revised: the entry of an accepted compatibility keeps
   its bindings, whatever other commands do (accept_candidate). *)
AcceptanceIsFinal ==
  [][\A c \in Compat : entry[c] # Absent /\ entry[c].accepted => entry'[c] = entry[c]]_vars

(* Only edits of the reviewed files break the catalog: a step of a command, its
   last one included, leaves every compatibility that resolved resolvable, no
   matter which paths it was given (write_new_or_equal, new_repo_file).  There
   is one exception: no report fixes the manifest of a compatibility before
   p14, so that its acceptance binds the manifest as it was while the command
   hashed it, even if it has been restored since to the one that the entry
   named (accept_candidate). *)
BindsAnother(c) ==
  /\ cmd.step = "bind" /\ cmd.compat = c /\ c \notin gated
  /\ cmd.acceptance.manifest # manifest[c]
CommandsBreakNothing ==
  [][cmd' # cmd => \A c \in Compat : Resolves(c) => Resolves(c)' \/ BindsAnother(c)]_vars
=============================================================================
