--------------------------- MODULE SqliteRecovery ---------------------------
(***************************************************************************)
(* The migration-checksum recovery of scripts/recover_sqlite_migrations.py *)
(* next to SQLite writers that were not stopped.                           *)
(*                                                                         *)
(* A run lists and hashes the database files of a source directory, copies *)
(* them one by one, inspects every copied database, repairs the copies and *)
(* renames its private stage to the output directory.  File contents are   *)
(* versions: a writer never produces the same bytes twice, except that a   *)
(* rolled-back transaction restores the main file it had spilled to.       *)
(***************************************************************************)
EXTENDS Naturals, Sequences, Functions

CONSTANTS
  Run,        \* invocations of recover()
  Database,   \* recognised database names, FAMILIES
  FileOrder,  \* their files in sorted order, a sequence of <<database, suffix>>
  Migration,  \* applied migration versions
  MaxWrites,  \* bound: contents written by the writers
  Scenario,   \* bound: how a behaviour may start, see Scenarios
  Absent,     \* no such file
  NoRun       \* the output directory does not exist

Suffix == {"", "-journal", "-shm", "-wal"}
File == Range(FileOrder)

ASSUME FilesAssumption ==
  /\ NoRun \notin Run
  /\ FileOrder \in Seq(Database \X Suffix)
  /\ \A db \in Database : <<db, "">> \in File

(* The recoveries that run, the contents that are written meanwhile, the files
   that are there at first, and the checksums that the databases carry. *)
Checksum == {"expected", "counterpart", "unexplained"}
Scenarios == [runs : SUBSET Run, writes : 0 .. MaxWrites, files : SUBSET File,
              checksums : SUBSET Checksum]

ASSUME BoundAssumption ==
  /\ MaxWrites \in Nat /\ Absent \notin Nat
  /\ Scenario \subseteq Scenarios

VARIABLES
  scope,   \* the scenario of this behaviour
  disk,    \* [File -> content, or Absent], the source directory
  spilled, \* [Database -> main file before an open rollback transaction, or Absent]
  clock,   \* contents written so far
  past,    \* every state the source directory has had (used by properties only)
  row,     \* [Database -> [Migration -> stored checksum]] in the source
  audits,  \* the runs without --output-dir; the others share one output
  sound,   \* [Database -> does everything else inspect_database checks hold]
  pc, todo, rec, before, snap, work,  \* [Run -> ...], the stage of each run
  report,  \* [Run -> what the report.json in its stage says]
  output   \* the run whose stage became the output directory, or NoRun

source == <<disk, spilled, clock, past>>
given == <<scope, row, sound, audits>>
stage == <<pc, todo, rec, before, snap, work, report>>
vars == <<source, given, stage, output>>

Content == 0 .. MaxWrites
Directory == [File -> Content \cup {Absent}]
Nothing == [f \in File |-> Absent]
Stage == {"idle", "list1", "hash1", "copy", "list2", "hash2", "inspect", "repair",
          "list3", "hash3", "report", "publish", "rename", "done", "failed", "dead"}

TypeOK ==
  /\ scope \in Scenario
  /\ disk \in Directory
  /\ spilled \in [Database -> Content \cup {Absent}]
  /\ clock \in Content
  /\ past \subseteq Directory
  /\ row \in [Database -> [Migration -> Checksum]]
  /\ sound \in [Database -> BOOLEAN]
  /\ audits \subseteq Run
  /\ pc \in [Run -> Stage]
  /\ todo \in [Run -> SUBSET File]
  /\ rec \in [Run -> Directory]
  /\ before \in [Run -> Directory]
  /\ snap \in [Run -> Directory]
  /\ work \in [Run -> [Database -> [Migration -> Checksum]]]
  /\ report \in [Run -> {"none", "failed", "success"}]
  /\ output \in Run \cup {NoRun}
  /\ \A r \in Run : pc[r] \in {"copy", "inspect", "repair"} => todo[r] # {}

(* A directory of closed databases, some in WAL mode, or not even complete. *)
Init ==
  /\ scope \in Scenario
  /\ disk \in {d \in [File -> {0, Absent}] :
               \A f \in File : f[2] = "-journal" \/ f \notin scope.files => d[f] = Absent}
  /\ spilled = [db \in Database |-> Absent]
  /\ clock = 0
  /\ past = {disk}
  /\ row \in [Database -> [Migration -> scope.checksums]]
  /\ sound \in [Database -> BOOLEAN]
  /\ audits \in SUBSET scope.runs
  /\ pc = [r \in Run |-> "idle"]
  /\ todo = [r \in Run |-> {}]
  /\ rec = [r \in Run |-> Nothing]
  /\ before = [r \in Run |-> Nothing]
  /\ snap = [r \in Run |-> Nothing]
  /\ work = [r \in Run |-> row]
  /\ report = [r \in Run |-> "none"]
  /\ output = NoRun

-----------------------------------------------------------------------------
(* SQLite writers on the source directory.                                 *)

Write(changes, undo) ==
  /\ clock < scope.writes
  /\ clock' = clock + 1
  /\ disk' = [f \in File |-> IF f \in DOMAIN changes THEN changes[f] ELSE disk[f]]
  /\ past' = past \cup {disk'}
  /\ spilled' = undo
  /\ UNCHANGED <<given, stage, output>>

Holds(db, suffix) == <<db, suffix>> \in File /\ disk[<<db, suffix>>] # Absent
Set(f, content) == [g \in {f} |-> content]

(* WAL mode: a commit appends to the WAL, a checkpoint moves it into the
   main file, the last connection removes it. *)
CommitWal(db) ==
  /\ Holds(db, "") /\ ~Holds(db, "-journal") /\ <<db, "-wal">> \in File
  /\ Write(Set(<<db, "-wal">>, clock + 1), spilled)

Checkpoint(db) ==
  /\ Holds(db, "") /\ Holds(db, "-wal")
  /\ Write(Set(<<db, "">>, clock + 1), spilled)

CloseWal(db) ==
  /\ Holds(db, "") /\ Holds(db, "-wal")
  /\ Write(Set(<<db, "-wal">>, Absent), spilled)

(* Rollback mode: the journal is created and dirty pages spill into the main
   file; deleting the journal commits, a rollback restores the main file. *)
Spill(db) ==
  /\ Holds(db, "") /\ ~Holds(db, "-wal") /\ <<db, "-journal">> \in File
  /\ ~Holds(db, "-journal")
  /\ Write([f \in {<<db, "">>, <<db, "-journal">>} |-> clock + 1],
           [spilled EXCEPT ![db] = disk[<<db, "">>]])

EndTransaction(db, main) ==
  /\ Holds(db, "-journal")
  /\ Write([f \in {<<db, "">>, <<db, "-journal">>} |-> IF f[2] = "" THEN main ELSE Absent],
           [spilled EXCEPT ![db] = Absent])

Writer ==
  \E db \in Database :
    \/ CommitWal(db) \/ Checkpoint(db) \/ CloseWal(db) \/ Spill(db)
    \/ EndTransaction(db, disk[<<db, "">>])
    \/ EndTransaction(db, spilled[db])

-----------------------------------------------------------------------------
(* One run of recover().                                                   *)

Goto(r, label) == pc' = [pc EXCEPT ![r] = label]
Present(d) == {f \in File : d[f] # Absent}

(* Files are taken in sorted order. *)
First(files) ==
  FileOrder[CHOOSE i \in DOMAIN FileOrder :
    /\ FileOrder[i] \in files
    /\ \A k \in DOMAIN FileOrder : FileOrder[k] \in files => i <= k]

(* The failure is reported in the stage, if the disk still takes it. *)
Fail(r) ==
  /\ Goto(r, "failed")
  /\ \E text \in {report[r], "failed"} : report' = [report EXCEPT ![r] = text]
Proceed(r, label) == Goto(r, label) /\ UNCHANGED report

(* The output directory, if one is asked for, must be new. *)
Start(r) ==
  /\ r \in scope.runs
  /\ pc[r] = "idle"
  /\ Goto(r, IF r \notin audits /\ output # NoRun THEN "failed" ELSE "list1")
  /\ UNCHANGED <<source, given, todo, rec, before, snap, work, report, output>>

(* input_records: the directory is listed, then its files are hashed. *)
List(r) ==
  /\ pc[r] \in {"list1", "list2", "list3"}
  /\ todo' = [todo EXCEPT ![r] = Present(disk)]
  /\ rec' = [rec EXCEPT ![r] = Nothing]
  /\ Proceed(r, CASE pc[r] = "list1" -> "hash1"
                  [] pc[r] = "list2" -> "hash2"
                  [] pc[r] = "list3" -> "hash3")
  /\ UNCHANGED <<source, given, before, snap, work, output>>

HashFile(r) ==
  LET f == First(todo[r]) IN
  /\ pc[r] \in {"hash1", "hash2", "hash3"}
  /\ todo[r] # {}
  /\ IF disk[f] = Absent
       THEN Fail(r) /\ UNCHANGED <<todo, rec>>
       ELSE /\ rec' = [rec EXCEPT ![r][f] = disk[f]]
            /\ todo' = [todo EXCEPT ![r] = @ \ {f}]
            /\ UNCHANGED <<pc, report>>
  /\ UNCHANGED <<source, given, before, snap, work, output>>

(* At least one database, and no sidecar without its database. *)
Acceptable(records) ==
  /\ \E f \in File : records[f] # Absent /\ f[2] = ""
  /\ \A f \in File : records[f] # Absent => records[<<f[1], "">>] # Absent

TakeRecords(r) ==
  /\ pc[r] = "hash1"
  /\ todo[r] = {}
  /\ IF Acceptable(rec[r])
       THEN /\ before' = [before EXCEPT ![r] = rec[r]]
            /\ todo' = [todo EXCEPT ![r] = Present(rec[r])]
            /\ Proceed(r, "copy")
       ELSE Fail(r) /\ UNCHANGED <<before, todo>>
  /\ UNCHANGED <<source, given, rec, snap, work, output>>

(* Mutant: the copies are not compared with the records. *)
CopyUnchecked(r) ==
  LET f == First(todo[r]) IN
  /\ pc[r] = "copy"
  /\ todo[r] # {}
  /\ IF disk[f] = Absent
       THEN Fail(r) /\ UNCHANGED <<todo, snap>>
       ELSE /\ snap' = [snap EXCEPT ![r][f] = disk[f]]
            /\ todo' = [todo EXCEPT ![r] = @ \ {f}]
            /\ Proceed(r, IF todo[r] = {f} THEN "list2" ELSE "copy")
  /\ UNCHANGED <<source, given, rec, before, work, output>>

(* Each file is copied into the snapshot and must match its record. *)
CopyFile(r) ==
  LET f == First(todo[r]) IN
  /\ pc[r] = "copy"
  /\ todo[r] # {}
  /\ IF disk[f] # before[r][f]
       THEN Fail(r) /\ UNCHANGED <<todo, snap>>
       ELSE /\ snap' = [snap EXCEPT ![r][f] = disk[f]]
            /\ todo' = [todo EXCEPT ![r] = @ \ {f}]
            /\ Proceed(r, IF todo[r] = {f} THEN "list2" ELSE "copy")
  /\ UNCHANGED <<source, given, rec, before, work, output>>

Databases(r) == {f \in File : f[2] = "" /\ before[r][f] # Absent}
AfterCheck(r) == CASE pc[r] = "hash2" -> "inspect"
                   [] pc[r] = "hash3" -> "report"

(* After the copies, and again at the end, the source must be unchanged. *)
Recheck(r) ==
  /\ pc[r] \in {"hash2", "hash3"}
  /\ todo[r] = {}
  /\ IF rec[r] = before[r] THEN Proceed(r, AfterCheck(r)) ELSE Fail(r)
  /\ todo' = [todo EXCEPT ![r] = Databases(r)]
  /\ UNCHANGED <<source, given, rec, before, snap, work, output>>

-----------------------------------------------------------------------------
(* inspect_database, and the repair of the working copies.                 *)

Explained(rows) == \A v \in Migration : rows[v] \in {"expected", "counterpart"}
Repaired(rows) == [v \in Migration |-> IF rows[v] = "counterpart" THEN "expected" ELSE rows[v]]

Inspected(r) == IF r \in audits THEN "list3" ELSE "repair"

(* Mutant: each database is repaired as soon as it is inspected. *)
InspectAndRepair(r) ==
  LET f == First(todo[r])
      db == f[1]
  IN
  /\ pc[r] = "inspect"
  /\ IF ~(sound[db] /\ Explained(work[r][db]))
       THEN Fail(r) /\ UNCHANGED <<todo, work>>
       ELSE /\ Proceed(r, IF todo[r] = {f} THEN "list3" ELSE "inspect")
            /\ todo' = [todo EXCEPT ![r] = @ \ {f}]
            /\ work' = [work EXCEPT ![r][db] = IF r \notin audits THEN Repaired(@) ELSE @]
  /\ UNCHANGED <<source, given, rec, before, snap, output>>

(* Every database is inspected before any is repaired; one that is not
   understood rejects the whole recovery. *)
Inspect(r) ==
  LET f == First(todo[r])
      db == f[1]
  IN
  /\ pc[r] = "inspect"
  /\ IF ~(sound[db] /\ Explained(work[r][db]))
       THEN Fail(r) /\ UNCHANGED todo
       ELSE /\ Proceed(r, IF todo[r] = {f} THEN Inspected(r) ELSE "inspect")
            /\ todo' = [todo EXCEPT ![r] = IF @ = {f} THEN Databases(r) ELSE @ \ {f}]
  /\ UNCHANGED <<source, given, rec, before, snap, work, output>>

(* One transaction per database: the recognised counterparts are replaced
   and the result inspected again before it is committed. *)
Repair(r) ==
  LET f == First(todo[r])
      db == f[1]
  IN
  /\ pc[r] = "repair"
  /\ work' = [work EXCEPT ![r][db] = Repaired(@)]
  /\ todo' = [todo EXCEPT ![r] = @ \ {f}]
  /\ Proceed(r, IF todo[r] = {f} THEN "list3" ELSE "repair")
  /\ UNCHANGED <<source, given, rec, before, snap, output>>

(* Mutant: the report follows the rename. *)
PublishThenReport(r) ==
  /\ pc[r] = "report"
  /\ IF r \in audits \/ output = r
       THEN report' = [report EXCEPT ![r] = "success"] /\ Goto(r, "done") /\ UNCHANGED output
       ELSE IF output = NoRun
              THEN output' = r /\ UNCHANGED <<pc, report>>
              ELSE Fail(r) /\ UNCHANGED output
  /\ UNCHANGED <<source, given, todo, rec, before, snap, work>>

(* The report of success is written into the stage. *)
WriteReport(r) ==
  /\ pc[r] = "report"
  /\ report' = [report EXCEPT ![r] = "success"]
  /\ Goto(r, IF r \in audits THEN "done" ELSE "publish")
  /\ UNCHANGED <<source, given, todo, rec, before, snap, work, output>>

(* The last check of the output path, then the rename of the stage, which
   fails if another run's output is there by now. *)
CheckOutput(r) ==
  /\ pc[r] = "publish"
  /\ IF output = NoRun THEN Proceed(r, "rename") ELSE Fail(r)
  /\ UNCHANGED <<source, given, todo, rec, before, snap, work, output>>

(* Mutant: the stage replaces what is there. *)
RenameOver(r) ==
  /\ pc[r] = "rename"
  /\ output' = r
  /\ Proceed(r, "done")
  /\ UNCHANGED <<source, given, todo, rec, before, snap, work>>

Rename(r) ==
  /\ pc[r] = "rename"
  /\ IF output = NoRun
       THEN output' = r /\ Proceed(r, "done")
       ELSE Fail(r) /\ UNCHANGED output
  /\ UNCHANGED <<source, given, todo, rec, before, snap, work>>

(* Any step can fail (full disk, SQLite error) or be the last of its
   process; the stage stays behind as it is. *)
Running(r) == pc[r] \notin {"idle", "done", "failed", "dead"}
Break(r) ==
  /\ Running(r)
  /\ Fail(r)
  /\ UNCHANGED <<source, given, todo, rec, before, snap, work, output>>
Die(r) ==
  /\ Running(r)
  /\ Proceed(r, "dead")
  /\ UNCHANGED <<source, given, todo, rec, before, snap, work, output>>

Next ==
  \/ Writer
  \/ \E r \in Run :
       \/ Start(r) \/ List(r) \/ HashFile(r) \/ TakeRecords(r) \/ CopyFile(r) \/ Recheck(r)
       \/ Inspect(r) \/ Repair(r) \/ WriteReport(r) \/ CheckOutput(r) \/ Rename(r)
       \/ Break(r) \/ Die(r)

Spec == Init /\ [][Next]_vars

-----------------------------------------------------------------------------
(* Properties.                                                             *)

(* What a run ends with, published or reported on, is the source directory as
   it was at one moment, although its files were listed, hashed and copied one
   by one next to writers: commits, checkpoints and rollbacks are noticed. *)
SnapshotIsPointInTime ==
  /\ TypeOK
  /\ \A r \in Run : pc[r] = "done" => snap[r] \in past

(* All or nothing: if an output exists, its report says so, and every database
   in it was understood and carries only the official checksums, wherever the
   run that made it, or another one, failed or died. *)
PublishedIsRepaired ==
  output # NoRun =>
    /\ report[output] = "success"
    /\ \A db \in Database : snap[output][<<db, "">>] # Absent =>
         /\ sound[db] /\ Explained(row[db])
         /\ \A v \in Migration : work[output][db][v] = "expected"

(* Nothing is repaired before every database of the run was found to be
   understood, and an audit repairs nothing. *)
RepairAfterInspection ==
  [][\A r \in Run : work'[r] # work[r] =>
       /\ r \notin audits
       /\ \A db \in Database : before[r][<<db, "">>] # Absent =>
            sound[db] /\ Explained(row[db])]_vars

(* Of two recoveries with one output path the first wins for good. *)
OutputIsFinal == [][output # NoRun => output' = output]_vars
=============================================================================
