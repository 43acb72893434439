----------------------- MODULE SqliteRecovery_proofs -----------------------
(* Safety of the migration recovery for every set of databases and runs,
   every number of writes and every way a behaviour may start. *)
EXTENDS SqliteRecovery, WellFoundedInduction, TLAPS

Main(db) == <<db, "">>
Journal(db) == <<db, "-journal">>
Wal(db) == <<db, "-wal">>

(* The writers.  Contents are numbered by the clock; a main file is kept aside
   only while its journal exists, and a journal excludes a WAL. *)
Known(n) == (0 .. n) \cup {Absent}
WritersHold ==
  /\ clock <= scope.writes
  /\ disk \in past
  /\ \A f \in File : disk[f] \in Known(clock)
  /\ \A db \in Database :
       /\ spilled[db] # Absent => Holds(db, "-journal")
       /\ spilled[db] \in Known(clock)
       /\ Holds(db, "-journal") => ~Holds(db, "-wal")

(* What a run has copied is what it has recorded.  A database whose journal
   is still the recorded one has not changed since it was copied: nothing but
   the end of the transaction can touch its main file. *)
CopyHolds(r) ==
  /\ \A f \in File : rec[r][f] \in Known(clock) /\ before[r][f] \in Known(clock)
  /\ pc[r] \in {"idle", "list1", "hash1"} => snap[r] = Nothing
  /\ pc[r] \notin {"idle", "list1", "hash1", "failed", "dead"} => Acceptable(before[r])
  /\ pc[r] = "copy" => \A f \in File :
       \/ snap[r][f] = before[r][f]
       \/ f \in todo[r] /\ snap[r][f] = Absent
  /\ pc[r] \notin {"idle", "list1", "hash1", "copy", "failed", "dead"} => snap[r] = before[r]
  /\ \A db \in Database :
       /\ Journal(db) \in File
       /\ before[r][Journal(db)] # Absent /\ disk[Journal(db)] = before[r][Journal(db)]
       /\ snap[r][Main(db)] # Absent
       => disk[Main(db)] = snap[r][Main(db)]

(* The recheck after the copies cannot succeed unless the source was, when it
   was listed, what the run has copied: otherwise some file is there and must
   not be, has already been found different, or has lost the recorded content
   for good. *)
Gone(f, c) ==
  /\ c # Absent /\ disk[f] # c
  /\ f[2] = "" => spilled[f[1]] # c
Doomed(r, f) ==
  IF f \in todo[r] THEN before[r][f] = Absent \/ Gone(f, before[r][f])
                   ELSE rec[r][f] # before[r][f]

Checked == {"inspect", "repair", "list3", "hash3", "report", "publish", "rename", "done"}
RecheckHolds(r) ==
  /\ pc[r] = "hash2" => before[r] \in past \/ \E f \in File : Doomed(r, f)
  /\ pc[r] \in Checked => before[r] \in past

(* Databases are inspected one by one, and only then repaired one by one. *)
Unrepaired == {"idle", "list1", "hash1", "copy", "list2", "hash2", "inspect"}
Understood(r) == \A f \in Databases(r) : sound[f[1]] /\ Explained(row[f[1]])
RepairHolds(r) ==
  /\ pc[r] \in {"inspect", "repair"} => todo[r] \subseteq Databases(r)
  /\ pc[r] = "inspect" =>
       \A f \in Databases(r) : f \in todo[r] \/ (sound[f[1]] /\ Explained(row[f[1]]))
  /\ pc[r] \in Checked \ {"inspect"} => Understood(r)
  /\ pc[r] \in Unrepaired => work[r] = row
  /\ pc[r] = "repair" => r \notin audits /\ \A f \in Databases(r) :
       work[r][f[1]] = IF f \in todo[r] THEN row[f[1]] ELSE Repaired(row[f[1]])
  /\ pc[r] \in Checked \ {"inspect", "repair"} /\ r \notin audits =>
       \A f \in Databases(r) : work[r][f[1]] = Repaired(row[f[1]])

OutputHolds(r) ==
  /\ pc[r] \in {"publish", "rename"} => r \notin audits /\ report[r] = "success"
  /\ output = r => pc[r] = "done" /\ r \notin audits /\ report[r] = "success"

IInv ==
  /\ TypeOK
  /\ WritersHold
  /\ \A r \in Run : CopyHolds(r) /\ RecheckHolds(r) /\ RepairHolds(r) /\ OutputHolds(r)

-----------------------------------------------------------------------------
(* Files, and the order in which they are taken.                            *)

LEMMA FileShape ==
  ASSUME NEW f \in File
  PROVE  f[1] \in Database /\ f = <<f[1], f[2]>> /\ Main(f[1]) \in File
<1>1. PICK i \in DOMAIN FileOrder : f = FileOrder[i]
  BY DEF File, Range
<1>2. FileOrder[i] \in Database \X Suffix
  <2> DEFINE S == Database \X Suffix
  <2>1. FileOrder \in Seq(S)
    BY FilesAssumption
  <2>2. \A k \in DOMAIN FileOrder : FileOrder[k] \in S
    <3>. HIDE DEF S
    <3>1. QED
      BY <2>1
  <2>3. QED
    BY <2>2
<1>3. PICK db \in Database, suffix \in Suffix : f = <<db, suffix>>
  BY <1>1, <1>2
<1>4. QED
  BY <1>3, FilesAssumption DEF Main

LEMMA SomeMinimum ==
  ASSUME NEW I \in SUBSET Nat, I # {}
  PROVE  \E i \in I : \A k \in I : i <= k
<1> DEFINE R == {ss \in Nat \X Nat : ss[1] < ss[2]}
<1>1. IsWellFoundedOn(R, Nat)
  BY NatLessThanWellFounded DEF OpToRel
<1>2. PICK i \in I : \A k \in I : ~ (<<k, i>> \in R)
  <2>. HIDE DEF R
  <2>1. QED
    BY <1>1, WFMin
<1>3. ASSUME NEW k \in I PROVE i <= k
  <2>1. <<k, i>> \notin R /\ k \in Nat /\ i \in Nat
    BY <1>2
  <2>2. ~ (k < i)
    BY <2>1
  <2>3. QED
    BY <2>1, <2>2
<1>4. QED
  BY <1>3

(* The file that a loop takes next is one of those it has still to take. *)
LEMMA FirstIsOne ==
  ASSUME NEW files \in SUBSET File, files # {}
  PROVE  First(files) \in files
<1> DEFINE I == {i \in DOMAIN FileOrder : FileOrder[i] \in files}
<1>1. FileOrder \in Seq(Database \X Suffix)
  BY FilesAssumption
<1>2. I \in SUBSET Nat /\ I # {}
  BY <1>1 DEF File, Range
<1>3. \E i \in DOMAIN FileOrder :
        /\ FileOrder[i] \in files
        /\ \A k \in DOMAIN FileOrder : FileOrder[k] \in files => i <= k
  BY <1>2, SomeMinimum
<1>4. QED
  BY <1>3 DEF First

LEMMA InitIInv == Init => IInv
<1>. SUFFICES ASSUME Init PROVE IInv
  OBVIOUS
<1>. USE DEF Init
<1>1. clock \in Content /\ scope \in Scenarios /\ scope.writes \in Nat
  BY BoundAssumption DEF Content, Scenarios
<1>2. disk \in Directory /\ Nothing \in Directory
  BY BoundAssumption DEF Directory, Nothing, Content
<1>3. TypeOK
  BY <1>1, <1>2, BoundAssumption DEF TypeOK, Stage, Scenarios
<1>4. \A db \in Database : ~Holds(db, "-journal")
  BY DEF Holds
<1>5. WritersHold
  BY <1>1, <1>4 DEF WritersHold, Known
<1>6. ASSUME NEW r \in Run PROVE CopyHolds(r) /\ RecheckHolds(r) /\ RepairHolds(r) /\ OutputHolds(r)
  <2>1. ASSUME NEW f \in File PROVE rec[r][f] = Absent /\ before[r][f] = Absent
    BY <2>1 DEF Nothing
  <2>2. CopyHolds(r)
    BY <2>1 DEF CopyHolds, Known
  <2>3. RecheckHolds(r) /\ RepairHolds(r)
    BY DEF RecheckHolds, RepairHolds, Checked, Unrepaired
  <2>4. OutputHolds(r)
    BY FilesAssumption DEF OutputHolds
  <2>5. QED
    BY <2>2, <2>3, <2>4
<1>7. QED
  BY <1>3, <1>5, <1>6 DEF IInv

-----------------------------------------------------------------------------
(* The writers: what a write may do to the files of a database.             *)

(* One write of any kind: a file gets the next content, disappears or, if it
   is a main file, gets back what was kept aside; a main file stays as long as
   its journal does. *)
WriteHolds ==
  /\ clock < scope.writes /\ clock' = clock + 1 /\ past' = past \cup {disk'}
  /\ UNCHANGED <<given, stage, output>>
  /\ disk' \in Directory /\ spilled' \in [Database -> Content \cup {Absent}]
  /\ \A f \in File :
       disk'[f] \in {disk[f], clock + 1, Absent} \/ (f[2] = "" /\ disk'[f] = spilled[f[1]])
  /\ \A db \in Database :
       /\ spilled'[db] \in {spilled[db], Absent, disk[Main(db)]}
       /\ Holds(db, "-journal") /\ disk'[Journal(db)] = disk[Journal(db)] =>
            disk'[Main(db)] = disk[Main(db)]
       /\ Journal(db) \in File => disk'[Journal(db)] \in {disk[Journal(db)], clock + 1, Absent}
       /\ spilled'[db] # Absent => Holds(db, "-journal")'
       /\ Holds(db, "-journal")' => ~Holds(db, "-wal")'

LEMMA WriterWrites ==
  ASSUME IInv, Writer
  PROVE  WriteHolds
<1>0. /\ disk \in Directory /\ spilled \in [Database -> Content \cup {Absent}]
      /\ clock \in Content /\ clock \in Nat /\ scope.writes <= MaxWrites
      /\ scope.writes \in Nat /\ MaxWrites \in Nat
      /\ \A db \in Database :
           /\ Main(db) \in File
           /\ spilled[db] # Absent => Holds(db, "-journal")
           /\ Holds(db, "-journal") => ~Holds(db, "-wal")
  <2>1. scope \in Scenarios /\ MaxWrites \in Nat
    BY BoundAssumption DEF IInv, TypeOK
  <2>2. scope.writes \in 0 .. MaxWrites
    BY <2>1 DEF Scenarios
  <2>3. scope.writes <= MaxWrites /\ scope.writes \in Nat
    BY <2>1, <2>2
  <2>4. clock \in Content /\ clock \in Nat
    BY <2>1 DEF IInv, TypeOK, Content
  <2>5. \A db \in Database : Main(db) \in File
    BY FilesAssumption DEF Main
  <2>6. QED
    BY <2>1, <2>3, <2>4, <2>5 DEF IInv, TypeOK, WritersHold
<1>1. clock < scope.writes => clock + 1 \in Content
  BY <1>0 DEF Content
<1>2. ASSUME NEW db \in Database, CommitWal(db) PROVE WriteHolds
  <2>1. /\ clock < scope.writes /\ clock' = clock + 1 /\ past' = past \cup {disk'}
        /\ UNCHANGED <<given, stage, output>> /\ spilled' = spilled
        /\ disk' = [f \in File |-> IF f = Wal(db) THEN clock + 1 ELSE disk[f]]
        /\ ~Holds(db, "-journal")
    BY <1>2 DEF CommitWal, Write, Set, Wal
  <2>2. disk' \in Directory
    BY <1>0, <1>1, <2>1 DEF Directory
  <2>3. \A d \in Database : Holds(d, "-journal")' <=> Holds(d, "-journal")
    BY <1>0, <2>1 DEF Holds, Wal
  <2>4. \A d \in Database : Holds(d, "-wal")' => d = db \/ Holds(d, "-wal")
    BY <1>0, <2>1 DEF Holds, Wal
  <2>5. QED
    BY <1>0, <2>1, <2>2, <2>3, <2>4 DEF WriteHolds, Wal, Main, Journal
<1>3. ASSUME NEW db \in Database, Checkpoint(db) PROVE WriteHolds
  <2>1. /\ clock < scope.writes /\ clock' = clock + 1 /\ past' = past \cup {disk'}
        /\ UNCHANGED <<given, stage, output>> /\ spilled' = spilled
        /\ disk' = [f \in File |-> IF f = Main(db) THEN clock + 1 ELSE disk[f]]
        /\ ~Holds(db, "-journal")
    BY <1>0, <1>3 DEF Checkpoint, Write, Set, Main
  <2>2. disk' \in Directory
    BY <1>0, <1>1, <2>1 DEF Directory
  <2>3. \A d \in Database : /\ Holds(d, "-journal")' <=> Holds(d, "-journal")
                            /\ Holds(d, "-wal")' <=> Holds(d, "-wal")
    BY <1>0, <2>1 DEF Holds, Main
  <2>4. QED
    BY <1>0, <2>1, <2>2, <2>3 DEF WriteHolds, Main, Journal
<1>4. ASSUME NEW db \in Database, CloseWal(db) PROVE WriteHolds
  <2>1. /\ clock < scope.writes /\ clock' = clock + 1 /\ past' = past \cup {disk'}
        /\ UNCHANGED <<given, stage, output>> /\ spilled' = spilled
        /\ disk' = [f \in File |-> IF f = Wal(db) THEN Absent ELSE disk[f]]
    BY <1>4 DEF CloseWal, Write, Set, Wal
  <2>2. disk' \in Directory
    BY <1>0, <1>1, <2>1 DEF Directory
  <2>3. \A d \in Database : /\ Holds(d, "-journal")' <=> Holds(d, "-journal")
                            /\ Holds(d, "-wal")' => Holds(d, "-wal")
    BY <1>0, <2>1 DEF Holds, Wal
  <2>4. QED
    BY <1>0, <2>1, <2>2, <2>3 DEF WriteHolds, Wal, Main, Journal
<1>5. ASSUME NEW db \in Database, Spill(db) PROVE WriteHolds
  <2>1. /\ clock < scope.writes /\ clock' = clock + 1 /\ past' = past \cup {disk'}
        /\ UNCHANGED <<given, stage, output>>
        /\ spilled' = [spilled EXCEPT ![db] = disk[Main(db)]]
        /\ disk' = [f \in File |-> IF f \in {Main(db), Journal(db)} THEN clock + 1 ELSE disk[f]]
        /\ ~Holds(db, "-journal") /\ ~Holds(db, "-wal") /\ Journal(db) \in File
    BY <1>5 DEF Spill, Write, Main, Journal
  <2>2. disk' \in Directory /\ disk[Main(db)] \in Content \cup {Absent}
    BY <1>0, <1>1, <2>1 DEF Directory
  <2>3. \A d \in Database : /\ d # db => (Holds(d, "-journal")' <=> Holds(d, "-journal"))
                            /\ Holds(d, "-wal")' <=> Holds(d, "-wal")
    BY <1>0, <2>1 DEF Holds, Main, Journal
  <2>4. Holds(db, "-journal")'
    BY <1>0, <2>1, BoundAssumption DEF Holds, Journal
  <2>5. spilled' \in [Database -> Content \cup {Absent}]
    BY <1>0, <2>1, <2>2
  <2>6. \A d \in Database : d # db => disk'[Main(d)] = disk[Main(d)] /\ spilled'[d] = spilled[d]
    BY <1>0, <2>1 DEF Main, Journal
  <2>7. \A d \in Database : /\ spilled'[d] \in {spilled[d], Absent, disk[Main(d)]}
                            /\ spilled'[d] # Absent => Holds(d, "-journal")'
                            /\ Holds(d, "-journal")' => ~Holds(d, "-wal")'
    BY <1>0, <2>1, <2>3, <2>4, <2>6
  <2>8. \A d \in Database :
          /\ Holds(d, "-journal") => disk'[Main(d)] = disk[Main(d)]
          /\ Journal(d) \in File => disk'[Journal(d)] \in {disk[Journal(d)], clock + 1, Absent}
    BY <2>1, <2>6
  <2>9. QED
    BY <2>1, <2>2, <2>5, <2>7, <2>8 DEF WriteHolds
<1>6. ASSUME NEW db \in Database, NEW main \in {disk[Main(db)], spilled[db]},
             EndTransaction(db, main)
      PROVE  WriteHolds
  <2>1. /\ clock < scope.writes /\ clock' = clock + 1 /\ past' = past \cup {disk'}
        /\ UNCHANGED <<given, stage, output>>
        /\ spilled' = [spilled EXCEPT ![db] = Absent]
        /\ disk' = [f \in File |-> IF f = Main(db) THEN main
                                   ELSE IF f = Journal(db) THEN Absent ELSE disk[f]]
        /\ Holds(db, "-journal")
    <3> DEFINE changes == [f \in {Main(db), Journal(db)} |-> IF f[2] = "" THEN main ELSE Absent]
    <3>1. changes[Main(db)] = main /\ changes[Journal(db)] = Absent
          /\ DOMAIN changes = {Main(db), Journal(db)} /\ Main(db) # Journal(db)
      BY DEF Main, Journal
    <3>2. Write(changes, [spilled EXCEPT ![db] = Absent]) /\ Holds(db, "-journal")
      BY <1>6 DEF EndTransaction, Main, Journal
    <3>3. \A f \in File : (IF f \in DOMAIN changes THEN changes[f] ELSE disk[f])
            = IF f = Main(db) THEN main ELSE IF f = Journal(db) THEN Absent ELSE disk[f]
      BY <3>1
    <3>. HIDE DEF changes
    <3>4. QED
      BY <3>2, <3>3 DEF Write
  <2>2. main \in Content \cup {Absent} /\ Journal(db) \in File /\ disk[Journal(db)] # Absent
    BY <1>0, <2>1 DEF Directory, Holds, Journal
  <2>3. disk' \in Directory
    BY <1>0, <2>1, <2>2 DEF Directory
  <2>4. \A d \in Database : /\ d # db => (Holds(d, "-journal")' <=> Holds(d, "-journal"))
                            /\ Holds(d, "-wal")' <=> Holds(d, "-wal")
    BY <1>0, <2>1 DEF Holds, Main, Journal
  <2>5. disk'[Journal(db)] = Absent /\ ~Holds(db, "-journal")'
    BY <2>1, <2>2 DEF Holds, Main, Journal
  <2>6. \A d \in Database : d # db => disk'[Main(d)] = disk[Main(d)] /\ spilled'[d] = spilled[d]
    BY <1>0, <2>1 DEF Main, Journal
  <2>7. \A d \in Database : /\ spilled'[d] \in {spilled[d], Absent, disk[Main(d)]}
                            /\ spilled'[d] # Absent => Holds(d, "-journal")'
                            /\ Holds(d, "-journal")' => ~Holds(d, "-wal")'
    BY <1>0, <2>1, <2>4, <2>5, <2>6
  <2>8. \A d \in Database :
          /\ disk'[Journal(d)] = disk[Journal(d)] => disk'[Main(d)] = disk[Main(d)]
          /\ Journal(d) \in File => disk'[Journal(d)] \in {disk[Journal(d)], clock + 1, Absent}
    BY <2>1, <2>2, <2>5, <2>6 DEF Main, Journal
  <2>9. ASSUME NEW f \in File
        PROVE  disk'[f] \in {disk[f], clock + 1, Absent} \/ (f[2] = "" /\ disk'[f] = spilled[f[1]])
    <3>1. CASE f = Main(db)
      <4>1. f[1] = db /\ f[2] = "" /\ disk'[f] = main
        BY <2>1, <3>1 DEF Main
      <4>2. QED
        BY <3>1, <4>1
    <3>2. CASE f # Main(db)
      BY <2>1, <3>2
    <3>3. QED
      BY <3>1, <3>2
  <2>10. spilled' \in [Database -> Content \cup {Absent}]
    BY <1>0, <2>1
  <2>11. QED
    BY <2>1, <2>3, <2>7, <2>8, <2>9, <2>10 DEF WriteHolds
<1>7. QED
  BY <1>2, <1>3, <1>4, <1>5, <1>6 DEF Writer, Main

LEMMA ClockTyped ==
  ASSUME TypeOK
  PROVE  /\ clock \in Nat /\ MaxWrites \in Nat /\ scope.writes \in Nat
         /\ scope.writes <= MaxWrites /\ Absent \notin Nat
         /\ scope.runs \subseteq Run
<1>1. scope \in Scenarios /\ MaxWrites \in Nat /\ Absent \notin Nat
  BY BoundAssumption DEF TypeOK
<1>2. scope.writes \in 0 .. MaxWrites /\ scope.runs \subseteq Run
  BY <1>1 DEF Scenarios
<1>3. QED
  BY <1>1, <1>2 DEF TypeOK, Content

(* A content that is gone stays gone: the next content is a new one, and what
   is kept aside or written back is what was there. *)
LEMMA GoneStays ==
  ASSUME IInv, WriteHolds, NEW f \in File, NEW c \in Content, c <= clock, Gone(f, c)
  PROVE  Gone(f, c)'
<1>1. clock \in Nat /\ c \in Nat /\ c # clock + 1 /\ f[1] \in Database
  BY ClockTyped, FileShape DEF IInv, Content
<1>2. disk'[f] # c
  BY <1>1 DEF WriteHolds, Gone
<1>3. ASSUME f[2] = "" PROVE spilled'[f[1]] # c
  <2>1. f = Main(f[1])
    BY <1>3, FileShape DEF Main
  <2>2. QED
    BY <1>1, <1>3, <2>1 DEF WriteHolds, Gone
<1>4. QED
  BY <1>2, <1>3 DEF Gone

LEMMA WriterStep ==
  ASSUME IInv, Writer
  PROVE  IInv'
<1>0. /\ WriteHolds /\ TypeOK /\ WritersHold
      /\ clock \in Nat /\ MaxWrites \in Nat /\ scope.writes \in Nat /\ Absent \notin Nat
      /\ scope.writes <= MaxWrites
  BY WriterWrites, ClockTyped DEF IInv
<1>a. /\ clock' = clock + 1 /\ clock < scope.writes /\ past' = past \cup {disk'}
      /\ UNCHANGED <<scope, row, sound, audits, pc, todo, rec, before, snap, work, report, output>>
  BY <1>0 DEF WriteHolds, given, stage
<1>1. TypeOK'
  <2>1. clock' \in Content
    BY <1>0, <1>a DEF Content
  <2>2. QED
    BY <1>0, <2>1 DEF WriteHolds, TypeOK, given, stage
<1>2. Known(clock) \subseteq Known(clock') /\ clock + 1 \in Known(clock') /\ Absent \in Known(clock')
  <2>1. 0 .. clock \subseteq 0 .. clock + 1 /\ clock + 1 \in 0 .. clock + 1
    BY <1>0
  <2>2. QED
    BY <1>a, <2>1 DEF Known
<1>3. WritersHold'
  <2>1. ASSUME NEW f \in File PROVE disk'[f] \in Known(clock')
    <3>1. disk[f] \in Known(clock) /\ spilled[f[1]] \in Known(clock)
      BY <1>0, FileShape DEF WritersHold
    <3>2. QED
      BY <1>0, <1>2, <3>1 DEF WriteHolds
  <2>2. ASSUME NEW db \in Database PROVE spilled'[db] \in Known(clock')
    <3>1. spilled[db] \in Known(clock) /\ disk[Main(db)] \in Known(clock)
      BY <1>0, FilesAssumption DEF WritersHold, Main
    <3>2. QED
      BY <1>0, <1>2, <3>1 DEF WriteHolds
  <2>3. clock' <= scope'.writes /\ disk' \in past'
    BY <1>0, <1>a
  <2>4. QED
    BY <1>0, <2>1, <2>2, <2>3 DEF WritersHold, WriteHolds
<1>4. ASSUME NEW r \in Run
      PROVE  CopyHolds(r)' /\ RecheckHolds(r)' /\ RepairHolds(r)' /\ OutputHolds(r)'
  <2>1. /\ UNCHANGED <<scope, row, sound, audits>> /\ output' = output
        /\ UNCHANGED <<pc, todo, rec, before, snap, work, report>> /\ past \subseteq past'
    BY <1>a
  <2>2. CopyHolds(r) /\ RecheckHolds(r) /\ RepairHolds(r) /\ OutputHolds(r)
    BY DEF IInv
  <2>3. before[r] \in Directory /\ rec[r] \in Directory
    BY <1>0 DEF TypeOK
  <2>4. ASSUME NEW f \in File PROVE rec[r][f] \in Known(clock') /\ before[r][f] \in Known(clock')
    BY <1>2, <2>2 DEF CopyHolds
  <2>5. ASSUME NEW db \in Database, Journal(db) \in File, before[r][Journal(db)] # Absent,
               disk'[Journal(db)] = before[r][Journal(db)], snap[r][Main(db)] # Absent
        PROVE  disk'[Main(db)] = snap[r][Main(db)]
    <3>1. before[r][Journal(db)] \in 0 .. clock
      BY <2>2, <2>5 DEF CopyHolds, Known
    <3>2. disk[Journal(db)] = before[r][Journal(db)]
      <4>1. before[r][Journal(db)] # clock + 1 /\ before[r][Journal(db)] # Absent
        BY <1>0, <2>5, <3>1
      <4>2. disk'[Journal(db)] \in {disk[Journal(db)], clock + 1, Absent}
        BY <1>0, <2>5 DEF WriteHolds
      <4>3. QED
        BY <2>5, <4>1, <4>2
    <3>3. Holds(db, "-journal") /\ disk'[Journal(db)] = disk[Journal(db)]
      BY <2>5, <3>2 DEF Holds, Journal
    <3>4. disk[Main(db)] = snap[r][Main(db)]
      BY <2>2, <2>5, <3>2 DEF CopyHolds
    <3>5. QED
      BY <1>0, <3>3, <3>4 DEF WriteHolds
  <2>6. CopyHolds(r)'
    BY <2>1, <2>2, <2>4, <2>5 DEF CopyHolds, Journal, Main
  <2>7. RecheckHolds(r)'
    <3>1. ASSUME NEW f \in File, Doomed(r, f) PROVE Doomed(r, f)'
      <4>1. CASE f \in todo[r] /\ Gone(f, before[r][f])
        <5>1. before[r][f] \in Content /\ before[r][f] <= clock
          <6>1. before[r][f] \in Known(clock) /\ before[r][f] # Absent
            BY <2>2, <4>1 DEF CopyHolds, Gone
          <6>2. before[r][f] \in Content \cup {Absent}
            BY <2>3 DEF Directory
          <6>3. QED
            BY <1>0, <6>1, <6>2 DEF Known
        <5>2. Gone(f, before[r][f])'
          BY <1>0, <2>1, <4>1, <5>1, GoneStays DEF Gone
        <5>3. QED
          BY <2>1, <4>1, <5>2 DEF Doomed
      <4>2. CASE ~ (f \in todo[r] /\ Gone(f, before[r][f]))
        BY <2>1, <3>1, <4>2 DEF Doomed
      <4>3. QED
        BY <4>1, <4>2
    <3>2. QED
      BY <2>1, <2>2, <3>1 DEF RecheckHolds
  <2>8. RepairHolds(r)' /\ OutputHolds(r)'
    <3>1. Databases(r)' = Databases(r) /\ (Understood(r)' <=> Understood(r))
      BY <2>1 DEF Databases, Understood, Explained
    <3>2. RepairHolds(r)'
      BY <2>1, <2>2, <3>1 DEF RepairHolds, Explained, Repaired
    <3>3. QED
      BY <2>1, <2>2, <3>2 DEF OutputHolds
  <2>9. QED
    BY <2>6, <2>7, <2>8
<1>5. QED
  BY <1>1, <1>3, <1>4 DEF IInv

-----------------------------------------------------------------------------
(* The runs: a step of one leaves the others and the source alone.          *)

Only(r) ==
  /\ UNCHANGED <<source, given>> /\ output' \in {output, r}
  /\ \A s \in Run \ {r} :
       /\ pc'[s] = pc[s] /\ todo'[s] = todo[s] /\ rec'[s] = rec[s] /\ before'[s] = before[s]
       /\ snap'[s] = snap[s] /\ work'[s] = work[s] /\ report'[s] = report[s]

RunStep(r) ==
  \/ Start(r) \/ List(r) \/ HashFile(r) \/ TakeRecords(r) \/ CopyFile(r) \/ Recheck(r)
  \/ Inspect(r) \/ Repair(r) \/ WriteReport(r) \/ CheckOutput(r) \/ Rename(r)
  \/ Break(r) \/ Die(r)

LEMMA OtherRuns ==
  ASSUME IInv, NEW r \in Run, Only(r), TypeOK',
         CopyHolds(r)', RecheckHolds(r)', RepairHolds(r)', OutputHolds(r)'
  PROVE  IInv'
<1>1. UNCHANGED <<scope, disk, spilled, clock, past, row, audits, sound>>
  BY DEF Only, source, given
<1>2. WritersHold'
  BY <1>1 DEF IInv, WritersHold, Holds
<1>3. ASSUME NEW s \in Run, s # r
      PROVE  CopyHolds(s)' /\ RecheckHolds(s)' /\ RepairHolds(s)' /\ OutputHolds(s)'
  <2>1. /\ pc'[s] = pc[s] /\ todo'[s] = todo[s] /\ rec'[s] = rec[s] /\ before'[s] = before[s]
        /\ snap'[s] = snap[s] /\ work'[s] = work[s] /\ report'[s] = report[s]
        /\ output' = s => output = s
    BY <1>3 DEF Only
  <2>2. CopyHolds(s) /\ RecheckHolds(s) /\ RepairHolds(s) /\ OutputHolds(s)
    BY DEF IInv
  <2>3. CopyHolds(s)'
    BY <1>1, <2>1, <2>2 DEF CopyHolds
  <2>4. RecheckHolds(s)'
    BY <1>1, <2>1, <2>2 DEF RecheckHolds, Doomed, Gone
  <2>5. Databases(s)' = Databases(s) /\ (Understood(s)' <=> Understood(s))
    BY <1>1, <2>1 DEF Databases, Understood, Explained
  <2>6. RepairHolds(s)'
    BY <1>1, <2>1, <2>2, <2>5 DEF RepairHolds, Explained, Repaired
  <2>7. OutputHolds(s)'
    BY <1>1, <2>1, <2>2 DEF OutputHolds
  <2>8. QED
    BY <2>3, <2>4, <2>6, <2>7
<1>4. QED
  BY <1>2, <1>3 DEF IInv

LEMMA RunTyped ==
  ASSUME IInv, NEW r \in Run, RunStep(r)
  PROVE  TypeOK' /\ Only(r)
<1>. USE DEF TypeOK, Only, source, given, stage, Goto, Proceed
<1>0. /\ TypeOK /\ Nothing \in Directory
      /\ \A f \in todo[r] : f \in File /\ f[1] \in Database
  BY FileShape DEF IInv, Nothing, Directory
<1>1. ASSUME Fail(r), UNCHANGED <<source, given, rec, before, snap, work, output>>,
             todo' \in [Run -> SUBSET File], \A s \in Run \ {r} : todo'[s] = todo[s]
      PROVE  TypeOK' /\ Only(r)
  <2>1. PICK text \in {report[r], "failed"} : report' = [report EXCEPT ![r] = text]
    BY <1>1 DEF Fail
  <2>2. pc' = [pc EXCEPT ![r] = "failed"]
    BY <1>1 DEF Fail
  <2>3. pc' \in [Run -> Stage] /\ \A s \in Run \ {r} : pc'[s] = pc[s]
    BY <1>0, <2>2 DEF Stage
  <2>4. report' \in [Run -> {"none", "failed", "success"}]
        /\ \A s \in Run \ {r} : report'[s] = report[s]
    BY <1>0, <2>1
  <2>5. \A s \in Run : pc'[s] \in {"copy", "inspect", "repair"} => todo'[s] # {}
    BY <1>0, <1>1, <2>2
  <2>6. QED
    BY <1>0, <1>1, <2>3, <2>4, <2>5
<1>2. CASE Start(r)
  BY <1>0, <1>2 DEF Start, Stage
<1>3. CASE List(r)
  <2>1. PICK l \in {"hash1", "hash2", "hash3"} : Proceed(r, l)
    BY <1>3 DEF List
  <2>2. Present(disk) \in SUBSET File
    BY DEF Present
  <2>3. QED
    BY <1>0, <1>3, <2>1, <2>2 DEF List, Stage
<1>4. CASE HashFile(r)
  <2>1. CASE disk[First(todo[r])] = Absent
    BY <1>0, <1>1, <1>4, <2>1 DEF HashFile
  <2>2. CASE disk[First(todo[r])] # Absent
    <3> DEFINE f == First(todo[r])
    <3>1. f \in File
      BY <1>0, <1>4, FirstIsOne DEF HashFile
    <3>2. disk[f] \in Content \cup {Absent} /\ rec[r] \in Directory
      BY <1>0, <3>1 DEF Directory
    <3>3. [rec[r] EXCEPT ![f] = disk[f]] \in Directory
      BY <3>2 DEF Directory
    <3>4. /\ rec' = [rec EXCEPT ![r] = [rec[r] EXCEPT ![f] = disk[f]]]
          /\ todo' = [todo EXCEPT ![r] = todo[r] \ {f}]
          /\ UNCHANGED <<pc, report, source, given, before, snap, work, output>>
          /\ pc[r] \in {"hash1", "hash2", "hash3"}
      BY <1>4, <2>2 DEF HashFile
    <3>5. rec' \in [Run -> Directory] /\ todo' \in [Run -> SUBSET File]
          /\ \A s \in Run \ {r} : rec'[s] = rec[s] /\ todo'[s] = todo[s]
      <4>. HIDE DEF f
      <4>1. QED
        BY <1>0, <3>3, <3>4
    <3>6. \A s \in Run : pc'[s] \in {"copy", "inspect", "repair"} => todo'[s] # {}
      BY <1>0, <3>4, <3>5
    <3>7. QED
      BY <1>0, <3>4, <3>5, <3>6
  <2>3. QED
    BY <2>1, <2>2
<1>5. CASE TakeRecords(r)
  <2>1. CASE Acceptable(rec[r])
    <3>1. Present(rec[r]) # {} /\ Present(rec[r]) \in SUBSET File
      BY <2>1 DEF Acceptable, Present
    <3>2. QED
      BY <1>0, <1>5, <2>1, <3>1 DEF TakeRecords, Stage
  <2>2. CASE ~Acceptable(rec[r])
    BY <1>0, <1>1, <1>5, <2>2 DEF TakeRecords
  <2>3. QED
    BY <2>1, <2>2
<1>6. CASE CopyFile(r)
  <2> DEFINE f == First(todo[r])
  <2>1. CASE disk[f] # before[r][f]
    BY <1>0, <1>1, <1>6, <2>1 DEF CopyFile
  <2>2. CASE disk[f] = before[r][f]
    <3>1. f \in File
      BY <1>0, <1>6, FirstIsOne DEF CopyFile
    <3>2. disk[f] \in Content \cup {Absent} /\ snap[r] \in Directory
      BY <1>0, <3>1 DEF Directory
    <3>3. [snap[r] EXCEPT ![f] = disk[f]] \in Directory
      BY <3>2 DEF Directory
    <3>4. /\ snap' = [snap EXCEPT ![r] = [snap[r] EXCEPT ![f] = disk[f]]]
          /\ todo' = [todo EXCEPT ![r] = todo[r] \ {f}]
          /\ pc' = [pc EXCEPT ![r] = IF todo[r] = {f} THEN "list2" ELSE "copy"]
          /\ UNCHANGED <<report, source, given, before, rec, work, output>>
          /\ todo[r] # {}
      BY <1>6, <2>2 DEF CopyFile
    <3>5. /\ snap' \in [Run -> Directory] /\ todo' \in [Run -> SUBSET File]
          /\ pc' \in [Run -> Stage]
          /\ pc'[r] = "copy" => todo'[r] # {}
          /\ pc'[r] \in {"copy", "list2"}
          /\ \A s \in Run \ {r} : snap'[s] = snap[s] /\ todo'[s] = todo[s] /\ pc'[s] = pc[s]
      <4>. HIDE DEF f
      <4>1. QED
        BY <1>0, <3>3, <3>4 DEF Stage
    <3>6. \A s \in Run : pc'[s] \in {"copy", "inspect", "repair"} => todo'[s] # {}
      BY <1>0, <3>5
    <3>7. QED
      BY <1>0, <3>4, <3>5, <3>6
  <2>3. QED
    BY <2>1, <2>2
<1>7. CASE Recheck(r)
  <2>1. Databases(r) \in SUBSET File /\ todo' = [todo EXCEPT ![r] = Databases(r)]
    BY <1>7 DEF Databases, Recheck
  <2>2. CASE rec[r] # before[r]
    BY <1>0, <1>1, <1>7, <2>1, <2>2 DEF Recheck
  <2>3. CASE rec[r] = before[r]
    <3>1. Proceed(r, AfterCheck(r)) /\ UNCHANGED <<source, given, rec, before, snap, work, output>>
      BY <1>7, <2>3 DEF Recheck
    <3>2. AfterCheck(r) \in {"inspect", "report"}
      BY <1>7 DEF Recheck, AfterCheck
    <3>3. Databases(r) # {}
      BY <1>7 DEF Recheck, IInv, CopyHolds, Acceptable, Databases
    <3>4. QED
      BY <1>0, <2>1, <3>1, <3>2, <3>3 DEF Stage
  <2>4. QED
    BY <2>2, <2>3
<1>8. CASE Inspect(r)
  <2> DEFINE f == First(todo[r])
             understood == sound[f[1]] /\ Explained(work[r][f[1]])
  <2>1. CASE ~understood
    BY <1>0, <1>1, <1>8, <2>1 DEF Inspect
  <2>2. CASE understood
    <3>1. /\ Proceed(r, IF todo[r] = {f} THEN Inspected(r) ELSE "inspect")
          /\ todo' = [todo EXCEPT ![r] = IF todo[r] = {f} THEN Databases(r) ELSE todo[r] \ {f}]
          /\ UNCHANGED <<source, given, rec, before, snap, work, output>>
          /\ pc[r] = "inspect"
      BY <1>8, <2>2 DEF Inspect
    <3>2. Databases(r) # {} /\ Databases(r) \in SUBSET File /\ todo[r] # {}
      BY <1>0, <3>1 DEF IInv, CopyHolds, Acceptable, Databases
    <3>3. Inspected(r) \in {"list3", "repair"}
      BY DEF Inspected
    <3>4. PICK l \in {"inspect", "list3", "repair"}, T \in SUBSET File :
            T # {} /\ Proceed(r, l) /\ todo' = [todo EXCEPT ![r] = T]
      <4>1. CASE todo[r] = {f}
        BY <3>1, <3>2, <3>3, <4>1
      <4>2. CASE todo[r] # {f}
        <5>1. todo[r] \ {f} # {} /\ todo[r] \ {f} \in SUBSET File
          BY <1>0, <3>2, <4>2
        <5>2. QED
          BY <3>1, <4>2, <5>1
      <4>3. QED
        BY <4>1, <4>2
    <3>5. QED
      BY <1>0, <3>1, <3>4 DEF Stage
  <2>3. QED
    BY <2>1, <2>2
<1>9. CASE Repair(r)
  <2> DEFINE f == First(todo[r])
             db == f[1]
  <2>1. /\ Proceed(r, IF todo[r] = {f} THEN "list3" ELSE "repair")
        /\ todo' = [todo EXCEPT ![r] = todo[r] \ {f}]
        /\ work' = [work EXCEPT ![r] = [work[r] EXCEPT ![db] = Repaired(work[r][db])]]
        /\ UNCHANGED <<source, given, rec, before, snap, output>>
        /\ pc[r] = "repair"
    BY <1>9 DEF Repair
  <2>2. todo[r] # {} /\ todo[r] \in SUBSET File /\ db \in Database
    <3>1. todo[r] # {} /\ todo[r] \in SUBSET File
      BY <1>0, <2>1
    <3>2. QED
      BY <3>1, FirstIsOne, FileShape
  <2>3. work[r][db] \in [Migration -> Checksum] /\ work[r] \in [Database -> [Migration -> Checksum]]
    BY <1>0, <2>2
  <2>4. Repaired(work[r][db]) \in [Migration -> Checksum]
    BY <2>3 DEF Repaired, Checksum
  <2>5. [work[r] EXCEPT ![db] = Repaired(work[r][db])] \in [Database -> [Migration -> Checksum]]
    BY <2>3, <2>4
  <2>6. PICK l \in {"list3", "repair"}, T \in SUBSET File :
          Proceed(r, l) /\ todo' = [todo EXCEPT ![r] = T] /\ (l = "repair" => T # {})
    <3>1. todo[r] \ {f} \in SUBSET File /\ (todo[r] # {f} => todo[r] \ {f} # {})
      BY <2>2
    <3>. HIDE DEF f
    <3>2. CASE todo[r] = {f}
      BY <2>1, <3>1, <3>2
    <3>3. CASE todo[r] # {f}
      <4> DEFINE rest == todo[r] \ {f}
      <4>1. /\ Proceed(r, "repair") /\ todo' = [todo EXCEPT ![r] = rest]
            /\ rest # {} /\ rest \in SUBSET File
        BY <2>1, <3>1, <3>3
      <4>. HIDE DEF rest
      <4>2. QED
        BY <4>1
    <3>4. QED
      BY <3>2, <3>3
  <2>7. PICK w \in [Database -> [Migration -> Checksum]] : work' = [work EXCEPT ![r] = w]
    BY <2>1, <2>5
  <2>8. UNCHANGED <<source, given, rec, before, snap, output>>
    BY <2>1
  <2>9. /\ pc' \in [Run -> Stage] /\ todo' \in [Run -> SUBSET File]
        /\ work' \in [Run -> [Database -> [Migration -> Checksum]]]
        /\ pc'[r] = l /\ todo'[r] = T
        /\ report' = report
        /\ \A s \in Run \ {r} : pc'[s] = pc[s] /\ todo'[s] = todo[s] /\ work'[s] = work[s]
    BY <1>0, <2>6, <2>7 DEF Stage
  <2>10. \A s \in Run : pc'[s] \in {"copy", "inspect", "repair"} => todo'[s] # {}
    BY <1>0, <2>6, <2>9
  <2>11. QED
    BY <1>0, <2>8, <2>9, <2>10
<1>10. CASE WriteReport(r)
  BY <1>0, <1>10 DEF WriteReport, Stage
<1>11. CASE CheckOutput(r)
  <2>1. CASE output = NoRun
    BY <1>0, <1>11, <2>1 DEF CheckOutput, Stage
  <2>2. CASE output # NoRun
    BY <1>0, <1>1, <1>11, <2>2 DEF CheckOutput
  <2>3. QED
    BY <2>1, <2>2
<1>12. CASE Rename(r)
  <2>1. CASE output = NoRun
    BY <1>0, <1>12, <2>1 DEF Rename, Stage
  <2>2. CASE output # NoRun
    BY <1>0, <1>1, <1>12, <2>2 DEF Rename
  <2>3. QED
    BY <2>1, <2>2
<1>13. CASE Break(r)
  BY <1>0, <1>1, <1>13 DEF Break
<1>14. CASE Die(r)
  BY <1>0, <1>14 DEF Die, Stage
<1>15. QED
  BY <1>2, <1>3, <1>4, <1>5, <1>6, <1>7, <1>8, <1>9, <1>10, <1>11, <1>12, <1>13, <1>14 DEF RunStep
-----------------------------------------------------------------------------
(* The runs: each step keeps what holds of the run that takes it.           *)

(* A source that is not what was copied when it is listed again cannot pass
   the recheck: some file gives it away, if not the main file itself then the
   journal of the transaction that could still restore it. *)
LEMMA ListNotices ==
  ASSUME IInv, NEW r \in Run, pc[r] = "list2", List(r)
  PROVE  RecheckHolds(r)'
<1>1. /\ todo'[r] = Present(disk) /\ rec'[r] = Nothing /\ pc'[r] = "hash2"
      /\ disk' = disk /\ spilled' = spilled /\ past' = past /\ before' = before
      /\ disk \in Directory /\ before[r] \in Directory /\ disk \in past
      /\ snap[r] = before[r]
  BY DEF List, Proceed, Goto, source, IInv, TypeOK, WritersHold, CopyHolds
<1>2. \A f \in File : f \in todo'[r] <=> disk[f] # Absent
  BY <1>1 DEF Present
<1>3. \A f \in File : rec'[r][f] = Absent
  BY <1>1 DEF Nothing
<1>4. CASE disk = before[r]
  BY <1>1, <1>4 DEF RecheckHolds, Checked
<1>5. CASE disk # before[r]
  <2>1. PICK f \in File : disk[f] # before[r][f]
    BY <1>1, <1>5 DEF Directory
  <2>2. ASSUME NEW g \in File, disk[g] # before[r][g],
               g[2] # "" \/ spilled[g[1]] # before[r][g]
        PROVE  Doomed(r, g)'
    <3>1. CASE before[r][g] = Absent
      BY <1>1, <1>2, <2>2, <3>1 DEF Doomed
    <3>2. CASE before[r][g] # Absent /\ disk[g] = Absent
      BY <1>1, <1>2, <1>3, <3>2 DEF Doomed
    <3>3. CASE before[r][g] # Absent /\ disk[g] # Absent
      <4>1. Gone(g, before[r][g])'
        BY <1>1, <2>2, <3>3 DEF Gone
      <4>2. QED
        BY <1>1, <1>2, <3>3, <4>1 DEF Doomed
    <3>4. QED
      BY <3>1, <3>2, <3>3
  <2>3. \E g \in File : Doomed(r, g)'
    <3>1. CASE before[r][f] = Absent \/ disk[f] = Absent
      BY <1>1, <1>2, <1>3, <2>1, <3>1 DEF Doomed
    <3>2. CASE f[2] # "" \/ spilled[f[1]] # before[r][f]
      BY <2>1, <2>2, <3>2
    <3>3. CASE f[2] = "" /\ spilled[f[1]] = before[r][f] /\ before[r][f] # Absent
      <4>1. PICK db \in Database : f = Main(db) /\ f[1] = db
        BY <3>3, FileShape DEF Main
      <4>2. Journal(db) \in File /\ disk[Journal(db)] # Absent
        BY <3>3, <4>1 DEF IInv, WritersHold, Holds, Journal
      <4>3. CASE disk[Journal(db)] = before[r][Journal(db)]
        BY <1>1, <2>1, <3>3, <4>1, <4>2, <4>3 DEF IInv, CopyHolds
      <4>4. CASE disk[Journal(db)] # before[r][Journal(db)]
        BY <2>2, <4>2, <4>4 DEF Journal
      <4>5. QED
        BY <4>3, <4>4
    <3>4. QED
      BY <3>1, <3>2, <3>3
  <2>4. QED
    BY <1>1, <2>3 DEF RecheckHolds, Checked
<1>6. QED
  BY <1>4, <1>5

RunHolds(r) == CopyHolds(r) /\ RecheckHolds(r) /\ RepairHolds(r) /\ OutputHolds(r)

(* A run that ends without its output keeps what it has. *)
LEMMA EndHolds ==
  ASSUME IInv, NEW r \in Run, pc[r] # "done", pc'[r] \in {"failed", "dead"},
         UNCHANGED <<source, given, rec, before, snap, work, output>>
  PROVE  RunHolds(r)'
<1>1. UNCHANGED <<disk, clock, rec, before, snap, output>>
  BY DEF source
<1>2. CopyHolds(r) /\ OutputHolds(r)
  BY DEF IInv
<1>3. CopyHolds(r)'
  BY <1>1, <1>2 DEF CopyHolds
<1>4. RecheckHolds(r)' /\ RepairHolds(r)'
  BY DEF RecheckHolds, RepairHolds, Checked, Unrepaired
<1>5. OutputHolds(r)'
  BY <1>1, <1>2 DEF OutputHolds
<1>6. QED
  BY <1>3, <1>4, <1>5 DEF RunHolds

(* Listing, hashing and copying the source. *)
LEMMA CopyingHolds ==
  ASSUME IInv, NEW r \in Run, TypeOK',
         Start(r) \/ List(r) \/ HashFile(r) \/ TakeRecords(r) \/ CopyFile(r) \/ Recheck(r)
  PROVE  RunHolds(r)'
<1>. USE DEF Goto, Proceed
<1>0. /\ TypeOK /\ WritersHold /\ CopyHolds(r) /\ RecheckHolds(r) /\ RepairHolds(r) /\ OutputHolds(r)
      /\ todo[r] \in SUBSET File /\ rec[r] \in Directory /\ before[r] \in Directory
      /\ snap[r] \in Directory /\ disk \in Directory /\ pc[r] \in Stage
  BY DEF IInv, TypeOK
<1>1. ASSUME Fail(r), pc[r] # "done", UNCHANGED <<source, given, rec, before, snap, work, output>>
      PROVE  RunHolds(r)'
  <2>1. pc'[r] = "failed"
    BY <1>0, <1>1 DEF Fail, TypeOK
  <2>2. QED
    BY <1>1, <2>1, EndHolds
<1>2. CASE Start(r)
  <2>1. /\ pc[r] = "idle" /\ pc'[r] \in {"list1", "failed"} /\ disk' = disk /\ clock' = clock
        /\ UNCHANGED <<source, given, todo, rec, before, snap, work, report, output>>
    BY <1>0, <1>2 DEF Start, source, TypeOK
  <2>2. CopyHolds(r)'
    BY <1>0, <2>1 DEF CopyHolds
  <2>3. RecheckHolds(r)' /\ RepairHolds(r)'
    BY <1>0, <2>1 DEF RecheckHolds, RepairHolds, Checked, Unrepaired, given
  <2>4. OutputHolds(r)'
    BY <1>0, <2>1 DEF OutputHolds
  <2>5. QED
    BY <2>2, <2>3, <2>4 DEF RunHolds
<1>3. CASE List(r)
  <2>1. /\ <<pc[r], pc'[r]>> \in {<<"list1", "hash1">>, <<"list2", "hash2">>, <<"list3", "hash3">>}
        /\ UNCHANGED <<disk, spilled, clock, past, row, sound, audits>>
        /\ UNCHANGED <<before, snap, work, report, output>> /\ rec'[r] = Nothing
    BY <1>0, <1>3 DEF List, source, given, TypeOK
  <2>2. \A f \in File : rec'[r][f] = Absent
    BY <2>1 DEF Nothing
  <2>3. CopyHolds(r)'
    BY <1>0, <2>1, <2>2 DEF CopyHolds, Known
  <2>4. RecheckHolds(r)'
    <3>1. CASE pc[r] = "list2"
      BY <1>3, <3>1, ListNotices
    <3>2. CASE pc[r] # "list2"
      BY <1>0, <2>1, <3>2 DEF RecheckHolds, Checked
    <3>3. QED
      BY <3>1, <3>2
  <2>5. Databases(r)' = Databases(r) /\ (Understood(r)' <=> Understood(r))
    BY <2>1 DEF Databases, Understood, Explained
  <2>6. RepairHolds(r)'
    BY <1>0, <2>1, <2>5 DEF RepairHolds, Checked, Unrepaired, Repaired
  <2>7. OutputHolds(r)'
    BY <1>0, <2>1 DEF OutputHolds
  <2>8. QED
    BY <2>3, <2>4, <2>6, <2>7 DEF RunHolds
<1>4. CASE HashFile(r)
  <2> DEFINE f == First(todo[r])
  <2>1. CASE disk[f] = Absent
    BY <1>1, <1>4, <2>1 DEF HashFile
  <2>2. CASE disk[f] # Absent
    <3>1. /\ pc[r] \in {"hash1", "hash2", "hash3"} /\ f \in todo[r] /\ f \in File
          /\ rec'[r] = [rec[r] EXCEPT ![f] = disk[f]] /\ todo'[r] = todo[r] \ {f}
          /\ UNCHANGED <<disk, spilled, clock, past, row, sound, audits>>
          /\ UNCHANGED <<pc, before, snap, work, report, output>>
      BY <1>0, <1>4, <2>2, FirstIsOne DEF HashFile, source, given, TypeOK
    <3>. HIDE DEF f
    <3>2. /\ rec'[r][f] = disk[f] /\ \A g \in File \ {f} : rec'[r][g] = rec[r][g]
          /\ \A g \in File : rec[r][g] \in Known(clock) /\ before[r][g] \in Known(clock)
          /\ disk[f] \in Known(clock)
      BY <1>0, <3>1 DEF Directory, CopyHolds, WritersHold
    <3>3. \A g \in File : rec'[r][g] \in Known(clock)
      BY <3>2
    <3>4. CopyHolds(r)'
      BY <1>0, <3>1, <3>3 DEF CopyHolds
    <3>5. ASSUME NEW g \in File, Doomed(r, g) PROVE Doomed(r, g)'
      <4>1. CASE g = f
        BY <2>2, <3>1, <3>2, <3>5, <4>1 DEF Doomed, Gone
      <4>2. CASE g # f
        BY <3>1, <3>2, <3>5, <4>2 DEF Doomed, Gone
      <4>3. QED
        BY <4>1, <4>2
    <3>6. RecheckHolds(r)'
      BY <1>0, <3>1, <3>5 DEF RecheckHolds
    <3>7. Databases(r)' = Databases(r) /\ (Understood(r)' <=> Understood(r))
      BY <3>1 DEF Databases, Understood, Explained
    <3>8. RepairHolds(r)'
      BY <1>0, <3>1, <3>7 DEF RepairHolds, Checked, Unrepaired, Repaired
    <3>9. OutputHolds(r)'
      BY <1>0, <3>1 DEF OutputHolds
    <3>10. QED
      BY <3>4, <3>6, <3>8, <3>9 DEF RunHolds
  <2>3. QED
    BY <2>1, <2>2
<1>5. CASE TakeRecords(r)
  <2>1. CASE ~Acceptable(rec[r])
    BY <1>1, <1>5, <2>1 DEF TakeRecords
  <2>2. CASE Acceptable(rec[r])
    <3>1. /\ pc[r] = "hash1" /\ pc'[r] = "copy" /\ before'[r] = rec[r]
          /\ todo'[r] = Present(rec[r]) /\ snap[r] = Nothing /\ work[r] = row
          /\ UNCHANGED <<disk, spilled, clock, past, row, sound, audits>>
          /\ UNCHANGED <<rec, snap, work, report, output>>
      BY <1>0, <1>5, <2>2 DEF TakeRecords, source, given, TypeOK, CopyHolds, RepairHolds, Unrepaired
    <3>2. \A g \in File : snap[r][g] = Absent /\ (g \in todo'[r] <=> before'[r][g] # Absent)
      BY <3>1 DEF Nothing, Present
    <3>3. \A db \in Database : Main(db) \in File
      BY FilesAssumption DEF Main
    <3>4. Acceptable(before[r])'
      BY <2>2, <3>1 DEF Acceptable
    <3>5. CopyHolds(r)'
      BY <1>0, <3>1, <3>2, <3>3, <3>4 DEF CopyHolds
    <3>6. RecheckHolds(r)' /\ RepairHolds(r)'
      BY <3>1 DEF RecheckHolds, RepairHolds, Checked, Unrepaired
    <3>7. OutputHolds(r)'
      BY <1>0, <3>1 DEF OutputHolds
    <3>8. QED
      BY <3>5, <3>6, <3>7 DEF RunHolds
  <2>3. QED
    BY <2>1, <2>2
<1>6. CASE CopyFile(r)
  <2> DEFINE f == First(todo[r])
  <2>1. CASE disk[f] # before[r][f]
    BY <1>1, <1>6, <2>1 DEF CopyFile
  <2>2. CASE disk[f] = before[r][f]
    <3>1. /\ pc[r] = "copy" /\ pc'[r] = (IF todo[r] = {f} THEN "list2" ELSE "copy")
          /\ f \in todo[r] /\ f \in File /\ snap'[r] = [snap[r] EXCEPT ![f] = disk[f]]
          /\ todo'[r] = todo[r] \ {f} /\ work[r] = row
          /\ UNCHANGED <<disk, spilled, clock, past, row, sound, audits>>
          /\ UNCHANGED <<rec, before, work, report, output>>
      BY <1>0, <1>6, <2>2, FirstIsOne
      DEF CopyFile, source, given, TypeOK, RepairHolds, Unrepaired
    <3>. HIDE DEF f
    <3>2. /\ snap'[r][f] = before[r][f] /\ \A g \in File \ {f} : snap'[r][g] = snap[r][g]
          /\ snap'[r] \in Directory
      BY <1>0, <2>2, <3>1 DEF Directory, TypeOK
    <3>3. \A g \in File : snap'[r][g] = before[r][g] \/ (g \in todo'[r] /\ snap'[r][g] = Absent)
      BY <1>0, <3>1, <3>2 DEF CopyHolds
    <3>4. pc'[r] = "list2" => snap'[r] = before[r]
      <4>1. pc'[r] = "list2" => \A g \in File : snap'[r][g] = before[r][g]
        BY <3>1, <3>3
      <4>2. QED
        BY <1>0, <3>2, <4>1 DEF Directory
    <3>5. ASSUME NEW db \in Database, Journal(db) \in File, before[r][Journal(db)] # Absent,
                 disk[Journal(db)] = before[r][Journal(db)], snap'[r][Main(db)] # Absent
          PROVE  disk[Main(db)] = snap'[r][Main(db)]
      <4>1. Main(db) \in File
        BY FilesAssumption DEF Main
      <4>2. CASE Main(db) = f
        BY <2>2, <3>2, <4>2
      <4>3. CASE Main(db) # f
        BY <1>0, <3>2, <3>5, <4>1, <4>3 DEF CopyHolds
      <4>4. QED
        BY <4>2, <4>3
    <3>6. Acceptable(before[r])'
      BY <1>0, <3>1 DEF CopyHolds, Acceptable
    <3>7. CopyHolds(r)'
      BY <1>0, <3>1, <3>3, <3>4, <3>5, <3>6 DEF CopyHolds
    <3>8. RecheckHolds(r)' /\ RepairHolds(r)'
      BY <3>1 DEF RecheckHolds, RepairHolds, Checked, Unrepaired
    <3>9. OutputHolds(r)'
      BY <1>0, <3>1 DEF OutputHolds
    <3>10. QED
      BY <3>7, <3>8, <3>9 DEF RunHolds
  <2>3. QED
    BY <2>1, <2>2
<1>7. CASE Recheck(r)
  <2>1. CASE rec[r] # before[r]
    BY <1>1, <1>7, <2>1 DEF Recheck
  <2>2. CASE rec[r] = before[r]
    <3>1. /\ <<pc[r], pc'[r]>> \in {<<"hash2", "inspect">>, <<"hash3", "report">>}
          /\ todo[r] = {} /\ todo'[r] = Databases(r)
          /\ UNCHANGED <<disk, spilled, clock, past, row, sound, audits>>
          /\ UNCHANGED <<rec, before, snap, work, report, output>>
      BY <1>0, <1>7, <2>2 DEF Recheck, AfterCheck, source, given, TypeOK
    <3>2. CopyHolds(r)'
      BY <1>0, <3>1 DEF CopyHolds
    <3>3. ~ \E f \in File : Doomed(r, f)
      BY <2>2, <3>1 DEF Doomed
    <3>4. before[r] \in past
      BY <1>0, <3>1, <3>3 DEF RecheckHolds, Checked
    <3>5. RecheckHolds(r)'
      BY <3>1, <3>4 DEF RecheckHolds
    <3>6. Databases(r)' = Databases(r) /\ (Understood(r)' <=> Understood(r))
      BY <3>1 DEF Databases, Understood, Explained
    <3>7. RepairHolds(r)'
      BY <1>0, <3>1, <3>6 DEF RepairHolds, Checked, Unrepaired, Repaired
    <3>8. OutputHolds(r)'
      BY <1>0, <3>1 DEF OutputHolds
    <3>9. QED
      BY <3>2, <3>5, <3>7, <3>8 DEF RunHolds
  <2>3. QED
    BY <2>1, <2>2
<1>8. QED
  BY <1>2, <1>3, <1>4, <1>5, <1>6, <1>7
(* Inspecting and repairing the copies, and publishing the stage. *)
LEMMA RepairingHolds ==
  ASSUME IInv, NEW r \in Run, TypeOK',
         \/ Inspect(r) \/ Repair(r) \/ WriteReport(r) \/ CheckOutput(r) \/ Rename(r)
         \/ Break(r) \/ Die(r)
  PROVE  RunHolds(r)'
<1>. USE DEF Goto, Proceed
<1>0. /\ TypeOK /\ CopyHolds(r) /\ RecheckHolds(r) /\ RepairHolds(r) /\ OutputHolds(r)
      /\ todo[r] \in SUBSET File /\ pc[r] \in Stage
      /\ work[r] \in [Database -> [Migration -> Checksum]]
  BY DEF IInv, TypeOK
<1>1. ASSUME Fail(r), pc[r] # "done", UNCHANGED <<source, given, rec, before, snap, work, output>>
      PROVE  RunHolds(r)'
  <2>1. pc'[r] = "failed"
    BY <1>0, <1>1 DEF Fail, TypeOK
  <2>2. QED
    BY <1>1, <2>1, EndHolds
<1>2. ASSUME pc[r] \in Checked \ {"done"}, pc'[r] \in Checked,
             UNCHANGED <<source, given, rec, before, snap>>
      PROVE  /\ CopyHolds(r)' /\ RecheckHolds(r)'
             /\ Databases(r)' = Databases(r) /\ (Understood(r)' <=> Understood(r))
             /\ UNCHANGED <<row, sound, audits>>
  <2>1. UNCHANGED <<disk, spilled, clock, past, row, sound, audits, rec, before, snap>>
    BY <1>2 DEF source, given
  <2>2. CopyHolds(r)'
    BY <1>0, <1>2, <2>1 DEF CopyHolds, Checked
  <2>3. RecheckHolds(r)'
    BY <1>0, <1>2, <2>1 DEF RecheckHolds, Checked
  <2>4. Databases(r)' = Databases(r) /\ (Understood(r)' <=> Understood(r))
    BY <2>1 DEF Databases, Understood, Explained
  <2>5. QED
    BY <2>1, <2>2, <2>3, <2>4
<1>3. CASE Inspect(r)
  <2> DEFINE f == First(todo[r])
             understood == sound[f[1]] /\ Explained(work[r][f[1]])
  <2>1. CASE ~understood
    BY <1>1, <1>3, <2>1 DEF Inspect
  <2>2. CASE understood
    <3>1. /\ pc[r] = "inspect" /\ todo[r] # {}
          /\ pc'[r] = (IF todo[r] = {f} THEN Inspected(r) ELSE "inspect")
          /\ todo'[r] = (IF todo[r] = {f} THEN Databases(r) ELSE todo[r] \ {f})
          /\ UNCHANGED <<source, given, rec, before, snap, work, report, output>>
      BY <1>0, <1>3, <2>2 DEF Inspect, TypeOK
    <3>2. f \in todo[r] /\ work[r] = row /\ todo[r] \subseteq Databases(r)
      BY <1>0, <3>1, FirstIsOne DEF RepairHolds, Unrepaired
    <3>3. sound[f[1]] /\ Explained(row[f[1]])
      BY <2>2, <3>2
    <3>4. pc'[r] \in {"inspect", "list3", "repair"}
          /\ (pc'[r] = "list3" => r \in audits) /\ (pc'[r] = "repair" => r \notin audits)
          /\ (pc'[r] # "inspect" => todo[r] = {f})
      BY <3>1 DEF Inspected
    <3>. HIDE DEF f
    <3>5. /\ CopyHolds(r)' /\ RecheckHolds(r)' /\ UNCHANGED <<row, sound, audits>>
          /\ Databases(r)' = Databases(r) /\ (Understood(r)' <=> Understood(r))
      BY <1>2, <3>1, <3>4 DEF Checked
    <3>6. \A g \in Databases(r) : g \in todo[r] \ {f} \/ (sound[g[1]] /\ Explained(row[g[1]]))
      BY <1>0, <3>1, <3>3 DEF RepairHolds
    <3>7. CASE todo[r] = {f}
      <4>1. Understood(r)
        BY <3>6, <3>7 DEF Understood
      <4>2. todo'[r] = Databases(r) /\ work'[r] = row /\ pc'[r] \in {"list3", "repair"}
        BY <3>1, <3>2, <3>7 DEF Inspected
      <4>3. \A g \in Databases(r) : work'[r][g[1]] = row[g[1]]
        BY <4>2
      <4>4. RepairHolds(r)'
        BY <3>4, <3>5, <4>1, <4>2, <4>3 DEF RepairHolds, Checked, Unrepaired
      <4>5. QED
        BY <1>0, <3>1, <3>5, <4>2, <4>4 DEF RunHolds, OutputHolds
    <3>8. CASE todo[r] # {f}
      <4>1. todo'[r] = todo[r] \ {f} /\ pc'[r] = "inspect" /\ work'[r] = row
        BY <3>1, <3>2, <3>8
      <4>2. RepairHolds(r)'
        BY <3>2, <3>5, <3>6, <4>1 DEF RepairHolds, Checked, Unrepaired, Explained
      <4>3. QED
        BY <1>0, <3>1, <3>5, <4>1, <4>2 DEF RunHolds, OutputHolds
    <3>9. QED
      BY <3>7, <3>8
  <2>3. QED
    BY <2>1, <2>2
<1>4. CASE Repair(r)
  <2> DEFINE f == First(todo[r])
             db == f[1]
  <2>1. /\ pc[r] = "repair" /\ todo[r] # {}
        /\ pc'[r] = (IF todo[r] = {f} THEN "list3" ELSE "repair")
        /\ todo'[r] = todo[r] \ {f}
        /\ work'[r] = [work[r] EXCEPT ![db] = Repaired(work[r][db])]
        /\ UNCHANGED <<source, given, rec, before, snap, report, output>>
    BY <1>0, <1>4 DEF Repair, TypeOK
  <2>2. f \in todo[r] /\ f \in Databases(r) /\ todo[r] \subseteq Databases(r) /\ db \in Database
    BY <1>0, <2>1, FirstIsOne, FileShape DEF RepairHolds
  <2>3. /\ Understood(r) /\ r \notin audits
        /\ \A g \in Databases(r) :
             work[r][g[1]] = IF g \in todo[r] THEN row[g[1]] ELSE Repaired(row[g[1]])
    BY <1>0, <2>1 DEF RepairHolds, Checked
  <2>4. /\ CopyHolds(r)' /\ RecheckHolds(r)' /\ UNCHANGED <<row, sound, audits>>
        /\ Databases(r)' = Databases(r) /\ (Understood(r)' <=> Understood(r))
    BY <1>2, <2>1 DEF Checked
  <2>5. ASSUME NEW g \in Databases(r)
        PROVE  work'[r][g[1]] = IF g \in todo'[r] THEN row[g[1]] ELSE Repaired(row[g[1]])
    <3>1. g \in File /\ g[1] \in Database /\ g = <<g[1], "">> /\ f = <<f[1], "">>
      <4>1. g \in File /\ f \in File /\ g[2] = "" /\ f[2] = ""
        BY <2>2 DEF Databases
      <4>2. QED
        BY <4>1, FileShape
    <3>2. CASE g = f
      <4>1. work[r][db] = row[db]
        BY <2>2, <2>3
      <4>2. work'[r][db] = Repaired(row[db])
        BY <1>0, <2>1, <2>2, <4>1
      <4>3. QED
        BY <2>1, <3>2, <4>2
    <3>3. CASE g # f
      <4>1. g[1] # db
        BY <3>1, <3>3
      <4>2. work'[r][g[1]] = work[r][g[1]]
        BY <1>0, <2>1, <2>2, <3>1, <4>1
      <4>3. QED
        BY <2>1, <2>3, <3>3, <4>2
    <3>4. QED
      BY <3>2, <3>3
  <2>6. pc'[r] \in {"list3", "repair"} /\ (pc'[r] = "list3" => todo'[r] = {})
        /\ todo'[r] \subseteq Databases(r)
    BY <2>1, <2>2
  <2>. HIDE DEF f, db
  <2>7. RepairHolds(r)'
    <3>1. CASE pc'[r] = "repair"
      BY <2>3, <2>4, <2>5, <2>6, <3>1 DEF RepairHolds, Checked, Unrepaired, Repaired
    <3>2. CASE pc'[r] = "list3"
      BY <2>3, <2>4, <2>5, <2>6, <3>2 DEF RepairHolds, Checked, Unrepaired, Repaired
    <3>3. QED
      BY <2>6, <3>1, <3>2
  <2>8. QED
    BY <1>0, <2>1, <2>4, <2>6, <2>7 DEF RunHolds, OutputHolds
<1>5. ASSUME pc[r] \in {"report", "publish", "rename"}, pc'[r] \in {"publish", "rename", "done"},
             UNCHANGED <<source, given, rec, before, snap, work>>, OutputHolds(r)'
      PROVE  RunHolds(r)'
  <2>1. /\ CopyHolds(r)' /\ RecheckHolds(r)' /\ UNCHANGED <<row, sound, audits, work>>
        /\ Databases(r)' = Databases(r) /\ (Understood(r)' <=> Understood(r))
    BY <1>2, <1>5 DEF Checked
  <2>2. RepairHolds(r)'
    BY <1>0, <1>5, <2>1 DEF RepairHolds, Checked, Unrepaired, Repaired
  <2>3. QED
    BY <1>5, <2>1, <2>2 DEF RunHolds
<1>6. CASE WriteReport(r)
  <2>1. /\ pc[r] = "report" /\ pc'[r] = (IF r \in audits THEN "done" ELSE "publish")
        /\ report'[r] = "success" /\ audits' = audits /\ output' = output
        /\ UNCHANGED <<source, given, rec, before, snap, work>>
    BY <1>0, <1>6 DEF WriteReport, TypeOK, given
  <2>2. OutputHolds(r)'
    BY <1>0, <2>1 DEF OutputHolds
  <2>3. QED
    BY <1>5, <2>1, <2>2
<1>7. CASE CheckOutput(r)
  <2>1. CASE output # NoRun
    BY <1>1, <1>7, <2>1 DEF CheckOutput
  <2>2. CASE output = NoRun
    <3>1. /\ pc[r] = "publish" /\ pc'[r] = "rename" /\ UNCHANGED <<report, audits, output>>
          /\ UNCHANGED <<source, given, rec, before, snap, work>>
      BY <1>0, <1>7, <2>2 DEF CheckOutput, TypeOK, given
    <3>2. OutputHolds(r)'
      BY <1>0, <3>1 DEF OutputHolds
    <3>3. QED
      BY <1>5, <3>1, <3>2
  <2>3. QED
    BY <2>1, <2>2
<1>8. CASE Rename(r)
  <2>1. CASE output # NoRun
    BY <1>1, <1>8, <2>1 DEF Rename
  <2>2. CASE output = NoRun
    <3>1. /\ pc[r] = "rename" /\ pc'[r] = "done" /\ UNCHANGED <<report, audits>>
          /\ UNCHANGED <<source, given, rec, before, snap, work>>
      BY <1>0, <1>8, <2>2 DEF Rename, TypeOK, given
    <3>2. OutputHolds(r)'
      BY <1>0, <3>1 DEF OutputHolds
    <3>3. QED
      BY <1>5, <3>1, <3>2
  <2>3. QED
    BY <2>1, <2>2
<1>9. CASE Break(r)
  BY <1>1, <1>9 DEF Break, Running
<1>10. CASE Die(r)
  <2>1. pc'[r] = "dead" /\ pc[r] # "done"
    BY <1>0, <1>10 DEF Die, Running, TypeOK
  <2>2. QED
    BY <1>10, <2>1, EndHolds DEF Die
<1>11. QED
  BY <1>3, <1>4, <1>6, <1>7, <1>8, <1>9, <1>10

-----------------------------------------------------------------------------
(* The invariant, and what follows from it.                                 *)

LEMMA NextIInv ==
  ASSUME IInv, [Next]_vars
  PROVE  IInv'
<1>1. CASE Writer
  BY <1>1, WriterStep
<1>2. ASSUME NEW r \in Run, RunStep(r) PROVE IInv'
  <2>1. TypeOK' /\ Only(r)
    BY <1>2, RunTyped
  <2>2. RunHolds(r)'
    BY <1>2, <2>1, CopyingHolds, RepairingHolds DEF RunStep
  <2>3. QED
    BY <2>1, <2>2, OtherRuns DEF RunHolds
<1>3. CASE UNCHANGED vars
  <2>1. UNCHANGED <<scope, disk, spilled, clock, past, row, audits, sound, pc, todo, rec,
                    before, snap, work, report, output>>
    BY <1>3 DEF vars, source, given, stage
  <2>2. TypeOK' /\ WritersHold'
    BY <2>1 DEF IInv, TypeOK, WritersHold, Holds
  <2>3. ASSUME NEW r \in Run PROVE RunHolds(r)'
    <3>1. Databases(r)' = Databases(r) /\ (Understood(r)' <=> Understood(r))
      BY <2>1 DEF Databases, Understood, Explained
    <3>2. CopyHolds(r) /\ RecheckHolds(r) /\ RepairHolds(r) /\ OutputHolds(r)
      BY DEF IInv
    <3>3. CopyHolds(r)' /\ OutputHolds(r)'
      BY <2>1, <3>2 DEF CopyHolds, OutputHolds
    <3>4. RecheckHolds(r)'
      BY <2>1, <3>2 DEF RecheckHolds, Doomed, Gone
    <3>5. RepairHolds(r)'
      BY <2>1, <3>1, <3>2 DEF RepairHolds, Explained, Repaired
    <3>6. QED
      BY <3>3, <3>4, <3>5 DEF RunHolds
  <2>4. QED
    BY <2>2, <2>3 DEF IInv, RunHolds
<1>4. QED
  BY <1>1, <1>2, <1>3 DEF Next, RunStep

(* The invariant holds in every reachable state. *)
THEOREM Inductive == Spec => []IInv
<1>1. IInv /\ [Next]_vars => IInv'
  BY NextIInv
<1>2. QED
  BY InitIInv, <1>1, PTL DEF Spec

(* Whatever writers do meanwhile, what a run publishes or reports on is the
   source directory as it was at one moment. *)
THEOREM SnapshotsArePointsInTime == Spec => []SnapshotIsPointInTime
<1>1. IInv => SnapshotIsPointInTime
  BY DEF IInv, SnapshotIsPointInTime, CopyHolds, RecheckHolds, Checked
<1>2. QED
  BY Inductive, <1>1, PTL

LEMMA UnderstoodIsRepaired ==
  ASSUME NEW rows \in [Migration -> Checksum], Explained(rows)
  PROVE  \A v \in Migration : Repaired(rows)[v] = "expected"
BY DEF Explained, Repaired

(* All or nothing: an output has a report of success, and each of its databases
   was understood and carries only the official checksums. *)
THEOREM PublicationsAreRepaired == Spec => []PublishedIsRepaired
<1>1. ASSUME IInv, output # NoRun PROVE PublishedIsRepaired
  <2>1. /\ output \in Run /\ pc[output] = "done" /\ output \notin audits
        /\ report[output] = "success"
    BY <1>1 DEF IInv, TypeOK, OutputHolds
  <2>2. snap[output] = before[output]
    BY <1>1, <2>1 DEF IInv, CopyHolds
  <2>3. ASSUME NEW db \in Database, snap[output][Main(db)] # Absent
        PROVE  /\ sound[db] /\ Explained(row[db])
               /\ \A v \in Migration : work[output][db][v] = "expected"
    <3>1. Main(db) \in Databases(output) /\ Main(db)[1] = db
      BY <2>2, <2>3, FilesAssumption DEF Databases, Main
    <3>2. /\ sound[db] /\ Explained(row[db]) /\ work[output][db] = Repaired(row[db])
      BY <1>1, <2>1, <3>1 DEF IInv, RepairHolds, Checked, Understood
    <3>3. row[db] \in [Migration -> Checksum]
      BY <1>1 DEF IInv, TypeOK
    <3>4. QED
      BY <3>2, <3>3, UnderstoodIsRepaired
  <2>4. QED
    BY <2>1, <2>3 DEF PublishedIsRepaired, Main
<1>2. IInv => PublishedIsRepaired
  BY <1>1 DEF PublishedIsRepaired
<1>3. QED
  BY Inductive, <1>2, PTL

(* A run touches its copies only when it has found every database that it
   copied to be understood, and an audit never does. *)
THEOREM RepairsFollowInspection == Spec => RepairAfterInspection
<1>1. ASSUME IInv, [Next]_vars, NEW r \in Run, work'[r] # work[r]
      PROVE  /\ r \notin audits
             /\ \A db \in Database : before[r][<<db, "">>] # Absent =>
                  sound[db] /\ Explained(row[db])
  <2>1. Repair(r)
    <3>1. CASE Writer
      BY <1>1, <3>1, WriterWrites DEF WriteHolds, stage
    <3>2. ASSUME NEW s \in Run, RunStep(s) PROVE Repair(r)
      <4>1. s = r
        BY <1>1, <3>2, RunTyped DEF Only
      <4>2. QED
        BY <1>1, <3>2, <4>1
        DEF RunStep, Start, List, HashFile, TakeRecords, CopyFile, Recheck, Inspect,
            WriteReport, CheckOutput, Rename, Break, Die
    <3>3. CASE UNCHANGED vars
      BY <1>1, <3>3 DEF vars, stage
    <3>4. QED
      BY <1>1, <3>1, <3>2, <3>3 DEF Next, RunStep
  <2>2. r \notin audits /\ Understood(r)
    BY <1>1, <2>1 DEF Repair, IInv, RepairHolds, Checked
  <2>3. ASSUME NEW db \in Database, before[r][Main(db)] # Absent
        PROVE  sound[db] /\ Explained(row[db])
    <3>1. Main(db) \in Databases(r) /\ Main(db)[1] = db
      BY <2>3, FilesAssumption DEF Databases, Main
    <3>2. QED
      BY <2>2, <3>1 DEF Understood
  <2>4. QED
    BY <2>2, <2>3 DEF Main
<1>2. IInv /\ [Next]_vars =>
        [\A r \in Run : work'[r] # work[r] =>
           /\ r \notin audits
           /\ \A db \in Database : before[r][<<db, "">>] # Absent =>
                sound[db] /\ Explained(row[db])]_vars
  BY <1>1
<1>3. QED
  BY Inductive, <1>2, PTL DEF Spec, RepairAfterInspection

(* The first output is final: no run replaces it. *)
THEOREM OutputsAreFinal == Spec => OutputIsFinal
<1>1. ASSUME IInv, [Next]_vars, output # NoRun PROVE output' = output
  <2>1. CASE Writer
    BY <2>1, WriterWrites, <1>1 DEF WriteHolds
  <2>2. ASSUME NEW r \in Run, RunStep(r) PROVE output' = output
    BY <1>1, <2>2
    DEF RunStep, Start, List, HashFile, TakeRecords, CopyFile, Recheck, Inspect, Repair,
        WriteReport, CheckOutput, Rename, Break, Die
  <2>3. CASE UNCHANGED vars
    BY <2>3 DEF vars
  <2>4. QED
    BY <1>1, <2>1, <2>2, <2>3 DEF Next, RunStep
<1>2. IInv /\ [Next]_vars => [output # NoRun => output' = output]_vars
  BY <1>1
<1>3. QED
  BY Inductive, <1>2, PTL DEF Spec, OutputIsFinal
=============================================================================
