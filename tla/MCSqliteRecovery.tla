------------------------- MODULE MCSqliteRecovery --------------------------
(* Two databases, so that one can be understood and the other not, and so
   that writers of different databases interleave. *)
EXTENDS SqliteRecovery

CONSTANTS d1, d2, r1, r2

MCDatabase == {d1, d2}
MCRun == {r1, r2}

(* d1 can be written in both journal modes, d2 in WAL mode. *)
MCFiles == << <<d1, "">>, <<d1, "-journal">>, <<d1, "-wal">>, <<d2, "">>, <<d2, "-wal">> >>

MCOneMigration == {1}

(* One run next to writers of sound databases; two runs over databases that
   nobody writes, whose main files are all there is. *)
MCScenario ==
  {[runs |-> {r1}, writes |-> 3, files |-> File, checksums |-> {"expected"}],
   [runs |-> {r1, r2}, writes |-> 0, files |-> {<<d1, "">>, <<d2, "">>}, checksums |-> Checksum]}
=============================================================================
