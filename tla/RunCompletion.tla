---------------------------- MODULE RunCompletion ---------------------------
(***************************************************************************)
(* The completion registry of native join and the join_one future          *)
(* (payload/codex/native-join-p16, codex-rs/core/src/agent/completion.rs). *)
(*                                                                         *)
(* The registry maps an exact run to a tokio watch channel.  A channel is  *)
(* its last value (phase) and the number of values sent into it (version); *)
(* a receiver holds the last version it has seen.  Registry operations run *)
(* under one mutex and are single steps; a join_one future is interleaved  *)
(* with them at every point where it looks at the channel.                 *)
(***************************************************************************)
EXTENDS Naturals

CONSTANTS
  Ref,          \* exact runs: AgentRunRef, a (thread_id, run_id) pair
  Waiter,       \* join_one futures
  Terminal,     \* AgentRunTerminal values
  Absent,       \* no entry in the map
  Running,      \* AgentRunPhase::Running
  UnknownRun,   \* JoinError::UnknownRun
  SourceClosed, \* JoinError::SourceClosed
  NoResult      \* the future has not produced a value

ASSUME PhasesDistinct ==
  /\ Absent # Running
  /\ Terminal \cap {Absent, Running, UnknownRun, SourceClosed, NoResult} = {}
  /\ NoResult \notin {UnknownRun, SourceClosed} \cup Ref
  /\ UnknownRun # SourceClosed

VARIABLES
  phase,    \* [Ref -> Absent, Running or a Terminal]
  version,  \* [Ref -> Nat], bumped by send_replace
  closed,   \* every watch::Sender has been dropped
  fut       \* [Waiter -> join_one future]

vars == <<phase, version, closed, fut>>
registryVars == <<phase, version>>

Phase == {Absent, Running} \cup Terminal
Refused == {UnknownRun, SourceClosed}

(* A future not yet created or already consumed. *)
NoFuture == [pc |-> "none", target |-> NoResult, seen |-> 0, result |-> NoResult]

Future ==
  [pc : {"none", "check", "await", "done"},
   target : Ref \cup {NoResult},
   seen : Nat,
   result : Terminal \cup Refused \cup {NoResult}]

TypeOK ==
  /\ phase \in [Ref -> Phase]
  /\ version \in [Ref -> Nat]
  /\ closed \in BOOLEAN
  /\ fut \in [Waiter -> Future]

Init ==
  /\ phase = [r \in Ref |-> Absent]
  /\ version = [r \in Ref |-> 0]
  /\ closed = FALSE
  /\ fut = [w \in Waiter |-> NoFuture]

-----------------------------------------------------------------------------
(* Registry operations.                                                    *)

(* Mutant: register_running inserts over whatever is there. *)
RegisterOverwrites(r) ==
  /\ phase' = [phase EXCEPT ![r] = Running]
  /\ UNCHANGED version

(* register_running: only a vacant entry is filled. *)
RegisterRunning(r) ==
  /\ phase' = [phase EXCEPT ![r] = IF @ = Absent THEN Running ELSE @]
  /\ UNCHANGED version

(* Mutants: a later receipt replaces the first; the new value is stored
   without waking the receivers. *)
CompleteOverwrites(r, o) ==
  /\ phase' = [phase EXCEPT ![r] = o]
  /\ version' = [version EXCEPT ![r] = IF phase[r] = Absent THEN @ ELSE @ + 1]

CompleteSilently(r, o) ==
  /\ phase' = [phase EXCEPT ![r] = IF @ \in {Absent, Running} THEN o ELSE @]
  /\ UNCHANGED version

(* complete: an unknown run is inserted as terminal in a fresh channel, a
   running one is replaced and its receivers notified, a terminal one keeps
   its first receipt whether the new one is equal or conflicting. *)
Complete(r, o) ==
  /\ phase' = [phase EXCEPT ![r] = IF @ \in {Absent, Running} THEN o ELSE @]
  /\ version' = [version EXCEPT ![r] = IF phase[r] = Running THEN @ + 1 ELSE @]

(* subscribe: the receiver starts at the current version. *)
Subscribe(w, r) ==
  fut' = [fut EXCEPT ![w] =
            IF phase[r] = Absent
              THEN [pc |-> "done", target |-> r, seen |-> 0, result |-> UnknownRun]
              ELSE [pc |-> "check", target |-> r, seen |-> version[r],
                    result |-> NoResult]]

-----------------------------------------------------------------------------
(* The join_one future.                                                    *)

(* Mutant: wait for a change before looking at the current phase. *)
CheckSuspends(w) ==
  /\ fut[w].pc = "check"
  /\ fut' = [fut EXCEPT ![w].pc = "await"]

(* Head of the loop: borrow() the channel, return a terminal or suspend. *)
Check(w) ==
  LET p == phase[fut[w].target] IN
  /\ fut[w].pc = "check"
  /\ fut' = [fut EXCEPT ![w] = IF p \in Terminal
                                 THEN [@ EXCEPT !.pc = "done", !.result = p]
                                 ELSE [@ EXCEPT !.pc = "await"]]

(* changed() resolves with Ok when the channel holds an unseen version. *)
Changed(w) ==
  /\ fut[w].pc = "await"
  /\ version[fut[w].target] # fut[w].seen
  /\ fut' = [fut EXCEPT ![w].pc = "check", ![w].seen = version[fut[w].target]]

(* Mutants: the phase is returned as it is; the loss of the senders wins
   over an unseen value; the loop goes round again. *)
ChangedClosedBare(w) ==
  /\ fut[w].pc = "await"
  /\ closed
  /\ version[fut[w].target] = fut[w].seen
  /\ fut' = [fut EXCEPT ![w].pc = "done", ![w].result = phase[fut[w].target]]

ChangedClosedFirst(w) ==
  /\ fut[w].pc = "await"
  /\ closed
  /\ fut' = [fut EXCEPT ![w].pc = "done", ![w].result = SourceClosed]

ChangedClosedRetries(w) ==
  /\ fut[w].pc = "await"
  /\ closed
  /\ version[fut[w].target] = fut[w].seen
  /\ fut' = [fut EXCEPT ![w].pc = "check"]

(* changed() resolves with Err when no unseen version is left and every
   sender is gone; join_one reads the phase once more before giving up. *)
ChangedClosed(w) ==
  LET p == phase[fut[w].target] IN
  /\ fut[w].pc = "await"
  /\ closed
  /\ version[fut[w].target] = fut[w].seen
  /\ fut' = [fut EXCEPT ![w].pc = "done",
                        ![w].result = IF p \in Terminal THEN p ELSE SourceClosed]

Poll(w) == Check(w) \/ Changed(w) \/ ChangedClosed(w)

(* Dropping the futures W (of an interrupted call) or consuming their
   results: join_all owns its futures and drops them together. *)
Discard(W) == fut' = [w \in Waiter |-> IF w \in W THEN NoFuture ELSE fut[w]]

-----------------------------------------------------------------------------
(* The registry in an arbitrary environment: completions may come before   *)
(* registration, twice, or in conflict; joins start and stop at any time.  *)

Register(r) == ~closed /\ RegisterRunning(r) /\ UNCHANGED <<closed, fut>>
Publish(r, o) == ~closed /\ Complete(r, o) /\ UNCHANGED <<closed, fut>>
JoinOne(w, r) ==
  /\ ~closed
  /\ fut[w].pc = "none"
  /\ Subscribe(w, r)
  /\ UNCHANGED <<registryVars, closed>>
Step(w) == Poll(w) /\ UNCHANGED <<registryVars, closed>>
Drop(W) == Discard(W) /\ UNCHANGED <<registryVars, closed>>
DropSource == ~closed /\ closed' = TRUE /\ UNCHANGED <<registryVars, fut>>

Next ==
  \/ \E r \in Ref : Register(r)
  \/ \E r \in Ref, o \in Terminal : Publish(r, o)
  \/ \E w \in Waiter, r \in Ref : JoinOne(w, r)
  \/ \E w \in Waiter : Step(w)
  \/ \E W \in SUBSET Waiter : Drop(W)
  \/ DropSource

Spec == Init /\ [][Next]_vars

(* A future whose wake-up condition holds is polled again: the executor
   never forgets a woken task.  Nothing else is assumed to happen. *)
FairSpec == Spec /\ \A w \in Waiter : WF_vars(Step(w))

-----------------------------------------------------------------------------
(* Properties.                                                             *)

(* An answered join carries the receipt of exactly the run it asked for,
   and "source closed" is never said of a run that has a receipt, however
   its completion races with the loss of the senders. *)
AnswerIsReceipt ==
  \A w \in Waiter : fut[w].pc = "done" =>
    /\ fut[w].result \in Terminal => phase[fut[w].target] = fut[w].result
    /\ fut[w].result = SourceClosed => phase[fut[w].target] \notin Terminal

(* No lost wake-up: a suspended join of a completed run always has an
   unseen version to wake it, wherever the completion fell between
   subscribe, borrow and changed. *)
NoLostWakeup ==
  \A w \in Waiter :
    fut[w].pc = "await" /\ phase[fut[w].target] \in Terminal
      => version[fut[w].target] # fut[w].seen

(* A receipt is final: late registration, duplicate and conflicting
   completions of the same run never change it, and a known run never
   becomes unknown again. *)
ReceiptIsFinal ==
  [][\A r \in Ref : /\ phase[r] \in Terminal => phase'[r] = phase[r]
                    /\ phase[r] # Absent => phase'[r] # Absent]_vars

(* Every join of a completed run resolves (or is dropped by its caller). *)
JoinResolves ==
  \A w \in Waiter :
    (fut[w].pc \in {"check", "await"} /\ phase[fut[w].target] \in Terminal)
      ~> fut[w].pc \in {"none", "done"}

(* When the source goes away no join is left parked. *)
CloseReleasesJoins ==
  \A w \in Waiter : closed ~> fut[w].pc \in {"none", "done"}

(* The registry and its futures implement the write-once contract. *)
Contract == INSTANCE JoinContract WITH
  receipt <- [r \in Ref |-> IF phase[r] \in Terminal THEN phase[r] ELSE NoResult],
  asked   <- [w \in Waiter |-> fut[w].target],
  answer  <- [w \in Waiter |-> fut[w].result],
  gone    <- closed

ImplementsContract == Contract!Spec
=============================================================================
