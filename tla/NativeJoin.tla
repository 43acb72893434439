----------------------------- MODULE NativeJoin -----------------------------
(***************************************************************************)
(* Agents that spawn children, run turns and join exact runs of their      *)
(* children (payload/codex/native-join-p16: spawn_agent, join_agent,       *)
(* join_agents and the terminal-turn hook of a session).                   *)
(*                                                                         *)
(* An agent is a thread; it runs one turn at a time and a turn of a        *)
(* spawned agent is a run, named by the agent and the number of the turn.  *)
(* A turn that is inside spawn_agent or a join is parked: it cannot end by *)
(* itself, but it can be aborted, which drops the pending tool future.     *)
(* The completion registry and the join_one futures are RunCompletion's.   *)
(***************************************************************************)
EXTENDS Naturals, Sequences

CONSTANTS
  Root,           \* the root agent, which nobody spawned
  Child,          \* agents that may be spawned
  Named,          \* the children that have an agent_path
  MaxRuns,        \* bound: turns per agent
  MaxBatch,       \* bound: runs per join_agents call
  MaxCalls,       \* bound: join calls of each agent, [Agent -> Nat]
  MadeUp,         \* bound: the children for which callers make up run ids
  Reasons,        \* bound: the reasons for which turns are aborted
  Failing,        \* bound: the children whose turns may record errors
  ShareReceipts,  \* may agents pass receipts to each other in messages?
  Absent, Running, UnknownRun, SourceClosed, NoResult

Agent == {Root} \cup Child

(* Run 0 stands for every run_id that no spawn returned. *)
RunRef == Child \X (0 .. MaxRuns)
Slot == Agent \X (1 .. MaxBatch)

AbortReason == {"Interrupted", "BudgetLimited", "Replaced", "ReviewEnded"}
TurnEvent == {"TurnComplete"} \cup AbortReason

(* AgentRunTerminal; run tags a receipt with the run whose turn produced it. *)
RunTerminal == [outcome : {"completed", "failed", "cancelled"}, run : RunRef]

ASSUME AgentAssumption ==
  /\ Root \notin Child
  /\ Named \subseteq Child
  /\ Reasons \subseteq AbortReason
  /\ MadeUp \subseteq Child
  /\ Failing \subseteq Child
  /\ ShareReceipts \in BOOLEAN
ASSUME BoundAssumption ==
  /\ MaxRuns \in Nat \ {0} /\ MaxBatch \in Nat \ {0}
  /\ MaxCalls \in [Agent -> Nat]
ASSUME ValuesDistinct ==
  /\ Absent # Running /\ UnknownRun # SourceClosed
  /\ RunTerminal \cap {Absent, Running, UnknownRun, SourceClosed, NoResult} = {}
  /\ NoResult \notin {UnknownRun, SourceClosed} \cup RunRef \cup Agent

VARIABLES
  phase, version, closed, fut,  \* RunCompletion
  runs,       \* [Agent -> number of turns started]; 0: not spawned
  busy,       \* [Agent -> the last turn is still in progress]
  spawn,      \* [Child -> [by, stage]], the spawn_agent call that made it
  known,      \* [Agent -> receipts its conversation contains]
  told,       \* history: the agents that learnt a receipt from a message
  call,       \* [Agent -> targets of the join in progress, <<>> if none]
  calls,      \* [Agent -> number of joins made]
  item,       \* [Agent -> last join item emitted and result returned]
  terminalError, \* runs whose turn recorded a terminal error not yet taken
  ending,     \* terminal turn events emitted, their hook not yet run
  settling,   \* runs whose receipt is published, parent not yet notified
  notified    \* runs whose parent was notified

registry == <<phase, version, closed, fut>>
turns == <<runs, busy>>
joins == <<call, calls, item>>
hooks == <<terminalError, ending, settling, notified>>
vars == <<registry, turns, spawn, known, told, joins, hooks>>

Reg == INSTANCE RunCompletion WITH Ref <- RunRef, Waiter <- Slot, Terminal <- RunTerminal

NoItem == [status |-> "none", targets |-> <<>>, results |-> <<>>]

TypeOK ==
  /\ Reg!TypeOK
  /\ runs \in [Agent -> 0 .. MaxRuns]
  /\ busy \in [Agent -> BOOLEAN]
  /\ spawn \in [Child -> [by : Agent \cup {NoResult},
                          stage : {"none", "submitted", "registered", "returned", "lost"}]]
  /\ known \in [Agent -> SUBSET RunRef]
  /\ told \subseteq Agent
  /\ call \in [Agent -> Seq(RunRef)]
  /\ calls \in [Agent -> Nat]
  /\ item \in [Agent -> [status : {"none", "InProgress", "Completed", "Failed"},
                         targets : Seq(RunRef), results : Seq(RunTerminal)]]
  /\ terminalError \subseteq RunRef
  /\ ending \subseteq RunRef \X TurnEvent
  /\ settling \subseteq RunRef
  /\ notified \subseteq RunRef

Init ==
  /\ Reg!Init
  /\ runs = [a \in Agent |-> IF a = Root THEN 1 ELSE 0]
  /\ busy = [a \in Agent |-> a = Root]
  /\ spawn = [c \in Child |-> [by |-> NoResult, stage |-> "none"]]
  /\ known = [a \in Agent |-> {}]
  /\ told = {}
  /\ call = [a \in Agent |-> <<>>]
  /\ calls = [a \in Agent |-> 0]
  /\ item = [a \in Agent |-> NoItem]
  /\ terminalError = {}
  /\ ending = {}
  /\ settling = {}
  /\ notified = {}

Spawning(a) == {c \in Child : spawn[c].by = a /\ spawn[c].stage \in {"submitted", "registered"}}

(* The turn of a is in progress and not parked in a tool call. *)
Free(a) == busy[a] /\ call[a] = <<>> /\ Spawning(a) = {}

Run(a) == <<a, runs[a]>>
Slots(a) == {s \in Slot : s[1] = a}

-----------------------------------------------------------------------------
(* spawn_agent: the child thread is created, with the parent's history when
   it forks, and its first input is submitted: the child runs from here on. *)
SubmitSpawn(p, c, fork) ==
  /\ Free(p)
  /\ runs[c] = 0
  /\ runs' = [runs EXCEPT ![c] = 1]
  /\ busy' = [busy EXCEPT ![c] = TRUE]
  /\ spawn' = [spawn EXCEPT ![c] = [by |-> p, stage |-> "submitted"]]
  /\ known' = [known EXCEPT ![c] = IF fork THEN known[p] ELSE {}]
  /\ UNCHANGED <<registry, told, joins, hooks>>

(* Mutant: the entry is overwritten by a registration that comes late. *)
RegisterAnew(c) ==
  /\ spawn[c].stage = "submitted"
  /\ phase' = [phase EXCEPT ![<<c, 1>>] = Running]
  /\ spawn' = [spawn EXCEPT ![c].stage = "registered"]
  /\ UNCHANGED <<version, closed, fut, turns, known, told, joins, hooks>>

(* Only then is the submitted run registered, whatever it did meanwhile. *)
RegisterSpawned(c) ==
  /\ spawn[c].stage = "submitted"
  /\ Reg!RegisterRunning(<<c, 1>>)
  /\ spawn' = [spawn EXCEPT ![c].stage = "registered"]
  /\ UNCHANGED <<closed, fut, turns, known, told, joins, hooks>>

(* Mutant: the receipt is announced to every agent. *)
ReturnToAll(c) ==
  /\ spawn[c].stage = "registered"
  /\ spawn' = [spawn EXCEPT ![c].stage = "returned"]
  /\ known' = [a \in Agent |-> known[a] \cup {<<c, 1>>}]
  /\ UNCHANGED <<registry, turns, told, joins, hooks>>

(* The handler returns task name and run id to the parent's conversation. *)
ReturnSpawned(c) ==
  /\ spawn[c].stage = "registered"
  /\ spawn' = [spawn EXCEPT ![c].stage = "returned"]
  /\ known' = [known EXCEPT ![spawn[c].by] = @ \cup {<<c, 1>>}]
  /\ UNCHANGED <<registry, turns, told, joins, hooks>>

(* A message between agents may quote receipts the sender knows. *)
Tell(a, b) ==
  /\ ShareReceipts
  /\ Free(a) /\ runs[b] > 0 /\ a # b
  /\ ~(known[a] \subseteq known[b])
  /\ known' = [known EXCEPT ![b] = @ \cup known[a]]
  /\ told' = told \cup {b}
  /\ UNCHANGED <<registry, turns, spawn, joins, hooks>>

(* A new turn on an idle thread: a follow-up task, or the user's next
   prompt for the root.  It is a new run, registered by nobody. *)
StartTurn(a) ==
  /\ runs[a] \in 1 .. MaxRuns - 1
  /\ ~busy[a]
  /\ runs' = [runs EXCEPT ![a] = @ + 1]
  /\ busy' = [busy EXCEPT ![a] = TRUE]
  /\ UNCHANGED <<registry, spawn, known, told, joins, hooks>>

-----------------------------------------------------------------------------
(* The end of a turn and the terminal-turn hook of its session.            *)

RecordError(c) ==
  /\ Free(c)
  /\ Run(c) \notin terminalError
  /\ terminalError' = terminalError \cup {Run(c)}
  /\ UNCHANGED <<registry, turns, spawn, known, told, joins, ending, settling, notified>>

(* The root has no hook: it is not a ThreadSpawn session. *)
Emit(a, event) == ending' = IF a = Root THEN ending ELSE ending \cup {<<Run(a), event>>}

CompleteTurn(a) ==
  /\ Free(a)
  /\ busy' = [busy EXCEPT ![a] = FALSE]
  /\ Emit(a, "TurnComplete")
  /\ UNCHANGED <<registry, runs, spawn, known, told, joins, terminalError, settling, notified>>

(* Aborting a turn drops its pending tool futures and nothing else: the
   children go on, and a spawn interrupted half-way returns no receipt. *)
AbortTurn(a, reason) ==
  /\ busy[a]
  /\ busy' = [busy EXCEPT ![a] = FALSE]
  /\ Emit(a, reason)
  /\ Reg!Discard(Slots(a))
  /\ call' = [call EXCEPT ![a] = <<>>]
  /\ spawn' = [c \in Child |-> IF c \in Spawning(a) THEN [spawn[c] EXCEPT !.stage = "lost"]
                                                    ELSE spawn[c]]
  /\ UNCHANGED <<phase, version, closed, runs, known, told, calls, item,
                 terminalError, settling, notified>>

(* Mutant: the error is reported only if the event says so too. *)
TerminalOfEvent(r, event, error) ==
  [outcome |-> IF event = "TurnComplete" THEN "completed"
               ELSE IF event = "Interrupted" THEN "cancelled" ELSE "failed",
   run |-> r]

(* agent_run_terminal_from_event *)
TerminalFromEvent(r, event, error) ==
  [outcome |-> IF error \/ event \in AbortReason \ {"Interrupted"} THEN "failed"
               ELSE IF event = "Interrupted" THEN "cancelled" ELSE "completed",
   run |-> r]

(* maybe_notify_parent_of_terminal_turn up to complete_run: the recorded
   error is taken, and the receipt is published before anyone is told. *)
PublishTerminal(r, event) ==
  /\ <<r, event>> \in ending
  /\ Reg!Complete(r, TerminalFromEvent(r, event, r \in terminalError))
  /\ terminalError' = terminalError \ {r}
  /\ ending' = ending \ {<<r, event>>}
  /\ settling' = settling \cup {r}
  /\ UNCHANGED <<closed, fut, turns, spawn, known, told, joins, notified>>

(* The rest of the hook: only an agent with a path notifies its parent,
   and the hook may return before it does. *)
NotifyParent(r) ==
  /\ r \in settling
  /\ settling' = settling \ {r}
  /\ \/ UNCHANGED notified
     \/ r[1] \in Named /\ notified' = notified \cup {r}
  /\ UNCHANGED <<registry, turns, spawn, known, told, joins, terminalError, ending>>

-----------------------------------------------------------------------------
(* join_agent (one target) and join_agents.                                *)

(* resolve_join_target *)
Resolves(a, r) == r[1] \in Named /\ runs[r[1]] > 0 /\ r[1] # a

Valid(a, targets) ==
  /\ targets # <<>>
  /\ \A i \in DOMAIN targets : Resolves(a, targets[i])
  /\ \A i, j \in DOMAIN targets : targets[i] = targets[j] => i = j

(* run_ids a conversation can produce: receipts it contains, or made up. *)
Arguments(a) == known[a] \cup (MadeUp \X {0})

StartCall(a, targets) ==
  /\ Free(a)
  /\ calls[a] < MaxCalls[a]
  /\ calls' = [calls EXCEPT ![a] = @ + 1]

(* An invalid call is answered with an error before anything is emitted. *)
RejectJoin(a, targets) ==
  /\ StartCall(a, targets)
  /\ ~Valid(a, targets)
  /\ UNCHANGED <<registry, turns, spawn, known, told, call, item, hooks>>

BeginJoin(a, targets) ==
  /\ StartCall(a, targets)
  /\ Valid(a, targets)
  /\ call' = [call EXCEPT ![a] = targets]
  /\ item' = [item EXCEPT ![a] = [status |-> "InProgress", targets |-> targets,
                                  results |-> <<>>]]
  /\ UNCHANGED <<registry, turns, spawn, known, told, hooks>>

(* Mutant: the join follows the thread's latest run, not the one asked for. *)
SubscribeLatest(a, i) ==
  /\ i \in DOMAIN call[a]
  /\ fut[<<a, i>>].pc = "none"
  /\ Reg!Subscribe(<<a, i>>, Run(call[a][i][1]))
  /\ UNCHANGED <<phase, version, closed, turns, spawn, known, told, joins, hooks>>

(* join_all polls every join_run; its first poll subscribes. *)
SubscribeJoin(a, i) ==
  /\ i \in DOMAIN call[a]
  /\ fut[<<a, i>>].pc = "none"
  /\ Reg!Subscribe(<<a, i>>, call[a][i])
  /\ UNCHANGED <<phase, version, closed, turns, spawn, known, told, joins, hooks>>

PollJoin(a, i) ==
  /\ i \in DOMAIN call[a]
  /\ Reg!Poll(<<a, i>>)
  /\ UNCHANGED <<phase, version, closed, turns, spawn, known, told, joins, hooks>>

(* Mutants: the results come in the reverse order; the handler is left
   waiting when a run did not complete. *)
FinishReversed(a) ==
  LET slots == DOMAIN call[a]
      ok == \A i \in slots : fut[<<a, i>>].result \in RunTerminal IN
  /\ call[a] # <<>>
  /\ \A i \in slots : fut[<<a, i>>].pc = "done"
  /\ item' = [item EXCEPT ![a] =
                [status |-> IF ok THEN "Completed" ELSE "Failed",
                 targets |-> call[a],
                 results |-> IF ok THEN [i \in slots |-> fut[<<a, Len(call[a]) + 1 - i>>].result]
                             ELSE <<>>]]
  /\ call' = [call EXCEPT ![a] = <<>>]
  /\ Reg!Discard(Slots(a))
  /\ UNCHANGED <<phase, version, closed, turns, spawn, known, told, calls, hooks>>

FinishSuccess(a) ==
  /\ call[a] # <<>>
  /\ \A i \in DOMAIN call[a] :
       fut[<<a, i>>].result \in {t \in RunTerminal : t.outcome = "completed"}
  /\ item' = [item EXCEPT ![a] =
                [status |-> "Completed", targets |-> call[a],
                 results |-> [i \in DOMAIN call[a] |-> fut[<<a, i>>].result]]]
  /\ call' = [call EXCEPT ![a] = <<>>]
  /\ Reg!Discard(Slots(a))
  /\ UNCHANGED <<phase, version, closed, turns, spawn, known, told, calls, hooks>>

(* All futures have resolved: one completed item, and the results in the
   order of the request unless some run could not be joined. *)
FinishJoin(a) ==
  LET slots == DOMAIN call[a]
      ok == \A i \in slots : fut[<<a, i>>].result \in RunTerminal IN
  /\ call[a] # <<>>
  /\ \A i \in slots : fut[<<a, i>>].pc = "done"
  /\ item' = [item EXCEPT ![a] =
                [status |-> IF ok THEN "Completed" ELSE "Failed",
                 targets |-> call[a],
                 results |-> IF ok THEN [i \in slots |-> fut[<<a, i>>].result] ELSE <<>>]]
  /\ call' = [call EXCEPT ![a] = <<>>]
  /\ Reg!Discard(Slots(a))
  /\ UNCHANGED <<phase, version, closed, turns, spawn, known, told, calls, hooks>>

-----------------------------------------------------------------------------
Batches(a) == UNION {[1 .. n -> Arguments(a)] : n \in 0 .. MaxBatch}

SpawnStep ==
  \/ \E p \in Agent, c \in Child, fork \in BOOLEAN : SubmitSpawn(p, c, fork)
  \/ \E c \in Child : RegisterSpawned(c) \/ ReturnSpawned(c)
  \/ \E a, b \in Agent : Tell(a, b)

TurnStep ==
  \/ \E a \in Agent : StartTurn(a) \/ CompleteTurn(a)
  \/ \E a \in Agent, reason \in Reasons : AbortTurn(a, reason)
  \/ \E c \in Failing : RecordError(c)
  \/ \E r \in RunRef, event \in TurnEvent : PublishTerminal(r, event)
  \/ \E r \in RunRef : NotifyParent(r)

JoinStep ==
  \/ \E a \in Agent : \E targets \in Batches(a) : RejectJoin(a, targets) \/ BeginJoin(a, targets)
  \/ \E a \in Agent, i \in 1 .. MaxBatch : SubscribeJoin(a, i) \/ PollJoin(a, i)
  \/ \E a \in Agent : FinishJoin(a)

Next == SpawnStep \/ TurnStep \/ JoinStep

Spec == Init /\ [][Next]_vars

(* Woken tasks are polled and hooks run to their end (the runtime's part);
   a turn that is not parked ends sooner or later (the model's part). *)
Fairness ==
  /\ \A c \in Child : WF_vars(RegisterSpawned(c)) /\ WF_vars(ReturnSpawned(c))
  /\ \A r \in RunRef, event \in TurnEvent : WF_vars(PublishTerminal(r, event))
  /\ \A r \in RunRef : WF_vars(NotifyParent(r))
  /\ \A a \in Agent, i \in 1 .. MaxBatch : WF_vars(SubscribeJoin(a, i)) /\ WF_vars(PollJoin(a, i))
  /\ \A a \in Agent : WF_vars(FinishJoin(a)) /\ WF_vars(CompleteTurn(a))

FairSpec == Spec /\ Fairness

-----------------------------------------------------------------------------
(* Properties.                                                             *)

(* A join reported Completed returned, in the order of the request, the
   receipt of each exact run: never that of another run of the same agent,
   never a partial batch (join_many.rs, join.rs). *)
RepliesAreExact ==
  \A a \in Agent : item[a].status = "Completed" =>
    /\ DOMAIN item[a].results = DOMAIN item[a].targets
    /\ \A i \in DOMAIN item[a].targets :
         /\ item[a].results[i].run = item[a].targets[i]
         /\ phase[item[a].targets[i]] = item[a].results[i]

(* A receipt that spawn_agent returned can always be joined: the run is in
   the registry before the parent learns its id, however early it ended
   and however often its thread was used again (spawn.rs). *)
ReceiptsAreKnown ==
  /\ \A a \in Agent : \A r \in known[a] : phase[r] # Absent
  /\ \A a \in Agent : \A i \in DOMAIN call[a] :
       call[a][i] \in known[a] => fut[<<a, i>>].result # UnknownRun

(* A parent told that a run ended finds its receipt: the receipt is
   published before the notification (maybe_notify_parent_of_terminal_turn). *)
ReceiptBeforeNotification == \A r \in notified : phase[r] \in RunTerminal

(* What a caller may rely on: typed state, exact replies, joinable receipts,
   and a receipt that is there when its run is reported. *)
JoinsAreExact == TypeOK /\ RepliesAreExact /\ ReceiptsAreKnown /\ ReceiptBeforeNotification

(* A turn that recorded a terminal error is reported failed, whatever
   event ended it (agent_run_terminal_from_event). *)
ErrorIsFailure ==
  [][\A r \in terminalError :
       phase'[r] # phase[r] /\ phase'[r] \in RunTerminal => phase'[r].outcome = "failed"]_vars

(* Agents wait for each other in a circle only if one of them learnt a
   receipt from a message: only the join of an agent on itself is rejected
   (resolve_join_target), and what keeps the others out of circles is that
   spawning and forking tell a receipt to nobody who is older than the run
   except its parent. *)
WaitsFor(a) == {call[a][i][1] : i \in {j \in DOMAIN call[a] : phase[call[a][j]] = Running}}
NoCircularWait ==
  \A S \in SUBSET Agent :
    S # {} /\ S \cap told = {} => \E a \in S : WaitsFor(a) \cap S = {}

(* A parked parent resumes once every run it joined has ended. *)
ParkedJoinReturns ==
  \A a \in Agent :
    (call[a] # <<>> /\ \A i \in DOMAIN call[a] : phase[call[a][i]] \in RunTerminal)
      ~> call[a] = <<>>

(* Every run ends with a receipt, also that of an agent that is parked on
   runs of others which are parked in turn, are interrupted or end before
   they are registered (terminal-turn hook, join_many.rs).  It rests on
   NoCircularWait: agents that send each other receipts can wait in a
   circle, and their runs then end by an interruption or not at all. *)
EveryRunGetsReceipt ==
  \A c \in Child : \A n \in 1 .. MaxRuns :
    runs[c] >= n ~> phase[<<c, n>>] \in RunTerminal

(* The sessions use the registry and its futures as RunCompletion allows. *)
UsesRegistry == Reg!Spec
=============================================================================
