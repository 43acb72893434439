------------------------- MODULE NativeJoin_proofs --------------------------
(* Safety of native joins for every number of agents, of turns, of calls and
   of runs per call. *)
EXTENDS NativeJoin, SequenceTheorems, TLAPS

(* A receipt is of the run whose turn produced it; only the turn that a spawn
   started is ever registered as running. *)
PhaseHolds(r) ==
  /\ phase[r] \in RunTerminal => phase[r].run = r
  /\ phase[r] = Running => r[2] = 1

(* A spawn learns no receipt that is not in the registry, and whoever spawned
   or was spawned has run. *)
SpawnHolds(c) ==
  /\ spawn[c].by = NoResult <=> spawn[c].stage = "none"
  /\ runs[c] = 0 => spawn[c].by = NoResult
  /\ spawn[c].by \in Agent => runs[spawn[c].by] > 0
  /\ spawn[c].stage \in {"registered", "returned"} => phase[<<c, 1>>] # Absent

(* What an agent knows, and what it joins while its turn is in progress:
   receipts, or runs it made up. *)
AgentHolds(a) ==
  /\ busy[a] => runs[a] > 0
  /\ call[a] # <<>> => busy[a]
  /\ \A r \in known[a] : r[2] # 0 /\ phase[r] # Absent /\ runs[r[1]] > 0
  /\ Len(call[a]) <= MaxBatch
  /\ \A i \in DOMAIN call[a] : call[a][i] \in known[a] \/ call[a][i][2] = 0

(* The i-th future of a join is of its i-th target, and what it answered is
   in the registry. *)
SlotHolds(a, i) ==
  LET f == fut[<<a, i>>] IN
  /\ f.pc = "none" => f = Reg!NoFuture
  /\ f.pc # "none" => i \in DOMAIN call[a] /\ f.target = call[a][i]
  /\ f.result \in RunTerminal => f.target \in RunRef /\ phase[f.target] = f.result
  /\ f.result = UnknownRun => f.target \notin known[a]

(* A hook that is past complete_run has published. *)
HooksHold == \A r \in settling \cup notified : phase[r] \in RunTerminal

(* Whom an agent may ever wait for: the children whose receipts it knows and
   those it spawned.  No group of agents of whom none was told a receipt is
   closed under waiting: whoever is spawned knows what its parent knows and
   is known to its parent alone. *)
MayAwait(a) == {r[1] : r \in known[a]} \cup {c \in Child : spawn[c].by = a}
NoCircleForms ==
  \A S \in SUBSET Agent :
    S # {} /\ S \cap told = {} => \E a \in S : MayAwait(a) \cap S = {}

IInv ==
  /\ TypeOK /\ ~closed
  /\ \A r \in RunRef : PhaseHolds(r)
  /\ \A c \in Child : SpawnHolds(c)
  /\ \A a \in Agent : AgentHolds(a)
  /\ \A a \in Agent, i \in 1 .. MaxBatch : SlotHolds(a, i)
  /\ RepliesAreExact
  /\ HooksHold
  /\ NoCircleForms

-----------------------------------------------------------------------------
LEMMA InitIInv == Init => IInv
<1>. SUFFICES ASSUME Init PROVE IInv
  OBVIOUS
<1>. USE ValuesDistinct DEF Init, Reg!Init
<1>1. Reg!NoFuture \in Reg!Future
  BY DEF Reg!NoFuture, Reg!Future
<1>2. TypeOK
  <2>1. Reg!TypeOK
    BY <1>1 DEF Reg!TypeOK, Reg!Phase
  <2>2. <<>> \in Seq(RunRef) /\ <<>> \in Seq(RunTerminal)
    OBVIOUS
  <2>3. runs \in [Agent -> 0 .. MaxRuns]
    BY BoundAssumption
  <2>4. item \in [Agent -> [status : {"none", "InProgress", "Completed", "Failed"},
                            targets : Seq(RunRef), results : Seq(RunTerminal)]]
    BY <2>2 DEF NoItem
  <2>5. QED
    BY <2>1, <2>2, <2>3, <2>4 DEF TypeOK
<1>3. \A r \in RunRef : PhaseHolds(r)
  BY DEF PhaseHolds
<1>4. \A c \in Child : SpawnHolds(c)
  BY DEF SpawnHolds
<1>5. ASSUME NEW a \in Agent PROVE AgentHolds(a)
  <2>1. call[a] = <<>> /\ known[a] = {}
    OBVIOUS
  <2>2. Len(call[a]) <= MaxBatch /\ DOMAIN call[a] = {}
    BY <2>1, BoundAssumption
  <2>3. busy[a] => runs[a] > 0
    <3>1. busy[a] => a = Root
      BY Zenon
    <3>2. QED
      BY <3>1
  <2>4. QED
    BY <2>1, <2>2, <2>3 DEF AgentHolds
<1>6. ASSUME NEW a \in Agent, NEW i \in 1 .. MaxBatch PROVE SlotHolds(a, i)
  <2>1. <<a, i>> \in Slot
    BY DEF Slot
  <2>2. fut[<<a, i>>] = Reg!NoFuture
    BY <2>1
  <2>3. Reg!NoFuture.pc = "none" /\ Reg!NoFuture.result = NoResult
    BY DEF Reg!NoFuture
  <2>4. QED
    BY <2>2, <2>3 DEF SlotHolds
<1>7. RepliesAreExact
  BY DEF RepliesAreExact, NoItem
<1>8. HooksHold
  BY DEF HooksHold
<1>9. NoCircleForms
  BY DEF NoCircleForms, MayAwait
<1>10. QED
  BY <1>2, <1>3, <1>4, <1>5, <1>6, <1>7, <1>8, <1>9 DEF IInv

(* Which steps touch what. *)
LEMMA PhaseChanges ==
  ASSUME [Next]_vars
  PROVE  \/ UNCHANGED <<phase, version>>
         \/ \E c \in Child : RegisterSpawned(c)
         \/ \E r \in RunRef, event \in TurnEvent : PublishTerminal(r, event)
BY DEF Next, SpawnStep, TurnStep, JoinStep, SubmitSpawn, ReturnSpawned, Tell, StartTurn,
   CompleteTurn, AbortTurn, RecordError, NotifyParent, RejectJoin, BeginJoin, SubscribeJoin,
   PollJoin, FinishJoin, registry, vars

LEMMA FutureChanges ==
  ASSUME [Next]_vars
  PROVE  \/ UNCHANGED <<fut, call>>
         \/ \E a \in Agent, reason \in Reasons : AbortTurn(a, reason)
         \/ \E a \in Agent : \E targets \in Batches(a) : BeginJoin(a, targets)
         \/ \E a \in Agent, i \in 1 .. MaxBatch : SubscribeJoin(a, i) \/ PollJoin(a, i)
         \/ \E a \in Agent : FinishJoin(a)
BY DEF Next, SpawnStep, TurnStep, JoinStep, SubmitSpawn, RegisterSpawned, ReturnSpawned, Tell,
   StartTurn, CompleteTurn, RecordError, PublishTerminal, NotifyParent, RejectJoin, registry,
   joins, vars

LEMMA ItemChanges ==
  ASSUME [Next]_vars
  PROVE  \/ UNCHANGED item
         \/ \E a \in Agent : \E targets \in Batches(a) : BeginJoin(a, targets)
         \/ \E a \in Agent : FinishJoin(a)
BY DEF Next, SpawnStep, TurnStep, JoinStep, SubmitSpawn, RegisterSpawned, ReturnSpawned, Tell,
   StartTurn, CompleteTurn, AbortTurn, RecordError, PublishTerminal, NotifyParent, RejectJoin,
   SubscribeJoin, PollJoin, joins, vars

LEMMA KnownChanges ==
  ASSUME [Next]_vars
  PROVE  \/ UNCHANGED known
         \/ \E p \in Agent, c \in Child, fork \in BOOLEAN : SubmitSpawn(p, c, fork)
         \/ \E c \in Child : ReturnSpawned(c)
         \/ \E a, b \in Agent : Tell(a, b)
BY DEF Next, SpawnStep, TurnStep, JoinStep, RegisterSpawned, StartTurn, CompleteTurn, AbortTurn,
   RecordError, PublishTerminal, NotifyParent, RejectJoin, BeginJoin, SubscribeJoin, PollJoin,
   FinishJoin, vars

LEMMA SpawnChanges ==
  ASSUME [Next]_vars
  PROVE  \/ UNCHANGED spawn
         \/ \E p \in Agent, c \in Child, fork \in BOOLEAN : SubmitSpawn(p, c, fork)
         \/ \E c \in Child : RegisterSpawned(c) \/ ReturnSpawned(c)
         \/ \E a \in Agent, reason \in Reasons : AbortTurn(a, reason)
BY DEF Next, SpawnStep, TurnStep, JoinStep, Tell, StartTurn, CompleteTurn,
   RecordError, PublishTerminal, NotifyParent, RejectJoin, BeginJoin, SubscribeJoin, PollJoin,
   FinishJoin, vars

LEMMA TurnChanges ==
  ASSUME [Next]_vars
  PROVE  \/ UNCHANGED turns
         \/ \E p \in Agent, c \in Child, fork \in BOOLEAN : SubmitSpawn(p, c, fork)
         \/ \E a \in Agent : StartTurn(a) \/ CompleteTurn(a)
         \/ \E a \in Agent, reason \in Reasons : AbortTurn(a, reason)
BY DEF Next, SpawnStep, TurnStep, JoinStep, RegisterSpawned, ReturnSpawned, Tell,
   RecordError, PublishTerminal, NotifyParent, RejectJoin, BeginJoin, SubscribeJoin, PollJoin,
   FinishJoin, turns, vars
-----------------------------------------------------------------------------
(* Every step uses the registry as RunCompletion allows, or leaves it alone. *)
LEMMA RegistryStep ==
  ASSUME TypeOK, ~closed, [Next]_vars
  PROVE  [Reg!Next]_(Reg!vars)
<1>. USE DEF Reg!Next, Reg!vars, Reg!registryVars
<1>1. ASSUME NEW c \in Child, RegisterSpawned(c) PROVE Reg!Next
  <2>1. <<c, 1>> \in RunRef
    BY BoundAssumption DEF RunRef
  <2>2. Reg!Register(<<c, 1>>)
    BY <1>1 DEF RegisterSpawned, Reg!Register
  <2>3. QED
    BY <2>1, <2>2
<1>2. ASSUME NEW r \in RunRef, NEW event \in TurnEvent, PublishTerminal(r, event) PROVE Reg!Next
  <2> DEFINE o == TerminalFromEvent(r, event, r \in terminalError)
  <2>1. o \in RunTerminal
    BY DEF TerminalFromEvent, RunTerminal
  <2>2. Reg!Publish(r, o)
    BY <1>2 DEF PublishTerminal, Reg!Publish
  <2>3. QED
    BY <2>1, <2>2
<1>3. ASSUME NEW a \in Agent, NEW reason \in Reasons, AbortTurn(a, reason) PROVE Reg!Next
  <2>1. Slots(a) \in SUBSET Slot /\ Reg!Drop(Slots(a))
    BY <1>3 DEF AbortTurn, Slots, Reg!Drop
  <2>2. QED
    BY <2>1
<1>4. ASSUME NEW a \in Agent, NEW i \in 1 .. MaxBatch, SubscribeJoin(a, i) PROVE Reg!Next
  <2>1. <<a, i>> \in Slot /\ call[a][i] \in RunRef
    BY <1>4 DEF SubscribeJoin, Slot, TypeOK
  <2>2. Reg!JoinOne(<<a, i>>, call[a][i])
    BY <1>4 DEF SubscribeJoin, Reg!JoinOne
  <2>3. QED
    BY <2>1, <2>2
<1>5. ASSUME NEW a \in Agent, NEW i \in 1 .. MaxBatch, PollJoin(a, i) PROVE Reg!Next
  <2>1. <<a, i>> \in Slot
    BY DEF Slot
  <2>2. Reg!Step(<<a, i>>)
    BY <1>5 DEF PollJoin, Reg!Step
  <2>3. QED
    BY <2>1, <2>2
<1>6. ASSUME NEW a \in Agent, FinishJoin(a) PROVE Reg!Next
  <2>1. Slots(a) \in SUBSET Slot /\ Reg!Drop(Slots(a))
    BY <1>6 DEF FinishJoin, Slots, Reg!Drop
  <2>2. QED
    BY <2>1
<1>7. CASE UNCHANGED registry
  BY <1>7 DEF registry
<1>8. QED
  BY <1>1, <1>2, <1>3, <1>4, <1>5, <1>6, <1>7 DEF Next, SpawnStep, TurnStep, JoinStep,
     SubmitSpawn, ReturnSpawned, Tell, StartTurn, CompleteTurn, RecordError, NotifyParent,
     RejectJoin, BeginJoin, vars

(* The registry only moves forward: a receipt is final, a known run stays
   known, and no step closes the channels. *)
LEMMA Forward ==
  ASSUME TypeOK, [Next]_vars, NEW r \in RunRef
  PROVE  /\ phase[r] \in RunTerminal => phase'[r] = phase[r]
         /\ phase[r] # Absent => phase'[r] # Absent
<1>. USE ValuesDistinct DEF TypeOK, Reg!TypeOK
<1>1. ASSUME NEW c \in Child, RegisterSpawned(c)
      PROVE  /\ phase[r] \in RunTerminal => phase'[r] = phase[r]
             /\ phase[r] # Absent => phase'[r] # Absent
  BY <1>1 DEF RegisterSpawned, Reg!RegisterRunning
<1>2. ASSUME NEW q \in RunRef, NEW event \in TurnEvent, PublishTerminal(q, event)
      PROVE  /\ phase[r] \in RunTerminal => phase'[r] = phase[r]
             /\ phase[r] # Absent => phase'[r] # Absent
  <2> DEFINE o == TerminalFromEvent(q, event, q \in terminalError)
  <2>1. o \in RunTerminal
    BY DEF TerminalFromEvent, RunTerminal
  <2>2. phase' = [phase EXCEPT ![q] = IF @ \in {Absent, Running} THEN o ELSE @]
    BY <1>2 DEF PublishTerminal, Reg!Complete
  <2>3. o # Absent
    BY <2>1
  <2> HIDE DEF o
  <2>4. QED
    BY <2>2, <2>3
<1>3. QED
  BY <1>1, <1>2, PhaseChanges

LEMMA Typed ==
  ASSUME IInv, NEW a \in Agent, NEW i \in DOMAIN call[a]
  PROVE  /\ i \in 1 .. MaxBatch /\ <<a, i>> \in Slot /\ call[a][i] \in RunRef
         /\ Len(call[a]) \in Nat /\ DOMAIN call[a] = 1 .. Len(call[a])
<1>1. call[a] \in Seq(RunRef) /\ Len(call[a]) <= MaxBatch /\ MaxBatch \in Nat
  BY BoundAssumption DEF IInv, TypeOK, AgentHolds
<1>2. QED
  BY <1>1 DEF Slot

LEMMA NoneTyped == <<>> \in Seq(RunRef) /\ Len(<<>>) = 0 /\ DOMAIN <<>> = {}
OBVIOUS

LEMMA BatchTyped ==
  ASSUME IInv, NEW a \in Agent, NEW targets \in Batches(a)
  PROVE  /\ targets \in Seq(RunRef) /\ Len(targets) <= MaxBatch
         /\ \A i \in DOMAIN targets : targets[i] \in known[a] \/ targets[i][2] = 0
<1>1. Arguments(a) \subseteq RunRef
  BY BoundAssumption, AgentAssumption DEF IInv, TypeOK, Arguments, RunRef
<1>2. PICK n \in 0 .. MaxBatch : targets \in [1 .. n -> Arguments(a)]
  BY DEF Batches
<1>3. n \in Nat /\ n <= MaxBatch
  BY BoundAssumption
<1>4. targets \in Seq(RunRef) /\ Len(targets) = n
  <2>1. targets \in [1 .. n -> RunRef]
    BY <1>1, <1>2
  <2>2. targets \in Seq(RunRef)
    BY <1>3, <2>1, SeqDef
  <2>3. DOMAIN targets = 1 .. Len(targets) /\ Len(targets) \in Nat /\ DOMAIN targets = 1 .. n
    BY <2>1, <2>2, LenProperties
  <2>4. \A m, k \in Nat : 1 .. m = 1 .. k => m = k
    <3>1. SUFFICES ASSUME NEW m \in Nat, NEW k \in Nat, 1 .. m = 1 .. k PROVE m <= k
      BY SMT
    <3>2. m = 0 \/ m \in 1 .. m
      OBVIOUS
    <3>3. QED
      BY <3>1, <3>2
  <2>5. QED
    BY <1>3, <2>2, <2>3, <2>4
<1>5. ASSUME NEW i \in DOMAIN targets PROVE targets[i] \in known[a] \/ targets[i][2] = 0
  BY <1>2 DEF Arguments
<1>6. QED
  BY <1>3, <1>4, <1>5
-----------------------------------------------------------------------------
(* The invariant, one part at a time.                                      *)

LEMMA RegistryTyped ==
  ASSUME IInv, [Next]_vars
  PROVE  Reg!TypeOK' /\ ~closed'
<1>0. Reg!TypeOK /\ ~closed /\ Reg!NoFuture \in Reg!Future
  BY DEF IInv, TypeOK, Reg!NoFuture, Reg!Future
<1>. USE DEF Reg!TypeOK
<1>1. ASSUME NEW r \in RunRef, Reg!Register(r) PROVE Reg!TypeOK'
  BY <1>0, <1>1 DEF Reg!Register, Reg!RegisterRunning, Reg!Phase
<1>2. ASSUME NEW r \in RunRef, NEW o \in RunTerminal, Reg!Publish(r, o) PROVE Reg!TypeOK'
  BY <1>0, <1>2 DEF Reg!Publish, Reg!Complete, Reg!Phase
<1>3. ASSUME NEW w \in Slot, NEW r \in RunRef, Reg!JoinOne(w, r) PROVE Reg!TypeOK'
  BY <1>0, <1>3 DEF Reg!JoinOne, Reg!Subscribe, Reg!registryVars, Reg!Future, Reg!Refused
<1>4. ASSUME NEW w \in Slot, Reg!Step(w) PROVE Reg!TypeOK'
  <2>1. PICK a \in Agent, i \in 1 .. MaxBatch : w = <<a, i>>
    BY DEF Slot
  <2>2. fut[w].pc # "none"
    BY <1>4 DEF Reg!Step, Reg!Poll, Reg!Check, Reg!Changed, Reg!ChangedClosed
  <2>3. fut[w].target \in RunRef
    BY <2>1, <2>2, Typed DEF IInv, SlotHolds
  <2>4. CASE Reg!Check(w)
    BY <1>0, <1>4, <2>4 DEF Reg!Step, Reg!Check, Reg!registryVars, Reg!Future
  <2>5. CASE Reg!Changed(w)
    BY <1>0, <1>4, <2>3, <2>5 DEF Reg!Step, Reg!Changed, Reg!registryVars, Reg!Future
  <2>6. QED
    BY <1>0, <1>4, <2>4, <2>5 DEF Reg!Step, Reg!Poll, Reg!ChangedClosed
<1>5. ASSUME NEW W \in SUBSET Slot, Reg!Drop(W) PROVE Reg!TypeOK'
  BY <1>0, <1>5 DEF Reg!Drop, Reg!Discard, Reg!registryVars
<1>6. ASSUME Reg!DropSource PROVE Reg!TypeOK'
  BY <1>0, <1>6 DEF Reg!DropSource, Reg!registryVars
<1>7. ASSUME UNCHANGED Reg!vars PROVE Reg!TypeOK'
  BY <1>0, <1>7 DEF Reg!vars
<1>8. Reg!TypeOK'
  BY <1>1, <1>2, <1>3, <1>4, <1>5, <1>6, <1>7, RegistryStep DEF Reg!Next, IInv
<1>9. closed' = closed
  BY DEF Next, SpawnStep, TurnStep, JoinStep, SubmitSpawn, RegisterSpawned, ReturnSpawned, Tell,
     StartTurn, CompleteTurn, AbortTurn, RecordError, PublishTerminal, NotifyParent, RejectJoin,
     BeginJoin, SubscribeJoin, PollJoin, FinishJoin, registry, vars
<1>10. QED
  BY <1>0, <1>8, <1>9

LEMMA TurnsTyped ==
  ASSUME IInv, [Next]_vars
  PROVE  runs' \in [Agent -> 0 .. MaxRuns] /\ busy' \in [Agent -> BOOLEAN]
<1>1. runs \in [Agent -> 0 .. MaxRuns] /\ busy \in [Agent -> BOOLEAN]
  BY DEF IInv, TypeOK
<1>2. ASSUME NEW p \in Agent, NEW c \in Child, NEW fork \in BOOLEAN, SubmitSpawn(p, c, fork)
      PROVE  runs' \in [Agent -> 0 .. MaxRuns] /\ busy' \in [Agent -> BOOLEAN]
  <2>1. 1 \in 0 .. MaxRuns
    BY BoundAssumption
  <2>2. QED
    BY <1>1, <1>2, <2>1 DEF SubmitSpawn
<1>3. ASSUME NEW a \in Agent, StartTurn(a)
      PROVE  runs' \in [Agent -> 0 .. MaxRuns] /\ busy' \in [Agent -> BOOLEAN]
  <2>1. runs[a] + 1 \in 0 .. MaxRuns
    BY <1>1, <1>3, BoundAssumption DEF StartTurn
  <2>2. QED
    BY <1>1, <1>3, <2>1 DEF StartTurn
<1>4. QED
  BY <1>1, <1>2, <1>3, TurnChanges DEF turns, CompleteTurn, AbortTurn

LEMMA SpawnTyped ==
  ASSUME IInv, [Next]_vars
  PROVE  (spawn \in [Child -> [by : Agent \cup {NoResult},
                       stage : {"none", "submitted", "registered", "returned", "lost"}]])'
<1> DEFINE Made == [by : Agent \cup {NoResult},
                    stage : {"none", "submitted", "registered", "returned", "lost"}]
<1>1. spawn \in [Child -> Made]
  BY DEF IInv, TypeOK
<1>2. ASSUME NEW p \in Agent, NEW c \in Child, NEW fork \in BOOLEAN, SubmitSpawn(p, c, fork)
      PROVE  spawn' \in [Child -> Made]
  BY <1>1, <1>2 DEF SubmitSpawn
<1>3. ASSUME NEW c \in Child, RegisterSpawned(c) PROVE spawn' \in [Child -> Made]
  BY <1>1, <1>3 DEF RegisterSpawned
<1>4. ASSUME NEW c \in Child, ReturnSpawned(c) PROVE spawn' \in [Child -> Made]
  BY <1>1, <1>4 DEF ReturnSpawned
<1>5. ASSUME NEW a \in Agent, NEW reason \in Reasons, AbortTurn(a, reason)
      PROVE  spawn' \in [Child -> Made]
  <2>1. spawn' = [c \in Child |-> IF c \in Spawning(a) THEN [spawn[c] EXCEPT !.stage = "lost"]
                                                       ELSE spawn[c]]
    BY <1>5 DEF AbortTurn
  <2>2. \A c \in Child : [spawn[c] EXCEPT !.stage = "lost"] \in Made
    BY <1>1
  <2> HIDE DEF Made
  <2>3. QED
    BY <1>1, <2>1, <2>2
<1>6. QED
  BY <1>1, <1>2, <1>3, <1>4, <1>5, SpawnChanges

LEMMA KnownTyped ==
  ASSUME IInv, [Next]_vars
  PROVE  known' \in [Agent -> SUBSET RunRef]
<1>1. known \in [Agent -> SUBSET RunRef]
  BY DEF IInv, TypeOK
<1>2. ASSUME NEW p \in Agent, NEW c \in Child, NEW fork \in BOOLEAN, SubmitSpawn(p, c, fork)
      PROVE  known' \in [Agent -> SUBSET RunRef]
  BY <1>1, <1>2 DEF SubmitSpawn
<1>3. ASSUME NEW c \in Child, ReturnSpawned(c) PROVE known' \in [Agent -> SUBSET RunRef]
  <2>1. <<c, 1>> \in RunRef
    BY BoundAssumption DEF RunRef
  <2>2. QED
    BY <1>1, <1>3, <2>1 DEF ReturnSpawned
<1>4. ASSUME NEW a \in Agent, NEW b \in Agent, Tell(a, b)
      PROVE known' \in [Agent -> SUBSET RunRef]
  BY <1>1, <1>4 DEF Tell
<1>5. QED
  BY <1>1, <1>2, <1>3, <1>4, KnownChanges
LEMMA CallTyped ==
  ASSUME IInv, [Next]_vars
  PROVE  call' \in [Agent -> Seq(RunRef)] /\ calls' \in [Agent -> Nat]
<1>1. call \in [Agent -> Seq(RunRef)] /\ calls \in [Agent -> Nat]
  BY DEF IInv, TypeOK
<1>2. call' \in [Agent -> Seq(RunRef)]
  <2>1. ASSUME NEW a \in Agent, NEW targets \in Batches(a), BeginJoin(a, targets)
        PROVE  call' \in [Agent -> Seq(RunRef)]
    BY <1>1, <2>1, BatchTyped DEF BeginJoin
  <2>2. QED
    BY <1>1, <2>1, NoneTyped, FutureChanges DEF AbortTurn, SubscribeJoin, PollJoin, FinishJoin, joins
<1>3. calls' \in [Agent -> Nat]
  <2>1. CASE UNCHANGED calls
    BY <1>1, <2>1
  <2>2. ASSUME NEW a \in Agent, NEW targets \in Batches(a), StartCall(a, targets)
        PROVE  calls' \in [Agent -> Nat]
    BY <1>1, <2>2 DEF StartCall
  <2>3. QED
    BY <2>1, <2>2 DEF Next, SpawnStep, TurnStep, JoinStep, SubmitSpawn, RegisterSpawned,
       ReturnSpawned, Tell, StartTurn, CompleteTurn, AbortTurn, RecordError, PublishTerminal,
       NotifyParent, RejectJoin, BeginJoin, SubscribeJoin, PollJoin, FinishJoin, joins, vars
<1>4. QED
  BY <1>2, <1>3

(* The results of a finished join. *)
LEMMA ResultsTyped ==
  ASSUME IInv, NEW a \in Agent,
         \A i \in DOMAIN call[a] : fut[<<a, i>>].result \in RunTerminal
  PROVE  [i \in DOMAIN call[a] |-> fut[<<a, i>>].result] \in Seq(RunTerminal)
<1> DEFINE results == [i \in DOMAIN call[a] |-> fut[<<a, i>>].result]
<1>1. call[a] \in Seq(RunRef)
  BY DEF IInv, TypeOK
<1>2. DOMAIN call[a] = 1 .. Len(call[a]) /\ Len(call[a]) \in Nat
  BY <1>1, LenProperties
<1>3. results \in [1 .. Len(call[a]) -> RunTerminal]
  BY <1>2
<1> HIDE DEF results
<1>4. results \in Seq(RunTerminal)
  BY <1>2, <1>3, SeqDef
<1>5. QED
  BY <1>4 DEF results

LEMMA ItemTyped ==
  ASSUME IInv, [Next]_vars
  PROVE  (item \in [Agent -> [status : {"none", "InProgress", "Completed", "Failed"},
                              targets : Seq(RunRef), results : Seq(RunTerminal)]])'
<1> DEFINE Items == [status : {"none", "InProgress", "Completed", "Failed"},
                     targets : Seq(RunRef), results : Seq(RunTerminal)]
<1>1. item \in [Agent -> Items] /\ call \in [Agent -> Seq(RunRef)]
  BY DEF IInv, TypeOK
<1>2. ASSUME NEW a \in Agent, NEW targets \in Batches(a), BeginJoin(a, targets)
      PROVE  item' \in [Agent -> Items]
  <2>1. [status |-> "InProgress", targets |-> targets, results |-> <<>>] \in Items
    BY BatchTyped
  <2> HIDE DEF Items
  <2>2. QED
    BY <1>1, <1>2, <2>1 DEF BeginJoin
<1>3. ASSUME NEW a \in Agent, FinishJoin(a) PROVE item' \in [Agent -> Items]
  <2> DEFINE ok == \A i \in DOMAIN call[a] : fut[<<a, i>>].result \in RunTerminal
             results == IF ok THEN [i \in DOMAIN call[a] |-> fut[<<a, i>>].result] ELSE <<>>
             new == [status |-> IF ok THEN "Completed" ELSE "Failed",
                     targets |-> call[a], results |-> results]
  <2>1. item' = [item EXCEPT ![a] = new]
    BY <1>3 DEF FinishJoin
  <2>2. results \in Seq(RunTerminal)
    BY ResultsTyped
  <2> HIDE DEF results
  <2>3. (IF ok THEN "Completed" ELSE "Failed") \in {"none", "InProgress", "Completed", "Failed"}
    OBVIOUS
  <2>4. new \in Items
    BY <1>1, <2>2, <2>3
  <2> HIDE DEF Items, new
  <2>5. QED
    BY <1>1, <2>1, <2>4
<1>4. QED
  BY <1>1, <1>2, <1>3, ItemChanges

LEMMA HooksTyped ==
  ASSUME IInv, [Next]_vars
  PROVE  /\ terminalError' \subseteq RunRef /\ ending' \subseteq RunRef \X TurnEvent
         /\ settling' \subseteq RunRef /\ notified' \subseteq RunRef
<1>1. /\ terminalError \subseteq RunRef /\ ending \subseteq RunRef \X TurnEvent
      /\ settling \subseteq RunRef /\ notified \subseteq RunRef
  BY DEF IInv, TypeOK
<1>2. \A c \in Child : Run(c) \in RunRef
  BY DEF IInv, TypeOK, Run, RunRef, Agent
<1>3. ASSUME NEW a \in Agent, NEW event \in TurnEvent, Emit(a, event)
      PROVE  ending' \subseteq RunRef \X TurnEvent
  <2>1. CASE a = Root
    BY <1>1, <1>3, <2>1 DEF Emit
  <2>2. CASE a # Root
    BY <1>1, <1>2, <1>3, <2>2 DEF Emit, Agent
  <2>3. QED
    BY <2>1, <2>2
<1>4. ASSUME NEW a \in Agent, CompleteTurn(a) PROVE ending' \subseteq RunRef \X TurnEvent
  BY <1>3, <1>4 DEF CompleteTurn, TurnEvent
<1>5. ASSUME NEW a \in Agent, NEW reason \in Reasons, AbortTurn(a, reason)
      PROVE  ending' \subseteq RunRef \X TurnEvent
  BY <1>3, <1>5, AgentAssumption DEF AbortTurn, TurnEvent
<1>6. ASSUME NEW r \in RunRef, NEW event \in TurnEvent, PublishTerminal(r, event)
      PROVE  ending' \subseteq RunRef \X TurnEvent
  BY <1>1, <1>6 DEF PublishTerminal
<1>7. ending' \subseteq RunRef \X TurnEvent
  <2>1. \/ UNCHANGED ending
        \/ \E a \in Agent : CompleteTurn(a)
        \/ \E a \in Agent, reason \in Reasons : AbortTurn(a, reason)
        \/ \E r \in RunRef, event \in TurnEvent : PublishTerminal(r, event)
    BY DEF Next, SpawnStep, TurnStep, JoinStep, SubmitSpawn, RegisterSpawned, ReturnSpawned,
       Tell, StartTurn, RecordError, NotifyParent, RejectJoin, BeginJoin, SubscribeJoin,
       PollJoin, FinishJoin, hooks, vars
  <2>2. QED
    BY <1>1, <1>4, <1>5, <1>6, <2>1
<1>8. \/ UNCHANGED <<terminalError, settling, notified>>
      \/ \E c \in Child : RecordError(c)
      \/ \E r \in RunRef, event \in TurnEvent : PublishTerminal(r, event)
      \/ \E r \in RunRef : NotifyParent(r)
  BY AgentAssumption
     DEF Next, SpawnStep, TurnStep, JoinStep, SubmitSpawn, RegisterSpawned, ReturnSpawned, Tell,
     StartTurn, CompleteTurn, AbortTurn, RejectJoin, BeginJoin, SubscribeJoin, PollJoin,
     FinishJoin, hooks, vars
<1>9. terminalError' \subseteq RunRef
  <2>1. ASSUME NEW c \in Child, RecordError(c) PROVE terminalError' \subseteq RunRef
    <3>1. terminalError' = terminalError \cup {Run(c)} /\ Run(c) \in RunRef
      BY <1>2, <2>1 DEF RecordError
    <3>2. QED
      BY <1>1, <3>1
  <2>2. QED
    BY <1>1, <1>8, <2>1 DEF PublishTerminal, NotifyParent
<1>10. settling' \subseteq RunRef /\ notified' \subseteq RunRef
  BY <1>1, <1>8 DEF RecordError, PublishTerminal, NotifyParent
<1>11. QED
  BY <1>7, <1>9, <1>10

LEMMA ToldTyped ==
  ASSUME IInv, [Next]_vars
  PROVE  told' \subseteq Agent
<1>1. \/ UNCHANGED told
      \/ \E a, b \in Agent : Tell(a, b)
  BY DEF Next, SpawnStep, TurnStep, JoinStep, SubmitSpawn, RegisterSpawned, ReturnSpawned,
     StartTurn, CompleteTurn, AbortTurn, RecordError, PublishTerminal, NotifyParent, RejectJoin,
     BeginJoin, SubscribeJoin, PollJoin, FinishJoin, vars
<1>2. QED
  BY <1>1 DEF Tell, IInv, TypeOK

LEMMA TypeStep == IInv /\ [Next]_vars => TypeOK'
BY RegistryTyped, TurnsTyped, SpawnTyped, KnownTyped, ToldTyped, CallTyped, ItemTyped, HooksTyped DEF TypeOK
LEMMA PhaseStep ==
  ASSUME IInv, [Next]_vars, NEW r \in RunRef
  PROVE  PhaseHolds(r)'
<1>. USE ValuesDistinct
<1>0. phase \in [RunRef -> Reg!Phase] /\ PhaseHolds(r)
  BY DEF IInv, TypeOK, Reg!TypeOK
<1>1. ASSUME NEW c \in Child, RegisterSpawned(c) PROVE PhaseHolds(r)'
  <2>1. phase' = [phase EXCEPT ![<<c, 1>>] = IF @ = Absent THEN Running ELSE @]
    BY <1>1 DEF RegisterSpawned, Reg!RegisterRunning
  <2>2. CASE r = <<c, 1>>
    <3>1. r[2] = 1 /\ phase'[r] \in {Running, phase[r]}
      BY <1>0, <2>1, <2>2
    <3>2. QED
      BY <1>0, <3>1 DEF PhaseHolds
  <2>3. CASE r # <<c, 1>>
    <3>1. phase'[r] = phase[r]
      BY <1>0, <2>1, <2>3
    <3>2. QED
      BY <1>0, <3>1 DEF PhaseHolds
  <2>4. QED
    BY <2>2, <2>3
<1>2. ASSUME NEW q \in RunRef, NEW event \in TurnEvent, PublishTerminal(q, event)
      PROVE  PhaseHolds(r)'
  <2> DEFINE o == TerminalFromEvent(q, event, q \in terminalError)
  <2>1. o \in RunTerminal /\ o.run = q
    BY DEF TerminalFromEvent, RunTerminal
  <2>2. phase' = [phase EXCEPT ![q] = IF @ \in {Absent, Running} THEN o ELSE @]
    BY <1>2 DEF PublishTerminal, Reg!Complete
  <2>3. Running \notin RunTerminal
    OBVIOUS
  <2> HIDE DEF o
  <2>4. phase'[r] = phase[r] \/ (r = q /\ phase'[r] = o)
    BY <1>0, <2>2
  <2>5. QED
    BY <1>0, <2>1, <2>3, <2>4 DEF PhaseHolds
<1>3. QED
  BY <1>0, <1>1, <1>2, PhaseChanges DEF PhaseHolds

LEMMA HooksStep ==
  ASSUME IInv, [Next]_vars
  PROVE  HooksHold'
<1>0. /\ HooksHold /\ settling \subseteq RunRef /\ notified \subseteq RunRef
      /\ phase \in [RunRef -> Reg!Phase] /\ TypeOK
  BY DEF IInv, TypeOK, Reg!TypeOK
<1>1. \A r \in settling \cup notified : phase'[r] \in RunTerminal
  BY <1>0, Forward DEF HooksHold
<1>2. ASSUME NEW q \in RunRef, NEW event \in TurnEvent, PublishTerminal(q, event)
      PROVE  HooksHold'
  <2> DEFINE o == TerminalFromEvent(q, event, q \in terminalError)
  <2>1. o \in RunTerminal
    BY DEF TerminalFromEvent, RunTerminal
  <2>2. phase' = [phase EXCEPT ![q] = IF @ \in {Absent, Running} THEN o ELSE @]
    BY <1>2 DEF PublishTerminal, Reg!Complete
  <2> HIDE DEF o
  <2>3. phase'[q] \in RunTerminal
    BY <1>0, <2>1, <2>2 DEF Reg!Phase
  <2>4. settling' \cup notified' \subseteq settling \cup notified \cup {q}
    BY <1>2 DEF PublishTerminal
  <2>5. QED
    BY <1>1, <2>3, <2>4 DEF HooksHold
<1>3. ASSUME NEW r \in RunRef, NotifyParent(r) PROVE HooksHold'
  BY <1>1, <1>3 DEF NotifyParent, HooksHold
<1>4. CASE UNCHANGED <<settling, notified>>
  BY <1>1, <1>4 DEF HooksHold
<1>5. QED
  BY <1>2, <1>3, <1>4 DEF Next, SpawnStep, TurnStep, JoinStep, SubmitSpawn, RegisterSpawned,
     ReturnSpawned, Tell, StartTurn, CompleteTurn, AbortTurn, RecordError, RejectJoin, BeginJoin,
     SubscribeJoin, PollJoin, FinishJoin, hooks, vars

(* An agent that has run has run since. *)
LEMMA RunsGrow ==
  ASSUME IInv, [Next]_vars, NEW a \in Agent, runs[a] > 0
  PROVE  runs'[a] > 0
<1>1. runs \in [Agent -> Nat]
  BY BoundAssumption DEF IInv, TypeOK
<1>2. QED
  BY <1>1, TurnChanges DEF SubmitSpawn, StartTurn, CompleteTurn, AbortTurn, turns, Agent

LEMMA SpawnsHold ==
  ASSUME IInv, [Next]_vars, NEW c \in Child
  PROVE  SpawnHolds(c)'
<1>. USE ValuesDistinct
<1>0. /\ SpawnHolds(c) /\ TypeOK /\ <<c, 1>> \in RunRef /\ phase \in [RunRef -> Reg!Phase]
      /\ spawn \in [Child -> [by : Agent \cup {NoResult},
                    stage : {"none", "submitted", "registered", "returned", "lost"}]]
      /\ runs \in [Agent -> Nat] /\ c \in Agent
  <2>1. SpawnHolds(c) /\ TypeOK
    BY DEF IInv
  <2>2. runs \in [Agent -> Nat] /\ c \in Agent
    BY <2>1, BoundAssumption DEF TypeOK, Agent
  <2>3. <<c, 1>> \in RunRef
    BY BoundAssumption DEF RunRef
  <2>4. QED
    BY <2>1, <2>2, <2>3 DEF TypeOK, Reg!TypeOK
<1>1. phase[<<c, 1>>] # Absent => phase'[<<c, 1>>] # Absent
  BY <1>0, Forward
<1>2. runs[c] > 0 => runs'[c] > 0
  BY <1>0, RunsGrow
<1>3. spawn[c].by \in Agent => runs'[spawn[c].by] > 0
  BY <1>0, RunsGrow DEF SpawnHolds
<1>4. runs' \in [Agent -> Nat]
  BY TurnsTyped, BoundAssumption
<1>5. ASSUME spawn'[c].by = spawn[c].by,
             spawn'[c].stage = "none" <=> spawn[c].stage = "none",
             spawn'[c].stage \in {"registered", "returned"} => phase'[<<c, 1>>] # Absent
      PROVE  SpawnHolds(c)'
  BY <1>0, <1>2, <1>3, <1>4, <1>5 DEF SpawnHolds
<1>6. CASE spawn'[c] = spawn[c]
  BY <1>0, <1>1, <1>5, <1>6 DEF SpawnHolds
<1>7. ASSUME NEW p \in Agent, NEW d \in Child, NEW fork \in BOOLEAN, SubmitSpawn(p, d, fork)
      PROVE  SpawnHolds(c)'
  <2>1. CASE d = c
    <3>1. spawn'[c] = [by |-> p, stage |-> "submitted"] /\ runs'[c] = 1
      BY <1>0, <1>7, <2>1 DEF SubmitSpawn
    <3>2. runs[p] > 0
      BY <1>7 DEF SubmitSpawn, Free, IInv, AgentHolds
    <3>3. runs'[p] > 0 /\ p # NoResult
      BY <3>2, RunsGrow
    <3>4. QED
      BY <3>1, <3>3 DEF SpawnHolds
  <2>2. CASE d # c
    BY <1>0, <1>6, <1>7, <2>2 DEF SubmitSpawn
  <2>3. QED
    BY <2>1, <2>2
<1>8. ASSUME NEW d \in Child, RegisterSpawned(d) PROVE SpawnHolds(c)'
  <2>1. CASE d = c
    <3>1. /\ spawn[c].stage = "submitted" /\ spawn'[c].by = spawn[c].by
          /\ spawn'[c].stage = "registered"
      BY <1>0, <1>8, <2>1 DEF RegisterSpawned
    <3>2. phase'[<<c, 1>>] # Absent
      BY <1>0, <1>8, <2>1 DEF RegisterSpawned, Reg!RegisterRunning
    <3>3. QED
      BY <1>5, <3>1, <3>2
  <2>2. CASE d # c
    BY <1>0, <1>6, <1>8, <2>2 DEF RegisterSpawned
  <2>3. QED
    BY <2>1, <2>2
<1>9. ASSUME NEW d \in Child, ReturnSpawned(d) PROVE SpawnHolds(c)'
  <2>1. CASE d = c
    <3>1. /\ spawn[c].stage = "registered" /\ spawn'[c].by = spawn[c].by
          /\ spawn'[c].stage = "returned"
      BY <1>0, <1>9, <2>1 DEF ReturnSpawned
    <3>2. QED
      BY <1>0, <1>1, <1>5, <3>1 DEF SpawnHolds
  <2>2. CASE d # c
    BY <1>0, <1>6, <1>9, <2>2 DEF ReturnSpawned
  <2>3. QED
    BY <2>1, <2>2
<1>10. ASSUME NEW a \in Agent, NEW reason \in Reasons, AbortTurn(a, reason) PROVE SpawnHolds(c)'
  <2>1. spawn'[c] = IF c \in Spawning(a) THEN [spawn[c] EXCEPT !.stage = "lost"] ELSE spawn[c]
    BY <1>10 DEF AbortTurn
  <2>2. CASE c \in Spawning(a)
    <3>1. spawn[c].stage # "none"
      BY <2>2 DEF Spawning
    <3>2. spawn'[c].by = spawn[c].by /\ spawn'[c].stage = "lost"
      BY <1>0, <2>1, <2>2
    <3>3. QED
      BY <1>5, <3>1, <3>2
  <2>3. QED
    BY <1>6, <2>1, <2>2
<1>11. QED
  BY <1>6, <1>7, <1>8, <1>9, <1>10, SpawnChanges
(* Made-up runs stay made up: an agent comes to know only runs that were
   spawned. *)
LEMMA AgentsHold ==
  ASSUME IInv, [Next]_vars, NEW a \in Agent
  PROVE  AgentHolds(a)'
<1>0. TypeOK /\ AgentHolds(a) /\ TypeOK'
  BY TypeStep DEF IInv
<1>1. busy'[a] => runs'[a] > 0
  <2>1. runs \in [Agent -> Nat] /\ busy \in [Agent -> BOOLEAN] /\ Child \subseteq Agent
    BY <1>0, BoundAssumption DEF TypeOK, Agent
  <2>2. CASE busy[a]
    BY <1>0, <2>2, RunsGrow DEF AgentHolds
  <2>3. CASE ~busy[a]
    <3>1. ASSUME NEW p \in Agent, NEW c \in Child, NEW fork \in BOOLEAN, SubmitSpawn(p, c, fork)
          PROVE  busy'[a] => runs'[a] > 0
      BY <2>1, <2>3, <3>1 DEF SubmitSpawn
    <3>2. ASSUME NEW b \in Agent, StartTurn(b) PROVE busy'[a] => runs'[a] > 0
      BY <2>1, <2>3, <3>2 DEF StartTurn
    <3>3. QED
      BY <2>1, <2>3, <3>1, <3>2, TurnChanges DEF turns, CompleteTurn, AbortTurn
  <2>4. QED
    BY <2>2, <2>3
<1>2. ASSUME NEW r \in RunRef, r[2] # 0, phase[r] # Absent, runs[r[1]] > 0
      PROVE  r[2] # 0 /\ phase'[r] # Absent /\ runs'[r[1]] > 0
  <2>1. r[1] \in Agent
    BY DEF RunRef, Agent
  <2>2. QED
    BY <1>0, <1>2, <2>1, Forward, RunsGrow
<1>3. known \in [Agent -> SUBSET RunRef] /\ call \in [Agent -> Seq(RunRef)]
  BY <1>0 DEF TypeOK
<1>4. \A b \in Agent : \A r \in known[b] : r[2] # 0 /\ phase'[r] # Absent /\ runs'[r[1]] > 0
  <2> SUFFICES ASSUME NEW b \in Agent, NEW r \in known[b]
               PROVE  r[2] # 0 /\ phase'[r] # Absent /\ runs'[r[1]] > 0
    OBVIOUS
  <2>1. r \in RunRef /\ r[2] # 0 /\ phase[r] # Absent /\ runs[r[1]] > 0
    BY <1>3 DEF IInv, AgentHolds
  <2>2. QED
    BY <1>2, <2>1
<1>5. \A r \in known'[a] : r[2] # 0 /\ phase'[r] # Absent /\ runs'[r[1]] > 0
  <2>1. ASSUME NEW p \in Agent, NEW c \in Child, NEW fork \in BOOLEAN, SubmitSpawn(p, c, fork)
        PROVE  \A r \in known'[a] : r[2] # 0 /\ phase'[r] # Absent /\ runs'[r[1]] > 0
    <3>1. known'[a] \subseteq known[a] \cup known[p]
      BY <1>3, <2>1 DEF SubmitSpawn
    <3>2. QED
      BY <1>4, <3>1
  <2>2. ASSUME NEW c \in Child, ReturnSpawned(c)
        PROVE  \A r \in known'[a] : r[2] # 0 /\ phase'[r] # Absent /\ runs'[r[1]] > 0
    <3>1. known'[a] \subseteq known[a] \cup {<<c, 1>>}
      BY <1>3, <2>2 DEF ReturnSpawned
    <3>2. <<c, 1>> \in RunRef /\ phase[<<c, 1>>] # Absent
      BY <2>2, BoundAssumption DEF ReturnSpawned, IInv, SpawnHolds, RunRef
    <3>3. runs[c] > 0
      <4>1. runs[c] \in Nat
        BY <1>0, BoundAssumption DEF TypeOK, Agent
      <4>2. SpawnHolds(c) /\ spawn[c].stage = "registered"
        BY <2>2 DEF ReturnSpawned, IInv
      <4>3. QED
        BY <4>1, <4>2 DEF SpawnHolds
    <3>4. phase'[<<c, 1>>] # Absent /\ runs'[c] > 0
      BY <1>2, <3>2, <3>3
    <3>5. QED
      BY <1>4, <3>1, <3>4
  <2>3. ASSUME NEW x \in Agent, NEW y \in Agent, Tell(x, y)
        PROVE  \A r \in known'[a] : r[2] # 0 /\ phase'[r] # Absent /\ runs'[r[1]] > 0
    <3>1. known'[a] \subseteq known[a] \cup known[x]
      BY <1>3, <2>3 DEF Tell
    <3>2. QED
      BY <1>4, <3>1
  <2>4. QED
    BY <1>4, <2>1, <2>2, <2>3, KnownChanges
<1>6. Len(call'[a]) <= MaxBatch /\ \A i \in DOMAIN call'[a] : call'[a][i] \in known[a] \/ call'[a][i][2] = 0
  <2>1. CASE call'[a] = call[a]
    BY <1>0, <2>1 DEF AgentHolds
  <2>2. CASE call'[a] = <<>>
    BY <2>2, NoneTyped, BoundAssumption
  <2>3. ASSUME NEW b \in Agent, NEW targets \in Batches(b), BeginJoin(b, targets)
        PROVE  call'[a] = call[a] \/ (a = b /\ call'[a] = targets)
    BY <1>3, <2>3 DEF BeginJoin
  <2>4. \/ call'[a] = call[a] \/ call'[a] = <<>>
        \/ \E targets \in Batches(a) : call'[a] = targets
    BY <1>3, <2>3, FutureChanges DEF AbortTurn, SubscribeJoin, PollJoin, FinishJoin, joins
  <2>5. QED
    BY <2>1, <2>2, <2>4, BatchTyped
<1>7. call'[a] # <<>> => busy'[a]
  <2>1. ASSUME NEW b \in Agent, CompleteTurn(b) \/ StartTurn(b)
        PROVE  call'[a] # <<>> => busy'[a]
    BY <1>0, <2>1 DEF CompleteTurn, StartTurn, Free, joins, AgentHolds, TypeOK
  <2>2. ASSUME NEW b \in Agent, NEW reason \in Reasons, AbortTurn(b, reason)
        PROVE  call'[a] # <<>> => busy'[a]
    BY <1>0, <2>2 DEF AbortTurn, AgentHolds, TypeOK
  <2>3. ASSUME NEW p \in Agent, NEW c \in Child, NEW fork \in BOOLEAN, SubmitSpawn(p, c, fork)
        PROVE  call'[a] # <<>> => busy'[a]
    BY <1>0, <2>3 DEF SubmitSpawn, joins, AgentHolds, TypeOK
  <2>4. CASE UNCHANGED turns
    <3>1. ASSUME NEW b \in Agent, NEW targets \in Batches(b), BeginJoin(b, targets)
          PROVE  call'[a] # <<>> => busy'[a]
      BY <1>0, <2>4, <3>1 DEF BeginJoin, StartCall, Free, AgentHolds, TypeOK, turns
    <3>2. ASSUME NEW b \in Agent, FinishJoin(b) PROVE call'[a] # <<>> => busy'[a]
      BY <1>0, <2>4, <3>2 DEF FinishJoin, AgentHolds, TypeOK, turns
    <3>3. QED
      BY <1>0, <2>2, <2>4, <3>1, <3>2, FutureChanges
         DEF SubscribeJoin, PollJoin, joins, AgentHolds, turns
  <2>5. QED
    BY <2>1, <2>2, <2>3, <2>4, TurnChanges
<1>8. \A i \in DOMAIN call'[a] : call'[a][i] \in known'[a] \/ call'[a][i][2] = 0
  <2>1. CASE known[a] \subseteq known'[a]
    BY <1>6, <2>1
  <2>2. ASSUME NEW p \in Agent, NEW c \in Child, NEW fork \in BOOLEAN, SubmitSpawn(p, c, fork)
        PROVE  \A i \in DOMAIN call'[a] : call'[a][i] \in known'[a] \/ call'[a][i][2] = 0
    <3>1. CASE a = c
      <4>1. runs[a] = 0 /\ call' = call
        BY <2>2, <3>1 DEF SubmitSpawn, joins
      <4>2. call'[a] = <<>>
        BY <1>0, <4>1 DEF AgentHolds
      <4>3. QED
        BY <4>2, NoneTyped
    <3>2. CASE a # c
      BY <1>3, <2>1, <2>2, <3>2 DEF SubmitSpawn
    <3>3. QED
      BY <3>1, <3>2
  <2>3. CASE \E c \in Child : ReturnSpawned(c)
    BY <1>3, <2>1, <2>3 DEF ReturnSpawned
  <2>4. CASE \E x, y \in Agent : Tell(x, y)
    BY <1>3, <2>1, <2>4 DEF Tell
  <2>5. QED
    BY <2>1, <2>2, <2>3, <2>4, KnownChanges
<1>9. QED
  BY <1>1, <1>5, <1>6, <1>7, <1>8 DEF AgentHolds
(* Futures that a step leaves alone, and those that it drops. *)
LEMMA SlotStays ==
  ASSUME IInv, [Next]_vars, NEW a \in Agent, NEW i \in 1 .. MaxBatch,
         fut'[<<a, i>>] = fut[<<a, i>>], call'[a] = call[a]
  PROVE  SlotHolds(a, i)'
<1> DEFINE f == fut[<<a, i>>]
<1>0. TypeOK /\ SlotHolds(a, i) /\ AgentHolds(a) /\ AgentHolds(a)'
  BY AgentsHold DEF IInv
<1>1. f.result \in RunTerminal => f.target \in RunRef /\ phase'[f.target] = f.result
  BY <1>0, Forward DEF SlotHolds
<1>2. ASSUME f.result = UnknownRun PROVE f.target \notin known'[a]
  <2>1. f.pc # "none"
    BY <1>0, <1>2, ValuesDistinct DEF SlotHolds, Reg!NoFuture
  <2>2. i \in DOMAIN call[a] /\ f.target = call[a][i] /\ f.target \notin known[a]
    BY <1>0, <1>2, <2>1 DEF SlotHolds
  <2>3. f.target[2] = 0
    BY <1>0, <2>2 DEF AgentHolds
  <2>4. QED
    BY <1>0, <2>3 DEF AgentHolds
<1> HIDE DEF f
<1>3. fut'[<<a, i>>] = f /\ f = fut[<<a, i>>]
  BY DEF f
<1>4. QED
  BY <1>0, <1>1, <1>2, <1>3 DEF SlotHolds

LEMMA SlotDropped ==
  ASSUME IInv, [Next]_vars, NEW a \in Agent, NEW i \in 1 .. MaxBatch,
         fut'[<<a, i>>] = Reg!NoFuture
  PROVE  SlotHolds(a, i)'
BY ValuesDistinct DEF SlotHolds, Reg!NoFuture

LEMMA SlotsHold ==
  ASSUME IInv, [Next]_vars, NEW a \in Agent, NEW i \in 1 .. MaxBatch
  PROVE  SlotHolds(a, i)'
<1>. USE ValuesDistinct
<1> DEFINE s == <<a, i>>
<1>0. /\ TypeOK /\ ~closed /\ s \in Slot /\ SlotHolds(a, i) /\ AgentHolds(a)
      /\ fut \in [Slot -> Reg!Future] /\ call \in [Agent -> Seq(RunRef)]
      /\ known \in [Agent -> SUBSET RunRef]
  BY DEF IInv, TypeOK, Reg!TypeOK, Slot
<1>1. CASE UNCHANGED <<fut, call>>
  BY <1>1, SlotStays
<1>2. ASSUME NEW b \in Agent, call'[b] = <<>>, \A c \in Agent : c # b => call'[c] = call[c],
             Reg!Discard(Slots(b))
      PROVE  SlotHolds(a, i)'
  <2>1. fut'[s] = IF s \in Slots(b) THEN Reg!NoFuture ELSE fut[s]
    BY <1>0, <1>2 DEF Reg!Discard
  <2>2. CASE a = b
    <3>1. s \in Slots(b)
      BY <1>0, <2>2 DEF Slots
    <3>2. QED
      BY <2>1, <3>1, SlotDropped
  <2>3. CASE a # b
    <3>1. s \notin Slots(b)
      BY <2>3 DEF Slots
    <3>2. QED
      BY <1>2, <2>1, <2>3, <3>1, SlotStays
  <2>4. QED
    BY <2>2, <2>3
<1>3. ASSUME NEW b \in Agent, NEW reason \in Reasons, AbortTurn(b, reason)
      PROVE  SlotHolds(a, i)'
  BY <1>0, <1>2, <1>3 DEF AbortTurn
<1>4. ASSUME NEW b \in Agent, FinishJoin(b) PROVE SlotHolds(a, i)'
  BY <1>0, <1>2, <1>4 DEF FinishJoin
<1>5. ASSUME NEW b \in Agent, NEW targets \in Batches(b), BeginJoin(b, targets)
      PROVE  SlotHolds(a, i)'
  <2>1. fut' = fut
    BY <1>5 DEF BeginJoin, registry
  <2>2. CASE a = b
    <3>1. call[a] = <<>>
      BY <1>5, <2>2 DEF BeginJoin, StartCall, Free
    <3>2. fut[s] = Reg!NoFuture
      BY <1>0, <3>1, NoneTyped DEF SlotHolds
    <3>3. QED
      BY <2>1, <3>2, SlotDropped
  <2>3. CASE a # b
    <3>1. call'[a] = call[a]
      BY <1>0, <1>5, <2>3 DEF BeginJoin
    <3>2. QED
      BY <2>1, <3>1, SlotStays
  <2>4. QED
    BY <2>2, <2>3
<1>6. ASSUME NEW b \in Agent, NEW j \in 1 .. MaxBatch, SubscribeJoin(b, j)
      PROVE  SlotHolds(a, i)'
  <2>0. call' = call /\ known' = known /\ phase' = phase
    BY <1>6 DEF SubscribeJoin, joins
  <2>1. CASE s = <<b, j>>
    <3>1. a = b /\ i = j /\ i \in DOMAIN call[a]
      BY <1>6, <2>1 DEF SubscribeJoin
    <3>2. fut'[s] = IF phase[call[a][i]] = Absent
                      THEN [pc |-> "done", target |-> call[a][i], seen |-> 0, result |-> UnknownRun]
                      ELSE [pc |-> "check", target |-> call[a][i], seen |-> version[call[a][i]],
                            result |-> NoResult]
      BY <1>0, <1>6, <3>1 DEF SubscribeJoin, Reg!Subscribe
    <3>3. phase[call[a][i]] = Absent => call[a][i] \notin known[a]
      BY <1>0 DEF AgentHolds
    <3>4. CASE phase[call[a][i]] = Absent
      <4>1. /\ fut'[s].pc = "done" /\ fut'[s].target = call[a][i] /\ fut'[s].result = UnknownRun
        BY <3>2, <3>4
      <4>2. QED
        BY <2>0, <3>1, <3>3, <3>4, <4>1 DEF SlotHolds
    <3>5. CASE phase[call[a][i]] # Absent
      <4>1. /\ fut'[s].pc = "check" /\ fut'[s].target = call[a][i] /\ fut'[s].result = NoResult
        BY <3>2, <3>5
      <4>2. QED
        BY <2>0, <3>1, <4>1 DEF SlotHolds
    <3>6. QED
      BY <3>4, <3>5
  <2>2. CASE s # <<b, j>>
    <3>1. fut'[s] = fut[s]
      BY <1>0, <1>6, <2>2 DEF SubscribeJoin, Reg!Subscribe
    <3>2. QED
      BY <2>0, <3>1, SlotStays
  <2>3. QED
    BY <2>1, <2>2
<1>7. ASSUME NEW b \in Agent, NEW j \in 1 .. MaxBatch, PollJoin(b, j)
      PROVE  SlotHolds(a, i)'
  <2>0. call' = call /\ known' = known /\ phase' = phase
    BY <1>7 DEF PollJoin, joins
  <2>1. CASE s = <<b, j>>
    <3>1. i \in DOMAIN call[a] /\ Reg!Poll(s) /\ call[a][i] \in RunRef
      BY <1>7, <2>1, Typed DEF PollJoin
    <3>2. fut[s].pc \in {"check", "await"} /\ fut[s].target = call[a][i]
      BY <1>0, <3>1 DEF Reg!Poll, Reg!Check, Reg!Changed, Reg!ChangedClosed, SlotHolds
    <3>3. \/ /\ fut'[s] = [fut[s] EXCEPT !.pc = "done", !.result = phase[fut[s].target]]
             /\ phase[fut[s].target] \in RunTerminal
          \/ fut'[s] = [fut[s] EXCEPT !.pc = "await"]
          \/ fut'[s] = [fut[s] EXCEPT !.pc = "check", !.seen = version[fut[s].target]]
      BY <1>0, <3>1 DEF Reg!Poll, Reg!Check, Reg!Changed, Reg!ChangedClosed
    <3>4. fut[s] \in Reg!Future
      BY <1>0
    <3>5. CASE fut'[s].result = fut[s].result /\ fut'[s].target = fut[s].target /\ fut'[s].pc # "none"
      BY <1>0, <2>0, <3>1, <3>2, <3>5 DEF SlotHolds
    <3>6. CASE /\ fut'[s].pc = "done" /\ fut'[s].target = fut[s].target
               /\ fut'[s].result = phase[fut[s].target] /\ phase[fut[s].target] \in RunTerminal
      BY <1>0, <2>0, <3>1, <3>2, <3>6 DEF SlotHolds
    <3>7. QED
      BY <3>3, <3>4, <3>5, <3>6 DEF Reg!Future
  <2>2. CASE s # <<b, j>>
    <3>1. fut'[s] = fut[s]
      BY <1>0, <1>7, <2>2 DEF PollJoin, Reg!Poll, Reg!Check, Reg!Changed, Reg!ChangedClosed
    <3>2. QED
      BY <2>0, <3>1, SlotStays
  <2>3. QED
    BY <2>1, <2>2
<1>8. QED
  BY <1>1, <1>3, <1>4, <1>5, <1>6, <1>7, FutureChanges
LEMMA RepliesStep ==
  ASSUME IInv, [Next]_vars
  PROVE  RepliesAreExact'
<1>. SUFFICES ASSUME NEW a \in Agent, item'[a].status = "Completed"
              PROVE  /\ DOMAIN item'[a].results = DOMAIN item'[a].targets
                     /\ \A i \in DOMAIN item'[a].targets :
                          /\ item'[a].results[i].run = item'[a].targets[i]
                          /\ phase'[item'[a].targets[i]] = item'[a].results[i]
  BY DEF RepliesAreExact
<1>0. TypeOK /\ RepliesAreExact /\ call[a] \in Seq(RunRef)
  BY DEF IInv, TypeOK
<1> DEFINE Items == [status : {"none", "InProgress", "Completed", "Failed"},
                     targets : Seq(RunRef), results : Seq(RunTerminal)]
<1>1. item \in [Agent -> Items]
  BY <1>0 DEF TypeOK
<1>2. CASE item'[a] = item[a]
  <2>1. /\ DOMAIN item[a].results = DOMAIN item[a].targets
        /\ \A i \in DOMAIN item[a].targets :
             /\ item[a].results[i].run = item[a].targets[i]
             /\ phase[item[a].targets[i]] = item[a].results[i]
    BY <1>0, <1>2 DEF RepliesAreExact
  <2>2. ASSUME NEW i \in DOMAIN item[a].targets
        PROVE  phase'[item[a].targets[i]] = item[a].results[i]
    <3>1. item[a].targets[i] \in RunRef /\ item[a].results[i] \in RunTerminal
      BY <1>1, <2>1
    <3>2. QED
      BY <1>0, <2>1, <3>1, Forward
  <2>3. QED
    BY <1>2, <2>1, <2>2
<1>3. ASSUME NEW b \in Agent, NEW targets \in Batches(b), BeginJoin(b, targets)
      PROVE  item'[a] = item[a]
  BY <1>1, <1>3 DEF BeginJoin
<1>4. ASSUME NEW b \in Agent, FinishJoin(b), a # b PROVE item'[a] = item[a]
  BY <1>1, <1>4 DEF FinishJoin
<1>5. CASE FinishJoin(a)
  <2> DEFINE ok == \A i \in DOMAIN call[a] : fut[<<a, i>>].result \in RunTerminal
             results == [i \in DOMAIN call[a] |-> fut[<<a, i>>].result]
  <2>1. item'[a] = [status |-> IF ok THEN "Completed" ELSE "Failed", targets |-> call[a],
                    results |-> IF ok THEN results ELSE <<>>]
    BY <1>1, <1>5 DEF FinishJoin
  <2>2. ok
    BY <2>1
  <2>3. item'[a].targets = call[a] /\ item'[a].results = results /\ phase' = phase
    <3>1. phase' = phase
      BY <1>5 DEF FinishJoin
    <3> HIDE DEF ok, results
    <3>2. QED
      BY <2>1, <2>2, <3>1
  <2>4. ASSUME NEW i \in DOMAIN call[a]
        PROVE  fut[<<a, i>>].result.run = call[a][i] /\ phase[call[a][i]] = fut[<<a, i>>].result
    <3>1. i \in 1 .. MaxBatch /\ call[a][i] \in RunRef
      BY Typed
    <3>2. SlotHolds(a, i) /\ PhaseHolds(call[a][i]) /\ fut[<<a, i>>].pc = "done"
      BY <1>5, <3>1 DEF IInv, FinishJoin
    <3>3. fut[<<a, i>>].target = call[a][i] /\ phase[call[a][i]] = fut[<<a, i>>].result
      BY <2>2, <3>2 DEF SlotHolds
    <3>4. QED
      BY <2>2, <3>2, <3>3 DEF PhaseHolds
  <2>5. QED
    BY <2>3, <2>4
<1>6. QED
  BY <1>2, <1>3, <1>4, <1>5, ItemChanges

(* Whom an agent may await changes only when somebody is spawned, as long as
   receipts are not passed around. *)
LEMMA AwaitChanges ==
  ASSUME IInv, [Next]_vars
  PROVE  \/ \A a \in Agent \ told' : MayAwait(a)' \subseteq MayAwait(a)
         \/ \E p \in Agent, c \in Child, fork \in BOOLEAN : SubmitSpawn(p, c, fork)
<1>0. /\ known \in [Agent -> SUBSET RunRef]
      /\ spawn \in [Child -> [by : Agent \cup {NoResult},
                    stage : {"none", "submitted", "registered", "returned", "lost"}]]
  BY DEF IInv, TypeOK
<1>1. CASE UNCHANGED known /\ \A c \in Child : spawn'[c].by = spawn[c].by
  BY <1>1 DEF MayAwait
<1>2. ASSUME NEW c \in Child, ReturnSpawned(c)
      PROVE  \A a \in Agent : MayAwait(a)' \subseteq MayAwait(a)
  <2>1. \A d \in Child : spawn'[d].by = spawn[d].by
    BY <1>0, <1>2 DEF ReturnSpawned
  <2>2. ASSUME NEW a \in Agent PROVE known'[a] \subseteq known[a] \/ (a = spawn[c].by /\ known'[a] = known[a] \cup {<<c, 1>>})
    BY <1>0, <1>2 DEF ReturnSpawned
  <2>3. ASSUME NEW a \in Agent, NEW r \in known'[a] PROVE r[1] \in MayAwait(a)
    <3>1. r \in known[a] \/ (a = spawn[c].by /\ r = <<c, 1>>)
      BY <2>2, <2>3
    <3>2. QED
      BY <3>1 DEF MayAwait
  <2>4. QED
    BY <2>1, <2>3 DEF MayAwait
<1>3. ASSUME NEW a \in Agent, NEW reason \in Reasons, AbortTurn(a, reason)
      PROVE  \A c \in Child : spawn'[c].by = spawn[c].by
  BY <1>0, <1>3 DEF AbortTurn
<1>4. ASSUME NEW c \in Child, RegisterSpawned(c)
      PROVE  \A d \in Child : spawn'[d].by = spawn[d].by
  BY <1>0, <1>4 DEF RegisterSpawned
<1>5. ASSUME NEW c \in Child, RegisterSpawned(c) PROVE known' = known
  BY <1>5 DEF RegisterSpawned
<1>6. ASSUME NEW a \in Agent, NEW reason \in Reasons, AbortTurn(a, reason) PROVE known' = known
  BY <1>6 DEF AbortTurn
<1>7. ASSUME NEW a \in Agent, NEW b \in Agent, Tell(a, b)
      PROVE  \A d \in Agent \ told' : MayAwait(d)' \subseteq MayAwait(d)
  <2>1. b \in told' /\ spawn' = spawn
    BY <1>7 DEF Tell
  <2>2. \A d \in Agent : d # b => known'[d] = known[d]
    BY <1>0, <1>7 DEF Tell
  <2>3. QED
    BY <2>1, <2>2 DEF MayAwait
<1>8. QED
  BY <1>1, <1>2, <1>3, <1>4, <1>5, <1>6, <1>7, KnownChanges, SpawnChanges

LEMMA ToldGrows ==
  ASSUME [Next]_vars
  PROVE  told \subseteq told'
BY DEF Next, SpawnStep, TurnStep, JoinStep, SubmitSpawn, RegisterSpawned, ReturnSpawned, Tell,
   StartTurn, CompleteTurn, AbortTurn, RecordError, PublishTerminal, NotifyParent, RejectJoin,
   BeginJoin, SubscribeJoin, PollJoin, FinishJoin, vars

(* Whoever is spawned is new to everybody: it joins a group of agents as its
   last member if its parent could leave the group, as its first otherwise. *)
LEMMA CircleStep ==
  ASSUME IInv, [Next]_vars
  PROVE  NoCircleForms'
<1>. SUFFICES ASSUME NEW S \in SUBSET Agent, S # {}, S \cap told' = {}
              PROVE  \E a \in S : MayAwait(a)' \cap S = {}
  BY DEF NoCircleForms
<1>0. \A T \in SUBSET S : T # {} => \E a \in T : MayAwait(a) \cap T = {}
  <2>1. told \subseteq told'
    BY ToldGrows
  <2>2. QED
    BY <2>1 DEF IInv, NoCircleForms
<1>1. CASE \A a \in Agent \ told' : MayAwait(a)' \subseteq MayAwait(a)
  BY <1>0, <1>1
<1>2. ASSUME NEW p \in Agent, NEW c \in Child, NEW fork \in BOOLEAN, SubmitSpawn(p, c, fork)
      PROVE  \E a \in S : MayAwait(a)' \cap S = {}
  <2>0. /\ known \in [Agent -> SUBSET RunRef] /\ runs \in [Agent -> Nat] /\ c \in Agent
        /\ spawn \in [Child -> [by : Agent \cup {NoResult},
                      stage : {"none", "submitted", "registered", "returned", "lost"}]]
    BY BoundAssumption DEF IInv, TypeOK, Agent
  <2>1. runs[c] = 0 /\ runs[p] > 0
    BY <1>2 DEF SubmitSpawn, Free, IInv, AgentHolds
  <2>2. c # p
    BY <2>1
  <2>3. /\ \A a \in Agent : c \notin MayAwait(a)
        /\ \A d \in Child : spawn[d].by # c
    <3>1. \A a \in Agent : \A r \in known[a] : r[1] # c
      BY <2>1 DEF IInv, AgentHolds
    <3>2. \A a \in Agent : spawn[c].by # a
      BY <2>1, ValuesDistinct DEF IInv, SpawnHolds
    <3>3. ASSUME NEW d \in Child, spawn[d].by = c PROVE FALSE
      <4>1. SpawnHolds(d) /\ spawn[d].by \in Agent
        BY <2>0, <3>3 DEF IInv
      <4>2. QED
        BY <2>1, <3>3, <4>1 DEF SpawnHolds
    <3>4. QED
      BY <3>1, <3>2, <3>3 DEF MayAwait
  <2>4. /\ known' = [known EXCEPT ![c] = IF fork THEN known[p] ELSE {}]
        /\ spawn' = [spawn EXCEPT ![c] = [by |-> p, stage |-> "submitted"]]
    BY <1>2 DEF SubmitSpawn
  <2>5. spawn'[c].by = p /\ \A d \in Child : d # c => spawn'[d] = spawn[d]
    BY <2>0, <2>4
  <2>6. MayAwait(c)' \subseteq MayAwait(p)
    <3>1. known'[c] \subseteq known[p]
      BY <2>0, <2>4
    <3>2. \A d \in Child : spawn'[d].by # c
      BY <2>2, <2>3, <2>5
    <3>3. QED
      BY <3>1, <3>2 DEF MayAwait
  <2>7. ASSUME NEW a \in Agent, a # c PROVE MayAwait(a)' \subseteq MayAwait(a) \cup {c}
    <3>1. known'[a] = known[a]
      BY <2>0, <2>4, <2>7
    <3>2. QED
      BY <2>5, <3>1 DEF MayAwait
  <2>8. ASSUME NEW a \in Agent, a # c, a # p PROVE MayAwait(a)' \subseteq MayAwait(a)
    <3>1. known'[a] = known[a]
      BY <2>0, <2>4, <2>8
    <3>2. QED
      BY <2>5, <2>8, <3>1 DEF MayAwait
  <2>9. CASE c \notin S
    <3>1. PICK a \in S : MayAwait(a) \cap S = {}
      BY <1>0
    <3>2. MayAwait(a)' \subseteq MayAwait(a) \cup {c}
      BY <2>7, <2>9, <3>1
    <3>3. QED
      BY <2>9, <3>1, <3>2
  <2>10. CASE c \in S
    <3>1. MayAwait(c)' \cap {c} = {}
      BY <2>3, <2>6
    <3>2. CASE S = {c}
      BY <3>1, <3>2
    <3>3. CASE S # {c}
      <4>1. PICK a \in S \ {c} : MayAwait(a) \cap (S \ {c}) = {}
        <5>1. S \ {c} # {} /\ S \ {c} \in SUBSET S
          BY <3>3
        <5>2. QED
          BY <1>0, <5>1
      <4>2. CASE a = p
        <5>1. MayAwait(c)' \cap S = {}
          BY <2>3, <2>6, <4>1, <4>2
        <5>2. QED
          BY <2>10, <5>1
      <4>3. CASE a # p
        <5>1. MayAwait(a)' \subseteq MayAwait(a) /\ c \notin MayAwait(a)
          BY <2>3, <2>8, <4>1, <4>3
        <5>2. QED
          BY <4>1, <5>1
      <4>4. QED
        BY <4>2, <4>3
    <3>4. QED
      BY <3>2, <3>3
  <2>11. QED
    BY <2>9, <2>10
<1>3. QED
  BY <1>1, <1>2, AwaitChanges

LEMMA NextIInv == IInv /\ [Next]_vars => IInv'
<1>. SUFFICES ASSUME IInv, [Next]_vars PROVE IInv'
  OBVIOUS
<1>1. TypeOK' /\ ~closed'
  BY TypeStep, RegistryTyped
<1>2. (\A r \in RunRef : PhaseHolds(r)')
  BY PhaseStep
<1>3. (\A c \in Child : SpawnHolds(c)')
  BY SpawnsHold
<1>4. (\A a \in Agent : AgentHolds(a)')
  BY AgentsHold
<1>5. (\A a \in Agent, i \in 1 .. MaxBatch : SlotHolds(a, i)')
  BY SlotsHold
<1>6. QED
  BY <1>1, <1>2, <1>3, <1>4, <1>5, RepliesStep, HooksStep, CircleStep DEF IInv

-----------------------------------------------------------------------------
(* The strengthened invariant, with the types of the state: what joins rely
   on besides the registry. *)
THEOREM Inductive == Spec => []IInv
BY InitIInv, NextIInv, PTL DEF Spec

(* Every join that is reported completed returned the receipt of each exact
   run that was asked for, in order; every receipt that an agent holds can be
   joined; and a parent that is told of a run finds its receipt. *)
THEOREM JoinsAreAnswered == Spec => []JoinsAreExact
<1>1. IInv => JoinsAreExact
  <2> SUFFICES ASSUME IInv PROVE JoinsAreExact
    OBVIOUS
  <2>1. ASSUME NEW a \in Agent, NEW i \in DOMAIN call[a], call[a][i] \in known[a]
        PROVE  fut[<<a, i>>].result # UnknownRun
    <3>1. SlotHolds(a, i)
      BY Typed DEF IInv
    <3>2. CASE fut[<<a, i>>].pc = "none"
      BY <3>1, <3>2, ValuesDistinct DEF SlotHolds, Reg!NoFuture
    <3>3. CASE fut[<<a, i>>].pc # "none"
      BY <2>1, <3>1, <3>3 DEF SlotHolds
    <3>4. QED
      BY <3>2, <3>3
  <2>2. ReceiptsAreKnown
    BY <2>1 DEF IInv, AgentHolds, ReceiptsAreKnown
  <2>3. QED
    BY <2>2 DEF IInv, HooksHold, JoinsAreExact, ReceiptBeforeNotification
<1>2. QED
  BY <1>1, Inductive, PTL

(* A turn that recorded a terminal error is reported as failed, whatever
   event ends it: no other step writes the receipt of its run. *)
THEOREM ErrorsAreFailures == Spec => ErrorIsFailure
<1>1. IInv /\ [Next]_vars =>
        [\A r \in terminalError :
           phase'[r] # phase[r] /\ phase'[r] \in RunTerminal => phase'[r].outcome = "failed"]_vars
  <2> SUFFICES ASSUME IInv, [Next]_vars, NEW r \in terminalError,
                      phase'[r] # phase[r], phase'[r] \in RunTerminal
               PROVE  phase'[r].outcome = "failed"
    OBVIOUS
  <2>0. r \in RunRef /\ phase \in [RunRef -> Reg!Phase]
    BY DEF IInv, TypeOK, Reg!TypeOK
  <2>1. ASSUME NEW c \in Child, RegisterSpawned(c) PROVE FALSE
    <3>1. phase'[r] = phase[r] \/ phase'[r] = Running
      BY <2>0, <2>1 DEF RegisterSpawned, Reg!RegisterRunning
    <3>2. QED
      BY <3>1, ValuesDistinct
  <2>2. ASSUME NEW q \in RunRef, NEW event \in TurnEvent, PublishTerminal(q, event)
        PROVE  phase'[r].outcome = "failed"
    <3> DEFINE o == TerminalFromEvent(q, event, q \in terminalError)
    <3>1. phase' = [phase EXCEPT ![q] = IF @ \in {Absent, Running} THEN o ELSE @]
      BY <2>2 DEF PublishTerminal, Reg!Complete
    <3>2. q \in terminalError => o.outcome = "failed"
      BY DEF TerminalFromEvent
    <3> HIDE DEF o
    <3>3. r = q /\ phase'[r] = o
      BY <2>0, <3>1
    <3>4. QED
      BY <3>2, <3>3
  <2>3. QED
    BY <2>1, <2>2, PhaseChanges
<1>2. QED
  BY <1>1, Inductive, PTL DEF Spec, ErrorIsFailure

(* No group of agents waits in a circle unless a message told one of them a
   receipt, whatever they spawn, fork and join. *)
THEOREM NobodyWaitsInACircle == Spec => []NoCircularWait
<1>1. IInv => NoCircularWait
  <2> SUFFICES ASSUME IInv, NEW S \in SUBSET Agent, S # {}, S \cap told = {}
               PROVE  \E a \in S : WaitsFor(a) \cap S = {}
    BY DEF NoCircularWait
  <2>1. ASSUME NEW a \in Agent PROVE WaitsFor(a) \subseteq MayAwait(a)
    <3> SUFFICES ASSUME NEW i \in DOMAIN call[a], phase[call[a][i]] = Running
                 PROVE  call[a][i][1] \in MayAwait(a)
      BY DEF WaitsFor
    <3>1. call[a][i] \in RunRef
      BY Typed
    <3>2. call[a][i][2] = 1
      BY <3>1 DEF IInv, PhaseHolds
    <3>3. call[a][i] \in known[a]
      BY <3>2 DEF IInv, AgentHolds
    <3>4. QED
      BY <3>3 DEF MayAwait
  <2>2. PICK a \in S : MayAwait(a) \cap S = {}
    BY DEF IInv, NoCircleForms
  <2>3. QED
    BY <2>1, <2>2
<1>2. QED
  BY <1>1, Inductive, PTL

(* The sessions use the registry and its futures only as RunCompletion
   allows, so that what is proved of the registry holds in every session. *)
THEOREM RegistryIsUsed == Spec => UsesRegistry
<1>1. Init => Reg!Init
  BY DEF Init
<1>2. IInv /\ [Next]_vars => [Reg!Next]_(Reg!vars)
  BY RegistryStep DEF IInv
<1>3. QED
  BY <1>1, <1>2, Inductive, PTL DEF Spec, UsesRegistry, Reg!Spec
=============================================================================
