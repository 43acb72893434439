------------------------ MODULE RunCompletion_proofs ------------------------
(* Safety of the completion registry and of join_one for every set of runs,
   joiners and receipts. *)
EXTENDS RunCompletion, TLAPS

(* What each stage of a join_one future knows about the channel it holds.
   WellFormed(w) is the shape of the record; Informed(w) relates it to the
   registry and is what makes AnswerIsReceipt and NoLostWakeup inductive: a
   receiver never runs ahead of its channel, so the single send_replace of a
   run is always news to a joiner that saw it running. *)
WellFormed(w) ==
  /\ fut[w].pc = "none" => fut[w] = NoFuture
  /\ fut[w].pc # "none" => fut[w].target \in Ref
  /\ fut[w].pc \in {"check", "await"} => fut[w].result = NoResult
  /\ fut[w].pc = "done" => fut[w].result \in Terminal \cup Refused

Informed(w) ==
  LET r == fut[w].target IN
  /\ fut[w].pc \in {"check", "await"} => phase[r] # Absent /\ fut[w].seen <= version[r]
  /\ fut[w].pc = "await" /\ phase[r] \in Terminal => version[r] # fut[w].seen
  /\ fut[w].pc = "done" /\ fut[w].result \in Terminal => phase[r] = fut[w].result
  /\ fut[w].pc = "done" /\ fut[w].result = SourceClosed => closed /\ phase[r] \notin Terminal

IInv == TypeOK /\ \A w \in Waiter : WellFormed(w) /\ Informed(w)

(* What any step may do to the entry of one run. *)
Forward(r) ==
  /\ phase[r] \in Terminal => phase'[r] = phase[r] /\ version'[r] = version[r]
  /\ phase[r] # Absent => phase'[r] # Absent
  /\ version[r] <= version'[r]
  /\ phase[r] = Running /\ phase'[r] \in Terminal => version'[r] = version[r] + 1
  /\ closed => phase'[r] = phase[r]

-----------------------------------------------------------------------------

LEMMA InitIInv == Init => IInv
<1>. SUFFICES ASSUME Init PROVE IInv
  OBVIOUS
<1>. USE DEF Init
<1>1. NoFuture \in Future
  BY DEF NoFuture, Future
<1>2. TypeOK
  BY <1>1 DEF TypeOK, Phase
<1>3. ASSUME NEW w \in Waiter PROVE WellFormed(w) /\ Informed(w)
  <2>1. fut[w] = NoFuture /\ fut[w].pc = "none"
    BY DEF NoFuture
  <2>2. QED
    BY <2>1 DEF WellFormed, Informed
<1>4. QED
  BY <1>2, <1>3 DEF IInv

LEMMA TypeStep == IInv /\ [Next]_vars => TypeOK'
<1>. SUFFICES ASSUME IInv, [Next]_vars PROVE TypeOK'
  OBVIOUS
<1>. USE DEF IInv, TypeOK
<1>0. NoFuture \in Future
  BY DEF NoFuture, Future
<1>1. ASSUME NEW r \in Ref, Register(r) PROVE TypeOK'
  BY <1>1 DEF Register, RegisterRunning, Phase
<1>2. ASSUME NEW r \in Ref, NEW o \in Terminal, Publish(r, o) PROVE TypeOK'
  BY <1>2 DEF Publish, Complete, Phase
<1>3. ASSUME NEW w \in Waiter, NEW r \in Ref, JoinOne(w, r) PROVE TypeOK'
  BY <1>3 DEF JoinOne, Subscribe, registryVars, Future, Refused
<1>4. ASSUME NEW w \in Waiter, Step(w) PROVE TypeOK'
  <2>1. CASE Check(w)
    BY <1>4, <2>1 DEF Step, Check, registryVars, Future
  <2>2. CASE Changed(w)
    <3>1. version[fut[w].target] \in Nat
      BY <2>2, PhasesDistinct DEF Changed, WellFormed
    <3>2. QED
      BY <1>4, <2>2, <3>1 DEF Step, Changed, registryVars, Future
  <2>3. CASE ChangedClosed(w)
    <3> DEFINE v == IF phase[fut[w].target] \in Terminal
                      THEN phase[fut[w].target] ELSE SourceClosed
    <3>1. v \in Terminal \cup Refused
      BY DEF Refused
    <3>2. [fut[w] EXCEPT !.pc = "done", !.result = v] \in Future
      BY <3>1 DEF Future
    <3>3. fut' = [fut EXCEPT ![w] = [fut[w] EXCEPT !.pc = "done", !.result = v]]
      BY <2>3 DEF ChangedClosed
    <3>4. QED
      BY <1>4, <3>2, <3>3 DEF Step, registryVars
  <2>4. QED
    BY <1>4, <2>1, <2>2, <2>3 DEF Step, Poll
<1>5. ASSUME NEW W \in SUBSET Waiter, Drop(W) PROVE TypeOK'
  BY <1>0, <1>5 DEF Drop, Discard, registryVars
<1>6. CASE DropSource
  BY <1>6 DEF DropSource, registryVars
<1>7. CASE UNCHANGED vars
  BY <1>7 DEF vars
<1>8. QED
  BY <1>1, <1>2, <1>3, <1>4, <1>5, <1>6, <1>7 DEF Next

(* The registry only moves forward. *)
LEMMA RegistryForward ==
  ASSUME TypeOK, [Next]_vars, NEW r \in Ref
  PROVE  Forward(r)
<1>. USE PhasesDistinct DEF TypeOK, Phase, Forward
<1>1. ASSUME NEW q \in Ref, Register(q) PROVE Forward(r)
  BY <1>1 DEF Register, RegisterRunning
<1>2. ASSUME NEW q \in Ref, NEW o \in Terminal, Publish(q, o) PROVE Forward(r)
  BY <1>2 DEF Publish, Complete
<1>3. CASE UNCHANGED registryVars
  BY <1>3 DEF registryVars
<1>4. QED
  BY <1>1, <1>2, <1>3 DEF Next, vars, registryVars, JoinOne, Step, Drop, DropSource

(* A future that a step leaves alone stays well formed and informed. *)
LEMMA FutureStays ==
  ASSUME IInv, TypeOK', \A r \in Ref : Forward(r), closed => closed',
         NEW w \in Waiter, fut'[w] = fut[w]
  PROVE  WellFormed(w)' /\ Informed(w)'
<1>1. WellFormed(w)'
  BY DEF IInv, WellFormed
<1>2. CASE fut[w].pc = "none"
  BY <1>1, <1>2 DEF Informed
<1>3. CASE fut[w].pc # "none"
  <2> DEFINE r == fut[w].target
  <2>1. r \in Ref /\ Forward(r) /\ Informed(w)
    BY <1>3 DEF IInv, WellFormed
  <2>2. /\ fut[w].seen \in Nat /\ version[r] \in Nat /\ phase[r] \in Phase
        /\ version'[r] \in Nat /\ phase'[r] \in Phase
    BY <2>1 DEF IInv, TypeOK, Future
  <2>3. Informed(w)'
    BY <2>1, <2>2, PhasesDistinct DEF Informed, Forward, Phase
  <2>4. QED
    BY <1>1, <2>3
<1>4. QED
  BY <1>2, <1>3

(* The future a joiner creates, polls or drops is again well formed and
   informed: one step per operation of join_one. *)
LEMMA JoinOneInformed ==
  ASSUME IInv, NEW w \in Waiter, NEW r \in Ref, JoinOne(w, r)
  PROVE  WellFormed(w)' /\ Informed(w)'
<1>1. fut'[w] = IF phase[r] = Absent
                  THEN [pc |-> "done", target |-> r, seen |-> 0, result |-> UnknownRun]
                  ELSE [pc |-> "check", target |-> r, seen |-> version[r],
                        result |-> NoResult]
  BY DEF JoinOne, Subscribe, IInv, TypeOK
<1>2. UNCHANGED registryVars /\ version[r] \in Nat
  BY DEF JoinOne, IInv, TypeOK
<1>3. QED
  BY <1>1, <1>2, PhasesDistinct DEF WellFormed, Informed, registryVars, Refused

LEMMA StepInformed ==
  ASSUME IInv, NEW w \in Waiter, Step(w)
  PROVE  WellFormed(w)' /\ Informed(w)'
<1> DEFINE r == fut[w].target
<1>1. UNCHANGED <<phase, version, closed>>
  BY DEF Step, registryVars
<1>2. WellFormed(w) /\ Informed(w) /\ fut[w] \in Future
  BY DEF IInv, TypeOK
<1>3. r \in Ref /\ version[r] \in Nat /\ phase[r] \in Phase /\ fut[w].seen \in Nat
  BY <1>2 DEF Step, Poll, Check, Changed, ChangedClosed, WellFormed, Future, IInv, TypeOK
<1>4. CASE Check(w)
  <2>1. CASE phase[r] \in Terminal
    <3>1. fut'[w] = [fut[w] EXCEPT !.pc = "done", !.result = phase[r]]
      BY <1>4, <2>1 DEF Check, IInv, TypeOK
    <3>2. QED
      BY <1>1, <1>2, <1>3, <1>4, <2>1, <3>1, PhasesDistinct
      DEF Check, WellFormed, Informed, Future
  <2>2. CASE phase[r] \notin Terminal
    <3>1. fut'[w] = [fut[w] EXCEPT !.pc = "await"]
      BY <1>4, <2>2 DEF Check, IInv, TypeOK
    <3>2. QED
      BY <1>1, <1>2, <1>3, <1>4, <2>2, <3>1 DEF Check, WellFormed, Informed, Future
  <2>3. QED
    BY <2>1, <2>2
<1>5. CASE Changed(w)
  <2>1. fut'[w] = [fut[w] EXCEPT !.pc = "check", !.seen = version[r]]
    BY <1>5 DEF Changed, IInv, TypeOK
  <2>2. /\ fut'[w].pc = "check" /\ fut'[w].seen = version[r]
        /\ fut'[w].target = r /\ fut'[w].result = NoResult
    <3>1. fut[w].result = NoResult
      BY <1>2, <1>5 DEF Changed, WellFormed
    <3>2. QED
      BY <1>2, <2>1, <3>1 DEF Future
  <2>3. phase[r] # Absent
    BY <1>2, <1>5 DEF Changed, Informed
  <2>4. QED
    BY <1>1, <1>3, <2>2, <2>3 DEF WellFormed, Informed
<1>6. CASE ChangedClosed(w)
  <2>1. phase[r] \notin Terminal
    BY <1>2, <1>6 DEF ChangedClosed, Informed
  <2>2. fut'[w] = [fut[w] EXCEPT !.pc = "done", !.result = SourceClosed]
    BY <1>6, <2>1 DEF ChangedClosed, IInv, TypeOK
  <2>3. fut'[w].pc = "done" /\ fut'[w].target = r /\ fut'[w].result = SourceClosed
    BY <1>2, <2>2 DEF Future
  <2>4. closed
    BY <1>6 DEF ChangedClosed
  <2>5. QED
    BY <1>1, <1>3, <2>1, <2>3, <2>4, PhasesDistinct DEF WellFormed, Informed, Refused
<1>7. QED
  BY <1>4, <1>5, <1>6 DEF Step, Poll

LEMMA DropInformed ==
  ASSUME IInv, NEW w \in Waiter, fut'[w] = NoFuture
  PROVE  WellFormed(w)' /\ Informed(w)'
<1>1. fut'[w].pc = "none"
  BY DEF NoFuture
<1>2. QED
  BY <1>1 DEF WellFormed, Informed

(* The inductive step: one future moves, or the registry does. *)
LEMMA NextIInv == IInv /\ [Next]_vars => IInv'
<1>. SUFFICES ASSUME IInv, [Next]_vars PROVE IInv'
  OBVIOUS
<1>1. TypeOK'
  BY TypeStep
<1>2. \A r \in Ref : Forward(r)
  BY RegistryForward DEF IInv
<1>3. closed => closed'
  BY DEF Next, vars, Register, Publish, JoinOne, Step, Drop, DropSource
<1>4. ASSUME NEW w \in Waiter PROVE WellFormed(w)' /\ Informed(w)'
  <2>1. CASE fut'[w] = fut[w]
    BY <1>1, <1>2, <1>3, <2>1, FutureStays
  <2>2. CASE fut'[w] # fut[w]
    <3>1. \/ \E v \in Waiter : (\E r \in Ref : JoinOne(v, r)) \/ Step(v)
          \/ \E W \in SUBSET Waiter : Drop(W)
      BY <2>2 DEF Next, vars, Register, Publish, DropSource
    <3>2. CASE \E W \in SUBSET Waiter : Drop(W)
      BY <2>2, <3>2, DropInformed DEF Drop, Discard
    <3>3. ASSUME NEW v \in Waiter, (\E r \in Ref : JoinOne(v, r)) \/ Step(v)
          PROVE  WellFormed(w)' /\ Informed(w)'
      <4>1. v = w
        BY <2>2, <3>3 DEF IInv, TypeOK, JoinOne, Subscribe, Step, Poll, Check, Changed,
          ChangedClosed
      <4>2. QED
        BY <3>3, <4>1, JoinOneInformed, StepInformed
    <3>4. QED
      BY <3>1, <3>2, <3>3
  <2>3. QED
    BY <2>1, <2>2
<1>5. QED
  BY <1>1, <1>4 DEF IInv

LEMMA Inductive == Spec => []IInv
BY InitIInv, NextIInv, PTL DEF Spec

-----------------------------------------------------------------------------

(* Every variable keeps its type: completion.rs, the registry map and the
   receivers of join_one. *)
THEOREM TypeCorrect == Spec => []TypeOK
<1>1. IInv => TypeOK
  BY DEF IInv
<1>2. QED
  BY <1>1, Inductive, PTL

(* An answered join carries the receipt of exactly the run it asked for,
   and a run with a receipt is never reported as a closed source
   (join_one). *)
THEOREM AnswersAreReceipts == Spec => []AnswerIsReceipt
<1>1. IInv => AnswerIsReceipt
  BY DEF IInv, Informed, AnswerIsReceipt
<1>2. QED
  BY <1>1, Inductive, PTL

(* No interleaving of complete with subscribe, borrow and changed leaves a
   suspended joiner without a wake-up. *)
THEOREM NoWakeupIsLost == Spec => []NoLostWakeup
<1>1. IInv => NoLostWakeup
  BY DEF IInv, Informed, NoLostWakeup
<1>2. QED
  BY <1>1, Inductive, PTL

(* The first receipt of a run is its only one, and a known run stays known
   (register_running and complete). *)
THEOREM ReceiptsAreFinal == Spec => ReceiptIsFinal
<1>1. IInv /\ [Next]_vars => [\A r \in Ref :
                               /\ phase[r] \in Terminal => phase'[r] = phase[r]
                               /\ phase[r] # Absent => phase'[r] # Absent]_vars
  BY RegistryForward DEF IInv, Forward
<1>2. QED
  BY <1>1, Inductive, PTL DEF Spec, ReceiptIsFinal

-----------------------------------------------------------------------------
(* Refinement: the registry with its channels and polling futures is a      *)
(* write-once receipt per run, each join answered from that receipt.        *)

LEMMA ContractInit == Init => Contract!Init
BY PhasesDistinct DEF Init, Contract!Init, NoFuture

LEMMA ContractStep == IInv /\ [Next]_vars => [Contract!Next]_(Contract!vars)
<1>. SUFFICES ASSUME IInv, [Next]_vars PROVE [Contract!Next]_(Contract!vars)
  OBVIOUS
<1> DEFINE receipt == [r \in Ref |-> IF phase[r] \in Terminal THEN phase[r] ELSE NoResult]
<1> DEFINE asked == [w \in Waiter |-> fut[w].target]
<1> DEFINE answer == [w \in Waiter |-> fut[w].result]
<1>. USE DEF IInv, TypeOK
<1>1. ASSUME NEW r \in Ref, Register(r) PROVE UNCHANGED Contract!vars
  BY <1>1, PhasesDistinct DEF Register, RegisterRunning, Contract!vars
<1>2. ASSUME NEW r \in Ref, NEW o \in Terminal, Publish(r, o)
      PROVE  [Contract!Next]_(Contract!vars)
  <2>0. UNCHANGED <<asked, answer, closed>> /\ ~closed
    BY <1>2 DEF Publish
  <2>1. CASE phase[r] \in Terminal
    <3>1. UNCHANGED receipt
      BY <1>2, <2>1, PhasesDistinct DEF Publish, Complete
    <3>2. QED
      BY <2>0, <3>1 DEF Contract!vars
  <2>2. CASE phase[r] \notin Terminal
    <3>1. receipt' = [receipt EXCEPT ![r] = o] /\ receipt[r] = NoResult
      BY <1>2, <2>2, PhasesDistinct DEF Publish, Complete, Phase
    <3>2. Contract!Publish(r, o)
      BY <2>0, <3>1 DEF Contract!Publish
    <3>3. QED
      BY <3>2 DEF Contract!Next
  <2>3. QED
    BY <2>1, <2>2
<1>3. ASSUME NEW w \in Waiter, NEW r \in Ref, JoinOne(w, r) PROVE Contract!Next
  <2>0. UNCHANGED <<receipt, closed>> /\ ~closed
    BY <1>3 DEF JoinOne, registryVars
  <2>1. fut[w] = NoFuture /\ fut[w].target = NoResult /\ fut[w].result = NoResult
    BY <1>3 DEF JoinOne, WellFormed, NoFuture
  <2>2. asked[w] = NoResult /\ asked' = [asked EXCEPT ![w] = r]
    BY <1>3, <2>1 DEF JoinOne, Subscribe
  <2>3. \/ UNCHANGED answer
        \/ receipt[r] = NoResult /\ answer' = [answer EXCEPT ![w] = UnknownRun]
    <3>1. CASE phase[r] = Absent
      BY <1>3, <3>1, PhasesDistinct DEF JoinOne, Subscribe
    <3>2. CASE phase[r] # Absent
      BY <1>3, <2>1, <3>2 DEF JoinOne, Subscribe
    <3>3. QED
      BY <3>1, <3>2
  <2>4. Contract!Ask(w, r)
    BY <2>0, <2>2, <2>3 DEF Contract!Ask
  <2>5. QED
    BY <2>4 DEF Contract!Next
<1>4. ASSUME NEW w \in Waiter, Step(w) PROVE [Contract!Next]_(Contract!vars)
  <2> DEFINE r == fut[w].target
  <2>0. UNCHANGED <<receipt, closed>>
    BY <1>4 DEF Step, registryVars
  <2>1. fut[w].pc \in {"check", "await"} /\ fut[w] \in Future
    BY <1>4 DEF Step, Poll, Check, Changed, ChangedClosed
  <2>2. r \in Ref /\ fut[w].result = NoResult /\ asked[w] = r /\ answer[w] = NoResult
    BY <2>1 DEF WellFormed
  <2>3. UNCHANGED asked
    <3>1. CASE Check(w)
      BY <2>1, <3>1 DEF Check, Future
    <3>2. CASE Changed(w)
      BY <2>1, <3>2 DEF Changed, Future
    <3>3. CASE ChangedClosed(w)
      BY <2>1, <3>3 DEF ChangedClosed, Future
    <3>4. QED
      BY <1>4, <3>1, <3>2, <3>3 DEF Step, Poll
  <2>4. CASE Check(w) /\ phase[r] \in Terminal
    <3>1. answer' = [answer EXCEPT ![w] = receipt[r]] /\ receipt[r] \in Terminal
      BY <2>2, <2>4 DEF Check, Future
    <3>2. Contract!Answer(w)
      BY <2>0, <2>2, <2>3, <3>1 DEF Contract!Answer
    <3>3. QED
      BY <3>2 DEF Contract!Next
  <2>5. CASE Check(w) /\ phase[r] \notin Terminal
    <3>1. UNCHANGED answer
      BY <2>5 DEF Check, Future
    <3>2. QED
      BY <2>0, <2>3, <3>1 DEF Contract!vars
  <2>6. CASE Changed(w)
    <3>1. UNCHANGED answer
      BY <2>6 DEF Changed, Future
    <3>2. QED
      BY <2>0, <2>3, <3>1 DEF Contract!vars
  <2>7. CASE ChangedClosed(w)
    <3>1. phase[r] \notin Terminal /\ closed
      BY <2>7 DEF ChangedClosed, Informed
    <3>2. answer' = [answer EXCEPT ![w] = SourceClosed] /\ receipt[r] = NoResult
      BY <2>2, <2>7, <3>1 DEF ChangedClosed, Future
    <3>3. Contract!Refuse(w)
      BY <2>0, <2>2, <2>3, <3>1, <3>2 DEF Contract!Refuse
    <3>4. QED
      BY <3>3 DEF Contract!Next
  <2>8. QED
    BY <1>4, <2>4, <2>5, <2>6, <2>7 DEF Step, Poll
<1>5. ASSUME NEW W \in SUBSET Waiter, Drop(W) PROVE Contract!Next
  <2>1. UNCHANGED <<receipt, closed>>
    BY <1>5 DEF Drop, registryVars
  <2>2. /\ asked' = [w \in Waiter |-> IF w \in W THEN NoResult ELSE asked[w]]
        /\ answer' = [w \in Waiter |-> IF w \in W THEN NoResult ELSE answer[w]]
    BY <1>5 DEF Drop, Discard, NoFuture
  <2>3. Contract!Abandon(W)
    BY <2>1, <2>2 DEF Contract!Abandon
  <2>4. QED
    BY <2>3 DEF Contract!Next
<1>6. CASE DropSource
  BY <1>6 DEF DropSource, registryVars, Contract!Next, Contract!Close
<1>7. CASE UNCHANGED vars
  BY <1>7 DEF vars, Contract!vars
<1>8. QED
  BY <1>1, <1>2, <1>3, <1>4, <1>5, <1>6, <1>7 DEF Next

(* The registry and join_one implement JoinContract for every set of runs,
   joiners and receipts. *)
THEOREM Implements == Spec => ImplementsContract
BY ContractInit, ContractStep, Inductive, PTL DEF Spec, ImplementsContract, Contract!Spec
=============================================================================
