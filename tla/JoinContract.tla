---------------------------- MODULE JoinContract ----------------------------
(***************************************************************************)
(* What exact-run joining promises, with no registry, channel or polling:  *)
(* every run has one receipt, written at most once; a joiner asks for one  *)
(* exact run and, if it is answered, is answered with that run's receipt.  *)
(* A joiner is refused only while the run has no receipt, and joiners may  *)
(* abandon their questions at any time without changing any receipt.       *)
(***************************************************************************)
CONSTANTS
  Ref,          \* exact runs, AgentRunRef
  Waiter,       \* join calls in flight
  Terminal,     \* terminal receipts, AgentRunTerminal
  NoResult,     \* no receipt or no answer yet
  UnknownRun,   \* the two refusals, JoinError
  SourceClosed

VARIABLES
  receipt,      \* [Ref -> Terminal or NoResult]
  asked,        \* [Waiter -> the run asked for, or NoResult]
  answer,       \* [Waiter -> Terminal, a refusal, or NoResult]
  gone          \* the source of receipts has been dropped

vars == <<receipt, asked, answer, gone>>

Refusal == {UnknownRun, SourceClosed}

Init ==
  /\ receipt = [r \in Ref |-> NoResult]
  /\ asked = [w \in Waiter |-> NoResult]
  /\ answer = [w \in Waiter |-> NoResult]
  /\ gone = FALSE

(* The first terminal receipt of a run; there is never a second. *)
Publish(r, o) ==
  /\ ~gone
  /\ receipt[r] = NoResult
  /\ receipt' = [receipt EXCEPT ![r] = o]
  /\ UNCHANGED <<asked, answer, gone>>

(* Asking may be refused on the spot, but only for a run without receipt. *)
Ask(w, r) ==
  /\ ~gone
  /\ asked[w] = NoResult
  /\ asked' = [asked EXCEPT ![w] = r]
  /\ \/ UNCHANGED answer
     \/ receipt[r] = NoResult /\ answer' = [answer EXCEPT ![w] = UnknownRun]
  /\ UNCHANGED <<receipt, gone>>

Answer(w) ==
  /\ asked[w] \in Ref
  /\ answer[w] = NoResult
  /\ receipt[asked[w]] \in Terminal
  /\ answer' = [answer EXCEPT ![w] = receipt[asked[w]]]
  /\ UNCHANGED <<receipt, asked, gone>>

(* A closed source is reported only when the receipt will never exist. *)
Refuse(w) ==
  /\ gone
  /\ asked[w] \in Ref
  /\ answer[w] = NoResult
  /\ receipt[asked[w]] = NoResult
  /\ answer' = [answer EXCEPT ![w] = SourceClosed]
  /\ UNCHANGED <<receipt, asked, gone>>

Abandon(W) ==
  /\ asked' = [w \in Waiter |-> IF w \in W THEN NoResult ELSE asked[w]]
  /\ answer' = [w \in Waiter |-> IF w \in W THEN NoResult ELSE answer[w]]
  /\ UNCHANGED <<receipt, gone>>

Close ==
  /\ ~gone
  /\ gone' = TRUE
  /\ UNCHANGED <<receipt, asked, answer>>

Next ==
  \/ \E r \in Ref, o \in Terminal : Publish(r, o)
  \/ \E w \in Waiter, r \in Ref : Ask(w, r)
  \/ \E w \in Waiter : Answer(w) \/ Refuse(w)
  \/ \E W \in SUBSET Waiter : Abandon(W)
  \/ Close

Spec == Init /\ [][Next]_vars
=============================================================================
