---------------------------- MODULE SubagentFeed ----------------------------
(***************************************************************************)
(* The live panel fed by a running app server.  Sub-agent threads run      *)
(* turns and report them in order; the notifications of all threads wait   *)
(* in one queue until the UI's event loop handles them one at a time.  The *)
(* parent's own item that announces a spawn comes at any later time.  A    *)
(* reconciliation asks the server for every thread, one after the other,   *)
(* while the queue grows and is not handled.                               *)
(***************************************************************************)
EXTENDS SubagentLive, TLC

CONSTANTS
  MaxTurns,   \* bound: turns of a thread
  MaxQueue,   \* bound: notifications waiting
  LateHints,  \* threads whose spawn may be announced after a turn of theirs ended
  Picker,     \* whether the user opens the agent picker, which reconciles
  LateTokens  \* threads that may report their total again after a turn ended

ASSUME FeedAssumption ==
  /\ MaxTurns \in Nat /\ MaxQueue \in Nat
  /\ Picker \in BOOLEAN
  /\ LateHints \subseteq Thread /\ LateTokens \subseteq Thread

VARIABLES
  server,   \* [Thread -> the thread's phase, its turns, token total and this turn's share]
  owed,     \* threads whose spawn the parent has not announced yet
  queue,    \* notifications not handled yet
  tracked,  \* is_parent_owned: threads known to be sub-agents
  spent,    \* [Thread -> tokens of the turn whose end was handled last]
  reading,  \* a reconciliation is under way
  read      \* [Thread -> what it has read: running, stopped, or not read yet]

serverVars == <<server, owed>>
loop == <<tracked, spent, reading, read>>
vars == <<live, serverVars, queue, loop>>

Unread == [t \in Thread |-> "unread"]

FeedInit ==
  /\ Init
  /\ server = [t \in Thread |-> [phase |-> "none", turns |-> 0, total |-> 0, used |-> 0]]
  /\ owed = {}
  /\ queue = <<>>
  /\ tracked = {}
  /\ spent = [t \in Thread |-> 0]
  /\ reading = FALSE
  /\ read = Unread

-----------------------------------------------------------------------------
(* The server.                                                             *)

Send(t, kind, n) ==
  /\ Len(queue) < MaxQueue
  /\ queue' = Append(queue, [kind |-> kind, thread |-> t, n |-> n])
  /\ UNCHANGED <<live, loop>>

Spawn(t) ==
  /\ server[t].phase = "none"
  /\ server' = [server EXCEPT ![t].phase = "idle"]
  /\ owed' = owed \cup {t}
  /\ Send(t, "thread", 0)

Announce(t) ==
  /\ t \in owed
  /\ owed' = owed \ {t}
  /\ Send(t, "hint", 0)
  /\ UNCHANGED server

Begin(t) ==
  /\ server[t].phase = "idle" /\ server[t].turns < MaxTurns
  /\ server' = [server EXCEPT ![t].phase = "busy", ![t].turns = @ + 1, ![t].used = 0]
  /\ Send(t, "turn", 0)
  /\ UNCHANGED owed

Spend(t) ==
  /\ server[t].phase = "busy" /\ server[t].total < MaxTokens
  /\ server' = [server EXCEPT ![t].total = @ + 1, ![t].used = @ + 1]
  /\ Send(t, "tokens", server[t].total + 1)
  /\ UNCHANGED owed

RepeatTokens(t) ==
  /\ t \in LateTokens /\ server[t].phase = "idle" /\ server[t].total > 0
  /\ Send(t, "tokens", server[t].total)
  /\ UNCHANGED serverVars

End(t) ==
  /\ server[t].phase = "busy" /\ t \notin owed \ LateHints
  /\ server' = [server EXCEPT ![t].phase = "idle"]
  /\ Send(t, "ended", server[t].used)
  /\ UNCHANGED owed

Close(t) ==
  /\ server[t].phase = "idle" /\ server[t].turns > 0 /\ t \notin owed
  /\ server' = [server EXCEPT ![t].phase = "closed"]
  /\ Send(t, "closed", 0)
  /\ UNCHANGED owed

Server ==
  \E t \in Thread :
    \/ Spawn(t) \/ Announce(t) \/ Begin(t) \/ Spend(t) \/ RepeatTokens(t) \/ End(t) \/ Close(t)

-----------------------------------------------------------------------------
(* The event loop.                                                         *)

Notification(event) ==
  LET t == event.thread IN
  CASE event.kind = "hint" -> EnsureStarted(t)
    [] event.kind = "thread" -> Reduce(rows, archived, FALSE)
    [] event.kind \in {"turn", "tokens", "ended", "closed"} /\ t \notin tracked ->
         Reduce(rows, archived, FALSE)
    [] event.kind = "turn" /\ t \in tracked -> StartTurn(t)
    [] event.kind = "tokens" /\ t \in tracked -> SetTotalTokens(t, event.n)
    [] event.kind = "ended" /\ t \in tracked -> FinishTurn(t, "completed", 0)
    [] event.kind = "closed" /\ t \in tracked -> RemoveAgent(t)

Handle ==
  LET event == Head(queue) IN
  /\ ~reading
  /\ queue # <<>>
  /\ queue' = Tail(queue)
  /\ Notification(event)
  /\ tracked' = IF event.kind \in {"thread", "hint"} THEN tracked \cup {event.thread} ELSE tracked
  /\ spent' = IF event.kind = "ended" THEN [spent EXCEPT ![event.thread] = event.n] ELSE spent
  /\ UNCHANGED <<serverVars, reading, read>>

OpenPicker ==
  /\ Picker
  /\ ~reading
  /\ reading' = TRUE
  /\ read' = Unread
  /\ UNCHANGED <<live, serverVars, queue, tracked, spent>>

ReadThread(t) ==
  /\ reading /\ read[t] = "unread"
  /\ read' = [read EXCEPT ![t] = IF server[t].phase = "busy" THEN "running" ELSE "stopped"]
  /\ UNCHANGED <<live, serverVars, queue, tracked, spent, reading>>

(* Mutant: what has been read is applied although a read failed. *)
ReconcilePartially ==
  /\ reading
  /\ Reconcile({t \in Thread : read[t] = "running"})
  /\ reading' = FALSE
  /\ read' = Unread
  /\ tracked' = tracked \cup {t \in Thread : read[t] = "running"}
  /\ UNCHANGED <<serverVars, queue, spent>>

FinishReading ==
  /\ reading
  /\ \A t \in Thread : read[t] # "unread"
  /\ Reconcile({t \in Thread : read[t] = "running"})
  /\ reading' = FALSE
  /\ read' = Unread
  /\ tracked' = tracked \cup {t \in Thread : read[t] = "running"}
  /\ UNCHANGED <<serverVars, queue, spent>>

(* After a read error nothing is reconciled. *)
AbandonReading ==
  /\ reading
  /\ reading' = FALSE
  /\ read' = Unread
  /\ UNCHANGED <<live, serverVars, queue, tracked, spent>>

Redraw == ~reading /\ Draw /\ UNCHANGED <<serverVars, queue, loop>>

FeedNext ==
  \/ Server
  \/ Handle
  \/ OpenPicker
  \/ \E t \in Thread : ReadThread(t)
  \/ FinishReading
  \/ AbandonReading
  \/ Redraw

FeedSpec == FeedInit /\ [][FeedNext]_vars

-----------------------------------------------------------------------------
(* Properties.                                                             *)

CaughtUp == queue = <<>> /\ ~reading

FeedTypeOK ==
  /\ TypeOK
  /\ server \in [Thread -> [phase : {"none", "idle", "busy", "closed"}, turns : 0 .. MaxTurns,
                            total : Token, used : Token]]
  /\ owed \subseteq Thread /\ tracked \subseteq Thread
  /\ queue \in Seq([kind : {"thread", "hint", "turn", "tokens", "ended", "closed"},
                    thread : Thread, n : Token])
  /\ spent \in [Thread -> Token]
  /\ reading \in BOOLEAN
  /\ read \in [Thread -> {"unread", "running", "stopped"}]

(* Once the loop has caught up, every thread that runs a turn has a row at
   work, however late its spawn was announced, however old the news that a
   reconciliation overtook, and whatever it had archived before. *)
RunningIsShown ==
  CaughtUp => \A t \in Thread : server[t].phase = "busy" => rows[t] # NoRow /\ ~IsTerminal(t)

(* Once the loop has caught up, a row at work belongs to a thread that runs a
   turn or was just spawned: nothing else holds the batch back, as long as the
   announcement and the totals of the thread come in order. *)
NoGhosts ==
  CaughtUp => \A t \in Shown \ (LateHints \cup LateTokens) : ~IsTerminal(t) =>
    server[t].phase = "busy" \/ server[t].turns = 0

(* Caught up, the panel shows at work exactly the threads that are. *)
PanelAgrees == FeedTypeOK /\ RunningIsShown /\ NoGhosts

(* The token count in an archived row is that of the turn that ended. *)
StatsAreOfTheTurn ==
  [][\A t \in Thread : batch'[t] # NoRow => batch'[t].stats.tokens = spent'[t]]_vars
=============================================================================
