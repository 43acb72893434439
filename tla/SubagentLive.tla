---------------------------- MODULE SubagentLive ----------------------------
(***************************************************************************)
(* The live panel's state of the terminal UI (tui/src/app/subagent_live.rs *)
(* and its use in App): one row per sub-agent of the current batch, reduced *)
(* from server notifications, requests and reconciliations in any order.   *)
(* A batch whose rows are all terminal moves to the transcript at once.    *)
(* Instants, labels and telemetry are left out; an activity is an item     *)
(* with a status.                                                          *)
(***************************************************************************)
EXTENDS Integers, Sequences, SequencesExt, FiniteSetsExt

CONSTANTS
  Thread,       \* sub-agent threads
  Item,         \* work items of a turn
  Request,      \* approval requests
  RecentLimit,  \* RECENT_ACTIVITY_LIMIT
  MaxTokens,    \* bound: thread token totals reported
  MaxTools,     \* bound: items counted in one turn
  NoRow, NoItem, NoApproval, NoStats, NoStatus

ASSUME LimitAssumption ==
  /\ RecentLimit \in Nat \ {0}
  /\ MaxTokens \in Nat
  /\ MaxTools \in Nat

VARIABLES
  rows,      \* agents: [Thread -> row, or NoRow]
  archived,  \* archived_agents
  batch,     \* the rows archived by the last step, if it archived any
  missed,    \* threads drawn out of date with no redraw to come
  frame      \* a redraw has been requested

live == <<rows, archived, batch, missed, frame>>

Terminal == {"failed", "cancelled", "completed"}
Working == {"starting", "running", "waiting"}
Ended == {"succeeded", "failed"}
ItemStatus == {"running", "approval"} \cup Ended
Token == 0 .. MaxTokens
Tools == 0 .. MaxTools

Activity == [id : Item, status : ItemStatus]
Approval == [request : Request, item : Item \cup {NoItem}, life : Working,
             status : ItemStatus \cup {NoStatus}]
Stats == [tools : Tools, tokens : Token]
Row == [life : Working \cup Terminal \cup {"approval"},
        recent : Seq(Activity),
        approval : Approval \cup {NoApproval}, begun : BOOLEAN,
        tools : Tools, total : Token, base : Token, stats : Stats \cup {NoStats}]

ASSUME NoneAssumption ==
  NoRow \notin Row /\ NoApproval \notin Approval /\ NoStats \notin Stats /\ NoStatus \notin ItemStatus

Ids(seq) == {seq[k].id : k \in DOMAIN seq}
Shown == {t \in Thread : rows[t] # NoRow}
IsTerminal(t) == rows[t] # NoRow /\ rows[t].life \in Terminal

New(life) ==
  [life |-> life, recent |-> <<>>, approval |-> NoApproval, begun |-> life # "starting",
   tools |-> 0, total |-> 0, base |-> 0, stats |-> NoStats]

NoBatch == [t \in Thread |-> NoRow]

Init ==
  /\ rows = [t \in Thread |-> NoRow]
  /\ archived = {}
  /\ batch = NoBatch
  /\ missed = {}
  /\ frame = FALSE

(* begin_turn_if_needed, current_turn_tokens *)
Begun(row) == IF row.begun THEN row ELSE [row EXCEPT !.begun = TRUE, !.base = row.total, !.tools = 0]
TurnTokens(row) == Max({0, row.total - row.base})
Entry(t, life) == IF rows[t] = NoRow THEN New(life) ELSE rows[t]

(* What the panel draws of a row: its life, and its items or its statistics. *)
Picture(row) ==
  IF row = NoRow THEN NoRow
  ELSE [life |-> row.life, recent |-> row.recent, stats |-> row.stats]

Missed(new, changed) ==
  IF frame \/ changed THEN {}
  ELSE missed \cup {t \in Thread : Picture(new[t]) # Picture(rows[t])}

-----------------------------------------------------------------------------
(* Every operation says itself whether it changed the panel; finish_change
   requests a redraw then. *)
Reduce(new, arch, changed) ==
  /\ rows' = new
  /\ archived' = arch
  /\ frame' = (frame \/ changed)
  /\ missed' = Missed(new, changed)
  /\ batch' = NoBatch

(* After a notification a batch of terminal rows is taken. *)
Notify(new, arch, changed) ==
  LET shown == {t \in Thread : new[t] # NoRow} IN
  IF shown # {} /\ \A t \in shown : new[t].life \in Terminal
    THEN /\ rows' = [t \in Thread |-> NoRow]
         /\ archived' = arch \cup shown
         /\ batch' = new
         /\ frame' = (frame \/ changed)
         /\ missed' = Missed(NoBatch, changed)
    ELSE Reduce(new, arch, changed)

Ignore == Notify(rows, archived, FALSE)
SetRow(t, row, changed) == Notify([rows EXCEPT ![t] = row], archived, changed)

(* The spawn of a sub-agent shows up as an item of its parent. *)
EnsureStarted(t) ==
  IF rows[t] # NoRow
    THEN Reduce(rows, archived, FALSE)
    ELSE Reduce([rows EXCEPT ![t] = New("starting")], archived \ {t}, TRUE)

-----------------------------------------------------------------------------
(* Work items.                                                             *)

(* The item is new, or it is listed with another status and not ended. *)
Moves(row, i, status) ==
  i \notin Ids(row.recent)
    \/ \E k \in DOMAIN row.recent : row.recent[k].id = i /\ row.recent[k].status \notin Ended \cup {status}

WithActivity(row, i, status) ==
  LET entry == [id |-> i, status |-> status]
      kept == IF Len(row.recent) = RecentLimit THEN Tail(row.recent) ELSE row.recent
      evicted == Ids(row.recent) \ Ids(kept)
  IN IF i \in Ids(row.recent)
       THEN [row EXCEPT !.recent =
               [k \in DOMAIN @ |-> IF @[k].id = i /\ @[k].status \notin Ended THEN entry ELSE @[k]]]
       ELSE [row EXCEPT
               !.tools = IF status = "running" THEN @ + 1 ELSE @,
               !.recent = Append(kept, entry),
               !.approval = IF @ # NoApproval /\ @.item \in evicted
                              THEN [@ EXCEPT !.status = NoStatus] ELSE @]

(* The item of an open approval has moved on: the approval is over. *)
Releases(row, i) == row.approval # NoApproval /\ row.approval.item = i

Released(row, i) ==
  IF Releases(row, i)
    THEN [row EXCEPT !.approval = NoApproval,
                     !.life = IF @ = "approval" THEN row.approval.life ELSE @]
    ELSE row

Resumes(row) == row.approval = NoApproval /\ row.life \in {"starting", "waiting", "approval"}

Resumed(row) == IF Resumes(row) THEN [row EXCEPT !.life = "running"] ELSE row

(* Mutant: the release of an approval is not counted as a change. *)
ReduceActivityQuietly(t, i, status) ==
  IF t \in archived \/ IsTerminal(t)
    THEN Ignore
    ELSE LET released == Released(Begun(Entry(t, "running")), i)
             listed == WithActivity(released, i, status)
         IN /\ listed.tools <= MaxTools
            /\ SetRow(t, Resumed(listed), rows[t] = NoRow \/ Moves(released, i, status) \/ Resumes(listed))

ReduceActivity(t, i, status) ==
  IF t \in archived \/ IsTerminal(t)
    THEN Ignore
    ELSE LET begun == Begun(Entry(t, "running"))
             released == Released(begun, i)
             listed == WithActivity(released, i, status)
         IN /\ listed.tools <= MaxTools
            /\ SetRow(t, Resumed(listed),
                      \/ rows[t] = NoRow
                      \/ Releases(begun, i)
                      \/ Moves(released, i, status)
                      \/ Resumes(listed))

-----------------------------------------------------------------------------
(* Turns and token totals.                                                 *)

StartTurn(t) ==
  LET row == rows[t]
      new == CASE row = NoRow -> New("running")
               [] row # NoRow /\ row.life = "starting" ->
                    [Begun(row) EXCEPT !.life = "running", !.stats = NoStats]
               [] row # NoRow /\ row.life \in Terminal ->
                    [row EXCEPT !.life = "running", !.recent = <<>>, !.approval = NoApproval,
                                !.begun = TRUE, !.tools = 0, !.base = row.total, !.stats = NoStats]
               [] OTHER -> row
  IN Notify([rows EXCEPT ![t] = new], archived \ {t}, row = NoRow \/ row.life \in Terminal \cup {"starting"})

(* Totals below zero count as zero.  The row of an unknown thread is entered
   without a change being noted unless its total is above zero. *)
SetTotalTokens(t, total) ==
  IF t \in archived
    THEN Ignore
    ELSE LET row == [Entry(t, "running") EXCEPT !.total = total]
             new == IF row.stats = NoStats THEN row
                    ELSE [row EXCEPT !.stats.tokens = TurnTokens(row)]
             old == Entry(t, "running")
         IN SetRow(t, new, \/ old.total # total
                           \/ row.stats # NoStats /\ row.stats.tokens # TurnTokens(row))

Finished(row, status, tools) ==
  [row EXCEPT !.life = status, !.recent = <<>>, !.approval = NoApproval,
              !.stats = [tools |-> tools, tokens |-> TurnTokens(row)]]

(* Mutant: a later outcome replaces the first. *)
FinishTurnAgain(t, status, tools) ==
  IF t \in archived
    THEN Ignore
    ELSE LET row == Entry(t, "running")
         IN SetRow(t, Finished(row, status, IF tools = 0 THEN row.tools ELSE tools), TRUE)

(* A turn's end sets its outcome once; the tool uses are those of the turn's
   items, or the started ones when it lists none.  "Completed" with a turn
   still in progress only marks the agent running. *)
FinishTurn(t, status, tools) ==
  IF t \in archived \/ IsTerminal(t)
    THEN Ignore
    ELSE LET row == Entry(t, "running")
         IN SetRow(t, Finished(row, status, IF tools = 0 THEN row.tools ELSE tools), TRUE)

FinishInProgress(t) ==
  IF t \in archived \/ IsTerminal(t)
    THEN Ignore
    ELSE LET row == Begun(Entry(t, "running"))
         IN IF row.approval # NoApproval
              THEN SetRow(t, [row EXCEPT !.approval.life = "running"], row.approval.life # "running")
              ELSE SetRow(t, [row EXCEPT !.life = "running"], rows[t] = NoRow \/ row.life # "running")

(* Mutant: a closed thread's row goes, the finished batch stays. *)
RemoveOnly(t) ==
  Reduce([rows EXCEPT ![t] = NoRow], archived, rows[t] # NoRow)

(* ThreadClosed *)
RemoveAgent(t) ==
  Notify([rows EXCEPT ![t] = NoRow], archived, rows[t] # NoRow)

-----------------------------------------------------------------------------
(* Approvals: the latest request is tracked, the one before it is undone.  *)

Restored(row, approval) ==
  IF approval.status = NoStatus THEN row
  ELSE [row EXCEPT !.recent =
          [k \in DOMAIN @ |-> IF @[k].id = approval.item /\ @[k].status = "approval"
                                THEN [@[k] EXCEPT !.status = approval.status] ELSE @[k]]]

Waiting(row, q, i) ==
  LET undone == IF row.approval = NoApproval THEN row ELSE Restored(row, row.approval)
      life == IF row.approval # NoApproval THEN row.approval.life
              ELSE IF row.life = "approval" THEN "running" ELSE row.life
      open == {k \in DOMAIN undone.recent : undone.recent[k].id = i /\ undone.recent[k].status \notin Ended}
  IN [undone EXCEPT
        !.life = "approval",
        !.recent = [k \in DOMAIN @ |-> IF k \in open THEN [@[k] EXCEPT !.status = "approval"] ELSE @[k]],
        !.approval = [request |-> q, item |-> i, life |-> life,
                      status |-> IF open = {} THEN NoStatus
                                 ELSE undone.recent[CHOOSE k \in open : TRUE].status]]

(* Mutant: the request before is forgotten without being undone. *)
MarkWaitingOver(t, q, i) ==
  IF t \in archived \/ IsTerminal(t)
    THEN Reduce(rows, archived, FALSE)
    ELSE LET row == Entry(t, "running")
             life == IF row.life = "approval" THEN "running" ELSE row.life
         IN Reduce([rows EXCEPT ![t] = Waiting([row EXCEPT !.approval = NoApproval, !.life = life], q, i)],
                   archived, TRUE)

MarkWaiting(t, q, i) ==
  IF t \in archived \/ IsTerminal(t)
    THEN Reduce(rows, archived, FALSE)
    ELSE LET row == Entry(t, "running")
         IN IF row.approval # NoApproval /\ row.approval.request = q /\ row.approval.item = i
              THEN Reduce(rows, archived, FALSE)
              ELSE Reduce([rows EXCEPT ![t] = Waiting(row, q, i)], archived, TRUE)

Opened(t, q) == rows[t] # NoRow /\ rows[t].approval # NoApproval /\ rows[t].approval.request = q

Resolved(t, q) ==
  LET row == rows[t]
      approval == row.approval
  IN IF Opened(t, q)
       THEN [rows EXCEPT ![t] = Restored(
               [row EXCEPT !.approval = NoApproval,
                           !.life = IF @ = "approval" THEN approval.life ELSE @], approval)]
       ELSE rows

(* Resolved by the server's notification, or by the user's answer. *)
ResolveNotified(t, q) == Notify(Resolved(t, q), archived, Opened(t, q))
ResolveAnswered(t, q) == Reduce(Resolved(t, q), archived, Opened(t, q))

-----------------------------------------------------------------------------
(* Reconciliation with the threads the server has loaded.                  *)

Hydrated(row) ==
  LET cleared == [row EXCEPT !.life = "running", !.approval = NoApproval, !.stats = NoStats]
  IN Begun(IF row.life \in Terminal
             THEN [cleared EXCEPT !.recent = <<>>, !.begun = FALSE, !.tools = 0, !.base = row.total]
             ELSE cleared)

(* A kept row counts as changed by its life or a dropped approval. *)
Rehydrates(t) == rows[t] = NoRow \/ rows[t].life # "running" \/ rows[t].approval # NoApproval

Reconcile(running) ==
  Reduce([t \in Thread |-> CASE t \notin running -> NoRow
                             [] t \in running -> Hydrated(Entry(t, "running"))],
         archived \ running,
         Shown \ running # {} \/ \E t \in running : Rehydrates(t))

Reset == Reduce([t \in Thread |-> NoRow], {}, Shown # {} \/ archived # {})

Draw ==
  /\ frame
  /\ frame' = FALSE
  /\ missed' = {}
  /\ batch' = NoBatch
  /\ UNCHANGED <<rows, archived>>

-----------------------------------------------------------------------------
(* Every operation at any time: the reducer relies on no order of events.  *)
CONSTANTS
  Totals,  \* token totals reported, part of Token
  Loaded   \* what reconciliations report: sets of running threads

ASSUME InputAssumption == Totals \subseteq Token /\ Loaded \subseteq SUBSET Thread

Next ==
  \/ \E t \in Thread :
       \/ EnsureStarted(t) \/ StartTurn(t) \/ FinishInProgress(t) \/ RemoveAgent(t)
       \/ \E i \in Item, status \in {"running"} \cup Ended : ReduceActivity(t, i, status)
       \/ \E total \in Totals : SetTotalTokens(t, total)
       \/ \E status \in Terminal, tools \in {0, MaxTools} : FinishTurn(t, status, tools)
       \/ \E q \in Request :
            \/ \E i \in Item \cup {NoItem} : MarkWaiting(t, q, i)
            \/ ResolveNotified(t, q)
            \/ ResolveAnswered(t, q)
  \/ \E running \in Loaded : Reconcile(running)
  \/ Reset
  \/ Draw

Spec == Init /\ [][Next]_live

-----------------------------------------------------------------------------
(* Properties.                                                             *)

(* Items that wait for an approval which is not open, or that the open one
   already found waiting. *)
Orphans ==
  {o \in Shown \X Item :
     LET t == o[1]
         i == o[2]
         approval == rows[t].approval IN
     /\ [id |-> i, status |-> "approval"] \in ToSet(rows[t].recent)
     /\ ~(approval # NoApproval /\ approval.item = i /\ approval.status # "approval")}

(* Type correctness: three recent items at most, and no item twice. *)
TypeOK ==
  /\ rows \in [Thread -> Row \cup {NoRow}]
  /\ batch \in [Thread -> Row \cup {NoRow}]
  /\ archived \subseteq Thread
  /\ missed \subseteq Thread /\ frame \in BOOLEAN
  /\ \A t \in Shown :
       Len(rows[t].recent) <= RecentLimit /\ Len(rows[t].recent) = Cardinality(Ids(rows[t].recent))

(* A row waits for an approval exactly while one is open; it carries final
   statistics exactly when it is terminal, and then for this turn's tokens,
   with no item and no approval left over. *)
RowIsCoherent ==
  \A t \in Shown :
    LET row == rows[t] IN
    /\ row.life = "approval" <=> row.approval # NoApproval
    /\ IsTerminal(t) <=> row.stats # NoStats
    /\ IsTerminal(t) => row.recent = <<>> /\ row.stats.tokens = TurnTokens(row)

(* A late event of an archived agent never brings its row back: a thread is
   archived or shown, never both. *)
ArchivedIsHidden == archived \cap Shown = {}

(* A finished batch never lingers: while there are rows, one is at work. *)
FinishedBatchIsTaken == Shown # {} => \E t \in Shown : ~IsTerminal(t)

(* Every row is typed, coherent and of a thread that is not archived, in a
   batch that is not finished. *)
RowsAreCoherent == TypeOK /\ RowIsCoherent /\ ArchivedIsHidden /\ FinishedBatchIsTaken

(* No handler forgets that it changed what the panel draws: whatever is drawn
   out of date, a redraw of it is to come.  The one exception is the row that a
   token total of zero enters: it waits for the next redraw. *)
ScreenIsCurrent == \A t \in missed : rows[t] = New("running")

(* The first outcome of a turn wins; later terminal events change neither it
   nor the tool uses, wherever the row goes. *)
FirstOutcomeWins ==
  [][\A t \in Thread : IsTerminal(t) =>
       \A next \in {rows'[t], batch'[t]} :
         next # NoRow /\ next.life \in Terminal =>
           next.life = rows[t].life /\ next.stats.tools = rows[t].stats.tools]_live

(* An item shows as waiting only while the approval that it waits for is the
   open one, whatever requests replace or resolve each other: only a
   reconciliation, which forgets the approvals of the rows it keeps, leaves an
   item waiting for none. *)
WaitingItemIsApproved ==
  [][Orphans' \subseteq Orphans \/ \E running \in Loaded : Reconcile(running)]_live
=============================================================================
