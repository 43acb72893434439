------------------------ MODULE SubagentFeed_proofs -------------------------
(* Safety of the live panel for every number of threads, of items, of requests
   and of recent activities: first whatever order the events come in, then fed
   by a server, with any number of turns and of waiting notifications. *)
EXTENDS SubagentFeed, SequenceTheorems, FiniteSetTheorems, TLAPS

(* A list of recent activities: bounded, and no item twice. *)
Listed(seq) ==
  /\ seq \in Seq(Activity) /\ Len(seq) <= RecentLimit
  /\ \A j, k \in DOMAIN seq : seq[j].id = seq[k].id => j = k

RowHolds(row) ==
  /\ row \in Row /\ Listed(row.recent)
  /\ row.life = "approval" <=> row.approval # NoApproval
  /\ row.life \in Terminal <=> row.stats # NoStats
  /\ row.life \in Terminal => row.recent = <<>> /\ row.stats.tokens = TurnTokens(row)

(* The panel between two events. *)
IInv ==
  /\ rows \in [Thread -> Row \cup {NoRow}] /\ batch \in [Thread -> Row \cup {NoRow}]
  /\ archived \subseteq Thread
  /\ missed \subseteq Thread /\ frame \in BOOLEAN
  /\ \A t \in Shown : RowHolds(rows[t])
  /\ ArchivedIsHidden /\ FinishedBatchIsTaken
  /\ ScreenIsCurrent

(* What a reducer may hand to finish_change: the rows and archived threads it
   leaves, and whether it notes a change. *)
Settled(row, next) ==
  row # NoRow /\ row.life \in Terminal /\ next # NoRow /\ next.life \in Terminal =>
    next.life = row.life /\ next.stats.tools = row.stats.tools

(* What may become of a row when no change is noted: it stays, it is entered by
   a total of zero, or what the panel draws of it stays. *)
Unseen(row, next) ==
  \/ next = row
  \/ row = NoRow /\ next = New("running")
  \/ /\ row # NoRow /\ next # NoRow /\ row # New("running")
     /\ next.life = row.life /\ next.recent = row.recent /\ next.stats = row.stats

Sound(new, arch, changed) ==
  /\ new \in [Thread -> Row \cup {NoRow}] /\ arch \subseteq Thread /\ changed \in BOOLEAN
  /\ \A t \in Thread : new[t] # NoRow => RowHolds(new[t]) /\ t \notin arch
  /\ \A t \in Thread : Settled(rows[t], new[t])
  /\ ~changed => \A t \in Thread : Unseen(rows[t], new[t])

AtWork(new) ==
  (\E t \in Thread : new[t] # NoRow) =>
    \E t \in Thread : new[t] # NoRow /\ new[t].life \notin Terminal

-----------------------------------------------------------------------------
(* Rows.                                                                   *)

LEMMA NothingListed == Listed(<<>>)
<1>1. <<>> \in Seq(Activity) /\ Len(<<>>) = 0 /\ DOMAIN <<>> = {}
  OBVIOUS
<1>2. QED
  BY <1>1, LimitAssumption DEF Listed

(* An item is listed once exactly if there are as many items as places. *)
LEMMA ListedCounts ==
  ASSUME NEW seq, Listed(seq)
  PROVE  Len(seq) = Cardinality(Ids(seq))
<1> DEFINE n == Len(seq)
           place == [k \in 1 .. n |-> seq[k].id]
<1>1. n \in Nat /\ DOMAIN seq = 1 .. n
  BY LenProperties DEF Listed
<1>2. Ids(seq) = {seq[k].id : k \in 1 .. n}
  BY <1>1 DEF Ids
<1>3. place \in [1 .. n -> Ids(seq)]
  BY <1>2
<1>4. place \in Injection(1 .. n, Ids(seq))
  BY <1>1, <1>3 DEF Listed, Injection, IsInjective
<1>5. place \in Surjection(1 .. n, Ids(seq))
  BY <1>2, <1>3 DEF Surjection
<1>6. ExistsBijection(1 .. n, Ids(seq))
  BY <1>4, <1>5 DEF ExistsBijection, Bijection
<1>7. QED
  BY <1>1, <1>6, FS_CountingElements

LEMMA NewHolds ==
  ASSUME NEW life \in {"starting", "running"}
  PROVE  RowHolds(New(life))
<1>1. New(life) \in Row
  <2>1. <<>> \in Seq(Activity) /\ 0 \in Tools /\ 0 \in Token
    BY LimitAssumption DEF Tools, Token
  <2>2. QED
    BY <2>1 DEF New, Row, Working
<1>2. QED
  BY <1>1, NothingListed DEF RowHolds, New, Terminal

(* A turn's tokens: what the total has grown by, and never less than zero. *)
LEMMA TokensTyped ==
  ASSUME NEW row \in Row
  PROVE  TurnTokens(row) \in Token
<1> DEFINE grown == row.total - row.base
           S == {0, grown}
<1>1. grown \in Int /\ grown <= MaxTokens
  BY LimitAssumption DEF Row, Token
<1>2. PICK x \in S : \A y \in S : x >= y
  <2>1. CASE grown >= 0
    BY <1>1, <2>1
  <2>2. CASE ~(grown >= 0)
    BY <1>1, <2>2
  <2>3. QED
    BY <2>1, <2>2
<1>3. Max(S) \in S /\ \A y \in S : Max(S) >= y
  BY <1>2 DEF Max
<1>4. Max(S) \in Int /\ Max(S) >= 0 /\ Max(S) <= MaxTokens
  BY <1>1, <1>3, LimitAssumption
<1>5. QED
  BY <1>4, LimitAssumption DEF TurnTokens, Token

LEMMA BegunHolds ==
  ASSUME NEW row, RowHolds(row), row.life \notin Terminal
  PROVE  /\ RowHolds(Begun(row)) /\ Begun(row).life = row.life
         /\ Begun(row).approval = row.approval /\ Begun(row).begun
<1>1. CASE row.begun
  BY <1>1 DEF Begun
<1>2. CASE ~row.begun
  <2>1. Begun(row) = [row EXCEPT !.begun = TRUE, !.base = row.total, !.tools = 0]
    BY <1>2 DEF Begun
  <2>2. Begun(row) \in Row
    <3>1. 0 \in Tools /\ row \in Row
      BY LimitAssumption DEF RowHolds, Tools
    <3>2. QED
      BY <2>1, <3>1 DEF Row
  <2>3. /\ Begun(row).life = row.life /\ Begun(row).approval = row.approval
        /\ Begun(row).recent = row.recent /\ Begun(row).stats = row.stats /\ Begun(row).begun
    BY <2>1 DEF RowHolds, Row
  <2>4. QED
    BY <2>2, <2>3 DEF RowHolds
<1>3. QED
  BY <1>1, <1>2

-----------------------------------------------------------------------------
(* Lists of recent activities.                                             *)

LEMMA ListedTyped ==
  ASSUME NEW seq, Listed(seq)
  PROVE  /\ seq \in Seq(Activity) /\ Len(seq) \in Nat /\ DOMAIN seq = 1 .. Len(seq)
         /\ \A k \in DOMAIN seq : seq[k] \in Activity
BY LenProperties DEF Listed

(* Changing the status of items changes no list's length and no id. *)
LEMMA Relabelled ==
  ASSUME NEW seq, Listed(seq), NEW new \in [DOMAIN seq -> Activity],
         \A k \in DOMAIN seq : new[k].id = seq[k].id
  PROVE  Listed(new) /\ Ids(new) = Ids(seq) /\ DOMAIN new = DOMAIN seq
<1>1. Len(seq) \in Nat /\ DOMAIN seq = 1 .. Len(seq)
  BY ListedTyped
<1>2. new \in Seq(Activity)
  BY <1>1, SeqDef
<1>3. Len(new) = Len(seq)
  <2>1. Len(new) \in Nat /\ DOMAIN new = 1 .. Len(new)
    BY <1>2, LenProperties
  <2>2. 1 .. Len(new) = 1 .. Len(seq)
    BY <1>1, <2>1
  <2>3. \A m, n \in Nat : 1 .. m = 1 .. n => m = n
    <3>1. SUFFICES ASSUME NEW m \in Nat, NEW n \in Nat, 1 .. m = 1 .. n PROVE m <= n
      BY SMT
    <3>2. m = 0 \/ m \in 1 .. m
      OBVIOUS
    <3>3. QED
      BY <3>1, <3>2
  <2>4. QED
    BY <1>1, <2>1, <2>2, <2>3
<1>4. Ids(new) = Ids(seq)
  BY DEF Ids
<1>5. QED
  BY <1>2, <1>3, <1>4 DEF Listed

(* A new item goes last, and the oldest one makes room for it. *)
LEMMA Appended ==
  ASSUME NEW seq, Listed(seq), NEW entry \in Activity, entry.id \notin Ids(seq)
  PROVE  Listed(Append(IF Len(seq) = RecentLimit THEN Tail(seq) ELSE seq, entry))
<1> DEFINE kept == IF Len(seq) = RecentLimit THEN Tail(seq) ELSE seq
<1>1. seq \in Seq(Activity) /\ Len(seq) \in Nat /\ DOMAIN seq = 1 .. Len(seq)
  BY ListedTyped
<1>2. RecentLimit \in Nat \ {0} /\ Len(seq) <= RecentLimit
  BY LimitAssumption DEF Listed
<1>3. /\ kept \in Seq(Activity) /\ Len(kept) + 1 <= RecentLimit /\ Len(kept) \in Nat
      /\ \A j, k \in 1 .. Len(kept) : kept[j].id = kept[k].id => j = k
      /\ \A k \in 1 .. Len(kept) : kept[k].id # entry.id
  <2>1. CASE Len(seq) = RecentLimit
    <3>1. seq # <<>>
      BY <1>2, <2>1
    <3>2. /\ kept = Tail(seq) /\ Tail(seq) \in Seq(Activity) /\ Len(Tail(seq)) = Len(seq) - 1
          /\ \A k \in 1 .. Len(Tail(seq)) : Tail(seq)[k] = seq[k + 1]
      BY <1>1, <2>1, <3>1, HeadTailProperties
    <3>3. Len(kept) = Len(seq) - 1 /\ Len(kept) \in Nat
      BY <1>2, <2>1, <3>2
    <3>4. \A k \in 1 .. Len(kept) : k + 1 \in DOMAIN seq /\ kept[k] = seq[k + 1]
      <4>1. \A m, n \in Nat : m = n - 1 => \A k \in 1 .. m : k + 1 \in 1 .. n
        OBVIOUS
      <4>2. \A k \in 1 .. Len(kept) : k + 1 \in 1 .. Len(seq)
        BY <1>1, <3>3, <4>1
      <4>3. \A k \in 1 .. Len(kept) : kept[k] = seq[k + 1]
        BY <3>2
      <4>4. QED
        BY <1>1, <4>2, <4>3
    <3>5. \A j, k \in 1 .. Len(kept) : kept[j].id = kept[k].id => j = k
      <4> SUFFICES ASSUME NEW j \in 1 .. Len(kept), NEW k \in 1 .. Len(kept),
                          kept[j].id = kept[k].id
                   PROVE  j = k
        OBVIOUS
      <4>1. j + 1 = k + 1
        BY <3>4 DEF Listed
      <4>2. QED
        BY <3>3, <4>1
    <3>6. \A k \in 1 .. Len(kept) : kept[k].id # entry.id
      BY <3>4 DEF Ids
    <3>7. QED
      BY <1>1, <1>2, <2>1, <3>2, <3>3, <3>5, <3>6
  <2>2. CASE Len(seq) # RecentLimit
    <3>1. kept = seq
      BY <2>2
    <3>2. Len(seq) + 1 <= RecentLimit
      <4>1. \A m, n \in Nat : m <= n /\ m # n => m + 1 <= n
        OBVIOUS
      <4>2. QED
        BY <1>1, <1>2, <2>2, <4>1
    <3>3. QED
      BY <1>1, <3>1, <3>2 DEF Listed, Ids
  <2>3. QED
    BY <2>1, <2>2
<1> HIDE DEF kept
<1> DEFINE new == Append(kept, entry)
<1>4. /\ new \in Seq(Activity) /\ Len(new) = Len(kept) + 1
      /\ \A k \in 1 .. Len(kept) : new[k] = kept[k]
      /\ new[Len(kept) + 1] = entry
  BY <1>3, AppendProperties
<1> HIDE DEF new
<1>5. DOMAIN new = 1 .. Len(kept) + 1
  BY <1>4, LenProperties
<1>6. \A k \in DOMAIN new : k \in 1 .. Len(kept) \/ k = Len(kept) + 1
  BY <1>3, <1>5
<1>7. \A j, k \in DOMAIN new : new[j].id = new[k].id => j = k
  <2> SUFFICES ASSUME NEW j \in DOMAIN new, NEW k \in DOMAIN new, new[j].id = new[k].id
               PROVE  j = k
    OBVIOUS
  <2>1. CASE j \in 1 .. Len(kept) /\ k \in 1 .. Len(kept)
    BY <1>3, <1>4, <2>1
  <2>2. CASE j \in 1 .. Len(kept) /\ k = Len(kept) + 1
    BY <1>3, <1>4, <2>2
  <2>3. CASE k \in 1 .. Len(kept) /\ j = Len(kept) + 1
    BY <1>3, <1>4, <2>3
  <2>4. QED
    BY <1>6, <2>1, <2>2, <2>3
<1>8. Listed(new)
  BY <1>3, <1>4, <1>7 DEF Listed
<1>9. QED
  BY <1>8 DEF new, kept

-----------------------------------------------------------------------------
(* What the reducers make of a row that is at work.                        *)

LEMMA ReleasedHolds ==
  ASSUME NEW row, RowHolds(row), row.life \notin Terminal, NEW i \in Item
  PROVE  /\ RowHolds(Released(row, i)) /\ Released(row, i).life \notin Terminal
<1>1. CASE ~(row.approval # NoApproval /\ row.approval.item = i)
  BY <1>1 DEF Released, Releases
<1>2. CASE row.approval # NoApproval /\ row.approval.item = i
  <2>1. row \in Row /\ row.life = "approval" /\ row.approval \in Approval
    BY <1>2 DEF RowHolds, Row
  <2>2. row.approval.life \in Working
    BY <2>1 DEF Approval
  <2>3. Released(row, i) = [row EXCEPT !.approval = NoApproval, !.life = row.approval.life]
    BY <1>2, <2>1 DEF Released, Releases, Row
  <2>4. Released(row, i) \in Row
    BY <2>1, <2>2, <2>3 DEF Row
  <2>5. /\ Released(row, i).life = row.approval.life /\ Released(row, i).approval = NoApproval
        /\ Released(row, i).recent = row.recent /\ Released(row, i).stats = row.stats
    BY <2>1, <2>3 DEF Row
  <2>6. row.approval.life \notin Terminal /\ row.approval.life # "approval"
    BY <2>2 DEF Working, Terminal
  <2>7. QED
    BY <2>4, <2>5, <2>6 DEF RowHolds
<1>3. QED
  BY <1>1, <1>2

LEMMA ActivityHolds ==
  ASSUME NEW row, RowHolds(row), row.life \notin Terminal, NEW i \in Item,
         NEW status \in ItemStatus, WithActivity(row, i, status).tools <= MaxTools
  PROVE  /\ RowHolds(WithActivity(row, i, status))
         /\ WithActivity(row, i, status).life = row.life
<1> DEFINE entry == [id |-> i, status |-> status]
           kept == IF Len(row.recent) = RecentLimit THEN Tail(row.recent) ELSE row.recent
           evicted == Ids(row.recent) \ Ids(kept)
           list == [k \in DOMAIN row.recent |->
                      IF row.recent[k].id = i /\ row.recent[k].status \notin Ended
                        THEN entry ELSE row.recent[k]]
           tools == IF status = "running" THEN row.tools + 1 ELSE row.tools
           approval == IF row.approval # NoApproval /\ row.approval.item \in evicted
                         THEN [row.approval EXCEPT !.status = NoStatus] ELSE row.approval
<1>0. row \in Row /\ Listed(row.recent) /\ entry \in Activity
  BY DEF RowHolds, Activity
<1>1. CASE i \in Ids(row.recent)
  <2>1. WithActivity(row, i, status) = [row EXCEPT !.recent = list]
    BY <1>0, <1>1 DEF WithActivity, Row
  <2>2. list \in [DOMAIN row.recent -> Activity]
    BY <1>0, ListedTyped
  <2>3. \A k \in DOMAIN row.recent : list[k].id = row.recent[k].id
    OBVIOUS
  <2> HIDE DEF list
  <2>4. Listed(list)
    BY <1>0, <2>2, <2>3, Relabelled
  <2>5. [row EXCEPT !.recent = list] \in Row
    BY <1>0, <2>4 DEF Listed, Row
  <2>6. /\ [row EXCEPT !.recent = list].recent = list
        /\ [row EXCEPT !.recent = list].life = row.life
        /\ [row EXCEPT !.recent = list].approval = row.approval
        /\ [row EXCEPT !.recent = list].stats = row.stats
    BY <1>0 DEF Row
  <2>7. QED
    BY <2>1, <2>4, <2>5, <2>6 DEF RowHolds
<1>2. CASE i \notin Ids(row.recent)
  <2>1. WithActivity(row, i, status) =
          [row EXCEPT !.tools = tools, !.recent = Append(kept, entry), !.approval = approval]
    BY <1>0, <1>2 DEF WithActivity, Row
  <2>2. Listed(Append(kept, entry))
    BY <1>0, <1>2, Appended
  <2>3. approval \in Approval \cup {NoApproval} /\ (approval = NoApproval <=> row.approval = NoApproval)
    <3>1. CASE row.approval # NoApproval /\ row.approval.item \in evicted
      <4>1. row.approval \in Approval
        BY <1>0, <3>1 DEF Row
      <4>2. [row.approval EXCEPT !.status = NoStatus] \in Approval
        BY <4>1 DEF Approval
      <4>3. QED
        BY <3>1, <4>2, NoneAssumption
    <3>2. CASE ~(row.approval # NoApproval /\ row.approval.item \in evicted)
      <4>1. approval = row.approval
        BY <3>2
      <4>2. QED
        BY <1>0, <4>1 DEF Row
    <3>3. QED
      BY <3>1, <3>2
  <2> DEFINE recent == Append(kept, entry)
             new == [row EXCEPT !.tools = tools, !.recent = recent, !.approval = approval]
  <2>4. tools \in Int /\ tools >= 0
    BY <1>0, LimitAssumption DEF Row, Tools
  <2> HIDE DEF approval, tools, recent
  <2>5. /\ new.recent = recent /\ new.approval = approval /\ new.tools = tools
        /\ new.life = row.life /\ new.stats = row.stats
    BY <1>0 DEF Row
  <2>6. WithActivity(row, i, status) = new /\ Listed(recent)
    BY <2>1, <2>2 DEF recent
  <2>7. tools \in Tools
    BY <2>4, <2>5, <2>6, LimitAssumption DEF Tools
  <2>8. new \in Row
    BY <1>0, <2>3, <2>6, <2>7 DEF Listed, Row
  <2> HIDE DEF new
  <2>9. QED
    BY <2>3, <2>5, <2>6, <2>8 DEF RowHolds
<1>3. QED
  BY <1>1, <1>2

LEMMA ResumedHolds ==
  ASSUME NEW row, RowHolds(row), row.life \notin Terminal
  PROVE  RowHolds(Resumed(row)) /\ Resumed(row).life \notin Terminal
<1>1. CASE ~(row.approval = NoApproval /\ row.life \in {"starting", "waiting", "approval"})
  BY <1>1 DEF Resumed, Resumes
<1>2. CASE row.approval = NoApproval /\ row.life \in {"starting", "waiting", "approval"}
  <2>1. Resumed(row) = [row EXCEPT !.life = "running"] /\ row \in Row
    BY <1>2 DEF Resumed, Resumes, RowHolds
  <2>2. Resumed(row) \in Row
    BY <2>1 DEF Row, Working
  <2>3. /\ Resumed(row).life = "running" /\ Resumed(row).approval = row.approval
        /\ Resumed(row).recent = row.recent /\ Resumed(row).stats = row.stats
    BY <2>1 DEF Row
  <2>4. QED
    BY <1>2, <2>2, <2>3 DEF RowHolds, Terminal
<1>3. QED
  BY <1>1, <1>2

LEMMA RestoredHolds ==
  ASSUME NEW row \in Row, Listed(row.recent), NEW approval \in Approval
  PROVE  /\ Restored(row, approval) \in Row /\ Listed(Restored(row, approval).recent)
         /\ Restored(row, approval).life = row.life
         /\ Restored(row, approval).approval = row.approval
         /\ Restored(row, approval).stats = row.stats
<1>1. CASE approval.status = NoStatus
  BY <1>1 DEF Restored
<1>2. CASE approval.status # NoStatus
  <2> DEFINE list == [k \in DOMAIN row.recent |->
                        IF row.recent[k].id = approval.item /\ row.recent[k].status = "approval"
                          THEN [row.recent[k] EXCEPT !.status = approval.status]
                          ELSE row.recent[k]]
  <2>1. Restored(row, approval) = [row EXCEPT !.recent = list]
    BY <1>2 DEF Restored, Row
  <2>2. approval.status \in ItemStatus
    BY <1>2 DEF Approval
  <2>3. ASSUME NEW k \in DOMAIN row.recent
        PROVE  list[k] \in Activity /\ list[k].id = row.recent[k].id
    <3>1. row.recent[k] \in Activity
      BY ListedTyped
    <3>2. QED
      BY <2>2, <3>1 DEF Activity
  <2>4. list \in [DOMAIN row.recent -> Activity]
    BY <2>3
  <2> HIDE DEF list
  <2>5. Listed(list)
    BY <2>3, <2>4, Relabelled
  <2>6. QED
    BY <2>1, <2>5 DEF Listed, Row
<1>3. QED
  BY <1>1, <1>2

(* The request before is undone, the new one opened. *)
LEMMA WaitingHolds ==
  ASSUME NEW row, RowHolds(row), row.life \notin Terminal,
         NEW q \in Request, NEW i \in Item \cup {NoItem}
  PROVE  RowHolds(Waiting(row, q, i)) /\ Waiting(row, q, i).life = "approval"
<1> DEFINE undone == IF row.approval = NoApproval THEN row ELSE Restored(row, row.approval)
           life == IF row.approval # NoApproval THEN row.approval.life
                   ELSE IF row.life = "approval" THEN "running" ELSE row.life
           open == {k \in DOMAIN undone.recent :
                      undone.recent[k].id = i /\ undone.recent[k].status \notin Ended}
           list == [k \in DOMAIN undone.recent |->
                      IF k \in open THEN [undone.recent[k] EXCEPT !.status = "approval"]
                                    ELSE undone.recent[k]]
           status == IF open = {} THEN NoStatus
                     ELSE undone.recent[CHOOSE k \in open : TRUE].status
           approval == [request |-> q, item |-> i, life |-> life, status |-> status]
<1>0. row \in Row /\ Listed(row.recent) /\ row.stats = NoStats
  BY DEF RowHolds
<1>1. row.approval # NoApproval => row.approval \in Approval
  BY <1>0 DEF Row
<1>2. undone \in Row /\ Listed(undone.recent) /\ undone.stats = NoStats
  BY <1>0, <1>1, RestoredHolds
<1>3. life \in Working
  <2>1. CASE row.approval # NoApproval
    BY <1>1, <2>1 DEF Approval
  <2>2. CASE row.approval = NoApproval
    <3>1. row.life \in Working
      BY <1>0, <2>2 DEF RowHolds, Row
    <3>2. QED
      BY <2>2, <3>1 DEF Working
  <2>3. QED
    BY <2>1, <2>2
<1>4. Waiting(row, q, i) = [undone EXCEPT !.life = "approval", !.recent = list, !.approval = approval]
  BY <1>2 DEF Waiting, Row
<1> HIDE DEF undone, life
<1>5. ASSUME NEW k \in DOMAIN undone.recent
      PROVE  /\ list[k] \in Activity /\ list[k].id = undone.recent[k].id
             /\ undone.recent[k].status \in ItemStatus
  <2>1. undone.recent[k] \in Activity
    BY <1>2, ListedTyped
  <2>2. QED
    BY <2>1 DEF Activity, ItemStatus
<1>6. list \in [DOMAIN undone.recent -> Activity]
  BY <1>5
<1>7. status \in ItemStatus \cup {NoStatus}
  BY <1>5
<1>8. approval \in Approval
  BY <1>3, <1>7 DEF Approval
<1> HIDE DEF open, status, approval
<1>9. Listed(list)
  <2>1. \A k \in DOMAIN undone.recent : list[k].id = undone.recent[k].id
    BY <1>5
  <2> HIDE DEF list
  <2>2. QED
    BY <1>2, <1>6, <2>1, Relabelled
<1> HIDE DEF list
<1> DEFINE new == [undone EXCEPT !.life = "approval", !.recent = list, !.approval = approval]
<1>10. new \in Row
  BY <1>2, <1>8, <1>9 DEF Listed, Row
<1>11. /\ new.life = "approval" /\ new.recent = list /\ new.approval = approval
       /\ new.stats = NoStats
  BY <1>2 DEF Row
<1>12. approval # NoApproval
  BY <1>8, NoneAssumption
<1> HIDE DEF new
<1>13. RowHolds(new)
  BY <1>9, <1>10, <1>11, <1>12 DEF RowHolds, Terminal
<1>14. QED
  BY <1>4, <1>11, <1>13 DEF new

(* A reconciliation leaves every row it keeps running. *)
LEMMA HydratedHolds ==
  ASSUME NEW row, RowHolds(row)
  PROVE  RowHolds(Hydrated(row)) /\ Hydrated(row).life = "running"
<1> DEFINE cleared == [row EXCEPT !.life = "running", !.approval = NoApproval, !.stats = NoStats]
           again == [cleared EXCEPT !.recent = <<>>, !.begun = FALSE, !.tools = 0, !.base = row.total]
<1>0. row \in Row /\ Listed(row.recent) /\ 0 \in Tools
  BY LimitAssumption DEF RowHolds, Tools
<1>1. RowHolds(cleared) /\ cleared.life = "running"
  <2>1. cleared \in Row
    BY <1>0 DEF Row, Working
  <2>2. /\ cleared.life = "running" /\ cleared.approval = NoApproval
        /\ cleared.stats = NoStats /\ cleared.recent = row.recent
    BY <1>0 DEF Row
  <2>3. QED
    BY <1>0, <2>1, <2>2 DEF RowHolds, Terminal
<1>2. RowHolds(again) /\ again.life = "running"
  <2>1. cleared \in Row /\ row.total \in Token /\ <<>> \in Seq(Activity)
    BY <1>0, <1>1 DEF RowHolds, Row
  <2>2. /\ cleared.approval = NoApproval /\ cleared.stats = NoStats
    BY <1>0 DEF Row
  <2>3. cleared.life = "running"
    BY <1>1
  <2> HIDE DEF cleared
  <2>4. again \in Row
    BY <1>0, <2>1 DEF Row
  <2>5. /\ again.life = "running" /\ again.approval = NoApproval
        /\ again.stats = NoStats /\ again.recent = <<>>
    BY <2>1, <2>2, <2>3 DEF Row
  <2>6. QED
    BY <2>4, <2>5, NothingListed DEF RowHolds, Terminal
<1>3. Hydrated(row) = Begun(IF row.life \in Terminal THEN again ELSE cleared)
  BY DEF Hydrated
<1> HIDE DEF again, cleared
<1>4. CASE row.life \in Terminal
  BY <1>2, <1>3, <1>4, BegunHolds DEF Terminal
<1>5. CASE row.life \notin Terminal
  BY <1>1, <1>3, <1>5, BegunHolds DEF Terminal
<1>6. QED
  BY <1>4, <1>5

LEMMA FinishedHolds ==
  ASSUME NEW row, RowHolds(row), NEW status \in Terminal, NEW tools \in Tools
  PROVE  RowHolds(Finished(row, status, tools))
<1> DEFINE new == [row EXCEPT !.life = status, !.recent = <<>>, !.approval = NoApproval,
                              !.stats = [tools |-> tools, tokens |-> TurnTokens(row)]]
<1>0. row \in Row /\ <<>> \in Seq(Activity)
  BY DEF RowHolds
<1>1. [tools |-> tools, tokens |-> TurnTokens(row)] \in Stats
  BY <1>0, TokensTyped DEF Stats
<1>2. new \in Row
  BY <1>0, <1>1 DEF Row
<1>3. /\ new.life = status /\ new.recent = <<>> /\ new.approval = NoApproval
      /\ new.stats = [tools |-> tools, tokens |-> TurnTokens(row)]
      /\ new.total = row.total /\ new.base = row.base
  BY <1>0 DEF Row
<1>4. TurnTokens(new) = TurnTokens(row)
  BY <1>3 DEF TurnTokens
<1>5. new.stats # NoStats
  BY <1>1, <1>3, NoneAssumption
<1>6. Finished(row, status, tools) = new
  BY DEF Finished
<1> HIDE DEF new
<1>7. new.stats.tokens = TurnTokens(new)
  BY <1>3, <1>4
<1>8. new.life # "approval" /\ new.life \in Terminal
  BY <1>3 DEF Terminal
<1>9. QED
  BY <1>2, <1>3, <1>5, <1>6, <1>7, <1>8, NothingListed DEF RowHolds

(* A new total of a finished row changes its tokens and nothing else. *)
TotalOf(row, total) ==
  LET new == [row EXCEPT !.total = total]
  IN IF new.stats = NoStats THEN new ELSE [new EXCEPT !.stats.tokens = TurnTokens(new)]

LEMMA TotalHolds ==
  ASSUME NEW row, RowHolds(row), NEW total \in Token
  PROVE  /\ RowHolds(TotalOf(row, total)) /\ Settled(row, TotalOf(row, total))
         /\ TotalOf(row, total).total = total /\ TotalOf(row, total).life = row.life
         /\ total = row.total => TotalOf(row, total) = row
<1> DEFINE new == [row EXCEPT !.total = total]
           told == [new.stats EXCEPT !.tokens = TurnTokens(new)]
           done == [new EXCEPT !.stats = told]
<1>0. row \in Row /\ Listed(row.recent)
  BY DEF RowHolds
<1>1. /\ new \in Row /\ new.total = total /\ new.life = row.life /\ new.recent = row.recent
      /\ new.approval = row.approval /\ new.stats = row.stats /\ new.base = row.base
      /\ total = row.total => new = row
  BY <1>0 DEF Row
<1>2. TotalOf(row, total) = IF new.stats = NoStats THEN new ELSE done
  BY DEF TotalOf
<1>3. total = row.total => TurnTokens(new) = TurnTokens(row)
  BY <1>1 DEF TurnTokens
<1>4. TurnTokens(new) \in Token
  BY <1>1, TokensTyped
<1> HIDE DEF new
<1>5. CASE row.stats = NoStats
  <2>1. TotalOf(row, total) = new /\ row.life \notin Terminal
    BY <1>1, <1>2, <1>5 DEF RowHolds
  <2>2. RowHolds(new)
    BY <1>0, <1>1, <1>5, <2>1 DEF RowHolds
  <2>3. QED
    BY <1>1, <2>1, <2>2 DEF Settled
<1>6. CASE row.stats # NoStats
  <2>1. /\ new.stats \in Stats /\ row.life \in Terminal /\ row.recent = <<>>
        /\ row.stats.tokens = TurnTokens(row)
    BY <1>0, <1>1, <1>6 DEF RowHolds, Row
  <2>2. /\ told \in Stats /\ told.tools = row.stats.tools /\ told.tokens = TurnTokens(new)
        /\ total = row.total => told = row.stats
    BY <1>1, <1>3, <1>4, <2>1 DEF Stats
  <2> HIDE DEF told
  <2>3. /\ done \in Row /\ done.stats = told /\ done.life = row.life /\ done.recent = row.recent
        /\ done.approval = row.approval /\ done.total = total /\ done.base = new.base
        /\ total = row.total => done = row
    BY <1>1, <2>2 DEF Row
  <2>4. TurnTokens(done) = TurnTokens(new)
    BY <1>1, <2>3 DEF TurnTokens
  <2>5. told # NoStats
    BY <2>2, NoneAssumption
  <2>6. TotalOf(row, total) = done
    BY <1>1, <1>2, <1>6
  <2> HIDE DEF done
  <2>7. RowHolds(done)
    BY <1>0, <2>1, <2>2, <2>3, <2>4, <2>5 DEF RowHolds
  <2>8. QED
    BY <2>2, <2>3, <2>6, <2>7 DEF Settled
<1>7. QED
  BY <1>5, <1>6

-----------------------------------------------------------------------------
(* finish_change keeps the invariant, whatever sound rows it is handed.    *)

LEMMA ReduceHolds ==
  ASSUME IInv, NEW new, NEW arch, NEW changed,
         Sound(new, arch, changed), AtWork(new), Reduce(new, arch, changed)
  PROVE  IInv'
<1>1. /\ rows' \in [Thread -> Row \cup {NoRow}] /\ batch' \in [Thread -> Row \cup {NoRow}]
      /\ archived' \subseteq Thread
  BY DEF Reduce, Sound, NoBatch
<1>2. missed' \subseteq Thread /\ frame' \in BOOLEAN
  BY DEF Reduce, IInv, Sound, Missed
<1>3. \A t \in Shown' : RowHolds(rows'[t]) /\ t \notin archived'
  BY DEF Reduce, Sound, Shown
<1>4. FinishedBatchIsTaken'
  BY DEF Reduce, AtWork, FinishedBatchIsTaken, Shown, IsTerminal
<1>5. ScreenIsCurrent'
  <2> SUFFICES ASSUME NEW t \in missed' PROVE rows'[t] = New("running")
    BY DEF ScreenIsCurrent
  <2>1. ~(frame \/ changed) /\ t \in Thread /\ rows'[t] = new[t]
    BY <1>2 DEF Reduce, Missed
  <2>2. t \in missed \/ Picture(new[t]) # Picture(rows[t])
    BY <2>1 DEF Reduce, Missed
  <2>3. Unseen(rows[t], new[t])
    BY <2>1 DEF Sound
  <2>4. CASE new[t] = rows[t]
    BY <2>1, <2>2, <2>4 DEF IInv, ScreenIsCurrent
  <2>5. CASE new[t] # rows[t] /\ ~(rows[t] = NoRow /\ new[t] = New("running"))
    BY <2>2, <2>3, <2>5 DEF Unseen, Picture, IInv, ScreenIsCurrent
  <2>6. QED
    BY <2>1, <2>4, <2>5
<1>6. \A t \in Shown' : RowHolds(rows[t])'
  BY <1>3
<1>7. ArchivedIsHidden'
  BY <1>3 DEF ArchivedIsHidden
<1>8. QED
  BY <1>1, <1>2, <1>4, <1>5, <1>6, <1>7 DEF IInv

(* A batch is taken only if its last row has just ended: the change is noted. *)
LEMMA NotifyHolds ==
  ASSUME IInv, NEW new, NEW arch, NEW changed,
         Sound(new, arch, changed), Notify(new, arch, changed)
  PROVE  IInv'
<1> DEFINE shown == {t \in Thread : new[t] # NoRow}
           taken == shown # {} /\ \A t \in shown : new[t].life \in Terminal
<1>1. CASE ~taken
  <2>1. Reduce(new, arch, changed)
    BY <1>1 DEF Notify
  <2>2. AtWork(new)
    BY <1>1 DEF AtWork
  <2>3. QED
    BY <2>1, <2>2, ReduceHolds
<1>2. CASE taken
  <2>1. /\ rows' = [t \in Thread |-> NoRow] /\ archived' = arch \cup shown /\ batch' = new
        /\ frame' = (frame \/ changed) /\ missed' = Missed(NoBatch, changed)
    BY <1>2 DEF Notify
  <2>2. changed
    <3> SUFFICES ASSUME ~changed PROVE FALSE
      OBVIOUS
    <3>1. New("running").life \notin Terminal
      BY NewHolds DEF New, Terminal
    <3>2. \A t \in Thread : Unseen(rows[t], new[t])
      BY DEF Sound
    <3>3. ASSUME NEW t \in Thread, new[t] # NoRow
          PROVE  rows[t] # NoRow
      BY <1>2, <3>1, <3>2, <3>3 DEF Unseen
    <3>4. ASSUME NEW t \in Shown
          PROVE  IsTerminal(t)
      <4>1. t \in Thread /\ rows[t] # NoRow
        BY <3>4 DEF Shown
      <4>2. new[t] # NoRow /\ new[t].life = rows[t].life
        BY <3>2, <4>1, NoneAssumption, NewHolds DEF Unseen, RowHolds
      <4>3. QED
        BY <1>2, <4>1, <4>2 DEF IsTerminal
    <3>5. Shown # {}
      BY <1>2, <3>3 DEF Shown
    <3>6. QED
      BY <3>4, <3>5 DEF IInv, FinishedBatchIsTaken
  <2>3. Shown' = {}
    BY <2>1 DEF Shown
  <2>4. /\ rows' \in [Thread -> Row \cup {NoRow}] /\ batch' \in [Thread -> Row \cup {NoRow}]
        /\ archived' \subseteq Thread
    BY <2>1 DEF Sound
  <2>5. missed' = {} /\ frame' \in BOOLEAN
    BY <2>1, <2>2 DEF IInv, Sound, Missed
  <2>6. ScreenIsCurrent'
    BY <2>5 DEF ScreenIsCurrent
  <2>7. QED
    BY <2>3, <2>4, <2>5, <2>6 DEF IInv, ArchivedIsHidden, FinishedBatchIsTaken
<1>3. QED
  BY <1>1, <1>2

-----------------------------------------------------------------------------
(* Every reducer hands finish_change sound rows.                           *)

Reduced ==
  \E new, arch, changed :
    /\ Sound(new, arch, changed)
    /\ Notify(new, arch, changed) \/ (Reduce(new, arch, changed) /\ AtWork(new))

LEMMA EntryHolds ==
  ASSUME IInv, NEW t \in Thread
  PROVE  /\ RowHolds(Entry(t, "running")) /\ Entry(t, "running") # NoRow
         /\ rows[t] # NoRow => Entry(t, "running") = rows[t]
         /\ rows[t] = NoRow => Entry(t, "running") = New("running")
         /\ ~IsTerminal(t) => Entry(t, "running").life \notin Terminal
<1>1. CASE rows[t] = NoRow
  <2>1. Entry(t, "running") = New("running") /\ RowHolds(New("running"))
    BY <1>1, NewHolds DEF Entry
  <2>2. New("running").life \notin Terminal /\ New("running") # NoRow
    BY <2>1, NoneAssumption DEF New, Terminal, RowHolds
  <2>3. QED
    BY <1>1, <2>1, <2>2
<1>2. CASE rows[t] # NoRow
  BY <1>2 DEF Entry, IInv, Shown, IsTerminal
<1>3. QED
  BY <1>1, <1>2

LEMMA SameSound ==
  ASSUME IInv
  PROVE  Sound(rows, archived, FALSE) /\ AtWork(rows)
<1>1. \A t \in Thread : Settled(rows[t], rows[t])
  BY DEF Settled
<1>2. \A t \in Thread : rows[t] # NoRow => RowHolds(rows[t]) /\ t \notin archived
  BY DEF IInv, Shown, ArchivedIsHidden
<1>3. AtWork(rows)
  BY DEF IInv, AtWork, FinishedBatchIsTaken, Shown, IsTerminal
<1>4. \A t \in Thread : Unseen(rows[t], rows[t])
  BY DEF Unseen
<1>5. QED
  BY <1>1, <1>2, <1>3, <1>4 DEF IInv, Sound

(* The start of a turn that goes unnoticed does not show. *)
LEMMA BegunUnseen ==
  ASSUME IInv, NEW t \in Thread
  PROVE  Unseen(rows[t], Begun(Entry(t, "running")))
<1> DEFINE row == Entry(t, "running")
<1>0. New("running").begun
  BY DEF New
<1>1. CASE rows[t] = NoRow
  BY <1>0, <1>1, EntryHolds DEF Begun, Unseen
<1>2. CASE rows[t] # NoRow
  <2>1. row = rows[t] /\ RowHolds(row) /\ row \in Row
    BY <1>2, EntryHolds DEF RowHolds
  <2> HIDE DEF row
  <2>2. ASSUME row.begun PROVE Unseen(row, Begun(row))
    BY <2>2 DEF Begun, Unseen
  <2>3. ASSUME ~row.begun PROVE Unseen(row, Begun(row))
    <3>1. Begun(row) = [row EXCEPT !.begun = TRUE, !.base = row.total, !.tools = 0]
      BY <2>3 DEF Begun
    <3>2. /\ Begun(row).life = row.life /\ Begun(row).recent = row.recent
          /\ Begun(row).stats = row.stats /\ Begun(row) \in Row
      <4>1. 0 \in Tools
        BY LimitAssumption DEF Tools
      <4>2. QED
        BY <2>1, <3>1, <4>1 DEF Row
    <3>3. row # New("running") /\ row # NoRow /\ Begun(row) # NoRow
      BY <1>0, <2>1, <2>3, <3>2, NoneAssumption
    <3>4. QED
      BY <3>2, <3>3 DEF Unseen
  <2>4. QED
    BY <2>1, <2>2, <2>3 DEF row
<1>3. QED
  BY <1>1, <1>2

LEMMA RowSound ==
  ASSUME IInv, NEW t \in Thread, NEW arch, arch = archived \/ arch = archived \ {t},
         NEW row, row # NoRow => RowHolds(row) /\ t \notin arch,
         Settled(rows[t], row), NEW changed \in BOOLEAN,
         ~changed => Unseen(rows[t], row)
  PROVE  Sound([rows EXCEPT ![t] = row], arch, changed)
<1> DEFINE new == [rows EXCEPT ![t] = row]
<1>0. rows \in [Thread -> Row \cup {NoRow}] /\ archived \subseteq Thread
  BY DEF IInv
<1>1. row \in Row \cup {NoRow}
  BY DEF RowHolds
<1>2. new[t] = row /\ \A u \in Thread : u # t => new[u] = rows[u]
  BY <1>0
<1>3. new \in [Thread -> Row \cup {NoRow}]
  BY <1>0, <1>1
<1> HIDE DEF new
<1>5. \A u \in Thread : new[u] # NoRow => RowHolds(new[u]) /\ u \notin arch
  BY <1>2 DEF IInv, Shown, ArchivedIsHidden
<1>6. \A u \in Thread : Settled(rows[u], new[u])
  BY <1>2 DEF Settled
<1>7. ~changed => \A u \in Thread : Unseen(rows[u], new[u])
  BY <1>2 DEF Unseen
<1>8. Sound(new, arch, changed)
  BY <1>0, <1>3, <1>5, <1>6, <1>7 DEF Sound
<1>9. QED
  BY <1>8 DEF new

LEMMA IgnoreReduces ==
  ASSUME IInv, Ignore \/ Reduce(rows, archived, FALSE)
  PROVE  Reduced
BY SameSound DEF Ignore, Reduced

(* A new row of a thread that is not archived, its change noted. *)
LEMMA SetRowReduces ==
  ASSUME IInv, NEW t \in Thread, t \notin archived, NEW row, RowHolds(row),
         Settled(rows[t], row), NEW changed \in BOOLEAN,
         ~changed => Unseen(rows[t], row),
         SetRow(t, row, changed)
  PROVE  Reduced
<1>1. Sound([rows EXCEPT ![t] = row], archived, changed)
  BY RowSound
<1>2. QED
  BY <1>1 DEF SetRow, Reduced

LEMMA NotTerminalSettles ==
  ASSUME NEW t \in Thread, ~IsTerminal(t), NEW next
  PROVE  Settled(rows[t], next)
BY DEF IsTerminal, Settled

LEMMA WorkingSettles ==
  ASSUME NEW row, NEW next, next.life \notin Terminal
  PROVE  Settled(row, next)
BY DEF Settled

(* A row at work keeps the batch at work. *)
LEMMA RowAtWork ==
  ASSUME IInv, NEW t \in Thread, NEW row, row # NoRow, row.life \notin Terminal
  PROVE  AtWork([rows EXCEPT ![t] = row])
<1>1. [rows EXCEPT ![t] = row][t] = row
  BY DEF IInv
<1>2. QED
  BY <1>1 DEF AtWork

LEMMA ShownRow ==
  ASSUME NEW row, RowHolds(row)
  PROVE  row # NoRow
BY NoneAssumption DEF RowHolds

LEMMA EnsureStartedReduces ==
  ASSUME IInv, NEW t \in Thread, EnsureStarted(t)
  PROVE  Reduced
<1>1. CASE rows[t] # NoRow
  BY <1>1, IgnoreReduces DEF EnsureStarted
<1>2. CASE rows[t] = NoRow
  <2> DEFINE row == New("starting")
  <2>1. RowHolds(row) /\ row.life \notin Terminal
    BY NewHolds DEF New, Terminal
  <2> HIDE DEF row
  <2>2. Settled(rows[t], row) /\ t \notin archived \ {t}
    BY <1>2 DEF Settled
  <2>3. Sound([rows EXCEPT ![t] = row], archived \ {t}, TRUE)
    BY <2>1, <2>2, RowSound
  <2>4. AtWork([rows EXCEPT ![t] = row])
    BY <2>1, RowAtWork, ShownRow
  <2>5. Reduce([rows EXCEPT ![t] = row], archived \ {t}, TRUE)
    BY <1>2 DEF EnsureStarted, row
  <2>6. QED
    BY <2>3, <2>4, <2>5 DEF Reduced
<1>3. QED
  BY <1>1, <1>2

LEMMA SameActivity ==
  ASSUME NEW row, RowHolds(row), NEW i, NEW status, ~Moves(row, i, status)
  PROVE  WithActivity(row, i, status) = row
<1> DEFINE entry == [id |-> i, status |-> status]
           list == [k \in DOMAIN row.recent |->
                      IF row.recent[k].id = i /\ row.recent[k].status \notin Ended
                        THEN entry ELSE row.recent[k]]
<1>0. row \in Row /\ row.recent \in Seq(Activity)
  BY DEF RowHolds, Row
<1>1. i \in Ids(row.recent)
  BY DEF Moves
<1>2. WithActivity(row, i, status) = [row EXCEPT !.recent = list]
  BY <1>0, <1>1 DEF WithActivity, Row
<1>3. ASSUME NEW k \in DOMAIN row.recent
      PROVE  list[k] = row.recent[k]
  <2>1. row.recent[k] \in Activity
    BY <1>0
  <2>2. row.recent[k].id = i /\ row.recent[k].status \notin Ended => row.recent[k].status = status
    BY DEF Moves
  <2>3. QED
    BY <2>1, <2>2 DEF Activity
<1>4. list = row.recent
  <2>1. row.recent = [k \in DOMAIN row.recent |-> row.recent[k]]
    BY <1>0
  <2>2. QED
    BY <1>3, <2>1
<1> HIDE DEF list
<1>5. QED
  BY <1>0, <1>2, <1>4 DEF Row

LEMMA ActivityReduces ==
  ASSUME IInv, NEW t \in Thread, NEW i \in Item, NEW status \in {"running"} \cup Ended,
         ReduceActivity(t, i, status)
  PROVE  Reduced
<1>1. CASE t \in archived \/ IsTerminal(t)
  BY <1>1, IgnoreReduces DEF ReduceActivity
<1>2. CASE ~(t \in archived \/ IsTerminal(t))
  <2> DEFINE begun == Begun(Entry(t, "running"))
             released == Released(begun, i)
             listed == WithActivity(released, i, status)
             new == Resumed(listed)
             changed == rows[t] = NoRow \/ Releases(begun, i) \/ Moves(released, i, status)
                          \/ Resumes(listed)
  <2>1. RowHolds(begun) /\ begun.life \notin Terminal /\ Unseen(rows[t], begun)
    BY <1>2, EntryHolds, BegunHolds, BegunUnseen
  <2>2. listed.tools <= MaxTools /\ SetRow(t, new, changed)
    BY <1>2 DEF ReduceActivity
  <2> HIDE DEF begun
  <2>3. RowHolds(released) /\ released.life \notin Terminal
    BY <2>1, ReleasedHolds
  <2>4. ~changed => Unseen(rows[t], new)
    <3>1. ~changed => released = begun
      BY DEF Released
    <3>2. ~changed => listed = released
      BY <2>3, SameActivity
    <3>3. ~changed => new = listed
      BY DEF Resumed
    <3>4. QED
      BY <2>1, <3>1, <3>2, <3>3
  <2> HIDE DEF released
  <2>5. RowHolds(listed) /\ listed.life \notin Terminal
    BY <2>2, <2>3, ActivityHolds DEF ItemStatus
  <2> HIDE DEF listed
  <2>6. RowHolds(new) /\ new.life \notin Terminal
    BY <2>5, ResumedHolds
  <2> HIDE DEF new
  <2>7. Settled(rows[t], new) /\ changed \in BOOLEAN
    BY <2>6, WorkingSettles
  <2> HIDE DEF changed
  <2>8. QED
    BY <1>2, <2>2, <2>4, <2>6, <2>7, SetRowReduces
<1>3. QED
  BY <1>1, <1>2

(* A turn that begins puts its row to work. *)
TurnStarted(row) ==
  CASE row = NoRow -> New("running")
    [] row # NoRow /\ row.life = "starting" ->
         [Begun(row) EXCEPT !.life = "running", !.stats = NoStats]
    [] row # NoRow /\ row.life \in Terminal ->
         [row EXCEPT !.life = "running", !.recent = <<>>, !.approval = NoApproval,
                     !.begun = TRUE, !.tools = 0, !.base = row.total, !.stats = NoStats]
    [] OTHER -> row

LEMMA TurnStartedHolds ==
  ASSUME NEW row, row # NoRow => RowHolds(row)
  PROVE  RowHolds(TurnStarted(row)) /\ TurnStarted(row).life \notin Terminal
<1> DEFINE started == [Begun(row) EXCEPT !.life = "running", !.stats = NoStats]
           again == [row EXCEPT !.life = "running", !.recent = <<>>, !.approval = NoApproval,
                                !.begun = TRUE, !.tools = 0, !.base = row.total,
                                !.stats = NoStats]
           new == TurnStarted(row)
<1>1. CASE row = NoRow
  <2>1. new = New("running")
    BY <1>1 DEF TurnStarted
  <2>2. QED
    BY <2>1, NewHolds DEF New, Terminal
<1>2. CASE row # NoRow /\ row.life = "starting"
  <2>1. new = started
    BY <1>2 DEF Terminal, TurnStarted
  <2>2. RowHolds(Begun(row)) /\ Begun(row).life = "starting"
    BY <1>2, BegunHolds DEF Terminal
  <2>3. started \in Row
    BY <2>2 DEF RowHolds, Row, Working
  <2>4. /\ started.life = "running" /\ started.stats = NoStats
        /\ started.approval = Begun(row).approval /\ started.recent = Begun(row).recent
    BY <2>2 DEF RowHolds, Row
  <2> HIDE DEF started
  <2>5. RowHolds(started)
    BY <2>2, <2>3, <2>4 DEF RowHolds, Terminal
  <2>6. QED
    BY <2>1, <2>4, <2>5 DEF Terminal
<1>3. CASE row # NoRow /\ row.life \in Terminal
  <2>1. new = again
    BY <1>3 DEF Terminal, TurnStarted
  <2>2. row \in Row /\ row.total \in Token /\ 0 \in Tools /\ <<>> \in Seq(Activity)
    BY <1>3, LimitAssumption DEF RowHolds, Row, Tools
  <2>3. again \in Row
    BY <2>2 DEF Row, Working
  <2>4. /\ again.life = "running" /\ again.stats = NoStats
        /\ again.approval = NoApproval /\ again.recent = <<>>
    BY <2>2 DEF Row
  <2> HIDE DEF again
  <2>5. RowHolds(again)
    BY <2>3, <2>4, NothingListed DEF RowHolds, Terminal
  <2>6. QED
    BY <2>1, <2>4, <2>5 DEF Terminal
<1>4. CASE row # NoRow /\ row.life # "starting" /\ row.life \notin Terminal
  <2>1. new = row
    BY <1>4 DEF TurnStarted
  <2>2. QED
    BY <1>4, <2>1
<1>5. QED
  BY <1>1, <1>2, <1>3, <1>4

LEMMA StartTurnReduces ==
  ASSUME IInv, NEW t \in Thread, StartTurn(t)
  PROVE  Reduced
<1> DEFINE new == TurnStarted(rows[t])
           changed == rows[t] = NoRow \/ rows[t].life \in Terminal \cup {"starting"}
<1>1. Notify([rows EXCEPT ![t] = new], archived \ {t}, changed)
  BY DEF StartTurn, TurnStarted
<1>5. ~changed => Unseen(rows[t], new)
  BY DEF TurnStarted, Unseen
<1>2. RowHolds(new) /\ new.life \notin Terminal
  BY TurnStartedHolds DEF IInv, Shown
<1> HIDE DEF new
<1>3. Settled(rows[t], new) /\ t \notin archived \ {t}
  BY <1>2, WorkingSettles
<1>4. Sound([rows EXCEPT ![t] = new], archived \ {t}, changed)
  <2> HIDE DEF changed
  <2>1. changed \in BOOLEAN
    BY DEF changed
  <2>2. QED
    BY <1>2, <1>3, <1>5, <2>1, RowSound
<1> HIDE DEF changed
<1>6. QED
  BY <1>1, <1>4 DEF Reduced

LEMMA TotalReduces ==
  ASSUME IInv, NEW t \in Thread, NEW total \in Token, SetTotalTokens(t, total)
  PROVE  Reduced
<1>1. CASE t \in archived
  BY <1>1, IgnoreReduces DEF SetTotalTokens
<1>2. CASE t \notin archived
  <2> DEFINE old == Entry(t, "running")
             new == TotalOf(old, total)
             row == [old EXCEPT !.total = total]
             changed == old.total # total
                          \/ (row.stats # NoStats /\ row.stats.tokens # TurnTokens(row))
  <2>1. total \in Token
    OBVIOUS
  <2>2. /\ RowHolds(old)
        /\ rows[t] # NoRow => old = rows[t]
        /\ rows[t] = NoRow => old = New("running")
    BY EntryHolds
  <2>3. /\ RowHolds(new) /\ Settled(old, new) /\ new.total = total
        /\ total = old.total => new = old
    BY <2>1, <2>2, TotalHolds
  <2>4. SetRow(t, new, changed)
    <3>1. new = IF row.stats = NoStats THEN row ELSE [row EXCEPT !.stats.tokens = TurnTokens(row)]
      BY DEF TotalOf
    <3>2. QED
      BY <1>2, <3>1 DEF SetTotalTokens
  <2>5. changed \in BOOLEAN
    OBVIOUS
  <2>6. ~changed => Unseen(rows[t], new)
    <3>1. ~changed => total = old.total
      OBVIOUS
    <3> HIDE DEF changed, row, new, old
    <3>2. QED
      BY <2>2, <2>3, <3>1 DEF Unseen
  <2>7. Settled(rows[t], new)
    BY <2>2, <2>3 DEF Settled
  <2> HIDE DEF old, new, changed
  <2>8. QED
    BY <1>2, <2>3, <2>4, <2>5, <2>6, <2>7, SetRowReduces
<1>3. QED
  BY <1>1, <1>2

LEMMA FinishReduces ==
  ASSUME IInv, NEW t \in Thread, NEW status \in Terminal, NEW tools \in {0, MaxTools},
         FinishTurn(t, status, tools)
  PROVE  Reduced
<1>1. CASE t \in archived \/ IsTerminal(t)
  BY <1>1, IgnoreReduces DEF FinishTurn
<1>2. CASE ~(t \in archived \/ IsTerminal(t))
  <2> DEFINE row == Entry(t, "running")
             counted == IF tools = 0 THEN row.tools ELSE tools
             new == Finished(row, status, counted)
  <2>1. RowHolds(row)
    BY EntryHolds
  <2>2. SetRow(t, new, TRUE)
    BY <1>2 DEF FinishTurn
  <2> HIDE DEF row
  <2>3. counted \in Tools
    BY <2>1, LimitAssumption DEF RowHolds, Row, Tools
  <2> HIDE DEF counted
  <2>4. RowHolds(new)
    BY <2>1, <2>3, FinishedHolds
  <2> HIDE DEF new
  <2>5. Settled(rows[t], new)
    BY <1>2, NotTerminalSettles
  <2>6. QED
    BY <1>2, <2>2, <2>4, <2>5, SetRowReduces
<1>3. QED
  BY <1>1, <1>2

LEMMA InProgressReduces ==
  ASSUME IInv, NEW t \in Thread, FinishInProgress(t)
  PROVE  Reduced
<1>1. CASE t \in archived \/ IsTerminal(t)
  BY <1>1, IgnoreReduces DEF FinishInProgress
<1>2. CASE ~(t \in archived \/ IsTerminal(t))
  <2> DEFINE row == Begun(Entry(t, "running"))
             waits == [row EXCEPT !.approval = [row.approval EXCEPT !.life = "running"]]
             runs == [row EXCEPT !.life = "running"]
  <2>1. RowHolds(row) /\ row.life \notin Terminal /\ row \in Row /\ Unseen(rows[t], row)
    BY <1>2, EntryHolds, BegunHolds, BegunUnseen DEF RowHolds
  <2>2. IF row.approval # NoApproval
          THEN SetRow(t, waits, row.approval.life # "running")
          ELSE SetRow(t, runs, rows[t] = NoRow \/ row.life # "running")
    BY <1>2, <2>1 DEF FinishInProgress, Row
  <2> HIDE DEF row
  <2>3. CASE row.approval # NoApproval
    <3>1. row.approval \in Approval
      BY <2>1, <2>3 DEF Row
    <3>2. [row.approval EXCEPT !.life = "running"] \in Approval
      BY <3>1 DEF Approval, Working
    <3> DEFINE approval == [row.approval EXCEPT !.life = "running"]
    <3>3. approval \in Approval /\ approval # NoApproval
      BY <3>2, NoneAssumption
    <3> HIDE DEF approval
    <3>4. waits = [row EXCEPT !.approval = approval]
      BY DEF approval
    <3>5. waits \in Row
      BY <2>1, <3>3, <3>4 DEF Row
    <3>6. /\ waits.approval = approval /\ waits.life = row.life
          /\ waits.recent = row.recent /\ waits.stats = row.stats
      BY <2>1, <3>4 DEF Row
    <3> HIDE DEF waits
    <3>7. RowHolds(waits) /\ waits.life \notin Terminal
      BY <2>1, <2>3, <3>3, <3>5, <3>6 DEF RowHolds
    <3>8. row.approval.life = "running" => waits = row
      <4>1. row.approval.life = "running" => approval = row.approval
        BY <3>1 DEF approval, Approval
      <4>2. QED
        BY <2>1, <3>4, <4>1 DEF Row
    <3> DEFINE changed == row.approval.life # "running"
    <3>9. changed \in BOOLEAN /\ (~changed => Unseen(rows[t], waits)) /\ SetRow(t, waits, changed)
      BY <2>1, <2>2, <2>3, <3>8
    <3> HIDE DEF changed
    <3>10. QED
      BY <1>2, <3>7, <3>9, SetRowReduces, WorkingSettles
  <2>4. CASE row.approval = NoApproval
    <3>1. runs \in Row /\ (row.life = "running" => runs = row)
      BY <2>1 DEF Row, Working
    <3>2. /\ runs.life = "running" /\ runs.approval = row.approval
          /\ runs.recent = row.recent /\ runs.stats = row.stats
      BY <2>1 DEF Row
    <3> HIDE DEF runs
    <3>3. RowHolds(runs) /\ runs.life \notin Terminal
      BY <2>1, <2>4, <3>1, <3>2 DEF RowHolds, Terminal
    <3> DEFINE changed == rows[t] = NoRow \/ row.life # "running"
    <3>4. changed \in BOOLEAN /\ (~changed => Unseen(rows[t], runs)) /\ SetRow(t, runs, changed)
      BY <2>1, <2>2, <2>4, <3>1
    <3> HIDE DEF changed
    <3>5. QED
      BY <1>2, <3>3, <3>4, SetRowReduces, WorkingSettles
  <2>5. QED
    BY <2>3, <2>4
<1>3. QED
  BY <1>1, <1>2

LEMMA RemoveReduces ==
  ASSUME IInv, NEW t \in Thread, RemoveAgent(t)
  PROVE  Reduced
<1>1. Settled(rows[t], NoRow)
  BY DEF Settled
<1>2. Sound([rows EXCEPT ![t] = NoRow], archived, rows[t] # NoRow)
  BY <1>1, RowSound DEF Unseen
<1>3. QED
  BY <1>2 DEF RemoveAgent, Reduced

LEMMA WaitingReduces ==
  ASSUME IInv, NEW t \in Thread, NEW q \in Request, NEW i \in Item \cup {NoItem},
         MarkWaiting(t, q, i)
  PROVE  Reduced
<1> DEFINE row == Entry(t, "running")
           new == Waiting(row, q, i)
<1>1. CASE Reduce(rows, archived, FALSE)
  BY <1>1, IgnoreReduces
<1>2. CASE ~(t \in archived \/ IsTerminal(t)) /\ Reduce([rows EXCEPT ![t] = new], archived, TRUE)
  <2>1. RowHolds(row) /\ row.life \notin Terminal
    BY <1>2, EntryHolds
  <2> HIDE DEF row
  <2>2. RowHolds(new) /\ new.life \notin Terminal
    BY <2>1, WaitingHolds DEF Terminal
  <2> HIDE DEF new
  <2>3. Sound([rows EXCEPT ![t] = new], archived, TRUE)
    BY <1>2, <2>2, RowSound, WorkingSettles
  <2>4. AtWork([rows EXCEPT ![t] = new])
    BY <2>2, RowAtWork, ShownRow
  <2>5. QED
    BY <1>2, <2>3, <2>4 DEF Reduced
<1>3. QED
  BY <1>1, <1>2 DEF MarkWaiting

(* A resolved request puts its row back to work. *)
LEMMA ResolvedSound ==
  ASSUME IInv, NEW t \in Thread, NEW q \in Request
  PROVE  /\ Sound(Resolved(t, q), archived, Opened(t, q))
         /\ AtWork(Resolved(t, q))
<1> DEFINE row == rows[t]
           approval == row.approval
           closed == [row EXCEPT !.approval = NoApproval, !.life = approval.life]
           new == Restored(closed, approval)
<1>1. CASE row # NoRow /\ approval # NoApproval /\ approval.request = q
  <2>1. /\ row \in Row /\ RowHolds(row) /\ t \notin archived /\ row.life = "approval"
        /\ approval \in Approval
    BY <1>1 DEF IInv, Shown, ArchivedIsHidden, RowHolds, Row
  <2>2. approval.life \in Working
    BY <2>1 DEF Approval
  <2>3. closed \in Row
    BY <2>1, <2>2 DEF Row
  <2>4. /\ closed.life = approval.life /\ closed.approval = NoApproval
        /\ closed.recent = row.recent /\ closed.stats = row.stats
    BY <2>1 DEF Row
  <2>5. Resolved(t, q) = [rows EXCEPT ![t] = new] /\ Opened(t, q) = TRUE
    BY <1>1, <2>1 DEF Resolved, Opened, Row
  <2> HIDE DEF closed
  <2>6. Listed(row.recent) /\ row.stats = NoStats
    BY <2>1 DEF RowHolds, Terminal
  <2>7. /\ new \in Row /\ Listed(new.recent) /\ new.life = approval.life
        /\ new.approval = NoApproval /\ new.stats = NoStats
    BY <2>1, <2>3, <2>4, <2>6, RestoredHolds
  <2> HIDE DEF new
  <2>8. RowHolds(new) /\ new.life \notin Terminal
    BY <2>2, <2>7 DEF RowHolds, Working, Terminal
  <2>11. Sound([rows EXCEPT ![t] = new], archived, TRUE)
    BY <2>1, <2>8, RowSound, WorkingSettles
  <2>12. AtWork([rows EXCEPT ![t] = new])
    BY <2>8, RowAtWork, ShownRow
  <2>13. QED
    BY <2>5, <2>11, <2>12
<1>2. CASE ~(row # NoRow /\ approval # NoApproval /\ approval.request = q)
  <2>1. Resolved(t, q) = rows /\ Opened(t, q) = FALSE
    BY <1>2 DEF Resolved, Opened
  <2>2. QED
    BY <2>1, SameSound
<1>3. QED
  BY <1>1, <1>2

LEMMA ReconcileReduces ==
  ASSUME IInv, NEW running, Reconcile(running)
  PROVE  Reduced
<1> DEFINE new == [t \in Thread |-> CASE t \notin running -> NoRow
                                      [] t \in running -> Hydrated(Entry(t, "running"))]
           changed == Shown \ running # {} \/ \E t \in running : Rehydrates(t)
<1>1. Reduce(new, archived \ running, changed)
  BY DEF Reconcile
<1>2. ASSUME NEW t \in Thread, t \in running
      PROVE  new[t] = Hydrated(Entry(t, "running")) /\ RowHolds(new[t]) /\ new[t].life = "running"
  <2>1. new[t] = Hydrated(Entry(t, "running"))
    BY <1>2
  <2>2. QED
    BY <2>1, EntryHolds, HydratedHolds
<1>3. ASSUME NEW t \in Thread, t \notin running PROVE new[t] = NoRow
  BY <1>3
<1>4. /\ archived \subseteq Thread
      /\ new = [t \in Thread |-> new[t]]
  BY DEF IInv
<1>5. new \in [Thread -> Row \cup {NoRow}]
  <2>1. \A t \in Thread : new[t] \in Row \cup {NoRow}
    BY <1>2, <1>3 DEF RowHolds
  <2> HIDE DEF new
  <2>2. QED
    BY <1>4, <2>1
<1> HIDE DEF new
<1>6. \A t \in Thread : new[t] # NoRow => RowHolds(new[t]) /\ t \notin archived \ running
  BY <1>2, <1>3
<1>7. \A t \in Thread : Settled(rows[t], new[t])
  BY <1>2, <1>3 DEF Settled, Terminal
<1>11. ASSUME ~changed, NEW t \in Thread
       PROVE  Unseen(rows[t], new[t])
  <2>1. CASE t \notin running
    <3>1. rows[t] = NoRow /\ new[t] = NoRow
      BY <1>3, <1>11, <2>1 DEF Shown
    <3>2. QED
      BY <3>1 DEF Unseen
  <2>2. CASE t \in running
    <3>1. rows[t] # NoRow /\ rows[t].life = "running" /\ rows[t].approval = NoApproval
      BY <1>11, <2>2 DEF Rehydrates
    <3>2. Entry(t, "running") = rows[t] /\ RowHolds(rows[t]) /\ rows[t] \in Row
      BY <3>1, EntryHolds DEF RowHolds
    <3>3. rows[t].stats = NoStats /\ rows[t].life \notin Terminal
      BY <3>1, <3>2 DEF RowHolds, Terminal
    <3>4. [rows[t] EXCEPT !.life = "running", !.approval = NoApproval, !.stats = NoStats] = rows[t]
      BY <3>1, <3>2, <3>3 DEF Row
    <3>5. Hydrated(rows[t]) = Begun(rows[t])
      BY <3>3, <3>4 DEF Hydrated
    <3>6. QED
      BY <1>2, <2>2, <3>2, <3>5, BegunUnseen
  <2>3. QED
    BY <2>1, <2>2
<1>8. Sound(new, archived \ running, changed)
  BY <1>4, <1>5, <1>6, <1>7, <1>11 DEF Sound
<1>9. AtWork(new)
  BY <1>2, <1>3 DEF AtWork, Terminal
<1>10. QED
  BY <1>1, <1>8, <1>9 DEF Reduced

LEMMA ResetReduces ==
  ASSUME IInv, Reset
  PROVE  Reduced
<1> DEFINE none == [t \in Thread |-> NoRow]
           changed == Shown # {} \/ archived # {}
<1>1. ~changed => \A t \in Thread : Unseen(rows[t], none[t])
  BY DEF Shown, Unseen
<1>2. Sound(none, {}, changed) /\ AtWork(none)
  BY <1>1 DEF Sound, AtWork, Settled
<1>3. QED
  BY <1>2 DEF Reset, Reduced

LEMMA Outcomes ==
  ASSUME IInv, Next
  PROVE  Reduced \/ Draw
<1>1. ASSUME NEW t \in Thread, NEW q \in Request, ResolveNotified(t, q) \/ ResolveAnswered(t, q)
      PROVE  Reduced
  BY <1>1, ResolvedSound DEF ResolveNotified, ResolveAnswered, Reduced
<1>2. ASSUME NEW t \in Thread, NEW total \in Totals, SetTotalTokens(t, total)
      PROVE  Reduced
  BY <1>2, TotalReduces, InputAssumption
<1>3. QED
  BY <1>1, <1>2, EnsureStartedReduces, StartTurnReduces, InProgressReduces, RemoveReduces,
     ActivityReduces, FinishReduces, WaitingReduces, ReconcileReduces, ResetReduces
     DEF Next

-----------------------------------------------------------------------------
LEMMA InitIInv == Init => IInv
<1>. SUFFICES ASSUME Init PROVE IInv
  OBVIOUS
<1>1. Shown = {}
  BY DEF Init, Shown
<1>2. QED
  BY <1>1 DEF Init, IInv, NoBatch, ArchivedIsHidden, FinishedBatchIsTaken, ScreenIsCurrent

LEMMA ReducedIInv ==
  ASSUME IInv, Reduced \/ Draw \/ UNCHANGED live
  PROVE  IInv'
<1>1. CASE Reduced
  BY <1>1, NotifyHolds, ReduceHolds DEF Reduced
<1>2. CASE Draw
  <2>1. NoBatch \in [Thread -> Row \cup {NoRow}]
    BY DEF NoBatch
  <2>2. QED
    BY <1>2, <2>1 DEF Draw, IInv, Shown, ArchivedIsHidden, FinishedBatchIsTaken, IsTerminal,
       ScreenIsCurrent
<1>3. CASE UNCHANGED live
  BY <1>3 DEF live, IInv, Shown, ArchivedIsHidden, FinishedBatchIsTaken, IsTerminal,
     ScreenIsCurrent
<1>4. QED
  BY <1>1, <1>2, <1>3

LEMMA NextIInv == IInv /\ [Next]_live => IInv'
BY Outcomes, ReducedIInv

(* The inductive invariant, with the types of the state. *)
THEOREM Inductive == Spec => []IInv
BY InitIInv, NextIInv, PTL DEF Spec

LEMMA IInvCoherent == IInv => RowsAreCoherent
<1> SUFFICES ASSUME IInv PROVE RowsAreCoherent
  OBVIOUS
<1>1. \A t \in Shown : Len(rows[t].recent) = Cardinality(Ids(rows[t].recent))
  BY ListedCounts DEF IInv, RowHolds
<1>2. TypeOK
  BY <1>1 DEF IInv, TypeOK, RowHolds, Listed
<1>3. RowIsCoherent
  BY DEF IInv, RowIsCoherent, RowHolds, IsTerminal, Shown
<1>4. QED
  BY <1>2, <1>3 DEF IInv, RowsAreCoherent

(* Whatever the order of the events, every row is typed and coherent and of
   a thread that is not archived, and a finished batch is taken at once. *)
THEOREM RowsStayCoherent == Spec => []RowsAreCoherent
BY IInvCoherent, Inductive, PTL

(* Whatever the order of the events, whatever is drawn out of date will be
   redrawn, but for the row that a total of zero has just entered. *)
THEOREM ScreenStaysCurrent == Spec => []ScreenIsCurrent
<1>1. IInv => ScreenIsCurrent
  BY DEF IInv
<1>2. QED
  BY <1>1, Inductive, PTL

(* The first outcome of a turn wins, in the panel and in the batch that goes
   to the transcript. *)
THEOREM FirstOutcomesWin == Spec => FirstOutcomeWins
<1>1. IInv /\ [Next]_live =>
        [\A t \in Thread : IsTerminal(t) =>
           \A next \in {rows'[t], batch'[t]} :
             next # NoRow /\ next.life \in Terminal =>
               next.life = rows[t].life /\ next.stats.tools = rows[t].stats.tools]_live
  <2> SUFFICES ASSUME IInv, Next, NEW t \in Thread, IsTerminal(t),
                      NEW next \in {rows'[t], batch'[t]}, next # NoRow, next.life \in Terminal
               PROVE  next.life = rows[t].life /\ next.stats.tools = rows[t].stats.tools
    OBVIOUS
  <2>1. CASE Reduced
    <3>1. PICK new, arch, changed :
            /\ Sound(new, arch, changed)
            /\ Notify(new, arch, changed) \/ (Reduce(new, arch, changed) /\ AtWork(new))
      BY <2>1 DEF Reduced
    <3>2. next = new[t]
      BY <3>1 DEF Notify, Reduce, NoBatch
    <3>3. Settled(rows[t], new[t])
      BY <3>1 DEF Sound
    <3>4. QED
      BY <3>2, <3>3 DEF Settled, IsTerminal
  <2>2. CASE Draw
    BY <2>2 DEF Draw, NoBatch
  <2>3. QED
    BY <2>1, <2>2, Outcomes
<1>2. QED
  BY <1>1, Inductive, PTL DEF Spec, FirstOutcomeWins

-----------------------------------------------------------------------------
(* Items that wait for an approval.                                        *)

Asks(seq, i) == \E k \in DOMAIN seq : seq[k].id = i /\ seq[k].status = "approval"

Covers(approval, i) == approval # NoApproval /\ approval.item = i /\ approval.status # "approval"

(* An approval that found no open item has none that shows as waiting. *)
Traced(row) ==
  row.approval # NoApproval /\ row.approval.status = NoStatus =>
    ~Asks(row.recent, row.approval.item)

(* No item of the next row waits for nothing but those that did before. *)
Follows(row, next) ==
  /\ Traced(next)
  /\ \A i \in Item : Asks(next.recent, i) =>
       Covers(next.approval, i) \/ (Asks(row.recent, i) /\ ~Covers(row.approval, i))

TracedInv == \A t \in Shown : Traced(rows[t])

(* What becomes of a thread's row, that of an unknown thread being new. *)
Descends(t, next) == next = NoRow \/ Follows(Entry(t, "running"), next)

LEMMA NothingAsks ==
  ASSUME NEW row, NEW next, next.recent = <<>>
  PROVE  Follows(row, next)
BY DEF Follows, Traced, Asks

LEMMA SameFollows ==
  ASSUME NEW row, Traced(row), NEW next, next.recent = row.recent,
         \/ next.approval = row.approval
         \/ /\ next.approval # NoApproval /\ row.approval # NoApproval
            /\ next.approval.item = row.approval.item
            /\ next.approval.status = row.approval.status
  PROVE  Follows(row, next)
BY DEF Follows, Traced, Covers

(* Undoing a request leaves no item waiting for it. *)
LEMMA RestoredAsks ==
  ASSUME NEW row \in Row, Listed(row.recent), NEW approval \in Approval, NEW i,
         Asks(Restored(row, approval).recent, i)
  PROVE  /\ Asks(row.recent, i)
         /\ approval.status \notin {NoStatus, "approval"} => i # approval.item
<1>1. CASE approval.status = NoStatus
  BY <1>1 DEF Restored
<1>2. CASE approval.status # NoStatus
  <2> DEFINE list == [k \in DOMAIN row.recent |->
                        IF row.recent[k].id = approval.item /\ row.recent[k].status = "approval"
                          THEN [row.recent[k] EXCEPT !.status = approval.status]
                          ELSE row.recent[k]]
  <2>1. Restored(row, approval).recent = list
    BY <1>2 DEF Restored, Row
  <2>2. PICK k \in DOMAIN row.recent : list[k].id = i /\ list[k].status = "approval"
    BY <2>1 DEF Asks
  <2>3. row.recent[k] \in Activity
    BY ListedTyped
  <2>4. CASE row.recent[k].id = approval.item /\ row.recent[k].status = "approval"
    <3>1. list[k].id = row.recent[k].id /\ list[k].status = approval.status
      BY <2>3, <2>4 DEF Activity
    <3>2. QED
      BY <2>2, <2>4, <3>1 DEF Asks
  <2>5. CASE ~(row.recent[k].id = approval.item /\ row.recent[k].status = "approval")
    <3>1. list[k] = row.recent[k]
      BY <2>5
    <3>2. QED
      BY <2>2, <2>5, <3>1 DEF Asks
  <2>6. QED
    BY <2>4, <2>5
<1>3. QED
  BY <1>1, <1>2

(* An item that waits after the request before was undone waits for nothing. *)
LEMMA UndoneAsks ==
  ASSUME NEW row, RowHolds(row), Traced(row), row.approval # NoApproval,
         NEW closed \in Row, closed.recent = row.recent,
         NEW i, Asks(Restored(closed, row.approval).recent, i)
  PROVE  Asks(row.recent, i) /\ ~Covers(row.approval, i)
<1>1. row.approval \in Approval /\ Listed(closed.recent)
  BY DEF RowHolds, Row
<1>2. /\ Asks(row.recent, i)
      /\ row.approval.status \notin {NoStatus, "approval"} => i # row.approval.item
  BY <1>1, RestoredAsks
<1>3. QED
  BY <1>2 DEF Traced, Covers

(* A reported item is at work or ended: it does not wait, and the others wait
   for what they waited for. *)
LEMMA ActivityAsks ==
  ASSUME NEW row, RowHolds(row), NEW i \in Item, NEW status \in {"running"} \cup Ended
  PROVE  LET new == WithActivity(row, i, status) IN
         /\ \A j : Asks(new.recent, j) => j # i /\ Asks(row.recent, j)
         /\ \/ new.approval = row.approval
            \/ /\ new.approval # NoApproval /\ row.approval # NoApproval
               /\ ~Asks(new.recent, row.approval.item) /\ new.approval.item = row.approval.item
<1> DEFINE entry == [id |-> i, status |-> status]
           kept == IF Len(row.recent) = RecentLimit THEN Tail(row.recent) ELSE row.recent
           evicted == Ids(row.recent) \ Ids(kept)
           list == [k \in DOMAIN row.recent |->
                      IF row.recent[k].id = i /\ row.recent[k].status \notin Ended
                        THEN entry ELSE row.recent[k]]
           tools == IF status = "running" THEN row.tools + 1 ELSE row.tools
           approval == IF row.approval # NoApproval /\ row.approval.item \in evicted
                         THEN [row.approval EXCEPT !.status = NoStatus] ELSE row.approval
           new == WithActivity(row, i, status)
<1>0. row \in Row /\ Listed(row.recent) /\ entry.status # "approval" /\ entry.id = i
  BY DEF RowHolds, Ended
<1>1. CASE i \in Ids(row.recent)
  <2>1. new = [row EXCEPT !.recent = list]
    BY <1>0, <1>1 DEF WithActivity, Row
  <2>2. new.recent = list /\ new.approval = row.approval
    BY <1>0, <2>1 DEF Row
  <2>3. ASSUME NEW j, Asks(list, j) PROVE j # i /\ Asks(row.recent, j)
    <3>1. PICK k \in DOMAIN row.recent : list[k].id = j /\ list[k].status = "approval"
      BY <2>3 DEF Asks
    <3>2. /\ list[k] = row.recent[k]
          /\ ~(row.recent[k].id = i /\ row.recent[k].status \notin Ended)
      BY <1>0, <3>1
    <3>3. QED
      BY <3>1, <3>2 DEF Asks, Ended
  <2>4. QED
    BY <2>2, <2>3
<1>2. CASE i \notin Ids(row.recent)
  <2>1. new = [row EXCEPT !.tools = tools, !.recent = Append(kept, entry), !.approval = approval]
    BY <1>0, <1>2 DEF WithActivity, Row
  <2>2. new.recent = Append(kept, entry) /\ new.approval = approval
    BY <1>0, <2>1 DEF Row
  <2>3. /\ kept \in Seq(Activity)
        /\ \A k \in 1 .. Len(kept) : kept[k] \in {row.recent[m] : m \in DOMAIN row.recent}
    <3>1. /\ row.recent \in Seq(Activity) /\ Len(row.recent) \in Nat
          /\ DOMAIN row.recent = 1 .. Len(row.recent)
      BY <1>0, ListedTyped
    <3>2. CASE Len(row.recent) = RecentLimit
      <4>1. row.recent # <<>>
        BY <3>1, <3>2, LimitAssumption
      <4>2. /\ kept = Tail(row.recent) /\ kept \in Seq(Activity) /\ Len(kept) = Len(row.recent) - 1
            /\ \A k \in 1 .. Len(kept) : kept[k] = row.recent[k + 1]
        BY <3>1, <3>2, <4>1, HeadTailProperties
      <4> HIDE DEF kept
      <4>3. \A k \in 1 .. Len(kept) : k + 1 \in DOMAIN row.recent
        BY <3>1, <4>2
      <4>4. QED
        BY <4>2, <4>3
    <3>3. CASE Len(row.recent) # RecentLimit
      BY <3>1, <3>3
    <3>4. QED
      BY <3>2, <3>3
  <2> HIDE DEF kept
  <2>4. /\ DOMAIN Append(kept, entry) = 1 .. Len(kept) + 1 /\ Len(kept) \in Nat
        /\ DOMAIN kept = 1 .. Len(kept)
        /\ \A k \in 1 .. Len(kept) : Append(kept, entry)[k] = kept[k]
        /\ Append(kept, entry)[Len(kept) + 1] = entry
    <3>1. entry \in Activity
      BY DEF Activity, ItemStatus, Ended
    <3> HIDE DEF entry
    <3>2. /\ Append(kept, entry) \in Seq(Activity)
          /\ Len(Append(kept, entry)) = Len(kept) + 1
          /\ \A k \in 1 .. Len(kept) : Append(kept, entry)[k] = kept[k]
          /\ Append(kept, entry)[Len(kept) + 1] = entry
      BY <2>3, <3>1, AppendProperties
    <3>3. QED
      BY <2>3, <3>2, LenProperties
  <2>5. ASSUME NEW j, Asks(new.recent, j) PROVE j # i /\ Asks(row.recent, j) /\ j \in Ids(kept)
    <3>1. PICK k \in 1 .. Len(kept) + 1 : /\ Append(kept, entry)[k].id = j
                                         /\ Append(kept, entry)[k].status = "approval"
      BY <2>2, <2>4, <2>5 DEF Asks
    <3>2. k \in 1 .. Len(kept)
      <4>1. k # Len(kept) + 1
        BY <1>0, <2>4, <3>1
      <4>2. QED
        BY <2>4, <4>1
    <3>3. kept[k].id = j /\ kept[k].status = "approval" /\ k \in DOMAIN kept
      BY <2>4, <3>1, <3>2
    <3>4. PICK m \in DOMAIN row.recent : kept[k] = row.recent[m]
      BY <2>3, <3>2
    <3>5. QED
      BY <1>2, <3>3, <3>4 DEF Asks, Ids
  <2>6. CASE row.approval # NoApproval /\ row.approval.item \in evicted
    <3>1. row.approval \in Approval
      BY <1>0, <2>6 DEF Row
    <3>2. /\ approval = [row.approval EXCEPT !.status = NoStatus]
          /\ approval \in Approval /\ approval.item = row.approval.item
      BY <2>6, <3>1 DEF Approval
    <3>3. ~Asks(new.recent, row.approval.item)
      BY <2>5, <2>6
    <3>4. QED
      BY <2>2, <2>5, <2>6, <3>2, <3>3, NoneAssumption
  <2>7. CASE ~(row.approval # NoApproval /\ row.approval.item \in evicted)
    BY <2>2, <2>5, <2>7
  <2>8. QED
    BY <2>6, <2>7
<1>3. QED
  BY <1>1, <1>2

LEMMA ActivityFollows ==
  ASSUME NEW row, RowHolds(row), Traced(row), row.life \notin Terminal, NEW i \in Item,
         NEW status \in {"running"} \cup Ended, NEW next,
         next.recent = WithActivity(Released(row, i), i, status).recent,
         next.approval = WithActivity(Released(row, i), i, status).approval
  PROVE  Follows(row, next)
<1> DEFINE released == Released(row, i)
<1>1. RowHolds(released)
  BY ReleasedHolds
<1>2. /\ released.recent = row.recent
      /\ \/ released.approval = row.approval /\ ~(row.approval # NoApproval /\ row.approval.item = i)
         \/ released.approval = NoApproval /\ row.approval # NoApproval /\ row.approval.item = i
  BY DEF Released, Releases, RowHolds, Row
<1> HIDE DEF released
<1>3. /\ \A j : Asks(next.recent, j) => j # i /\ Asks(row.recent, j)
      /\ \/ next.approval = released.approval
         \/ /\ next.approval # NoApproval /\ released.approval # NoApproval
            /\ ~Asks(next.recent, released.approval.item)
            /\ next.approval.item = released.approval.item
  BY <1>1, <1>2, ActivityAsks DEF released
<1>4. Traced(next)
  BY <1>2, <1>3 DEF Traced
<1>5. QED
  BY <1>2, <1>3, <1>4 DEF Follows, Covers

(* The newest request covers the item that it makes wait. *)
LEMMA WaitingFollows ==
  ASSUME NEW row, RowHolds(row), Traced(row), row.life \notin Terminal,
         NEW q \in Request, NEW i \in Item \cup {NoItem}
  PROVE  Follows(row, Waiting(row, q, i))
<1> DEFINE undone == IF row.approval = NoApproval THEN row ELSE Restored(row, row.approval)
           life == IF row.approval # NoApproval THEN row.approval.life
                   ELSE IF row.life = "approval" THEN "running" ELSE row.life
           open == {k \in DOMAIN undone.recent :
                      undone.recent[k].id = i /\ undone.recent[k].status \notin Ended}
           list == [k \in DOMAIN undone.recent |->
                      IF k \in open THEN [undone.recent[k] EXCEPT !.status = "approval"]
                                    ELSE undone.recent[k]]
           status == IF open = {} THEN NoStatus
                     ELSE undone.recent[CHOOSE k \in open : TRUE].status
           approval == [request |-> q, item |-> i, life |-> life, status |-> status]
           new == Waiting(row, q, i)
<1>0. row \in Row /\ Listed(row.recent)
  BY DEF RowHolds
<1>1. undone \in Row /\ Listed(undone.recent)
  <2>1. row.approval # NoApproval => row.approval \in Approval
    BY <1>0 DEF Row
  <2>2. QED
    BY <1>0, <2>1, RestoredHolds
<1>2. ASSUME NEW j, Asks(undone.recent, j) PROVE Asks(row.recent, j) /\ ~Covers(row.approval, j)
  <2>1. CASE row.approval = NoApproval
    BY <1>2, <2>1 DEF Covers
  <2>2. CASE row.approval # NoApproval
    <3>1. undone = Restored(row, row.approval)
      BY <2>2
    <3>2. QED
      BY <1>0, <1>2, <2>2, <3>1, UndoneAsks
  <2>3. QED
    BY <2>1, <2>2
<1>3. new = [undone EXCEPT !.life = "approval", !.recent = list, !.approval = approval]
  BY <1>1 DEF Waiting, Row
<1> HIDE DEF undone, life
<1>4. new.recent = list /\ new.approval = approval
  BY <1>1, <1>3 DEF Row
<1>5. ASSUME NEW k \in DOMAIN undone.recent
      PROVE  undone.recent[k] \in Activity /\ undone.recent[k].status # NoStatus
  <2>1. undone.recent[k] \in Activity
    BY <1>1, ListedTyped
  <2>2. QED
    BY <2>1, NoneAssumption DEF Activity
<1>6. ASSUME NEW j, Asks(list, j)
      PROVE  (j = i /\ open # {}) \/ (j # i /\ Asks(undone.recent, j))
  <2>1. PICK k \in DOMAIN undone.recent : list[k].id = j /\ list[k].status = "approval"
    BY <1>6 DEF Asks
  <2>2. CASE k \in open
    <3>1. list[k].id = undone.recent[k].id
      BY <1>5, <2>2 DEF Activity
    <3>2. QED
      BY <2>1, <2>2, <3>1
  <2>3. CASE k \notin open
    <3>1. list[k] = undone.recent[k]
      BY <2>3
    <3>2. "approval" \notin Ended
      BY DEF Ended
    <3>3. j # i
      BY <2>1, <2>3, <3>1, <3>2
    <3>4. QED
      BY <2>1, <3>1, <3>3 DEF Asks
  <2>4. QED
    BY <2>2, <2>3
<1>7. ASSUME open # {}
      PROVE  status # NoStatus /\ (status = "approval" => Asks(undone.recent, i))
  <2>1. PICK k \in open : status = undone.recent[k].status
    BY <1>7
  <2>2. k \in DOMAIN undone.recent /\ undone.recent[k].id = i
    BY <2>1
  <2>3. QED
    BY <1>5, <2>1, <2>2 DEF Asks
<1> HIDE DEF list, open, status
<1>8. approval.item = i /\ approval.status = status /\ approval # NoApproval
  <2>1. RowHolds(new) /\ new.life = "approval"
    BY WaitingHolds
  <2>2. new.approval # NoApproval
    BY <2>1 DEF RowHolds
  <2>3. QED
    BY <1>4, <2>2
<1>9. QED
  BY <1>2, <1>4, <1>6, <1>7, <1>8 DEF Follows, Traced, Covers

(* A resolved request leaves no item waiting for it. *)
LEMMA ResolvedFollows ==
  ASSUME IInv, TracedInv, NEW t \in Thread, NEW q \in Request
  PROVE  \A u \in Thread : Descends(u, Resolved(t, q)[u])
<1> DEFINE row == rows[t]
           approval == row.approval
           closed == [row EXCEPT !.approval = NoApproval, !.life = approval.life]
           new == Restored(closed, approval)
<1>1. ASSUME NEW u \in Thread PROVE Descends(u, rows[u])
  <2>1. CASE rows[u] # NoRow
    <3>1. Entry(u, "running") = rows[u] /\ Traced(rows[u])
      BY <2>1 DEF Entry, TracedInv, Shown
    <3>2. QED
      BY <3>1, SameFollows DEF Descends
  <2>2. QED
    BY <2>1 DEF Descends
<1>2. CASE row # NoRow /\ approval # NoApproval /\ approval.request = q
  <2>1. RowHolds(row) /\ Traced(row) /\ row \in Row /\ approval \in Approval /\ row.life = "approval"
    BY <1>2 DEF IInv, TracedInv, Shown, RowHolds, Row
  <2>2. closed \in Row /\ closed.recent = row.recent /\ closed.approval = NoApproval
    BY <2>1 DEF Row, Approval
  <2>3. Resolved(t, q) = [rows EXCEPT ![t] = new]
    BY <1>2, <2>1 DEF Resolved, Opened, Row
  <2> HIDE DEF closed
  <2>4. new.approval = NoApproval
    BY <2>1, <2>2, RestoredHolds DEF RowHolds
  <2>5. \A j : Asks(new.recent, j) => Asks(row.recent, j) /\ ~Covers(row.approval, j)
    BY <1>2, <2>1, <2>2, UndoneAsks
  <2>6. Follows(row, new)
    BY <2>4, <2>5 DEF Follows, Traced
  <2>7. Descends(t, new)
    BY <1>2, <2>6 DEF Descends, Entry
  <2>8. Resolved(t, q)[t] = new /\ \A u \in Thread : u # t => Resolved(t, q)[u] = rows[u]
    BY <2>3 DEF IInv
  <2>9. QED
    BY <1>1, <2>7, <2>8
<1>3. CASE ~(row # NoRow /\ approval # NoApproval /\ approval.request = q)
  BY <1>1, <1>3 DEF Resolved, Opened
<1>4. QED
  BY <1>2, <1>3

(* A step changes one row, or takes rows away. *)
LEMMA EntryTraced ==
  ASSUME TracedInv, NEW t \in Thread
  PROVE  Traced(Entry(t, "running"))
BY DEF TracedInv, Shown, Entry, Traced, New

LEMMA SameDescends ==
  ASSUME TracedInv, NEW t \in Thread
  PROVE  Descends(t, rows[t])
<1>1. rows[t] # NoRow => Entry(t, "running") = rows[t]
  BY DEF Entry
<1>2. QED
  BY <1>1, EntryTraced, SameFollows DEF Descends

LEMMA RowDescends ==
  ASSUME IInv, TracedInv, NEW t \in Thread, NEW row, Descends(t, row)
  PROVE  \A u \in Thread : Descends(u, [rows EXCEPT ![t] = row][u])
<1>1. [rows EXCEPT ![t] = row][t] = row /\ \A u \in Thread : u # t => [rows EXCEPT ![t] = row][u] = rows[u]
  BY DEF IInv
<1>2. QED
  BY <1>1, SameDescends

Kept == \A t \in Thread : Descends(t, rows'[t])

LEMMA ChangeKeeps ==
  ASSUME NEW new, NEW arch, NEW changed, Notify(new, arch, changed) \/ Reduce(new, arch, changed),
         \A t \in Thread : Descends(t, new[t])
  PROVE  Kept
<1>1. rows' = new \/ rows' = [t \in Thread |-> NoRow]
  BY DEF Notify, Reduce
<1>2. QED
  BY <1>1 DEF Kept, Descends

LEMMA SetRowKeeps ==
  ASSUME IInv, TracedInv, NEW t \in Thread, NEW row, Descends(t, row), NEW changed, NEW arch,
         \/ Notify([rows EXCEPT ![t] = row], arch, changed)
         \/ Reduce([rows EXCEPT ![t] = row], arch, changed)
  PROVE  Kept
<1> DEFINE new == [rows EXCEPT ![t] = row]
<1>1. \A u \in Thread : Descends(u, new[u])
  BY RowDescends
<1> HIDE DEF new
<1>2. Notify(new, arch, changed) \/ Reduce(new, arch, changed)
  BY DEF new
<1>3. QED
  BY <1>1, <1>2, ChangeKeeps

LEMMA IgnoreKeeps ==
  ASSUME TracedInv, Ignore \/ Reduce(rows, archived, FALSE)
  PROVE  Kept
BY ChangeKeeps, SameDescends DEF Ignore

LEMMA BegunSame ==
  ASSUME NEW row \in Row
  PROVE  Begun(row).recent = row.recent /\ Begun(row).approval = row.approval
BY DEF Begun, Row

LEMMA EnsureStartedKeeps ==
  ASSUME IInv, TracedInv, NEW t \in Thread, EnsureStarted(t)
  PROVE  Kept
<1>1. CASE rows[t] # NoRow
  BY <1>1, IgnoreKeeps DEF EnsureStarted
<1>2. CASE rows[t] = NoRow
  <2>1. Descends(t, New("starting"))
    BY NothingAsks DEF Descends, New
  <2>2. Reduce([rows EXCEPT ![t] = New("starting")], archived \ {t}, TRUE)
    BY <1>2 DEF EnsureStarted
  <2>3. QED
    BY <2>1, <2>2, SetRowKeeps
<1>3. QED
  BY <1>1, <1>2

LEMMA ReduceActivityKeeps ==
  ASSUME IInv, TracedInv, NEW t \in Thread, NEW i \in Item, NEW status \in {"running"} \cup Ended,
         ReduceActivity(t, i, status)
  PROVE  Kept
<1>1. CASE t \in archived \/ IsTerminal(t)
  BY <1>1, IgnoreKeeps DEF ReduceActivity
<1>2. CASE ~(t \in archived \/ IsTerminal(t))
  <2> DEFINE entry == Entry(t, "running")
             begun == Begun(entry)
             listed == WithActivity(Released(begun, i), i, status)
             new == Resumed(listed)
             changed == rows[t] = NoRow \/ Releases(begun, i) \/ Moves(Released(begun, i), i, status)
                          \/ Resumes(listed)
  <2>1. SetRow(t, new, changed)
    BY <1>2 DEF ReduceActivity
  <2> HIDE DEF changed
  <2>2. RowHolds(entry) /\ entry.life \notin Terminal /\ Traced(entry)
    BY <1>2, EntryHolds, EntryTraced
  <2>3. /\ RowHolds(begun) /\ begun.life \notin Terminal
        /\ begun.recent = entry.recent /\ begun.approval = entry.approval
    BY <2>2, BegunHolds, BegunSame DEF RowHolds
  <2>4. new.recent = listed.recent /\ new.approval = listed.approval
    <3>1. RowHolds(Released(begun, i))
      BY <2>3, ReleasedHolds
    <3> HIDE DEF begun
    <3>2. listed.recent = [listed EXCEPT !.life = "running"].recent
          /\ listed.approval = [listed EXCEPT !.life = "running"].approval
      BY <3>1 DEF RowHolds, Row, WithActivity
    <3>3. QED
      BY <3>2 DEF Resumed
  <2> HIDE DEF entry, begun, new
  <2>5. Follows(begun, new)
    BY <2>2, <2>3, <2>4, ActivityFollows DEF Traced
  <2>6. Follows(entry, new)
    BY <2>3, <2>5 DEF Follows
  <2>7. QED
    BY <2>1, <2>6, SetRowKeeps DEF SetRow, Descends, entry
<1>3. QED
  BY <1>1, <1>2

LEMMA StartTurnKeeps ==
  ASSUME IInv, TracedInv, NEW t \in Thread, StartTurn(t)
  PROVE  Kept
<1> DEFINE row == rows[t]
           started == [Begun(row) EXCEPT !.life = "running", !.stats = NoStats]
           again == [row EXCEPT !.life = "running", !.recent = <<>>, !.approval = NoApproval,
                                !.begun = TRUE, !.tools = 0, !.base = row.total,
                                !.stats = NoStats]
           new == TurnStarted(row)
<1>1. \E changed : Notify([rows EXCEPT ![t] = new], archived \ {t}, changed)
  BY DEF StartTurn, TurnStarted
<1>2. Descends(t, new)
  <2>1. CASE row = NoRow
    <3>1. new = New("running")
      BY <2>1 DEF TurnStarted
    <3>2. QED
      BY <3>1, NothingAsks DEF Descends, New
  <2>2. CASE row # NoRow /\ row.life = "starting"
    <3>1. new = started /\ RowHolds(row) /\ Traced(row) /\ Entry(t, "running") = row
      BY <2>2 DEF Terminal, TurnStarted, IInv, TracedInv, Shown, Entry
    <3>2. RowHolds(Begun(row))
      BY <2>2, <3>1, BegunHolds DEF Terminal
    <3>3. started.recent = Begun(row).recent /\ started.approval = Begun(row).approval
      BY <3>2 DEF RowHolds, Row
    <3>4. started.recent = row.recent /\ started.approval = row.approval
      BY <3>1, <3>3, BegunSame DEF RowHolds
    <3> HIDE DEF started, row
    <3>5. Follows(row, started)
      BY <3>1, <3>4, SameFollows
    <3>6. QED
      BY <3>1, <3>5 DEF Descends
  <2>3. CASE row # NoRow /\ row.life \in Terminal
    <3>1. new = again /\ row \in Row
      BY <2>3 DEF Terminal, TurnStarted, IInv
    <3>2. again.recent = <<>>
      BY <3>1 DEF Row
    <3>3. QED
      BY <3>1, <3>2, NothingAsks DEF Descends
  <2>4. CASE row # NoRow /\ row.life # "starting" /\ row.life \notin Terminal
    <3>1. new = row
      BY <2>4 DEF TurnStarted
    <3>2. QED
      BY <3>1, SameDescends
  <2>5. QED
    BY <2>1, <2>2, <2>3, <2>4
<1> HIDE DEF new
<1>3. QED
  BY <1>1, <1>2, SetRowKeeps

LEMMA TotalKeeps ==
  ASSUME IInv, TracedInv, NEW t \in Thread, NEW total \in Totals, SetTotalTokens(t, total)
  PROVE  Kept
<1>1. CASE t \in archived
  BY <1>1, IgnoreKeeps DEF SetTotalTokens
<1>2. CASE t \notin archived
  <2> DEFINE old == Entry(t, "running")
             given == [old EXCEPT !.total = total]
             new == TotalOf(old, total)
             changed == old.total # total
                          \/ (given.stats # NoStats /\ given.stats.tokens # TurnTokens(given))
  <2>1. old \in Row /\ Traced(old)
    BY EntryHolds, EntryTraced DEF RowHolds
  <2>2. SetRow(t, new, changed)
    BY <1>2 DEF SetTotalTokens, TotalOf
  <2> HIDE DEF changed
  <2>3. new.recent = old.recent /\ new.approval = old.approval
    <3>1. given \in [DOMAIN old -> {given[f] : f \in DOMAIN old}]
          /\ given.recent = old.recent /\ given.approval = old.approval
          /\ [given EXCEPT !.stats.tokens = TurnTokens(given)].recent = given.recent
          /\ [given EXCEPT !.stats.tokens = TurnTokens(given)].approval = given.approval
      BY <2>1 DEF Row
    <3>2. new = given \/ new = [given EXCEPT !.stats.tokens = TurnTokens(given)]
      BY DEF TotalOf
    <3>3. QED
      BY <3>1, <3>2
  <2> HIDE DEF old, new
  <2>4. Follows(old, new)
    BY <2>1, <2>3, SameFollows
  <2>5. QED
    BY <2>2, <2>4, SetRowKeeps DEF SetRow, Descends, old
<1>3. QED
  BY <1>1, <1>2

LEMMA FinishKeeps ==
  ASSUME IInv, TracedInv, NEW t \in Thread, NEW status \in Terminal, NEW tools \in {0, MaxTools},
         FinishTurn(t, status, tools)
  PROVE  Kept
<1>1. CASE t \in archived \/ IsTerminal(t)
  BY <1>1, IgnoreKeeps DEF FinishTurn
<1>2. CASE ~(t \in archived \/ IsTerminal(t))
  <2> DEFINE row == Entry(t, "running")
             counted == IF tools = 0 THEN row.tools ELSE tools
             new == Finished(row, status, counted)
  <2>1. SetRow(t, new, TRUE)
    BY <1>2 DEF FinishTurn
  <2>2. row \in Row
    BY EntryHolds DEF RowHolds
  <2> HIDE DEF row, counted
  <2>3. new.recent = <<>>
    BY <2>2 DEF Finished, Row
  <2> HIDE DEF new
  <2>4. QED
    BY <2>1, <2>3, NothingAsks, SetRowKeeps DEF SetRow, Descends
<1>3. QED
  BY <1>1, <1>2

LEMMA InProgressKeeps ==
  ASSUME IInv, TracedInv, NEW t \in Thread, FinishInProgress(t)
  PROVE  Kept
<1>1. CASE t \in archived \/ IsTerminal(t)
  BY <1>1, IgnoreKeeps DEF FinishInProgress
<1>2. CASE ~(t \in archived \/ IsTerminal(t))
  <2> DEFINE entry == Entry(t, "running")
             row == Begun(entry)
             waits == [row EXCEPT !.approval = [row.approval EXCEPT !.life = "running"]]
             runs == [row EXCEPT !.life = "running"]
             new == IF row.approval # NoApproval THEN waits ELSE runs
  <2>1. RowHolds(row) /\ row \in Row
    BY <1>2, EntryHolds, BegunHolds DEF RowHolds
  <2>2. Traced(entry) /\ row.recent = entry.recent /\ row.approval = entry.approval
    BY EntryHolds, EntryTraced, BegunSame DEF RowHolds
  <2>3. \E changed : SetRow(t, new, changed)
    BY <1>2, <2>1 DEF FinishInProgress, Row
  <2> HIDE DEF entry, row
  <2>4. Follows(entry, new)
    <3>1. CASE row.approval # NoApproval
      <4>1. row.approval \in Approval
        BY <2>1, <3>1 DEF Row
      <4> DEFINE approval == [row.approval EXCEPT !.life = "running"]
      <4>2. /\ approval \in Approval /\ approval.item = row.approval.item
            /\ approval.status = row.approval.status
        BY <4>1 DEF Approval, Working
      <4>3. approval # NoApproval
        BY <4>2, NoneAssumption
      <4> HIDE DEF approval
      <4>4. waits.approval = approval /\ waits.recent = row.recent
        BY <2>1 DEF Row, approval
      <4> HIDE DEF waits
      <4>5. QED
        BY <2>2, <3>1, <4>2, <4>3, <4>4, SameFollows
    <3>2. CASE row.approval = NoApproval
      <4>1. new.approval = row.approval /\ new.recent = row.recent
        BY <2>1, <3>2 DEF Row
      <4> HIDE DEF new
      <4>2. QED
        BY <2>2, <4>1, SameFollows
    <3>3. QED
      BY <3>1, <3>2
  <2> HIDE DEF new
  <2>5. QED
    BY <2>3, <2>4, SetRowKeeps DEF SetRow, Descends, entry
<1>3. QED
  BY <1>1, <1>2

LEMMA WaitingKeeps ==
  ASSUME IInv, TracedInv, NEW t \in Thread, NEW q \in Request, NEW i \in Item \cup {NoItem},
         MarkWaiting(t, q, i)
  PROVE  Kept
<1> DEFINE row == Entry(t, "running")
<1>1. CASE Reduce(rows, archived, FALSE)
  BY <1>1, IgnoreKeeps
<1>2. CASE ~(t \in archived \/ IsTerminal(t))
           /\ Reduce([rows EXCEPT ![t] = Waiting(row, q, i)], archived, TRUE)
  <2>1. RowHolds(row) /\ row.life \notin Terminal /\ Traced(row)
    BY <1>2, EntryHolds, EntryTraced
  <2>2. Follows(row, Waiting(row, q, i))
    BY <2>1, WaitingFollows
  <2>3. Descends(t, Waiting(row, q, i))
    BY <2>2 DEF Descends
  <2>4. QED
    BY <1>2, <2>3, SetRowKeeps
<1>3. QED
  BY <1>1, <1>2 DEF MarkWaiting

(* Every step but a reconciliation lets no item wait for nothing. *)
LEMMA StepKeeps ==
  ASSUME IInv, TracedInv, Next
  PROVE  Kept \/ \E running \in Loaded : Reconcile(running)
<1>1. ASSUME NEW t \in Thread, NEW q \in Request, ResolveNotified(t, q) \/ ResolveAnswered(t, q)
      PROVE  Kept
  BY <1>1, ResolvedFollows, ChangeKeeps DEF ResolveNotified, ResolveAnswered
<1>2. ASSUME NEW t \in Thread, RemoveAgent(t) PROVE Kept
  BY <1>2, SetRowKeeps DEF RemoveAgent, Descends
<1>3. ASSUME Reset PROVE Kept
  BY <1>3 DEF Reset, Reduce, Kept, Descends
<1>4. ASSUME Draw PROVE Kept
  BY <1>4, SameDescends DEF Draw, Kept
<1>5. QED
  BY <1>1, <1>2, <1>3, <1>4, EnsureStartedKeeps, StartTurnKeeps, InProgressKeeps,
     ReduceActivityKeeps, TotalKeeps, FinishKeeps, WaitingKeeps DEF Next

LEMMA NextTraced == IInv /\ TracedInv /\ [Next]_live => TracedInv'
<1> SUFFICES ASSUME IInv, TracedInv, [Next]_live PROVE TracedInv'
  OBVIOUS
<1>1. CASE Kept
  <2>1. \A t \in Thread : rows'[t] # NoRow => Traced(rows'[t])
    BY <1>1 DEF Kept, Descends, Follows
  <2>2. QED
    BY <2>1 DEF TracedInv, Shown, Traced, Asks
<1>2. ASSUME NEW running \in Loaded, Reconcile(running) PROVE TracedInv'
  <2>1. ASSUME NEW t \in Thread, rows'[t] # NoRow PROVE Traced(rows'[t])
    <3>1. rows'[t] = Hydrated(Entry(t, "running"))
      BY <1>2, <2>1 DEF Reconcile, Reduce
    <3>2. RowHolds(rows'[t]) /\ rows'[t].life = "running"
      BY <3>1, EntryHolds, HydratedHolds
    <3>3. QED
      BY <3>2 DEF RowHolds, Traced
  <2>2. QED
    BY <2>1 DEF TracedInv, Shown, Traced, Asks
<1>3. CASE UNCHANGED live
  BY <1>3 DEF live, TracedInv, Shown, Traced, Asks
<1>4. QED
  BY <1>1, <1>2, <1>3, StepKeeps

(* An item shows as waiting only while the request it waits for is the open
   one; but for reconciliations no step leaves an item behind, whatever
   requests replace and resolve each other. *)
THEOREM WaitingItemsAreApproved == Spec => WaitingItemIsApproved
<1>1. Init => TracedInv
  BY DEF Init, TracedInv, Shown
<1>2. IInv /\ TracedInv /\ [Next]_live =>
        [Orphans' \subseteq Orphans \/ \E running \in Loaded : Reconcile(running)]_live
  <2> SUFFICES ASSUME IInv, IInv', TracedInv, Next, Kept, NEW o \in Orphans' PROVE o \in Orphans
    BY StepKeeps, NextIInv
  <2>1. PICK t \in Thread, i \in Item :
          /\ o = <<t, i>> /\ rows'[t] # NoRow
          /\ [id |-> i, status |-> "approval"] \in ToSet(rows'[t].recent)
          /\ ~Covers(rows'[t].approval, i)
    BY DEF Orphans, Shown, Covers
  <2>2. Asks(rows'[t].recent, i)
    BY <2>1 DEF Asks, ToSet
  <2>3. Follows(Entry(t, "running"), rows'[t])
    BY <2>1 DEF Kept, Descends
  <2>4. Asks(Entry(t, "running").recent, i) /\ ~Covers(Entry(t, "running").approval, i)
    BY <2>1, <2>2, <2>3 DEF Follows
  <2>5. rows[t] # NoRow /\ Entry(t, "running") = rows[t]
    BY <2>4 DEF Entry, New, Asks
  <2>6. PICK k \in DOMAIN rows[t].recent :
          rows[t].recent[k].id = i /\ rows[t].recent[k].status = "approval"
    BY <2>4, <2>5 DEF Asks
  <2>7. rows[t].recent[k] = [id |-> i, status |-> "approval"]
    <3>1. Listed(rows[t].recent)
      BY <2>5 DEF IInv, Shown, RowHolds
    <3>2. rows[t].recent[k] \in Activity
      BY <2>6, <3>1, ListedTyped
    <3>3. QED
      BY <2>6, <3>2 DEF Activity
  <2>8. [id |-> i, status |-> "approval"] \in ToSet(rows[t].recent)
    BY <2>6, <2>7 DEF ToSet
  <2>9. ~Covers(rows[t].approval, i)
    BY <2>4, <2>5
  <2>10. QED
    BY <2>1, <2>5, <2>8, <2>9 DEF Orphans, Shown, Covers
<1>3. QED
  BY <1>1, <1>2, NextTraced, Inductive, PTL DEF Spec, WaitingItemIsApproved

-----------------------------------------------------------------------------
(* The panel fed by a server.                                              *)

Kind == {"thread", "hint", "turn", "tokens", "ended", "closed"}
Event == {e \in [kind : Kind, thread : Thread, n : Token] : e.kind = "tokens" => e.n # 0}

FeedTyped ==
  /\ server \in [Thread -> [phase : {"none", "idle", "busy", "closed"}, turns : 0 .. MaxTurns,
                            total : Token, used : Token]]
  /\ owed \subseteq Thread /\ tracked \subseteq Thread
  /\ queue \in Seq(Event)
  /\ spent \in [Thread -> Token]
  /\ reading \in BOOLEAN
  /\ read \in [Thread -> {"unread", "running", "stopped"}]

IsAtWork(row) == row # NoRow /\ row.life \notin Terminal

(* The k-th notification is one of these kinds and of this thread. *)
Has(seq, k, t, kinds) == seq[k].thread = t /\ seq[k].kind \in kinds

Ending == {"ended", "closed"}
Reviving == {"turn", "hint", "tokens"}
Owning == {"thread", "hint"}

(* The thread is known to be a sub-agent when notification k is handled. *)
OwnedBy(t, k) == t \in tracked \/ \E j \in DOMAIN queue : j < k /\ Has(queue, j, t, Owning)

Known(t) == t \in tracked \/ \E k \in DOMAIN queue : Has(queue, k, t, Owning)
Silent(t, kinds) == \A k \in DOMAIN queue : ~Has(queue, k, t, kinds)

(* The queue ends with the thread at work, or at rest. *)
WillWork(t) ==
  \E k \in DOMAIN queue : /\ Has(queue, k, t, {"turn"}) /\ OwnedBy(t, k)
                          /\ \A m \in DOMAIN queue : m > k => ~Has(queue, m, t, Ending)
WillRest(t) ==
  \E k \in DOMAIN queue : /\ Has(queue, k, t, Ending) /\ OwnedBy(t, k)
                          /\ \A m \in DOMAIN queue : m > k => ~Has(queue, m, t, Reviving)

(* A running thread is shown at work and nothing waits that says otherwise,
   or its turn waits in the queue. *)
BusyHolds(t) ==
  server[t].phase = "busy" =>
    \/ WillWork(t)
    \/ /\ IsAtWork(rows[t]) /\ ~(reading /\ read[t] = "stopped")
       /\ Silent(t, Ending)

(* A thread at rest after a turn is not shown at work and nothing waits that
   says otherwise, or its end waits in the queue. *)
RestHolds(t) ==
  t \notin LateHints \cup LateTokens /\ server[t].phase \in {"idle", "closed"} /\ server[t].turns > 0 =>
    /\ t \notin owed
    /\ \/ WillRest(t)
       \/ /\ ~IsAtWork(rows[t]) /\ ~(reading /\ read[t] = "running")
          /\ Silent(t, Reviving)

ThreadHolds(t) ==
  /\ server[t].phase = "none" => server[t].turns = 0
  /\ server[t].used <= server[t].total
  /\ server[t].phase # "none" => Known(t)
  /\ BusyHolds(t) /\ RestHolds(t)

FeedInv == IInv /\ FeedTyped /\ \A t \in Thread : ThreadHolds(t)
(* Only the changed row goes to work or stops: a batch is taken only if none
   of its rows is at work. *)
LEMMA WorkAfterChange ==
  ASSUME rows \in [Thread -> Row \cup {NoRow}], NEW t \in Thread, NEW row, NEW arch, NEW changed,
         \/ Notify([rows EXCEPT ![t] = row], arch, changed)
         \/ Reduce([rows EXCEPT ![t] = row], arch, changed)
  PROVE  /\ IsAtWork(rows'[t]) <=> IsAtWork(row)
         /\ \A u \in Thread \ {t} : IsAtWork(rows'[u]) <=> IsAtWork(rows[u])
<1> DEFINE new == [rows EXCEPT ![t] = row]
<1>1. new[t] = row /\ \A u \in Thread \ {t} : new[u] = rows[u]
  OBVIOUS
<1> HIDE DEF new
<1>2. rows' = new \/ (rows' = [u \in Thread |-> NoRow] /\ \A u \in Thread : ~IsAtWork(new[u]))
  <2>1. Notify(new, arch, changed) \/ Reduce(new, arch, changed)
    BY DEF new
  <2>2. QED
    BY <2>1 DEF Notify, Reduce, IsAtWork
<1>3. CASE rows' = new
  BY <1>1, <1>3
<1>4. CASE rows' = [u \in Thread |-> NoRow] /\ \A u \in Thread : ~IsAtWork(new[u])
  <2>1. \A u \in Thread : ~IsAtWork(rows'[u])
    BY <1>4 DEF IsAtWork
  <2>2. \A u \in Thread \ {t} : ~IsAtWork(rows[u])
    BY <1>1, <1>4
  <2>3. QED
    BY <1>1, <1>4, <2>1, <2>2
<1>5. QED
  BY <1>2, <1>3, <1>4

LEMMA WorkAfterNothing ==
  ASSUME rows \in [Thread -> Row \cup {NoRow}], Ignore \/ Reduce(rows, archived, FALSE)
  PROVE  \A u \in Thread : IsAtWork(rows'[u]) <=> IsAtWork(rows[u])
<1>1. CASE \A u \in Thread : rows'[u] = rows[u]
  BY <1>1
<1>2. CASE rows' = [u \in Thread |-> NoRow] /\ \A u \in Thread : ~IsAtWork(rows[u])
  BY <1>2 DEF IsAtWork
<1>3. QED
  BY <1>1, <1>2 DEF Ignore, Notify, Reduce, IsAtWork

(* What a notification does to the panel: its thread is put to work by a turn
   and taken off by an end, other threads stay as they are. *)
LEMMA HandledWork ==
  ASSUME IInv, FeedTyped, NEW event \in Event, Notification(event)
  PROVE  /\ Reduced
         /\ \A u \in Thread : IsAtWork(rows[u]) /\ ~(event.thread = u /\ event.kind \in Ending) =>
              IsAtWork(rows'[u])
         /\ \A u \in Thread : ~IsAtWork(rows[u]) /\ ~(event.thread = u /\ event.kind \in Reviving) =>
              ~IsAtWork(rows'[u])
         /\ event.thread \in tracked /\ event.kind = "turn" => IsAtWork(rows'[event.thread])
         /\ event.thread \in tracked /\ event.kind \in Ending => ~IsAtWork(rows'[event.thread])
<1> DEFINE t == event.thread
<1>0. /\ t \in Thread /\ event.kind \in Kind /\ event.n \in Token
      /\ event.kind = "tokens" => event.n # 0
      /\ rows \in [Thread -> Row \cup {NoRow}]
  BY DEF Event, IInv
<1>1. CASE event.kind = "thread" \/ (event.kind \notin Owning /\ t \notin tracked)
  <2>1. Reduce(rows, archived, FALSE)
    BY <1>0, <1>1 DEF Notification, Kind, Owning
  <2>2. Reduced
    BY <2>1, IgnoreReduces
  <2>3. QED
    BY <1>0, <1>1, <2>1, <2>2, WorkAfterNothing DEF Owning, Ending
<1>2. CASE event.kind = "hint"
  <2>1. EnsureStarted(t)
    BY <1>2 DEF Notification
  <2>2. Reduced
    BY <1>0, <2>1, EnsureStartedReduces
  <2>3. CASE rows[t] # NoRow
    <3>1. Reduce(rows, archived, FALSE)
      BY <2>1, <2>3 DEF EnsureStarted
    <3>2. QED
      BY <1>0, <1>2, <2>2, <3>1, WorkAfterNothing DEF Ending
  <2>4. CASE rows[t] = NoRow
    <3>1. Reduce([rows EXCEPT ![t] = New("starting")], archived \ {t}, TRUE)
      BY <2>1, <2>4 DEF EnsureStarted
    <3>2. \A u \in Thread \ {t} : IsAtWork(rows'[u]) <=> IsAtWork(rows[u])
      BY <1>0, <3>1, WorkAfterChange
    <3>3. QED
      BY <1>0, <1>2, <2>2, <2>4, <3>2 DEF Ending, Reviving, IsAtWork
  <2>5. QED
    BY <2>3, <2>4
<1>3. CASE event.kind = "turn" /\ t \in tracked
  <2>1. StartTurn(t)
    BY <1>3 DEF Notification
  <2>2. Reduced
    BY <1>0, <2>1, StartTurnReduces
  <2> DEFINE new == TurnStarted(rows[t])
  <2>3. \E changed : Notify([rows EXCEPT ![t] = new], archived \ {t}, changed)
    BY <2>1 DEF StartTurn, TurnStarted
  <2>4. IsAtWork(new)
    BY <1>0, TurnStartedHolds, ShownRow DEF IInv, Shown, IsAtWork
  <2> HIDE DEF new
  <2>5. IsAtWork(rows'[t]) /\ \A u \in Thread \ {t} : IsAtWork(rows'[u]) <=> IsAtWork(rows[u])
    BY <1>0, <2>3, <2>4, WorkAfterChange
  <2>6. QED
    BY <1>0, <1>3, <2>2, <2>5 DEF Ending, Reviving
<1>4. CASE event.kind = "tokens" /\ t \in tracked
  <2>1. SetTotalTokens(t, event.n)
    BY <1>4 DEF Notification
  <2>2. Reduced
    BY <1>0, <1>4, <2>1, TotalReduces
  <2>3. CASE t \in archived
    <3>1. Ignore
      BY <2>1, <2>3 DEF SetTotalTokens
    <3>2. QED
      BY <1>0, <1>4, <2>2, <3>1, WorkAfterNothing DEF Ending
  <2>4. CASE t \notin archived
    <3> DEFINE old == Entry(t, "running")
               new == TotalOf(old, event.n)
    <3>1. PICK changed : SetRow(t, new, changed)
      BY <2>1, <2>4 DEF SetTotalTokens, TotalOf
    <3>2. RowHolds(new) /\ new.life = old.life
      BY <1>0, EntryHolds, TotalHolds
    <3> HIDE DEF new
    <3>3. /\ IsAtWork(rows'[t]) <=> IsAtWork(new)
          /\ \A u \in Thread \ {t} : IsAtWork(rows'[u]) <=> IsAtWork(rows[u])
      BY <1>0, <3>1, WorkAfterChange DEF SetRow
    <3>4. IsAtWork(rows[t]) => IsAtWork(new)
      BY <1>0, <3>2, EntryHolds, ShownRow DEF IsAtWork
    <3>5. QED
      BY <1>0, <1>4, <2>2, <3>3, <3>4 DEF Ending, Reviving
  <2>5. QED
    BY <2>3, <2>4
<1>5. CASE event.kind = "ended" /\ t \in tracked
  <2>1. FinishTurn(t, "completed", 0)
    BY <1>5 DEF Notification
  <2>2. Reduced
    BY <1>0, <2>1, FinishReduces DEF Terminal
  <2>3. CASE t \in archived \/ IsTerminal(t)
    <3>1. Ignore
      BY <2>1, <2>3 DEF FinishTurn
    <3>2. ~IsAtWork(rows[t])
      BY <1>0, <2>3 DEF IInv, ArchivedIsHidden, Shown, IsTerminal, IsAtWork
    <3>3. QED
      BY <1>0, <1>5, <2>2, <3>1, <3>2, WorkAfterNothing
  <2>4. CASE ~(t \in archived \/ IsTerminal(t))
    <3> DEFINE row == Entry(t, "running")
               new == Finished(row, "completed", row.tools)
    <3>1. SetRow(t, new, TRUE)
      BY <2>1, <2>4 DEF FinishTurn
    <3>2. row \in Row
      BY <1>0, EntryHolds DEF RowHolds
    <3> HIDE DEF row
    <3>3. new.life = "completed"
      BY <3>2 DEF Finished, Row
    <3> HIDE DEF new
    <3>4. ~IsAtWork(rows'[t]) /\ \A u \in Thread \ {t} : IsAtWork(rows'[u]) <=> IsAtWork(rows[u])
      BY <1>0, <3>1, <3>3, WorkAfterChange DEF SetRow, IsAtWork, Terminal
    <3>5. QED
      BY <1>0, <1>5, <2>2, <3>4 DEF Ending
  <2>5. QED
    BY <2>3, <2>4
<1>6. CASE event.kind = "closed" /\ t \in tracked
  <2>1. RemoveAgent(t)
    BY <1>6 DEF Notification
  <2>2. Reduced
    BY <1>0, <2>1, RemoveReduces
  <2>3. ~IsAtWork(rows'[t]) /\ \A u \in Thread \ {t} : IsAtWork(rows'[u]) <=> IsAtWork(rows[u])
    BY <1>0, <2>1, WorkAfterChange DEF RemoveAgent, IsAtWork
  <2>4. QED
    BY <1>0, <1>6, <2>2, <2>3 DEF Ending
<1>7. QED
  BY <1>0, <1>1, <1>2, <1>3, <1>4, <1>5, <1>6 DEF Kind, Owning

(* A notification goes last: it says what the queue ends with for its thread,
   and nothing else changes. *)
LEMMA SentHolds ==
  ASSUME FeedTyped, NEW t \in Thread, NEW kind \in Kind, NEW n \in Token, kind = "tokens" => n # 0,
         Send(t, kind, n)
  PROVE  /\ queue' \in Seq(Event) /\ UNCHANGED <<live, loop>>
         /\ \A u : Known(u) => Known(u)'
         /\ \A u : WillWork(u) /\ ~(u = t /\ kind \in Ending) => WillWork(u)'
         /\ \A u : WillRest(u) /\ ~(u = t /\ kind \in Reviving) => WillRest(u)'
         /\ \A u : Silent(u, Ending) /\ ~(u = t /\ kind \in Ending) => Silent(u, Ending)'
         /\ \A u : Silent(u, Reviving) /\ ~(u = t /\ kind \in Reviving) => Silent(u, Reviving)'
         /\ kind \in Owning => Known(t)'
         /\ kind = "turn" /\ Known(t) => WillWork(t)'
         /\ kind \in Ending /\ Known(t) => WillRest(t)'
<1> DEFINE event == [kind |-> kind, thread |-> t, n |-> n]
<1>1. event \in Event /\ event.thread = t /\ event.kind = kind
  BY DEF Event
<1> HIDE DEF event
<1>2. queue \in Seq(Event) /\ queue' = Append(queue, event)
  BY DEF FeedTyped, Send, event
<1>3. Len(queue) \in Nat /\ DOMAIN queue = 1 .. Len(queue)
  BY <1>2, LenProperties
<1> PICK last \in Nat : last = Len(queue) + 1
  BY <1>3
<1>4. /\ queue' \in Seq(Event) /\ Len(queue') = last
      /\ \A k \in 1 .. Len(queue) : queue'[k] = queue[k]
      /\ queue'[last] = event
  BY <1>1, <1>2, AppendProperties
<1>5. DOMAIN queue' = 1 .. last
  BY <1>4, LenProperties
<1>6. /\ \A k \in DOMAIN queue' : k \in DOMAIN queue \/ k = last
      /\ last \in DOMAIN queue' /\ \A k \in DOMAIN queue : k \in DOMAIN queue' /\ k < last
  BY <1>3, <1>5
<1>7. /\ \A u, kinds : \A k \in DOMAIN queue : Has(queue', k, u, kinds) <=> Has(queue, k, u, kinds)
      /\ \A u, kinds : Has(queue', last, u, kinds) <=> u = t /\ kind \in kinds
  BY <1>1, <1>3, <1>4 DEF Has
<1>8. UNCHANGED <<live, loop>> /\ tracked' = tracked
  BY DEF Send, loop
<1>9. \A u : (Known(u) => Known(u)') /\ \A k \in DOMAIN queue : OwnedBy(u, k) => OwnedBy(u, k)'
  BY <1>6, <1>7, <1>8 DEF Known, OwnedBy
<1>10. Known(t) => OwnedBy(t, last)'
  BY <1>6, <1>7, <1>8 DEF Known, OwnedBy
<1>11. \A k \in DOMAIN queue' : ~(k > last)
  BY <1>3, <1>5
<1>12. kind \in Owning => Known(t)'
  BY <1>6, <1>7 DEF Known
<1>13. ASSUME NEW u PROVE WillWork(u) /\ ~(u = t /\ kind \in Ending) => WillWork(u)'
  BY <1>6, <1>7, <1>9 DEF WillWork
<1>14. ASSUME NEW u PROVE WillRest(u) /\ ~(u = t /\ kind \in Reviving) => WillRest(u)'
  BY <1>6, <1>7, <1>9 DEF WillRest
<1>15. ASSUME NEW u
       PROVE  /\ Silent(u, Ending) /\ ~(u = t /\ kind \in Ending) => Silent(u, Ending)'
              /\ Silent(u, Reviving) /\ ~(u = t /\ kind \in Reviving) => Silent(u, Reviving)'
  BY <1>6, <1>7 DEF Silent
<1>16. kind = "turn" /\ Known(t) => WillWork(t)'
  BY <1>6, <1>7, <1>10, <1>11 DEF WillWork
<1>17. kind \in Ending /\ Known(t) => WillRest(t)'
  BY <1>6, <1>7, <1>10, <1>11 DEF WillRest
<1>18. QED
  BY <1>4, <1>8, <1>9, <1>12, <1>13, <1>14, <1>15, <1>16, <1>17

(* The first notification is handled, the others move up. *)
LEMMA PoppedHolds ==
  ASSUME FeedTyped, queue # <<>>, queue' = Tail(queue), NEW event, event = Head(queue),
         tracked' = IF event.kind \in {"thread", "hint"} THEN tracked \cup {event.thread} ELSE tracked
  PROVE  /\ event \in Event /\ queue' \in Seq(Event)
         /\ \A u : Known(u) => Known(u)'
         /\ \A u : Silent(u, Ending) => Silent(u, Ending)' /\ ~(event.thread = u /\ event.kind \in Ending)
         /\ \A u : Silent(u, Reviving) =>
              Silent(u, Reviving)' /\ ~(event.thread = u /\ event.kind \in Reviving)
         /\ \A u : WillWork(u) =>
              \/ WillWork(u)'
              \/ event.thread = u /\ event.kind = "turn" /\ u \in tracked /\ Silent(u, Ending)'
         /\ \A u : WillRest(u) =>
              \/ WillRest(u)'
              \/ event.thread = u /\ event.kind \in Ending /\ u \in tracked /\ Silent(u, Reviving)'
<1>1. queue \in Seq(Event) /\ Len(queue) \in Nat /\ DOMAIN queue = 1 .. Len(queue)
  BY LenProperties DEF FeedTyped
<1>2. /\ queue' \in Seq(Event) /\ Len(queue') = Len(queue) - 1
      /\ \A k \in 1 .. Len(queue') : queue'[k] = queue[k + 1]
      /\ event = queue[1] /\ event \in Event
  BY <1>1, HeadTailProperties
<1>3. DOMAIN queue' = 1 .. Len(queue) - 1
  BY <1>2, LenProperties
<1>4. /\ \A k \in DOMAIN queue : k # 1 => k - 1 \in DOMAIN queue' /\ queue'[k - 1] = queue[k]
      /\ \A m \in DOMAIN queue' : m + 1 \in DOMAIN queue /\ queue'[m] = queue[m + 1] /\ m + 1 > 1
      /\ DOMAIN queue \subseteq Nat /\ DOMAIN queue' \subseteq Nat
  BY <1>1, <1>2, <1>3
<1>5. /\ \A u, kinds : \A k \in DOMAIN queue : k # 1 => (Has(queue', k - 1, u, kinds) <=> Has(queue, k, u, kinds))
      /\ \A u, kinds : \A m \in DOMAIN queue' : Has(queue', m, u, kinds) <=> Has(queue, m + 1, u, kinds)
      /\ \A u, kinds : Has(queue, 1, u, kinds) <=> event.thread = u /\ event.kind \in kinds
  BY <1>2, <1>4 DEF Has
<1>6. /\ tracked \subseteq tracked'
      /\ \A u : event.thread = u /\ event.kind \in Owning => u \in tracked'
  BY DEF Owning
<1>7. 1 \in DOMAIN queue
  <2>1. Len(queue) # 0
    BY <1>1
  <2>2. QED
    BY <1>1, <2>1
<1>8. ASSUME NEW u, Known(u) PROVE Known(u)'
  BY <1>4, <1>5, <1>6, <1>8 DEF Known
<1>9. ASSUME NEW u, NEW kinds, Silent(u, kinds)
      PROVE  /\ \A m \in DOMAIN queue' : ~Has(queue', m, u, kinds)
             /\ ~(event.thread = u /\ event.kind \in kinds)
  BY <1>4, <1>5, <1>7, <1>9 DEF Silent
<1>10. ASSUME NEW u, NEW k \in DOMAIN queue, OwnedBy(u, k), k # 1
       PROVE  u \in tracked' \/ \E j \in DOMAIN queue' : j < k - 1 /\ Has(queue', j, u, Owning)
  <2>1. CASE u \in tracked
    BY <1>6, <2>1
  <2>2. ASSUME NEW j \in DOMAIN queue, j < k, Has(queue, j, u, Owning), j # 1
        PROVE  \E i \in DOMAIN queue' : i < k - 1 /\ Has(queue', i, u, Owning)
    <3>1. j - 1 \in DOMAIN queue' /\ Has(queue', j - 1, u, Owning)
      BY <1>4, <1>5, <2>2
    <3>2. j - 1 < k - 1
      BY <1>4, <2>2
    <3>3. QED
      BY <3>1, <3>2
  <2>3. QED
    BY <1>5, <1>6, <1>10, <2>1, <2>2 DEF OwnedBy
<1>11. \A u : OwnedBy(u, 1) => u \in tracked
  BY <1>1 DEF OwnedBy
<1>12. ASSUME NEW u, NEW k \in DOMAIN queue, NEW kinds,
              \A m \in DOMAIN queue : m > k => ~Has(queue, m, u, kinds)
       PROVE  \A m \in DOMAIN queue' : m > k - 1 => ~Has(queue', m, u, kinds)
  <2> SUFFICES ASSUME NEW m \in DOMAIN queue', m > k - 1, Has(queue', m, u, kinds) PROVE FALSE
    OBVIOUS
  <2>1. m + 1 \in DOMAIN queue /\ Has(queue, m + 1, u, kinds)
    BY <1>4, <1>5
  <2>2. m + 1 > k
    BY <1>4
  <2>3. QED
    BY <1>12, <2>1, <2>2
<1>13. ASSUME NEW u, WillWork(u)
       PROVE  \/ WillWork(u)'
              \/ event.thread = u /\ event.kind = "turn" /\ u \in tracked /\ Silent(u, Ending)'
  <2>1. PICK k \in DOMAIN queue : /\ Has(queue, k, u, {"turn"}) /\ OwnedBy(u, k)
                                  /\ \A m \in DOMAIN queue : m > k => ~Has(queue, m, u, Ending)
    BY <1>13 DEF WillWork
  <2>2. \A m \in DOMAIN queue' : m > k - 1 => ~Has(queue', m, u, Ending)
    BY <1>12, <2>1
  <2>3. CASE k = 1
    <3>1. \A m \in DOMAIN queue' : m > k - 1
      BY <1>4, <2>3
    <3>2. QED
      BY <1>5, <1>11, <2>1, <2>2, <2>3, <3>1 DEF Silent
  <2>4. CASE k # 1
    <3>1. k - 1 \in DOMAIN queue' /\ Has(queue', k - 1, u, {"turn"})
      BY <1>4, <1>5, <2>1, <2>4
    <3>2. PICK place : place = k - 1
      OBVIOUS
    <3>3. OwnedBy(u, place)'
      BY <1>10, <2>1, <2>4, <3>2 DEF OwnedBy
    <3>4. QED
      BY <2>2, <3>1, <3>2, <3>3 DEF WillWork
  <2>5. QED
    BY <2>3, <2>4
<1>14. ASSUME NEW u, WillRest(u)
       PROVE  \/ WillRest(u)'
              \/ event.thread = u /\ event.kind \in Ending /\ u \in tracked /\ Silent(u, Reviving)'
  <2>1. PICK k \in DOMAIN queue : /\ Has(queue, k, u, Ending) /\ OwnedBy(u, k)
                                  /\ \A m \in DOMAIN queue : m > k => ~Has(queue, m, u, Reviving)
    BY <1>14 DEF WillRest
  <2>2. \A m \in DOMAIN queue' : m > k - 1 => ~Has(queue', m, u, Reviving)
    BY <1>12, <2>1
  <2>3. CASE k = 1
    <3>1. \A m \in DOMAIN queue' : m > k - 1
      BY <1>4, <2>3
    <3>2. QED
      BY <1>5, <1>11, <2>1, <2>2, <2>3, <3>1 DEF Silent
  <2>4. CASE k # 1
    <3>1. k - 1 \in DOMAIN queue' /\ Has(queue', k - 1, u, Ending)
      BY <1>4, <1>5, <2>1, <2>4
    <3>2. PICK place : place = k - 1
      OBVIOUS
    <3>3. OwnedBy(u, place)'
      BY <1>10, <2>1, <2>4, <3>2 DEF OwnedBy
    <3>4. QED
      BY <2>2, <3>1, <3>2, <3>3 DEF WillRest
  <2>5. QED
    BY <2>3, <2>4
<1>15. \A u : /\ Silent(u, Ending) => Silent(u, Ending)' /\ ~(event.thread = u /\ event.kind \in Ending)
              /\ Silent(u, Reviving) =>
                   Silent(u, Reviving)' /\ ~(event.thread = u /\ event.kind \in Reviving)
  BY <1>9 DEF Silent
<1>16. QED
  BY <1>2, <1>8, <1>13, <1>14, <1>15

-----------------------------------------------------------------------------
(* The server's steps.                                                     *)

Served == [phase : {"none", "idle", "busy", "closed"}, turns : 0 .. MaxTurns,
           total : Token, used : Token]

LEMMA ServedTyped ==
  ASSUME FeedInv, NEW t \in Thread
  PROVE  /\ server[t] \in Served /\ ThreadHolds(t) /\ server[t].turns \in Nat
         /\ server[t].total \in Nat /\ server[t].used \in Nat
<1>1. server[t] \in Served
  BY DEF FeedInv, FeedTyped, Served
<1>2. \A x \in Token : x \in Nat
  BY LimitAssumption DEF Token
<1>3. \A x \in 0 .. MaxTurns : x \in Nat
  BY FeedAssumption
<1>4. QED
  BY <1>1, <1>2, <1>3 DEF FeedInv, Served

(* A step of the server concerns the thread that it tells of. *)
LEMMA SendKeeps ==
  ASSUME FeedInv, NEW t \in Thread, NEW kind \in Kind, NEW n \in Token, kind = "tokens" => n # 0,
         Send(t, kind, n), NEW entry \in Served, server' = [server EXCEPT ![t] = entry],
         owed' \subseteq Thread, \A u \in Thread : u # t /\ u \in owed' => u \in owed,
         ThreadHolds(t)'
  PROVE  FeedInv'
<1>1. /\ queue' \in Seq(Event) /\ UNCHANGED <<live, loop>>
      /\ \A u : Known(u) => Known(u)'
      /\ \A u : WillWork(u) /\ u # t => WillWork(u)'
      /\ \A u : WillRest(u) /\ u # t => WillRest(u)'
      /\ \A u : Silent(u, Ending) /\ u # t => Silent(u, Ending)'
      /\ \A u : Silent(u, Reviving) /\ u # t => Silent(u, Reviving)'
  BY SentHolds DEF FeedInv
<1>2. IInv'
  BY <1>1, ReducedIInv DEF FeedInv
<1>3. /\ server \in [Thread -> Served] /\ server' \in [Thread -> Served]
      /\ \A u \in Thread : u # t => server'[u] = server[u]
  BY DEF FeedInv, FeedTyped, Served
<1>4. UNCHANGED <<rows, tracked, spent, reading, read>>
  BY <1>1 DEF live, loop
<1>5. FeedTyped'
  BY <1>1, <1>3, <1>4 DEF FeedInv, FeedTyped, Served
<1>6. ASSUME NEW u \in Thread, u # t PROVE ThreadHolds(u)'
  <2>1. ThreadHolds(u) /\ server'[u] = server[u]
    BY <1>3, <1>6 DEF FeedInv
  <2>2. Known(u) => Known(u)'
    BY <1>1
  <2>3. BusyHolds(u)'
    BY <1>1, <1>4, <1>6, <2>1 DEF ThreadHolds, BusyHolds
  <2>4. RestHolds(u)'
    BY <1>1, <1>4, <1>6, <2>1 DEF ThreadHolds, RestHolds
  <2>5. QED
    BY <2>1, <2>2, <2>3, <2>4 DEF ThreadHolds
<1>7. QED
  BY <1>2, <1>5, <1>6 DEF FeedInv

LEMMA SpawnKeeps ==
  ASSUME FeedInv, NEW t \in Thread, Spawn(t)
  PROVE  FeedInv'
<1> DEFINE entry == [server[t] EXCEPT !.phase = "idle"]
<1>1. Send(t, "thread", 0) /\ server[t].phase = "none" /\ owed' = owed \cup {t}
  BY DEF Spawn
<1>2. server[t] \in Served /\ server[t].turns = 0 /\ server[t].used <= server[t].total
  BY <1>1, ServedTyped DEF ThreadHolds
<1>3. /\ entry \in Served /\ entry.phase = "idle" /\ entry.turns = 0 /\ entry.used <= entry.total
  BY <1>2 DEF Served
<1>4. server' = [server EXCEPT ![t] = entry]
  BY DEF Spawn
<1> HIDE DEF entry
<1>5. server'[t] = entry
  BY <1>4 DEF FeedInv, FeedTyped
<1>6. 0 \in Token /\ owed' \subseteq Thread
  BY <1>1, LimitAssumption DEF Token, FeedInv, FeedTyped
<1>7. Known(t)'
  BY <1>1, <1>6, SentHolds DEF Kind, Owning, FeedInv
<1>8. ThreadHolds(t)'
  BY <1>3, <1>5, <1>7 DEF ThreadHolds, BusyHolds, RestHolds
<1>9. QED
  BY <1>1, <1>3, <1>4, <1>6, <1>8, SendKeeps DEF Kind

LEMMA AnnounceKeeps ==
  ASSUME FeedInv, NEW t \in Thread, Announce(t)
  PROVE  FeedInv'
<1>1. Send(t, "hint", 0) /\ t \in owed /\ owed' = owed \ {t} /\ server' = server
  BY DEF Announce
<1>2. server[t] \in Served /\ ThreadHolds(t)
  BY ServedTyped
<1>3. 0 \in Token /\ owed' \subseteq Thread /\ server' = [server EXCEPT ![t] = server[t]]
  BY <1>1, LimitAssumption DEF Token, FeedInv, FeedTyped
<1>4. /\ UNCHANGED <<live, loop>> /\ (Known(t) => Known(t)') /\ (WillWork(t) => WillWork(t)')
      /\ Silent(t, Ending) => Silent(t, Ending)'
  BY <1>1, <1>3, SentHolds DEF Kind, Ending, FeedInv
<1>5. BusyHolds(t)'
  BY <1>1, <1>2, <1>4 DEF ThreadHolds, BusyHolds, live, loop
<1>6. RestHolds(t)'
  BY <1>1, <1>2 DEF ThreadHolds, RestHolds
<1>7. ThreadHolds(t)'
  BY <1>1, <1>2, <1>4, <1>5, <1>6 DEF ThreadHolds
<1>8. QED
  BY <1>1, <1>2, <1>3, <1>7, SendKeeps DEF Kind

LEMMA BeginKeeps ==
  ASSUME FeedInv, NEW t \in Thread, Begin(t)
  PROVE  FeedInv'
<1> DEFINE entry == [server[t] EXCEPT !.phase = "busy", !.turns = @ + 1, !.used = 0]
<1>1. /\ Send(t, "turn", 0) /\ server[t].phase = "idle" /\ server[t].turns < MaxTurns
      /\ owed' = owed
  BY DEF Begin
<1>2. /\ server[t] \in Served /\ server[t].turns \in Nat /\ server[t].total \in Nat /\ Known(t)
  BY <1>1, ServedTyped DEF ThreadHolds
<1>3. 0 \in Token /\ server[t].turns + 1 \in 0 .. MaxTurns
  BY <1>1, <1>2, LimitAssumption, FeedAssumption DEF Token
<1>4. /\ entry \in Served /\ entry.phase = "busy" /\ entry.used <= entry.total
  <2> PICK turns \in 0 .. MaxTurns : turns = server[t].turns + 1
    BY <1>3
  <2>1. entry = [server[t] EXCEPT !.phase = "busy", !.turns = turns, !.used = 0]
    BY <1>2 DEF Served
  <2>2. entry \in Served /\ entry.phase = "busy" /\ entry.used = 0 /\ entry.total = server[t].total
    BY <1>2, <1>3, <2>1 DEF Served
  <2>3. QED
    BY <1>2, <2>2
<1>5. server' = [server EXCEPT ![t] = entry]
  BY <1>2 DEF Begin, Served
<1> HIDE DEF entry
<1>6. server'[t] = entry
  BY <1>5 DEF FeedInv, FeedTyped
<1>7. WillWork(t)' /\ Known(t)'
  BY <1>1, <1>2, <1>3, SentHolds DEF Kind, FeedInv
<1>8. ThreadHolds(t)'
  BY <1>4, <1>6, <1>7 DEF ThreadHolds, BusyHolds, RestHolds
<1>9. QED
  BY <1>1, <1>3, <1>4, <1>5, <1>8, SendKeeps DEF Kind, FeedInv, FeedTyped

LEMMA SpendKeeps ==
  ASSUME FeedInv, NEW t \in Thread, Spend(t)
  PROVE  FeedInv'
<1> DEFINE entry == [server[t] EXCEPT !.total = @ + 1, !.used = @ + 1]
           n == server[t].total + 1
<1>1. Send(t, "tokens", n) /\ server[t].phase = "busy" /\ server[t].total < MaxTokens /\ owed' = owed
  BY DEF Spend
<1>2. /\ server[t] \in Served /\ server[t].total \in Nat /\ server[t].used \in Nat
      /\ ThreadHolds(t) /\ server[t].used <= server[t].total
  BY ServedTyped DEF ThreadHolds
<1>3. n \in Token /\ n # 0 /\ server[t].used + 1 \in Token /\ server[t].used + 1 <= n
  BY <1>1, <1>2, LimitAssumption DEF Token
<1>4. /\ entry \in Served /\ entry.phase = "busy" /\ entry.used <= entry.total
  BY <1>1, <1>2, <1>3 DEF Served
<1>5. server' = [server EXCEPT ![t] = entry]
  BY <1>2 DEF Spend, Served
<1> HIDE DEF entry, n
<1>6. server'[t] = entry
  BY <1>5 DEF FeedInv, FeedTyped
<1>7. /\ UNCHANGED <<live, loop>> /\ (Known(t) => Known(t)') /\ (WillWork(t) => WillWork(t)')
      /\ Silent(t, Ending) => Silent(t, Ending)'
  BY <1>1, <1>3, SentHolds DEF Kind, Ending, FeedInv
<1>8. BusyHolds(t)'
  BY <1>1, <1>2, <1>7 DEF ThreadHolds, BusyHolds, live, loop
<1>9. ThreadHolds(t)'
  BY <1>1, <1>2, <1>4, <1>6, <1>7, <1>8 DEF ThreadHolds, RestHolds
<1>10. QED
  BY <1>1, <1>3, <1>4, <1>5, <1>9, SendKeeps DEF Kind, FeedInv, FeedTyped

LEMMA RepeatKeeps ==
  ASSUME FeedInv, NEW t \in Thread, RepeatTokens(t)
  PROVE  FeedInv'
<1> DEFINE n == server[t].total
<1>1. /\ Send(t, "tokens", n) /\ server[t].phase = "idle" /\ n > 0 /\ t \in LateTokens
      /\ owed' = owed /\ server' = server
  BY DEF RepeatTokens, serverVars
<1>2. server[t] \in Served /\ ThreadHolds(t) /\ n \in Nat /\ n \in Token
  BY ServedTyped DEF Served
<1>3. n # 0 /\ server' = [server EXCEPT ![t] = server[t]] /\ owed' \subseteq Thread
  BY <1>1, <1>2 DEF FeedInv, FeedTyped
<1> HIDE DEF n
<1>4. Known(t) => Known(t)'
  BY <1>1, <1>2, <1>3, SentHolds DEF Kind, FeedInv
<1>5. ThreadHolds(t)'
  BY <1>1, <1>2, <1>4 DEF ThreadHolds, BusyHolds, RestHolds
<1>6. QED
  BY <1>1, <1>2, <1>3, <1>5, SendKeeps DEF Kind

(* A turn's end and a thread's: both are the last the queue says of it. *)
LEMMA EndKeeps ==
  ASSUME FeedInv, NEW t \in Thread, End(t) \/ Close(t)
  PROVE  FeedInv'
<1>1. PICK phase \in {"idle", "closed"}, kind \in Ending, n \in Token :
        /\ Send(t, kind, n) /\ server' = [server EXCEPT ![t].phase = phase] /\ owed' = owed
        /\ server[t].phase # "none" /\ t \notin owed \ LateHints
  <2>1. CASE End(t)
    <3>1. server[t].used \in Token
      BY ServedTyped DEF Served
    <3>2. QED
      BY <2>1, <3>1 DEF End, Ending
  <2>2. CASE Close(t)
    <3>1. 0 \in Token
      BY LimitAssumption DEF Token
    <3>2. QED
      BY <2>2, <3>1 DEF Close, Ending
  <2>3. QED
    BY <2>1, <2>2
<1> DEFINE entry == [server[t] EXCEPT !.phase = phase]
<1>2. server[t] \in Served /\ server[t].used <= server[t].total /\ Known(t)
  BY <1>1, ServedTyped DEF ThreadHolds
<1>3. entry \in Served /\ entry.phase = phase /\ entry.used <= entry.total
  BY <1>2 DEF Served
<1>4. server' = [server EXCEPT ![t] = entry]
  BY <1>1
<1> HIDE DEF entry
<1>5. server'[t] = entry /\ kind \in Kind /\ kind # "tokens"
  BY <1>4 DEF FeedInv, FeedTyped, Ending, Kind
<1>6. WillRest(t)' /\ Known(t)'
  BY <1>1, <1>2, <1>5, SentHolds DEF FeedInv
<1>7. ThreadHolds(t)'
  BY <1>1, <1>3, <1>5, <1>6 DEF ThreadHolds, BusyHolds, RestHolds
<1>8. QED
  BY <1>1, <1>3, <1>4, <1>5, <1>7, SendKeeps DEF FeedInv, FeedTyped

-----------------------------------------------------------------------------
(* The event loop's steps.                                                 *)

LEMMA HandleKeeps ==
  ASSUME FeedInv, Handle
  PROVE  FeedInv'
<1> PICK event : event = Head(queue)
  OBVIOUS
<1>1. /\ ~reading /\ queue # <<>> /\ queue' = Tail(queue) /\ Notification(event)
      /\ tracked' = IF event.kind \in {"thread", "hint"} THEN tracked \cup {event.thread} ELSE tracked
      /\ spent' = IF event.kind = "ended" THEN [spent EXCEPT ![event.thread] = event.n] ELSE spent
      /\ UNCHANGED <<server, owed, reading, read>>
  BY DEF Handle, serverVars
<1>2. /\ event \in Event /\ queue' \in Seq(Event)
      /\ \A u : Known(u) => Known(u)'
      /\ \A u : Silent(u, Ending) => Silent(u, Ending)' /\ ~(event.thread = u /\ event.kind \in Ending)
      /\ \A u : Silent(u, Reviving) =>
           Silent(u, Reviving)' /\ ~(event.thread = u /\ event.kind \in Reviving)
      /\ \A u : WillWork(u) =>
           \/ WillWork(u)'
           \/ event.thread = u /\ event.kind = "turn" /\ u \in tracked /\ Silent(u, Ending)'
      /\ \A u : WillRest(u) =>
           \/ WillRest(u)'
           \/ event.thread = u /\ event.kind \in Ending /\ u \in tracked /\ Silent(u, Reviving)'
  BY <1>1, PoppedHolds DEF FeedInv
<1>3. /\ Reduced
      /\ \A u \in Thread : IsAtWork(rows[u]) /\ ~(event.thread = u /\ event.kind \in Ending) =>
           IsAtWork(rows'[u])
      /\ \A u \in Thread : ~IsAtWork(rows[u]) /\ ~(event.thread = u /\ event.kind \in Reviving) =>
           ~IsAtWork(rows'[u])
      /\ event.thread \in tracked /\ event.kind = "turn" => IsAtWork(rows'[event.thread])
      /\ event.thread \in tracked /\ event.kind \in Ending => ~IsAtWork(rows'[event.thread])
  BY <1>1, <1>2, HandledWork DEF FeedInv
<1>4. IInv'
  BY <1>3, ReducedIInv DEF FeedInv
<1>5. FeedTyped'
  BY <1>1, <1>2 DEF FeedInv, FeedTyped, Event
<1>6. ASSUME NEW u \in Thread PROVE ThreadHolds(u)'
  <2>1. ThreadHolds(u)
    BY DEF FeedInv
  <2>2. BusyHolds(u)'
    BY <1>1, <1>2, <1>3, <2>1 DEF ThreadHolds, BusyHolds
  <2>3. RestHolds(u)'
    BY <1>1, <1>2, <1>3, <2>1 DEF ThreadHolds, RestHolds
  <2>4. QED
    BY <1>1, <1>2, <2>1, <2>2, <2>3 DEF ThreadHolds
<1>7. QED
  BY <1>4, <1>5, <1>6 DEF FeedInv

(* Steps that leave the queue leave what it ends with. *)
LEMMA SameQueue ==
  ASSUME queue' = queue, tracked \subseteq tracked'
  PROVE  /\ \A u : Known(u) => Known(u)'
         /\ \A u : Silent(u, Ending) => Silent(u, Ending)'
         /\ \A u : Silent(u, Reviving) => Silent(u, Reviving)'
         /\ \A u : WillWork(u) => WillWork(u)'
         /\ \A u : WillRest(u) => WillRest(u)'
<1>1. \A u, k : OwnedBy(u, k) => OwnedBy(u, k)'
  BY DEF OwnedBy
<1>2. QED
  BY <1>1 DEF Known, Silent, WillWork, WillRest

(* Nothing is shown otherwise than before, and what a reconciliation has read
   of a thread is true, or its news waits in the queue. *)
LEMMA QuietKeeps ==
  ASSUME FeedInv, UNCHANGED <<server, owed, queue, spent>>, tracked \subseteq tracked',
         tracked' \subseteq Thread, reading' \in BOOLEAN,
         read' \in [Thread -> {"unread", "running", "stopped"}], IInv',
         \A u \in Thread :
           /\ server[u].phase = "busy" /\ IsAtWork(rows[u]) /\ ~(reading /\ read[u] = "stopped") =>
                IsAtWork(rows'[u]) /\ ~(reading' /\ read'[u] = "stopped")
           /\ server[u].phase # "busy" /\ ~IsAtWork(rows[u]) /\ ~(reading /\ read[u] = "running") =>
                ~IsAtWork(rows'[u]) /\ ~(reading' /\ read'[u] = "running")
  PROVE  FeedInv'
<1>1. /\ \A u : Known(u) => Known(u)'
      /\ \A u : Silent(u, Ending) => Silent(u, Ending)'
      /\ \A u : Silent(u, Reviving) => Silent(u, Reviving)'
      /\ \A u : WillWork(u) => WillWork(u)'
      /\ \A u : WillRest(u) => WillRest(u)'
  BY SameQueue
<1>2. FeedTyped'
  BY DEF FeedInv, FeedTyped
<1>3. ASSUME NEW u \in Thread PROVE ThreadHolds(u)'
  <2>1. ThreadHolds(u)
    BY DEF FeedInv
  <2>2. BusyHolds(u)'
    BY <1>1, <2>1 DEF ThreadHolds, BusyHolds
  <2>3. RestHolds(u)'
    BY <1>1, <2>1 DEF ThreadHolds, RestHolds
  <2>4. QED
    BY <1>1, <2>1, <2>2, <2>3 DEF ThreadHolds
<1>4. QED
  BY <1>2, <1>3 DEF FeedInv

LEMMA ReadingKeeps ==
  ASSUME FeedInv, OpenPicker \/ (\E t \in Thread : ReadThread(t)) \/ AbandonReading \/ Redraw
  PROVE  FeedInv'
<1>1. IInv'
  <2>1. UNCHANGED live \/ Draw
    BY DEF OpenPicker, ReadThread, AbandonReading, Redraw
  <2>2. QED
    BY <2>1, ReducedIInv DEF FeedInv
<1>2. rows' = rows /\ UNCHANGED <<server, owed, queue, tracked, spent>>
  BY DEF OpenPicker, ReadThread, AbandonReading, Redraw, Draw, live, serverVars, loop
<1>3. /\ reading \in BOOLEAN /\ read \in [Thread -> {"unread", "running", "stopped"}]
      /\ tracked \subseteq Thread
  BY DEF FeedInv, FeedTyped
<1>4. CASE OpenPicker \/ AbandonReading \/ Redraw
  <2>1. /\ reading' \in BOOLEAN /\ read' \in [Thread -> {"unread", "running", "stopped"}]
        /\ \A u \in Thread : \/ ~reading' \/ read'[u] = "unread"
                             \/ reading' = reading /\ read' = read
    BY <1>3, <1>4 DEF OpenPicker, AbandonReading, Redraw, Unread, loop
  <2>2. QED
    BY <1>1, <1>2, <1>3, <2>1, QuietKeeps
<1>5. ASSUME NEW t \in Thread, ReadThread(t) PROVE FeedInv'
  <2>1. /\ reading' = reading /\ read[t] = "unread"
        /\ read' = [read EXCEPT ![t] = IF server[t].phase = "busy" THEN "running" ELSE "stopped"]
    BY <1>5 DEF ReadThread
  <2>2. /\ read' \in [Thread -> {"unread", "running", "stopped"}]
        /\ \A u \in Thread : u # t => read'[u] = read[u]
        /\ server[t].phase = "busy" => read'[t] = "running"
        /\ server[t].phase # "busy" => read'[t] = "stopped"
    BY <1>3, <2>1
  <2>3. QED
    BY <1>1, <1>2, <1>3, <2>1, <2>2, QuietKeeps
<1>6. QED
  BY <1>4, <1>5

(* A reconciliation shows the threads that it has read to be running. *)
LEMMA FinishReadingKeeps ==
  ASSUME FeedInv, FinishReading
  PROVE  FeedInv'
<1> DEFINE running == {t \in Thread : read[t] = "running"}
           new == [t \in Thread |-> CASE t \notin running -> NoRow
                                      [] t \in running -> Hydrated(Entry(t, "running"))]
<1>1. /\ reading /\ reading' = FALSE /\ read' = Unread /\ tracked' = tracked \cup running
      /\ \A t \in Thread : read[t] # "unread"
      /\ UNCHANGED <<server, owed, queue, spent>> /\ Reconcile(running)
  BY DEF FinishReading, serverVars
<1>2. IInv'
  BY <1>1, ReconcileReduces, ReducedIInv DEF FeedInv
<1>3. rows' = new
  BY <1>1 DEF Reconcile, Reduce
<1>4. ASSUME NEW u \in Thread PROVE IsAtWork(rows'[u]) <=> u \in running
  <2>1. CASE u \in running
    <3>1. rows'[u] = Hydrated(Entry(u, "running"))
      BY <1>3, <2>1
    <3>2. RowHolds(rows'[u]) /\ rows'[u].life = "running"
      BY <3>1, EntryHolds, HydratedHolds DEF FeedInv
    <3>3. QED
      BY <2>1, <3>2, ShownRow DEF IsAtWork, Terminal
  <2>2. CASE u \notin running
    BY <1>3, <2>2 DEF IsAtWork
  <2>3. QED
    BY <2>1, <2>2
<1>5. \A u \in Thread : read[u] \in {"running", "stopped"}
  BY <1>1 DEF FeedInv, FeedTyped
<1>6. /\ read' \in [Thread -> {"unread", "running", "stopped"}] /\ tracked \subseteq tracked'
      /\ tracked' \subseteq Thread /\ reading' \in BOOLEAN
  BY <1>1 DEF FeedInv, FeedTyped, Unread
<1>7. \A u \in Thread :
        /\ ~(reading /\ read[u] = "stopped") => IsAtWork(rows'[u])
        /\ ~(reading /\ read[u] = "running") => ~IsAtWork(rows'[u])
  BY <1>1, <1>4, <1>5
<1> HIDE DEF running
<1>8. QED
  BY <1>1, <1>2, <1>6, <1>7, QuietKeeps

-----------------------------------------------------------------------------
LEMMA InitFeedInv == FeedInit => FeedInv
<1> SUFFICES ASSUME FeedInit PROVE FeedInv
  OBVIOUS
<1>1. IInv
  BY InitIInv DEF FeedInit
<1>2. FeedTyped
  <2>1. 0 \in Token /\ 0 \in 0 .. MaxTurns /\ <<>> \in Seq(Event)
    BY LimitAssumption, FeedAssumption DEF Token
  <2>2. QED
    BY <2>1 DEF FeedInit, FeedTyped, Unread
<1>3. \A t \in Thread : ThreadHolds(t)
  BY DEF FeedInit, ThreadHolds, BusyHolds, RestHolds
<1>4. QED
  BY <1>1, <1>2, <1>3 DEF FeedInv

LEMMA NextFeedInv == FeedInv /\ [FeedNext]_vars => FeedInv'
<1> SUFFICES ASSUME FeedInv, [FeedNext]_vars PROVE FeedInv'
  OBVIOUS
<1>1. CASE UNCHANGED vars
  <2>1. UNCHANGED live /\ UNCHANGED <<rows, server, owed, queue, tracked, spent, reading, read>>
    BY <1>1 DEF vars, live, serverVars, loop
  <2>2. IInv'
    BY <2>1, ReducedIInv DEF FeedInv
  <2>3. /\ reading \in BOOLEAN /\ read \in [Thread -> {"unread", "running", "stopped"}]
        /\ tracked \subseteq Thread
    BY DEF FeedInv, FeedTyped
  <2>4. QED
    BY <2>1, <2>2, <2>3, QuietKeeps
<1>2. CASE Server
  BY <1>2, SpawnKeeps, AnnounceKeeps, BeginKeeps, SpendKeeps, RepeatKeeps, EndKeeps DEF Server
<1>3. QED
  BY <1>1, <1>2, HandleKeeps, ReadingKeeps, FinishReadingKeeps DEF FeedNext

(* The inductive invariant of the panel fed by a server. *)
THEOREM FeedInductive == FeedSpec => []FeedInv
BY InitFeedInv, NextFeedInv, PTL DEF FeedSpec

(* Caught up, the panel shows at work exactly the threads that are, for any
   number of threads, turns and waiting notifications. *)
THEOREM PanelShowsWhoWorks == FeedSpec => []PanelAgrees
<1>1. FeedInv => PanelAgrees
  <2> SUFFICES ASSUME FeedInv PROVE PanelAgrees
    OBVIOUS
  <2>1. FeedTypeOK
    <3>1. TypeOK
      BY IInvCoherent DEF FeedInv, RowsAreCoherent
    <3>2. queue \in Seq([kind : {"thread", "hint", "turn", "tokens", "ended", "closed"},
                         thread : Thread, n : Token])
      <4> DEFINE S == [kind : {"thread", "hint", "turn", "tokens", "ended", "closed"},
                       thread : Thread, n : Token]
      <4>1. Event \subseteq S
        BY DEF Event, Kind
      <4> HIDE DEF S
      <4>2. queue \in [1 .. Len(queue) -> S] /\ Len(queue) \in Nat
        BY <4>1, LenProperties DEF FeedInv, FeedTyped
      <4>3. queue \in Seq(S)
        BY <4>2, SeqDef
      <4>4. QED
        BY <4>3 DEF S
    <3>3. QED
      BY <3>1, <3>2 DEF FeedInv, FeedTyped, FeedTypeOK
  <2>2. ASSUME CaughtUp
        PROVE  DOMAIN queue = {} /\ \A t \in Thread : ~WillWork(t) /\ ~WillRest(t)
    <3>1. DOMAIN queue = {}
      BY <2>2 DEF CaughtUp
    <3>2. QED
      BY <3>1 DEF WillWork, WillRest
  <2>3. RunningIsShown
    BY <2>2 DEF RunningIsShown, FeedInv, ThreadHolds, BusyHolds, IsAtWork, IsTerminal
  <2>4. NoGhosts
    <3> SUFFICES ASSUME CaughtUp, NEW t \in Shown \ (LateHints \cup LateTokens), ~IsTerminal(t)
                 PROVE  server[t].phase = "busy" \/ server[t].turns = 0
      BY DEF NoGhosts
    <3>1. t \in Thread /\ IsAtWork(rows[t])
      BY DEF Shown, IsTerminal, IsAtWork
    <3>2. /\ ThreadHolds(t) /\ server[t].turns \in Nat
          /\ server[t].phase \in {"none", "idle", "busy", "closed"}
      BY <3>1, ServedTyped DEF Served
    <3>3. CASE server[t].phase \in {"idle", "closed"} /\ server[t].turns > 0
      BY <2>2, <3>1, <3>2, <3>3 DEF ThreadHolds, RestHolds
    <3>4. QED
      BY <3>2, <3>3 DEF ThreadHolds
  <2>5. QED
    BY <2>1, <2>3, <2>4 DEF PanelAgrees
<1>2. QED
  BY <1>1, FeedInductive, PTL
=============================================================================
