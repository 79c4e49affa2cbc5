------------------------- MODULE UpdatePipelineProofs -------------------------
(***************************************************************************)
(* Theorems about UpdatePipeline, for any set of workers, messages and      *)
(* updates, with failures and crashes allowed.                              *)
(***************************************************************************)
EXTENDS UpdatePipeline, TLAPS

(* A job owns the primary update of its message, and so does a task that    *)
(* has claimed the first of several updates.                                *)
OwnsPrimary ==
  \A w \in Workers :
    task[w].pc \in JobPc \/ (task[w].pc \in ClaimPc /\ task[w].ix > 1)
      => Primary(Msg(w)) \in task[w].claimed

(* A live claim has a row: an insert of the same update would fail. *)
ClaimHasRow ==
  \A w \in Workers : \A u \in task[w].claimed \ lapsed : Present(rows[u])

(* Nothing is stored under a claim before its owner saves a reply. *)
ClaimUnsaved ==
  \A w \in Workers :
    task[w].pc \in ClaimPc \cup UnsavedPc \cup {"rollback"}
      => \A u \in task[w].claimed \ lapsed : StoredReply(u) = NoReply

(* The reply a task is delivering is the stored one. *)
DeliveringStored ==
  \A w \in Workers :
    task[w].pc \in ResendPc \cup SavedPc /\ Primary(Msg(w)) \notin lapsed
      => StoredReply(Primary(Msg(w))) = task[w].reply

(* The reply the chat got is still stored. *)
DeliveredStored ==
  \A u \in Updates \ lapsed : \A r \in delivered[u] : StoredReply(u) = r

(* A task that is past its send has told the chat. *)
ToldBeforeMark ==
  \A w \in Workers :
    task[w].pc \in {"resendPersist", "markAll", "persist", "mark"}
      => PartsOf(Msg(w)) \subseteq answered

(* A message that has not passed the guard has claimed nothing. *)
NothingClaimedYet ==
  \A w \in Workers :
    task[w].pc \in {"lookup", "guard"} => task[w].ix = 1 /\ task[w].claimed = {}

LiveInv ==
  /\ NothingClaimedYet
  /\ OwnsPrimary
  /\ ClaimExclusive
  /\ ClaimHasRow
  /\ ClaimUnsaved
  /\ DeliveringStored
  /\ DeliveredStored

-----------------------------------------------------------------------------
(* What the statements of the table return. *)

(* Every statement of the repository keeps a table a table: it writes       *)
(* complete rows and deletes whole ones.                                    *)
LEMMA TableTypes ==
  ASSUME NEW table \in Table
  PROVE  /\ \A u \in Updates : ClearProcessing(table, u) \in Table
         /\ \A u \in Updates, at \in Nat : InsertClaim(table, u, at) \in Table
         /\ \A u \in Updates, at \in Nat : ReclaimRow(table, u, at) \in Table
         /\ \A u \in Updates, at \in Nat : MarkProcessed(table, u, at) \in Table
         /\ \A u \in Updates, at \in Nat, r \in Replies : SavePendingReply(table, u, r, at) \in Table
         /\ \A cutoff \in Int : PruneSentBefore(table, cutoff) \in Table
<1>1. \A at \in Nat : Claimed(at) \in Row
  BY DEF Claimed, Row
<1>2. \A at \in Nat, r \in Replies : [processed_at |-> at, reply |-> r, sent |-> FALSE] \in Row
  BY DEF Row
<1>3. \A at \in Nat, u \in Updates :
        [processed_at |-> at,
         reply |-> ReplyOf(table[u]),
         sent |-> TRUE] \in Row
  BY DEF Row, Table, Present, ReplyOf
<1>4. \A u \in Updates, at \in Nat : InsertClaim(table, u, at) \in Table /\ ReclaimRow(table, u, at) \in Table
  BY <1>1 DEF InsertClaim, ReclaimRow, Table
<1>5. \A u \in Updates : ClearProcessing(table, u) \in Table
  BY DEF ClearProcessing, Table
<1>6. \A u \in Updates, at \in Nat : MarkProcessed(table, u, at) \in Table
  BY <1>3 DEF MarkProcessed, Table
<1>7. \A u \in Updates, at \in Nat, r \in Replies : SavePendingReply(table, u, r, at) \in Table
  BY <1>2 DEF SavePendingReply, Table
<1>8. \A cutoff \in Int : PruneSentBefore(table, cutoff) \in Table
  BY DEF PruneSentBefore, Table
<1> QED
  BY <1>4, <1>5, <1>6, <1>7, <1>8

(* The updates of a message are updates, the primary one of them. *)
LEMMA PartsType ==
  ASSUME NEW m \in Messages
  PROVE  /\ Len(Parts[m]) \in Nat \ {0}
         /\ DOMAIN Parts[m] = 1 .. Len(Parts[m])
         /\ \A i \in 1 .. Len(Parts[m]) : Parts[m][i] \in PartsOf(m)
         /\ PartsOf(m) \subseteq Updates
         /\ Primary(m) \in PartsOf(m)
<1>1. Parts[m] \in Seq(Updates) /\ Len(Parts[m]) > 0
  BY PipelineAssumption
<1>2. DOMAIN Parts[m] = 1 .. Len(Parts[m]) /\ Len(Parts[m]) \in Nat
  BY <1>1
<1>3. \A i \in 1 .. Len(Parts[m]) : Parts[m][i] \in Updates
  BY <1>1
<1>4. 1 \in 1 .. Len(Parts[m])
  BY <1>1, <1>2
<1> QED
  BY <1>1, <1>2, <1>3, <1>4 DEF PartsOf, Primary

-----------------------------------------------------------------------------
(* Type correctness. *)

GoodTask(t) ==
  /\ t \in Task
  /\ \/ t = Idle
     \/ /\ t.pc # "idle"
        /\ t.msg \in Messages
        /\ t.ix \in 1 .. Len(Parts[t.msg])
        /\ t.claimed \subseteq PartsOf(t.msg)
        /\ t.pc \in DeliveryPc => t.reply \in Replies

GoodTasks == task \in [Workers -> Task] /\ \A w \in Workers : GoodTask(task[w])

(* The part of TypeOK about the variables that are not tasks. *)
GoodData ==
  /\ rows \in Table
  /\ now \in Nat \ {0}
  /\ lastPrune \in Nat
  /\ acked \subseteq Messages
  /\ generated \subseteq Replies
  /\ answered \subseteq Updates
  /\ delivered \in [Updates -> SUBSET Replies]
  /\ lapsed \subseteq Updates

LEMMA TypeSplit == TypeOK <=> GoodData /\ GoodTasks
  BY DEF TypeOK, GoodData, GoodTasks, GoodTask, Msg

LEMMA TypeSplitNext == TypeOK' <=> GoodData' /\ GoodTasks'
  BY DEF TypeOK, GoodData, GoodTasks, GoodTask, Msg

LEMMA IdleIsGood == GoodTask(Idle)
  BY DEF GoodTask, Idle, Task, Pc

(* A worker's step leaves good tasks if its own new task is good. *)
LEMMA BecomeGood ==
  ASSUME GoodTasks, NEW w \in Workers, NEW t, GoodTask(t), Become(w, t)
  PROVE  GoodTasks'
  BY DEF GoodTasks, GoodTask, Become

(* A task on a message stays good when only its pc changes. *)
LEMMA GotoGood ==
  ASSUME GoodTasks, NEW w \in Workers, task[w].pc # "idle",
         NEW pc \in Pc \ {"idle"}, pc \in DeliveryPc => task[w].pc \in DeliveryPc
  PROVE  GoodTask([task[w] EXCEPT !.pc = pc])
<1>1. task[w] \in Task /\ task[w] # Idle /\ GoodTask(task[w])
  BY DEF GoodTasks, Idle
<1> QED
  BY <1>1 DEF GoodTask, Task

LEMMA InitTypes == Init => TypeOK
<1> SUFFICES ASSUME Init PROVE GoodData /\ GoodTasks
  BY TypeSplit
<1>1. GoodData
  BY DEF Init, GoodData, EmptyTable, Table
<1>2. GoodTasks
  BY IdleIsGood DEF Init, GoodTasks, GoodTask
<1> QED
  BY <1>1, <1>2

(* The steps of the webhook keep the types. *)
LEMMA WebhookTypes ==
  ASSUME GoodData, GoodTasks, NEW w \in Workers, Webhook(w)
  PROVE  GoodData' /\ GoodTasks'
<1> DEFINE t == task[w]
<1> USE IdleIsGood DEF DeliveryPc, ResendPc, SavedPc, ClaimPc, UnsavedPc, NoticePc
<1>1. t.pc # "idle"
  BY DEF Webhook, Lookup, Resend, ResendPersist, SendNotice, MarkAll, Guard, ClaimFind,
         ClaimInsert, ClaimConflict, ClaimReclaim, Rollback, Respond, At, NoticePc
<1>2. /\ t \in Task /\ GoodTask(t) /\ Msg(w) \in Messages
      /\ t.ix \in 1 .. Len(Parts[Msg(w)])
      /\ t.claimed \subseteq PartsOf(Msg(w))
      /\ t.pc \in DeliveryPc => t.reply \in Replies
  BY <1>1 DEF GoodTasks, GoodTask, Idle, Msg
<1>3. /\ Current(w) \in PartsOf(Msg(w)) /\ Current(w) \in Updates
      /\ Primary(Msg(w)) \in Updates /\ PartsOf(Msg(w)) \subseteq Updates
  BY <1>2, PartsType DEF Current
<1>4. ASSUME NEW pc \in Pc \ {"idle"}, pc \in DeliveryPc => t.pc \in DeliveryPc, Goto(w, pc)
      PROVE  GoodTasks'
  BY <1>1, <1>4, GotoGood, BecomeGood DEF Goto
<1>5. ASSUME Become(w, Idle) PROVE GoodTasks'
  BY <1>5, BecomeGood
<1>6. ASSUME NEW pc \in {"claim", "prune", "markAll"},
             NEW c \in SUBSET PartsOf(Msg(w)),
             NEW i \in 1 .. Len(Parts[Msg(w)]),
             Become(w, [t EXCEPT !.pc = pc, !.claimed = c, !.ix = i])
      PROVE  GoodTasks'
  <2> DEFINE s == [t EXCEPT !.pc = pc, !.claimed = c, !.ix = i]
  <2>1. pc \in Pc /\ pc # "idle" /\ pc \notin DeliveryPc
    BY DEF Pc, WebhookPc, JobPc
  <2>2. s \in Task
    <3>1. c \in SUBSET Updates /\ i \in Nat
      BY <1>2, <1>3, PartsType
    <3> QED
      BY <1>2, <2>1, <3>1 DEF Task
  <2>3. s.pc = pc /\ s.msg = t.msg /\ s.claimed = c /\ s.ix = i
    BY <1>2 DEF Task
  <2>4. GoodTask(s)
    BY <1>2, <2>1, <2>2, <2>3 DEF GoodTask, Idle, Msg
  <2> QED
    BY <1>6, <2>4, BecomeGood
<1>7. ~LastPart(w) => t.ix + 1 \in 1 .. Len(Parts[Msg(w)])
  BY <1>2, PartsType DEF LastPart
<1>8. ASSUME Told(w), UNCHANGED <<rows, now, lastPrune, acked, generated, delivered, lapsed>>
      PROVE  GoodData'
  BY <1>3, <1>8 DEF Told, GoodData
<1>9. ASSUME ClaimedCurrent(w)
      PROVE  GoodTasks' /\ acked' \subseteq Messages
  <2>1. acked' \subseteq Messages
    BY <1>2, <1>9 DEF ClaimedCurrent, GoodData
  <2>2. CASE LastPart(w)
    <3>1. t.claimed \cup {Current(w)} \in SUBSET PartsOf(Msg(w))
      BY <1>2, <1>3
    <3>2. task' = [task EXCEPT ![w] = [t EXCEPT !.pc = "prune", !.claimed = t.claimed \cup {Current(w)}, !.ix = t.ix]]
      BY <1>2, <1>9, <2>2 DEF ClaimedCurrent, Become, Task
    <3> QED
      BY <1>2, <1>6, <2>1, <3>1, <3>2 DEF Become
  <2>3. CASE ~LastPart(w)
    <3>1. t.claimed \cup {Current(w)} \in SUBSET PartsOf(Msg(w))
      BY <1>2, <1>3
    <3>2. task' = [task EXCEPT ![w] = [t EXCEPT !.pc = "claim", !.claimed = t.claimed \cup {Current(w)}, !.ix = t.ix + 1]]
      BY <1>2, <1>9, <2>3 DEF ClaimedCurrent, Become, Task
    <3> QED
      BY <1>6, <1>7, <2>1, <2>3, <3>1, <3>2 DEF Become
  <2> QED
    BY <2>2, <2>3
<1>10. rows[Current(w)] \in Row \cup {NoRow} /\ rows[Primary(Msg(w))] \in Row \cup {NoRow}
  BY <1>3 DEF GoodData, Table
<1>11. CASE Lookup(w)
  <2>1. GoodData'
    BY <1>11 DEF Lookup, GoodData
  <2>2. CASE task' = [task EXCEPT ![w] = [t EXCEPT !.pc = "resend", !.reply = rows[Primary(Msg(w))].reply]]
             /\ Replayable(rows[Primary(Msg(w))])
    <3>1. rows[Primary(Msg(w))].reply \in Replies
      BY <1>10, <2>2 DEF Replayable, ReplyOf, Present, Row
    <3>2. GoodTask([t EXCEPT !.pc = "resend", !.reply = rows[Primary(Msg(w))].reply])
      BY <1>2, <3>1 DEF GoodTask, Task, Idle, Pc, WebhookPc, ResendPc, Msg
    <3> QED
      BY <2>1, <2>2, <3>2, BecomeGood DEF Become
  <2> QED
    BY <1>4, <1>11, <2>1, <2>2 DEF Lookup, Become, Pc, WebhookPc, NoticePc
<1>12. CASE Resend(w)
  <2>1. GoodData'
    BY <1>2, <1>3, <1>12 DEF Resend, At, ToldReply, Told, GoodData
  <2>2. GoodTasks'
    BY <1>4, <1>5, <1>12 DEF Resend, At, Pc, WebhookPc
  <2> QED
    BY <2>1, <2>2
<1>13. CASE ResendPersist(w)
  BY <1>4, <1>13 DEF ResendPersist, GoodData, Pc, WebhookPc
<1>14. CASE SendNotice(w)
  BY <1>4, <1>5, <1>8, <1>14 DEF SendNotice, Pc, WebhookPc
<1>15. CASE MarkAll(w)
  <2>1. GoodData'
    BY <1>3, <1>15, TableTypes DEF MarkAll, GoodData
  <2>2. CASE LastPart(w)
    BY <1>4, <1>15, <2>1, <2>2 DEF MarkAll, Goto, Pc
  <2>3. CASE ~LastPart(w)
    <3>1. At(w, "markAll") /\ Become(w, [t EXCEPT !.ix = t.ix + 1])
      BY <1>15, <2>3 DEF MarkAll
    <3>2. [t EXCEPT !.ix = t.ix + 1] = [t EXCEPT !.pc = "markAll", !.claimed = t.claimed, !.ix = t.ix + 1]
      BY <1>2, <3>1 DEF At, Task
    <3> QED
      BY <1>2, <1>6, <1>7, <2>1, <2>3, <3>1, <3>2
  <2> QED
    BY <2>2, <2>3
<1>16. CASE Guard(w)
  BY <1>4, <1>16 DEF Guard, GoodData, Pc, WebhookPc, ClaimPc, NoticePc
<1>17. CASE ClaimFind(w)
  <2>1. GoodData'
    BY <1>17 DEF ClaimFind, GoodData
  <2>2. ASSUME NEW pc \in {"insert", "reclaim"}, Become(w, [t EXCEPT !.pc = pc, !.stamp = now])
        PROVE  GoodTasks'
    <3>1. GoodTask([t EXCEPT !.pc = pc, !.stamp = now])
      BY <1>2 DEF GoodTask, Task, Idle, Pc, WebhookPc, ClaimPc, Msg, GoodData
    <3> QED
      BY <2>2, <3>1, BecomeGood
  <2> QED
    BY <1>4, <1>17, <2>1, <2>2 DEF ClaimFind, Pc, WebhookPc
<1>18. CASE ClaimInsert(w)
  <2>1. t.stamp \in Nat
    BY <1>2 DEF Task
  <2>2. rows' \in Table
    BY <1>3, <1>18, <2>1, TableTypes DEF ClaimInsert, GoodData
  <2> QED
    BY <1>9, <1>18, <2>2 DEF ClaimInsert, GoodData
<1>19. CASE ClaimConflict(w)
  BY <1>5, <1>19 DEF ClaimConflict, GoodData
<1>20. CASE ClaimReclaim(w)
  <2>1. t.stamp \in Nat
    BY <1>2 DEF Task
  <2>2. rows' \in Table
    BY <1>3, <1>20, <2>1, TableTypes DEF ClaimReclaim, GoodData
  <2> QED
    BY <1>3, <1>9, <1>20, <2>2 DEF ClaimReclaim, GoodData
<1>21. CASE Rollback(w)
  <2>1. PICK i \in DOMAIN Parts[Msg(w)] :
          /\ rows' = ClearProcessing(rows, Parts[Msg(w)][i])
          /\ Become(w, [t EXCEPT !.claimed = t.claimed \ {Parts[Msg(w)][i]},
                                 !.pc = IF t.claimed \ {Parts[Msg(w)][i]} = {} THEN "respond" ELSE "rollback"])
    BY <1>21 DEF Rollback
  <2>2. Parts[Msg(w)][i] \in Updates
    BY <1>2, <2>1, PartsType
  <2>3. GoodData'
    BY <1>21, <2>1, <2>2, TableTypes DEF Rollback, GoodData
  <2>4. ASSUME NEW pc \in {"respond", "rollback"}, NEW c \in SUBSET t.claimed
        PROVE  GoodTask([t EXCEPT !.claimed = c, !.pc = pc])
    BY <1>2, <1>3 DEF GoodTask, Task, Idle, Pc, WebhookPc, Msg
  <2> QED
    BY <2>1, <2>3, <2>4, BecomeGood
<1>22. CASE Respond(w)
  BY <1>2, <1>5, <1>22 DEF Respond, GoodData
<1> QED
  BY <1>11, <1>12, <1>13, <1>14, <1>15, <1>16, <1>17, <1>18, <1>19, <1>20, <1>21, <1>22 DEF Webhook

(* The steps of the job keep the types. *)
LEMMA JobTypes ==
  ASSUME GoodData, GoodTasks, NEW w \in Workers, Job(w)
  PROVE  GoodData' /\ GoodTasks'
<1> DEFINE t == task[w]
<1> USE IdleIsGood DEF DeliveryPc, ResendPc, SavedPc, UnsavedPc
<1>1. t.pc # "idle"
  BY DEF Job, PruneDue, PruneDelete, Generate, Save, Send, Persist, Mark, Release, At
<1>2. /\ t \in Task /\ GoodTask(t) /\ Msg(w) \in Messages
      /\ t.pc \in DeliveryPc => t.reply \in Replies
  BY <1>1 DEF GoodTasks, GoodTask, Idle, Msg
<1>3. Primary(Msg(w)) \in Updates /\ PartsOf(Msg(w)) \subseteq Updates
  BY <1>2, PartsType
<1>4. ASSUME NEW pc \in Pc \ {"idle"}, pc \in DeliveryPc => t.pc \in DeliveryPc, Goto(w, pc)
      PROVE  GoodTasks'
  BY <1>1, <1>4, GotoGood, BecomeGood DEF Goto
<1>5. ASSUME Become(w, Idle) PROVE GoodTasks'
  BY <1>5, BecomeGood
<1>6. t.stamp \in Nat
  BY <1>2 DEF Task
<1>7. CASE PruneDue(w)
  <2>1. GoodData'
    BY <1>7 DEF PruneDue, GoodData
  <2>2. CASE Become(w, [t EXCEPT !.pc = "delete", !.stamp = now])
    <3> DEFINE s == [t EXCEPT !.pc = "delete", !.stamp = now]
    <3>1. s \in Task /\ s.pc = "delete" /\ s.msg = t.msg /\ s.ix = t.ix /\ s.claimed = t.claimed
      BY <1>2 DEF Task, Pc, JobPc, GoodData
    <3>2. GoodTask(s)
      BY <1>1, <1>2, <3>1 DEF GoodTask, Idle
    <3> QED
      BY <2>1, <2>2, <3>2, BecomeGood
  <2> QED
    BY <1>4, <1>7, <2>1, <2>2 DEF PruneDue, Pc, JobPc
<1>8. CASE PruneDelete(w)
  <2>1. t.stamp - Retention \in Int
    BY <1>6, TableAssumption
  <2>2. rows' \in Table
    BY <1>8, <2>1, TableTypes DEF PruneDelete, GoodData
  <2>3. GoodData'
    BY <1>6, <1>8, <2>2 DEF PruneDelete, GoodData, Prunable
  <2> QED
    BY <1>4, <1>8, <2>3 DEF PruneDelete, Pc, JobPc
<1>9. CASE Generate(w)
  <2>1. PICK r \in Replies : /\ generated' = generated \cup {r}
                             /\ Become(w, [t EXCEPT !.pc = "save", !.reply = r])
    BY <1>9 DEF Generate
  <2> DEFINE s == [t EXCEPT !.pc = "save", !.reply = r]
  <2>2. /\ s \in Task /\ s.pc = "save" /\ s.reply = r
        /\ s.msg = t.msg /\ s.ix = t.ix /\ s.claimed = t.claimed
    BY <1>2 DEF Task, Pc, JobPc
  <2>3. GoodTask(s)
    BY <1>1, <1>2, <2>2 DEF GoodTask, Idle
  <2> QED
    BY <1>9, <2>1, <2>3, BecomeGood DEF Generate, GoodData
<1>10. CASE Save(w)
  <2>1. rows' \in Table
    BY <1>2, <1>3, <1>10, TableTypes DEF Save, At, GoodData
  <2> QED
    BY <1>4, <1>10, <2>1 DEF Save, At, GoodData, Pc, JobPc
<1>11. CASE Send(w)
  <2>1. GoodData'
    BY <1>2, <1>3, <1>11 DEF Send, At, ToldReply, Told, GoodData
  <2> QED
    BY <1>4, <1>11, <2>1 DEF Send, At, Pc, JobPc
<1>12. CASE Persist(w)
  BY <1>4, <1>12 DEF Persist, At, GoodData, Pc, JobPc
<1>13. CASE Mark(w)
  BY <1>3, <1>5, <1>13, TableTypes DEF Mark, GoodData
<1>14. CASE Release(w)
  BY <1>3, <1>5, <1>14, TableTypes DEF Release, GoodData
<1> QED
  BY <1>7, <1>8, <1>9, <1>10, <1>11, <1>12, <1>13, <1>14 DEF Job

LEMMA NextTypes == TypeOK /\ [Next]_vars => TypeOK'
<1> SUFFICES ASSUME GoodData, GoodTasks, [Next]_vars
             PROVE  GoodData' /\ GoodTasks'
  BY TypeSplit, TypeSplitNext
<1> USE IdleIsGood
<1>1. ASSUME NEW w \in Workers, Deliver(w) PROVE GoodData' /\ GoodTasks'
  <2>1. PICK m \in Messages :
          /\ Become(w, [Idle EXCEPT !.pc = IF m \in Unsupported THEN "notice" ELSE "lookup",
                                    !.msg = m])
          /\ acked' \in {acked} \cup (IF m \in Albums THEN {acked \cup {m}} ELSE {})
    BY <1>1 DEF Deliver
  <2>2. 1 \in 1 .. Len(Parts[m])
    BY PartsType
  <2>3. GoodTask([Idle EXCEPT !.pc = IF m \in Unsupported THEN "notice" ELSE "lookup", !.msg = m])
    BY <2>2 DEF GoodTask, Idle, Task, Pc, WebhookPc, NoticePc, DeliveryPc, ResendPc, SavedPc
  <2> QED
    BY <1>1, <2>1, <2>3, BecomeGood DEF Deliver, GoodData
<1>2. ASSUME NEW w \in Workers, Fail(w) PROVE GoodData' /\ GoodTasks'
  <2>1. GoodData'
    BY <1>2 DEF Fail, GoodData
  <2>2. CASE Become(w, Idle)
    BY <2>1, <2>2, BecomeGood
  <2>3. CASE task[w].pc \in JobPc /\ Goto(w, "release")
    <3>1. task[w].pc # "idle" /\ "release" \in Pc \ {"idle"} /\ "release" \notin DeliveryPc
      BY <2>3 DEF JobPc, UnsavedPc, SavedPc, Pc, DeliveryPc, ResendPc
    <3> QED
      BY <2>1, <2>3, <3>1, GotoGood, BecomeGood DEF Goto
  <2> QED
    BY <1>2, <2>2, <2>3 DEF Fail
<1>3. CASE Tick
  BY <1>3 DEF Tick, GoodData, GoodTasks
<1>4. CASE Crash
  BY <1>4 DEF Crash, GoodData, GoodTasks, GoodTask
<1>5. CASE UNCHANGED vars
  BY <1>5 DEF vars, GoodData, GoodTasks
<1> QED
  BY <1>1, <1>2, <1>3, <1>4, <1>5, WebhookTypes, JobTypes DEF Next

(* Every variable keeps its type, and no loop over the updates of a message *)
(* runs past the last one, whatever fails and whenever the process stops.   *)
THEOREM TypeCorrect == Spec => []TypeOK
  BY InitTypes, NextTypes, PTL DEF Spec

-----------------------------------------------------------------------------
(* What a statement of the table does to the stored replies and the claims. *)

LEMMA ClearEffect ==
  ASSUME NEW table \in Table, NEW u \in Updates, NEW v \in Updates
  PROVE  /\ ReplyOf(ClearProcessing(table, u)[v]) = ReplyOf(table[v])
         /\ v # u => ClearProcessing(table, u)[v] = table[v]
  BY DEF ClearProcessing, BareClaim, ReplyOf, Present, Table

LEMMA MarkEffect ==
  ASSUME NEW table \in Table, NEW u \in Updates, NEW at \in Nat, NEW v \in Updates
  PROVE  /\ ReplyOf(MarkProcessed(table, u, at)[v]) = ReplyOf(table[v])
         /\ Present(table[v]) => Present(MarkProcessed(table, u, at)[v])
         /\ v # u => MarkProcessed(table, u, at)[v] = table[v]
<1>1. CASE v # u
  BY <1>1 DEF MarkProcessed, Table
<1>2. CASE v = u
  <2> DEFINE new == [processed_at |-> at, reply |-> ReplyOf(table[u]), sent |-> TRUE]
  <2>1. MarkProcessed(table, u, at)[u] = new
    BY DEF MarkProcessed, Table
  <2>2. new \in Row
    BY DEF Row, ReplyOf, Present, Table
  <2>3. Present(new) /\ ReplyOf(new) = ReplyOf(table[u])
    BY <2>2, TableAssumption DEF Present, ReplyOf
  <2> QED
    BY <1>2, <2>1, <2>3
<1> QED
  BY <1>1, <1>2

LEMMA SaveEffect ==
  ASSUME NEW table \in Table, NEW u \in Updates, NEW at \in Nat, NEW r \in Replies
  PROVE  /\ Present(SavePendingReply(table, u, r, at)[u])
         /\ ~Duplicate(SavePendingReply(table, u, r, at)[u])
         /\ ReplyOf(SavePendingReply(table, u, r, at)[u]) = r
         /\ \A v \in Updates \ {u} : SavePendingReply(table, u, r, at)[v] = table[v]
<1> DEFINE new == [processed_at |-> at, reply |-> r, sent |-> FALSE]
<1>1. new \in Row
  BY DEF Row
<1>2. Present(new) /\ ReplyOf(new) = r /\ ~Duplicate(new)
  BY <1>1, TableAssumption DEF Present, ReplyOf, Duplicate
<1> QED
  BY <1>2 DEF SavePendingReply, Table

LEMMA ClaimEffect ==
  ASSUME NEW table \in Table, NEW u \in Updates, NEW at \in Nat
  PROVE  /\ Present(InsertClaim(table, u, at)[u])
         /\ ReplyOf(InsertClaim(table, u, at)[u]) = NoReply
         /\ ~Duplicate(InsertClaim(table, u, at)[u])
         /\ ~Duplicate(ReclaimRow(table, u, at)[u])
         /\ \A v \in Updates \ {u} : /\ InsertClaim(table, u, at)[v] = table[v]
                                     /\ ReclaimRow(table, u, at)[v] = table[v]
<1>1. Claimed(at) \in Row
  BY DEF Claimed, Row
<1>2. Present(Claimed(at)) /\ ReplyOf(Claimed(at)) = NoReply /\ ~Duplicate(Claimed(at))
  BY <1>1, TableAssumption DEF Present, ReplyOf, Claimed, Duplicate
<1> QED
  BY <1>2 DEF InsertClaim, ReclaimRow, Duplicate, Table

-----------------------------------------------------------------------------
(* Claims and stored replies.                                               *)
(*                                                                          *)
(* A step of worker w may store a reply only under an update that w owns    *)
(* and that has none; it may not delete the row of another's claim; and     *)
(* what it sends to the chat is what is stored. All of it except for the    *)
(* updates that have lapsed.                                                *)

CarefulRows(w) ==
  \A u \in Updates : u \notin lapsed' =>
    /\ \/ StoredReply(u)' = StoredReply(u)
       \/ StoredReply(u) = NoReply /\ u \in task[w].claimed
    /\ \A v \in Workers \ {w} :
         u \in task[v].claimed /\ Present(rows[u]) => Present(rows[u])'
    /\ \A r \in delivered'[u] : r \in delivered[u] \/ StoredReply(u)' = r

(* What LiveInv asks of the task t that w becomes; an update w claims anew  *)
(* is nobody else's.                                                        *)
CarefulTask(w, t) ==
  /\ t.pc \in {"lookup", "guard"} => t.ix = 1 /\ t.claimed = {}
  /\ t.pc \in JobPc \/ (t.pc \in ClaimPc /\ t.ix > 1) => Primary(t.msg) \in t.claimed
  /\ \A u \in t.claimed : u \notin lapsed' =>
       /\ Present(rows[u])'
       /\ t.pc \in ClaimPc \cup UnsavedPc \cup {"rollback"} => StoredReply(u)' = NoReply
       /\ u \in task[w].claimed \/ \A v \in Workers \ {w} : u \notin task[v].claimed
  /\ t.pc \in ResendPc \cup SavedPc /\ Primary(t.msg) \notin lapsed'
       => StoredReply(Primary(t.msg))' = t.reply

LEMMA CarefulStep ==
  ASSUME TypeOK, TypeOK', LiveInv, lapsed \subseteq lapsed',
         NEW w \in Workers, NEW t, Become(w, t), CarefulRows(w), CarefulTask(w, t)
  PROVE  LiveInv'
<1>1. task'[w] = t /\ \A v \in Workers \ {w} : task'[v] = task[v]
  BY DEF Become, TypeOK
<1>2. /\ \A v \in Workers : task[v].claimed \subseteq Updates
      /\ \A v \in Workers : task'[v].claimed \subseteq Updates
  BY DEF TypeOK, Task
<1>3. \A v \in Workers : task[v].pc \in ResendPc \cup SavedPc =>
        task[v].reply \in Replies /\ Primary(Msg(v)) \in Updates
  BY PartsType DEF TypeOK, Idle, DeliveryPc, ResendPc, SavedPc
<1>4. OwnsPrimary' /\ NothingClaimedYet'
  BY <1>1 DEF LiveInv, OwnsPrimary, NothingClaimedYet, CarefulTask, Msg
<1>5. ClaimExclusive'
  BY <1>1 DEF LiveInv, ClaimExclusive, CarefulTask
<1>6. ClaimHasRow'
  BY <1>1, <1>2 DEF LiveInv, ClaimHasRow, CarefulTask, CarefulRows
<1>7. ClaimUnsaved'
  BY <1>1, <1>2 DEF LiveInv, ClaimUnsaved, ClaimExclusive, CarefulTask, CarefulRows
<1>8. DeliveringStored'
  BY <1>1, <1>3, TableAssumption DEF LiveInv, DeliveringStored, CarefulTask, CarefulRows, Msg
<1>9. DeliveredStored'
  BY TableAssumption DEF LiveInv, DeliveredStored, CarefulRows, TypeOK
<1> QED
  BY <1>4, <1>5, <1>6, <1>7, <1>8, <1>9 DEF LiveInv

(* A step that keeps every live claim and every stored reply. *)
KeepsRows ==
  /\ lapsed \subseteq lapsed'
  /\ \A u \in Updates : u \notin lapsed' =>
       /\ StoredReply(u)' = StoredReply(u)
       /\ Present(rows[u]) => Present(rows[u])'

LEMMA QuietRows ==
  ASSUME NEW w \in Workers, UNCHANGED <<rows, delivered, lapsed>>
  PROVE  KeepsRows /\ CarefulRows(w)
  BY DEF KeepsRows, CarefulRows, StoredReply

(* An idle task owes nothing. *)
LEMMA IdleIsCareful == ASSUME NEW w \in Workers PROVE CarefulTask(w, Idle)
  BY DEF CarefulTask, Idle, JobPc, UnsavedPc, SavedPc, ClaimPc, ResendPc

(* What the invariants say of a task that is on a message. *)
LEMMA BusyTask ==
  ASSUME TypeOK, NEW w \in Workers, task[w].pc # "idle"
  PROVE  /\ task[w] \in Task
         /\ Msg(w) \in Messages
         /\ task[w].ix \in 1 .. Len(Parts[Msg(w)])
         /\ task[w].claimed \subseteq PartsOf(Msg(w))
         /\ PartsOf(Msg(w)) \subseteq Updates
         /\ Primary(Msg(w)) \in Updates
         /\ Current(w) \in PartsOf(Msg(w))
         /\ task[w].pc \in DeliveryPc => task[w].reply \in Replies
         /\ task[w].ix = 1 => Current(w) = Primary(Msg(w))
<1>1. task[w] # Idle
  BY DEF Idle
<1> QED
  BY <1>1, PartsType DEF TypeOK, Current, Primary

(* w goes on to another point of the code with the same claims and reply,   *)
(* and no claim or reply in the table is lost.                              *)
LEMMA QuietGoto ==
  ASSUME TypeOK, TypeOK', LiveInv, NEW w \in Workers, task[w].pc # "idle",
         NEW pc \in Pc, Goto(w, pc), KeepsRows, CarefulRows(w),
         pc \in {"lookup", "guard"} => task[w].pc \in {"lookup", "guard"},
         pc \in JobPc \/ pc \in ClaimPc => task[w].pc \in JobPc \/ (pc \in ClaimPc /\ task[w].ix = 1),
         pc \in ClaimPc \cup UnsavedPc \cup {"rollback"} =>
           task[w].pc \in ClaimPc \cup UnsavedPc \cup {"rollback"} \/ task[w].claimed = {},
         pc \in ResendPc \cup SavedPc => task[w].pc \in ResendPc \cup SavedPc
  PROVE  LiveInv'
<1>1. task[w] \in Task
  BY BusyTask
<1>2. PICK t : t = [task[w] EXCEPT !.pc = pc]
  OBVIOUS
<1>3. t.pc = pc /\ t.msg = Msg(w) /\ t.ix = task[w].ix /\ t.claimed = task[w].claimed /\ t.reply = task[w].reply
  BY <1>2, <1>1 DEF Task, Msg
<1>4. CarefulTask(w, t)
  <2>1. t.pc \in {"lookup", "guard"} => t.ix = 1 /\ t.claimed = {}
    BY <1>3 DEF LiveInv, NothingClaimedYet
  <2>2. t.pc \in JobPc \/ (t.pc \in ClaimPc /\ t.ix > 1) => Primary(t.msg) \in t.claimed
    BY <1>3 DEF LiveInv, OwnsPrimary, JobPc, UnsavedPc, SavedPc, ClaimPc
  <2>3. ASSUME NEW u \in t.claimed, u \notin lapsed'
        PROVE  /\ Present(rows[u])'
               /\ t.pc \in ClaimPc \cup UnsavedPc \cup {"rollback"} => StoredReply(u)' = NoReply
               /\ u \in task[w].claimed
    <3>1. u \in Updates
      BY <1>1, <1>3 DEF Task
    <3> QED
      BY <1>3, <2>3, <3>1 DEF LiveInv, ClaimHasRow, ClaimUnsaved, KeepsRows
  <2>4. t.pc \in ResendPc \cup SavedPc /\ Primary(t.msg) \notin lapsed'
           => StoredReply(Primary(t.msg))' = t.reply
    <3>1. Primary(Msg(w)) \in Updates
      BY BusyTask
    <3> QED
      BY <1>3, <3>1 DEF LiveInv, DeliveringStored, KeepsRows
  <2> QED
    BY <2>1, <2>2, <2>3, <2>4 DEF CarefulTask
<1> QED
  BY <1>2, <1>4, CarefulStep DEF Goto, KeepsRows

(* The same for a task that ends: it gives up its claims. *)
LEMMA CarefulEnd ==
  ASSUME TypeOK, TypeOK', LiveInv, NEW w \in Workers,
         Become(w, Idle), lapsed \subseteq lapsed', CarefulRows(w)
  PROVE  LiveInv'
<1>1. PICK t : t = Idle
  OBVIOUS
<1> QED
  BY <1>1, IdleIsCareful, CarefulStep

(* mark_processed keeps every claim's row and every stored reply. *)
LEMMA MarkIsCareful ==
  ASSUME TypeOK, NEW w \in Workers, NEW u \in Updates,
         rows' = MarkProcessed(rows, u, now), UNCHANGED <<delivered, lapsed>>
  PROVE  KeepsRows /\ CarefulRows(w)
<1>1. rows \in Table /\ now \in Nat
  BY DEF TypeOK
<1> QED
  BY <1>1, MarkEffect DEF KeepsRows, CarefulRows, StoredReply

(* prune_sent_before deletes rows, and calls them lapsed. *)
LEMMA PruneIsCareful ==
  ASSUME NEW w \in Workers, NEW cutoff, UNCHANGED delivered,
         rows' = PruneSentBefore(rows, cutoff), lapsed' = lapsed \cup Prunable(rows, cutoff)
  PROVE  KeepsRows /\ CarefulRows(w)
<1>1. \A u \in Updates : u \notin lapsed' => rows'[u] = rows[u]
  BY DEF PruneSentBefore
<1> QED
  BY <1>1 DEF KeepsRows, CarefulRows, StoredReply

(* clear_processing by the owner of the claim spares everybody else's. *)
LEMMA ClearIsCareful ==
  ASSUME TypeOK, LiveInv, NEW w \in Workers, NEW u \in task[w].claimed,
         rows' = ClearProcessing(rows, u), UNCHANGED <<delivered, lapsed>>
  PROVE  /\ CarefulRows(w)
         /\ \A v \in Updates : StoredReply(v)' = StoredReply(v)
         /\ \A v \in Updates \ {u} : rows'[v] = rows[v]
<1>1. rows \in Table /\ u \in Updates
  BY DEF TypeOK, Task
<1> QED
  BY <1>1, ClearEffect DEF CarefulRows, StoredReply, LiveInv, ClaimExclusive

(* Writing to the row of the current update while claiming it. *)
LEMMA ClaimedIsCareful ==
  ASSUME TypeOK, TypeOK', LiveInv, NEW w \in Workers, task[w].pc \in ClaimPc,
         ClaimedCurrent(w), lapsed \subseteq lapsed', UNCHANGED delivered,
         NEW u \in Updates, u = Current(w),
         \A v \in Updates \ {u} : rows'[v] = rows[v],
         u \notin lapsed' =>
           /\ Present(rows[u])'
           /\ StoredReply(u)' = NoReply
           /\ StoredReply(u) = NoReply
           /\ \A v \in Workers : u \notin task[v].claimed
  PROVE  LiveInv'
<1>1. /\ task[w] \in Task
      /\ task[w].ix \in Nat \ {0}
      /\ task[w].ix = 1 => u = Primary(Msg(w))
  <2>1. task[w].pc # "idle"
    BY DEF ClaimPc
  <2> QED
    BY <2>1, BusyTask, PartsType
<1>2. PICK c \in SUBSET Updates : c = task[w].claimed \cup {u}
  BY <1>1 DEF Task
<1>3. PICK t : /\ Become(w, t)
               /\ t.msg = Msg(w) /\ t.claimed = c /\ t.pc \in {"prune", "claim"}
  <2>1. CASE LastPart(w)
    <3> DEFINE s == [task[w] EXCEPT !.claimed = c, !.pc = "prune"]
    <3>1. Become(w, s)
      BY <1>2, <2>1 DEF ClaimedCurrent
    <3>2. s.msg = Msg(w) /\ s.claimed = c /\ s.pc = "prune"
      BY <1>1 DEF Task, Msg
    <3> HIDE DEF s
    <3> QED
      BY <3>1, <3>2
  <2>2. CASE ~LastPart(w)
    <3> DEFINE s == [task[w] EXCEPT !.claimed = c, !.pc = "claim", !.ix = @ + 1]
    <3>1. Become(w, s)
      BY <1>2, <2>2 DEF ClaimedCurrent
    <3>2. s.msg = Msg(w) /\ s.claimed = c /\ s.pc = "claim"
      BY <1>1 DEF Task, Msg
    <3> HIDE DEF s
    <3> QED
      BY <3>1, <3>2
  <2> QED
    BY <2>1, <2>2
<1>4. Primary(Msg(w)) \in c
  BY <1>1, <1>2 DEF LiveInv, OwnsPrimary
<1>5. CarefulRows(w)
  BY DEF CarefulRows, StoredReply
<1>6. ASSUME NEW v \in c, v \notin lapsed'
      PROVE  /\ Present(rows[v])'
             /\ StoredReply(v)' = NoReply
             /\ v \in task[w].claimed \/ \A x \in Workers \ {w} : v \notin task[x].claimed
  <2>1. CASE v = u
    BY <1>6, <2>1
  <2>2. CASE v # u
    BY <1>2, <1>6, <2>2 DEF LiveInv, ClaimHasRow, ClaimUnsaved, StoredReply
  <2> QED
    BY <2>1, <2>2
<1>7. CarefulTask(w, t)
  BY <1>3, <1>4, <1>6 DEF CarefulTask, ResendPc, SavedPc
<1> QED
  BY <1>3, <1>5, <1>7, CarefulStep

(* Sending the stored reply of the primary update. *)
LEMMA ToldReplyIsCareful ==
  ASSUME TypeOK, LiveInv, NEW w \in Workers, task[w].pc \in {"resend", "send"},
         ToldReply(w), UNCHANGED <<rows, lapsed>>
  PROVE  KeepsRows /\ CarefulRows(w)
<1>1. Primary(Msg(w)) \in Updates
  BY BusyTask
<1>2. Primary(Msg(w)) \notin lapsed => StoredReply(Primary(Msg(w))) = task[w].reply
  BY DEF LiveInv, DeliveringStored, ResendPc, SavedPc
<1>3. \A u \in Updates : delivered'[u] = IF u = Primary(Msg(w)) THEN delivered[u] \cup {task[w].reply}
                                                              ELSE delivered[u]
  BY <1>1 DEF ToldReply, TypeOK
<1> QED
  BY <1>1, <1>2, <1>3 DEF KeepsRows, CarefulRows, StoredReply

LEMMA InitLive == Init => LiveInv
  BY DEF Init, LiveInv, NothingClaimedYet, OwnsPrimary, ClaimExclusive, ClaimHasRow, ClaimUnsaved,
         DeliveringStored, DeliveredStored, Idle, JobPc, UnsavedPc, SavedPc, ClaimPc, ResendPc

LEMMA WebhookLive ==
  ASSUME TypeOK, TypeOK', LiveInv, NEW w \in Workers, Webhook(w)
  PROVE  LiveInv'
<1> USE DEF Pc, WebhookPc, JobPc, ClaimPc, UnsavedPc, SavedPc, ResendPc, NoticePc
<1>1. CASE Lookup(w)
  <2>1. At(w, "lookup") /\ KeepsRows /\ CarefulRows(w)
    BY <1>1, QuietRows DEF Lookup
  <2>2. Primary(Msg(w)) \in Updates /\ task[w] \in Task
    BY <2>1, BusyTask DEF At
  <2>3. CASE Become(w, [task[w] EXCEPT !.pc = "resend", !.reply = rows[Primary(Msg(w))].reply])
             /\ Replayable(rows[Primary(Msg(w))])
    <3>1. PICK t : t = [task[w] EXCEPT !.pc = "resend", !.reply = rows[Primary(Msg(w))].reply]
      OBVIOUS
    <3>2. /\ t.pc = "resend" /\ t.msg = Msg(w) /\ t.claimed = {}
          /\ t.reply = StoredReply(Primary(Msg(w)))
      BY <2>1, <2>2, <2>3, <3>1 DEF Task, Msg, At, LiveInv, NothingClaimedYet, StoredReply, Replayable, ReplyOf
    <3>3. StoredReply(Primary(t.msg))' = t.reply
      <4>1. rows' = rows
        BY <1>1 DEF Lookup
      <4> QED
        BY <3>2, <4>1 DEF StoredReply
    <3>4. CarefulTask(w, t)
      BY <3>2, <3>3 DEF CarefulTask
    <3> QED
      BY <2>1, <2>3, <3>1, <3>4, CarefulStep DEF KeepsRows
  <2> QED
    BY <1>1, <2>1, <2>3, QuietGoto DEF Lookup, At
<1>2. CASE Resend(w)
  <2>1. At(w, "resend") /\ KeepsRows /\ CarefulRows(w)
    BY <1>2, ToldReplyIsCareful DEF Resend, At
  <2> QED
    BY <1>2, <2>1, QuietGoto, CarefulEnd DEF Resend, At, KeepsRows
<1>3. CASE ResendPersist(w)
  BY <1>3, QuietRows, QuietGoto DEF ResendPersist, At
<1>4. CASE SendNotice(w)
  <2>1. KeepsRows /\ CarefulRows(w)
    BY <1>4, QuietRows DEF SendNotice
  <2> QED
    BY <1>4, <2>1, QuietGoto, CarefulEnd DEF SendNotice, At, KeepsRows
<1>5. CASE MarkAll(w)
  <2>1. At(w, "markAll") /\ task[w] \in Task /\ Current(w) \in Updates
    BY <1>5, BusyTask DEF MarkAll, At
  <2>2. KeepsRows /\ CarefulRows(w)
    BY <1>5, <2>1, MarkIsCareful DEF MarkAll
  <2>3. CASE LastPart(w)
    BY <1>5, <2>1, <2>2, <2>3, QuietGoto DEF MarkAll, At, Goto
  <2>4. CASE ~LastPart(w)
    <3>1. PICK t : t = [task[w] EXCEPT !.ix = @ + 1]
      OBVIOUS
    <3>2. t.pc = "markAll" /\ t.claimed = task[w].claimed
      BY <2>1, <3>1 DEF Task, At
    <3>3. \A u \in t.claimed : u \notin lapsed' => Present(rows[u])'
      <4>1. t.claimed \subseteq Updates
        BY <2>1, <3>2 DEF Task
      <4> QED
        BY <2>2, <3>2, <4>1 DEF LiveInv, ClaimHasRow, KeepsRows
    <3>4. CarefulTask(w, t)
      BY <3>2, <3>3 DEF CarefulTask
    <3> QED
      BY <1>5, <2>2, <2>4, <3>1, <3>4, CarefulStep DEF MarkAll, KeepsRows
  <2> QED
    BY <2>3, <2>4
<1>6. CASE Guard(w)
  <2>1. task[w].ix = 1 /\ task[w].claimed = {}
    BY <1>6 DEF Guard, At, LiveInv, NothingClaimedYet
  <2> QED
    BY <1>6, <2>1, QuietRows, QuietGoto DEF Guard, At
<1>7. CASE ClaimFind(w)
  <2>1. At(w, "claim") /\ KeepsRows /\ CarefulRows(w)
    BY <1>7, QuietRows DEF ClaimFind
  <2>2. task[w] \in Task
    BY <2>1, BusyTask DEF At
  <2>3. ASSUME NEW pc \in {"insert", "reclaim"}, Become(w, [task[w] EXCEPT !.pc = pc, !.stamp = now])
        PROVE  LiveInv'
    <3>1. PICK t : t = [task[w] EXCEPT !.pc = pc, !.stamp = now]
      OBVIOUS
    <3>2. t.pc = pc /\ t.msg = Msg(w) /\ t.ix = task[w].ix /\ t.claimed = task[w].claimed
      BY <2>2, <3>1 DEF Task, Msg
    <3>3. ASSUME NEW u \in t.claimed, u \notin lapsed'
          PROVE  Present(rows[u])' /\ StoredReply(u)' = NoReply
      <4>1. u \in Updates
        BY <2>2, <3>2 DEF Task
      <4> QED
        BY <2>1, <3>2, <3>3, <4>1 DEF LiveInv, ClaimHasRow, ClaimUnsaved, KeepsRows, At
    <3>4. CarefulTask(w, t)
      BY <2>1, <3>2, <3>3 DEF CarefulTask, LiveInv, OwnsPrimary, At
    <3> QED
      BY <2>1, <2>3, <3>1, <3>4, CarefulStep DEF KeepsRows
  <2> QED
    BY <1>7, <2>1, <2>3, QuietGoto DEF ClaimFind, At
<1>8. CASE ClaimInsert(w)
  <2>1. PICK u \in Updates : u = Current(w)
    BY <1>8, BusyTask DEF ClaimInsert, At
  <2>2. rows \in Table /\ task[w].stamp \in Nat
    BY DEF TypeOK, Task
  <2>3. /\ rows' = InsertClaim(rows, u, task[w].stamp) /\ ~Present(rows[u])
        /\ task[w].pc = "insert" /\ ClaimedCurrent(w) /\ UNCHANGED <<delivered, lapsed>>
    BY <1>8, <2>1 DEF ClaimInsert, At
  <2>4. /\ Present(rows[u])' /\ StoredReply(u)' = NoReply
        /\ \A v \in Updates \ {u} : rows'[v] = rows[v]
    BY <2>2, <2>3, ClaimEffect DEF StoredReply
  <2>5. StoredReply(u) = NoReply
    BY <2>3 DEF StoredReply, ReplyOf
  <2>6. u \notin lapsed' => \A v \in Workers : u \notin task[v].claimed
    BY <2>3 DEF LiveInv, ClaimHasRow
  <2> QED
    BY <2>1, <2>3, <2>4, <2>5, <2>6, ClaimedIsCareful
<1>9. CASE ClaimConflict(w)
  <2>1. KeepsRows /\ CarefulRows(w)
    BY <1>9, QuietRows DEF ClaimConflict
  <2> QED
    BY <1>9, <2>1, CarefulEnd DEF ClaimConflict, KeepsRows
<1>10. CASE ClaimReclaim(w)
  <2>1. PICK u \in Updates : u = Current(w)
    BY <1>10, BusyTask DEF ClaimReclaim, At
  <2>2. rows \in Table /\ task[w].stamp \in Nat
    BY DEF TypeOK, Task
  <2>3. /\ rows' = ReclaimRow(rows, u, task[w].stamp) /\ lapsed' = lapsed \cup {u}
        /\ task[w].pc = "reclaim" /\ ClaimedCurrent(w) /\ UNCHANGED delivered
    BY <1>10, <2>1 DEF ClaimReclaim, At
  <2>4. \A v \in Updates \ {u} : rows'[v] = rows[v]
    BY <2>2, <2>3, ClaimEffect
  <2> QED
    BY <2>1, <2>3, <2>4, ClaimedIsCareful
<1>11. CASE Rollback(w)
  <2>1. PICK i \in DOMAIN Parts[Msg(w)] :
          /\ Parts[Msg(w)][i] \in task[w].claimed
          /\ rows' = ClearProcessing(rows, Parts[Msg(w)][i])
          /\ Become(w, [task[w] EXCEPT !.claimed = task[w].claimed \ {Parts[Msg(w)][i]},
                                       !.pc = IF task[w].claimed \ {Parts[Msg(w)][i]} = {} THEN "respond" ELSE "rollback"])
    BY <1>11 DEF Rollback
  <2>2. PICK u \in task[w].claimed : u = Parts[Msg(w)][i]
    BY <2>1
  <2>3. At(w, "rollback") /\ UNCHANGED <<delivered, lapsed>> /\ task[w] \in Task
    BY <1>11, BusyTask DEF Rollback, At
  <2>4. /\ CarefulRows(w)
        /\ \A v \in Updates : StoredReply(v)' = StoredReply(v)
        /\ \A v \in Updates \ {u} : rows'[v] = rows[v]
    BY <2>1, <2>2, <2>3, ClearIsCareful
  <2>5. PICK t : t = [task[w] EXCEPT !.claimed = task[w].claimed \ {u},
                                     !.pc = IF task[w].claimed \ {u} = {} THEN "respond" ELSE "rollback"]
    OBVIOUS
  <2>6. t.claimed = task[w].claimed \ {u} /\ t.pc \in {"respond", "rollback"}
    BY <2>3, <2>5 DEF Task
  <2>7. ASSUME NEW v \in t.claimed, v \notin lapsed'
        PROVE  Present(rows[v])' /\ StoredReply(v)' = NoReply /\ v \in task[w].claimed
    <3>1. v \in Updates \ {u} /\ v \in task[w].claimed
      BY <2>3, <2>6 DEF Task
    <3> QED
      BY <2>3, <2>4, <2>7, <3>1 DEF LiveInv, ClaimHasRow, ClaimUnsaved, At
  <2>8. CarefulTask(w, t)
    BY <2>6, <2>7 DEF CarefulTask
  <2> QED
    BY <2>1, <2>2, <2>3, <2>4, <2>5, <2>8, CarefulStep
<1>12. CASE Respond(w)
  <2>1. KeepsRows /\ CarefulRows(w)
    BY <1>12, QuietRows DEF Respond
  <2> QED
    BY <1>12, <2>1, CarefulEnd DEF Respond, KeepsRows
<1> QED
  BY <1>1, <1>2, <1>3, <1>4, <1>5, <1>6, <1>7, <1>8, <1>9, <1>10, <1>11, <1>12 DEF Webhook

LEMMA JobLive ==
  ASSUME TypeOK, TypeOK', LiveInv, NEW w \in Workers, Job(w)
  PROVE  LiveInv'
<1> USE DEF Pc, JobPc, ClaimPc, UnsavedPc, SavedPc, ResendPc
<1>1. task[w].pc \in JobPc /\ task[w] \in Task /\ Primary(Msg(w)) \in task[w].claimed
  <2>1. task[w].pc \in JobPc
    BY DEF Job, PruneDue, PruneDelete, Generate, Save, Send, Persist, Mark, Release, At
  <2> QED
    BY <2>1, BusyTask DEF LiveInv, OwnsPrimary
<1>2. CASE PruneDue(w)
  <2>1. At(w, "prune") /\ KeepsRows /\ CarefulRows(w)
    BY <1>2, QuietRows DEF PruneDue
  <2>2. CASE Become(w, [task[w] EXCEPT !.pc = "delete", !.stamp = now])
    <3>1. PICK t : t = [task[w] EXCEPT !.pc = "delete", !.stamp = now]
      OBVIOUS
    <3>2. t.pc = "delete" /\ t.msg = Msg(w) /\ t.claimed = task[w].claimed
      BY <1>1, <3>1 DEF Task, Msg
    <3>3. ASSUME NEW u \in t.claimed, u \notin lapsed'
          PROVE  Present(rows[u])' /\ StoredReply(u)' = NoReply
      <4>1. u \in Updates
        BY <1>1, <3>2 DEF Task
      <4> QED
        BY <2>1, <3>2, <3>3, <4>1 DEF LiveInv, ClaimHasRow, ClaimUnsaved, KeepsRows, At
    <3>4. CarefulTask(w, t)
      BY <1>1, <3>2, <3>3 DEF CarefulTask
    <3> QED
      BY <2>1, <2>2, <3>1, <3>4, CarefulStep DEF KeepsRows
  <2> QED
    BY <1>2, <2>1, <2>2, QuietGoto DEF PruneDue, At
<1>3. CASE PruneDelete(w)
  <2>1. At(w, "delete") /\ KeepsRows /\ CarefulRows(w)
    BY <1>3, PruneIsCareful DEF PruneDelete
  <2> QED
    BY <1>3, <2>1, QuietGoto DEF PruneDelete, At
<1>4. CASE Generate(w)
  <2>1. At(w, "generate") /\ KeepsRows /\ CarefulRows(w)
    BY <1>4, QuietRows DEF Generate
  <2>2. PICK r \in Replies : Become(w, [task[w] EXCEPT !.pc = "save", !.reply = r])
    BY <1>4 DEF Generate
  <2>3. PICK t : t = [task[w] EXCEPT !.pc = "save", !.reply = r]
    OBVIOUS
  <2>4. t.pc = "save" /\ t.msg = Msg(w) /\ t.claimed = task[w].claimed
    BY <1>1, <2>3 DEF Task, Msg
  <2>5. ASSUME NEW u \in t.claimed, u \notin lapsed'
        PROVE  Present(rows[u])' /\ StoredReply(u)' = NoReply
    <3>1. u \in Updates
      BY <1>1, <2>4 DEF Task
    <3> QED
      BY <2>1, <2>4, <2>5, <3>1 DEF LiveInv, ClaimHasRow, ClaimUnsaved, KeepsRows, At
  <2>6. CarefulTask(w, t)
    BY <1>1, <2>4, <2>5 DEF CarefulTask
  <2> QED
    BY <2>1, <2>2, <2>3, <2>6, CarefulStep DEF KeepsRows
<1>5. CASE Save(w)
  <2>1. PICK p \in Updates : p = Primary(Msg(w))
    BY <1>1, BusyTask
  <2>2. /\ At(w, "save") /\ UNCHANGED <<delivered, lapsed>> /\ Goto(w, "send")
        /\ rows' = SavePendingReply(rows, p, task[w].reply, now)
        /\ rows \in Table /\ now \in Nat /\ task[w].reply \in Replies
    BY <1>5, <2>1, BusyTask DEF Save, At, TypeOK, DeliveryPc
  <2>3. /\ Present(rows[p])' /\ StoredReply(p)' = task[w].reply
        /\ \A v \in Updates \ {p} : rows'[v] = rows[v]
    BY <2>2, SaveEffect DEF StoredReply
  <2>4. p \notin lapsed' => StoredReply(p) = NoReply
    BY <1>1, <2>1, <2>2 DEF LiveInv, ClaimUnsaved, At
  <2>5. CarefulRows(w)
    BY <1>1, <2>1, <2>2, <2>3, <2>4 DEF CarefulRows, StoredReply
  <2>6. PICK t : t = [task[w] EXCEPT !.pc = "send"]
    OBVIOUS
  <2>7. t.pc = "send" /\ t.msg = Msg(w) /\ t.claimed = task[w].claimed /\ t.reply = task[w].reply
    BY <1>1, <2>6 DEF Task, Msg
  <2>8. ASSUME NEW u \in t.claimed, u \notin lapsed'
        PROVE  Present(rows[u])'
    <3>1. u \in Updates
      BY <1>1, <2>7 DEF Task
    <3> QED
      BY <2>2, <2>3, <2>7, <2>8, <3>1 DEF LiveInv, ClaimHasRow
  <2>9. CarefulTask(w, t)
    BY <1>1, <2>1, <2>3, <2>7, <2>8 DEF CarefulTask
  <2> QED
    BY <2>2, <2>5, <2>6, <2>9, CarefulStep DEF Goto
<1>6. CASE Send(w)
  <2>1. At(w, "send") /\ KeepsRows /\ CarefulRows(w)
    BY <1>6, ToldReplyIsCareful DEF Send, At
  <2> QED
    BY <1>6, <2>1, QuietGoto DEF Send, At
<1>7. CASE Persist(w)
  <2>1. At(w, "persist") /\ KeepsRows /\ CarefulRows(w)
    BY <1>7, QuietRows DEF Persist
  <2> QED
    BY <1>7, <2>1, QuietGoto DEF Persist, At
<1>8. CASE Mark(w)
  <2>1. KeepsRows /\ CarefulRows(w)
    BY <1>1, <1>8, BusyTask, MarkIsCareful DEF Mark
  <2> QED
    BY <1>8, <2>1, CarefulEnd DEF Mark, KeepsRows
<1>9. CASE Release(w)
  <2>1. CarefulRows(w) /\ UNCHANGED lapsed
    BY <1>1, <1>9, ClearIsCareful DEF Release
  <2> QED
    BY <1>9, <2>1, CarefulEnd DEF Release
<1> QED
  BY <1>2, <1>3, <1>4, <1>5, <1>6, <1>7, <1>8, <1>9 DEF Job

LEMMA NextLive == TypeOK /\ TypeOK' /\ LiveInv /\ [Next]_vars => LiveInv'
<1> SUFFICES ASSUME TypeOK, TypeOK', LiveInv, [Next]_vars PROVE LiveInv'
  OBVIOUS
<1> USE DEF Pc, WebhookPc, JobPc, ClaimPc, UnsavedPc, SavedPc, ResendPc, NoticePc
<1>1. ASSUME NEW w \in Workers, Deliver(w) PROVE LiveInv'
  <2>1. KeepsRows /\ CarefulRows(w)
    BY <1>1, QuietRows DEF Deliver
  <2>2. PICK m \in Messages :
          Become(w, [Idle EXCEPT !.pc = IF m \in Unsupported THEN "notice" ELSE "lookup", !.msg = m])
    BY <1>1 DEF Deliver
  <2>3. PICK t : t = [Idle EXCEPT !.pc = IF m \in Unsupported THEN "notice" ELSE "lookup", !.msg = m]
    OBVIOUS
  <2>4. t.pc \in {"notice", "lookup"} /\ t.ix = 1 /\ t.claimed = {}
    BY <2>3 DEF Idle
  <2>5. CarefulTask(w, t)
    BY <2>4 DEF CarefulTask
  <2> QED
    BY <2>1, <2>2, <2>3, <2>5, CarefulStep DEF KeepsRows
<1>2. ASSUME NEW w \in Workers, Fail(w) PROVE LiveInv'
  <2>1. KeepsRows /\ CarefulRows(w)
    BY <1>2, QuietRows DEF Fail
  <2> QED
    BY <1>2, <2>1, QuietGoto, CarefulEnd DEF Fail, KeepsRows
<1>3. CASE Tick
  BY <1>3 DEF Tick, LiveInv, NothingClaimedYet, OwnsPrimary, ClaimExclusive, ClaimHasRow, ClaimUnsaved,
              DeliveringStored, DeliveredStored, StoredReply, Msg
<1>4. CASE Crash
  BY <1>4 DEF Crash, Idle, LiveInv, NothingClaimedYet, OwnsPrimary, ClaimExclusive, ClaimHasRow, ClaimUnsaved,
              DeliveringStored, DeliveredStored, StoredReply
<1>5. CASE UNCHANGED vars
  BY <1>5 DEF vars, LiveInv, NothingClaimedYet, OwnsPrimary, ClaimExclusive, ClaimHasRow, ClaimUnsaved,
              DeliveringStored, DeliveredStored, StoredReply, Msg
<1> QED
  BY <1>1, <1>2, <1>3, <1>4, <1>5, WebhookLive, JobLive DEF Next

-----------------------------------------------------------------------------
(* The theorems about claims and replies. *)

(* Two tasks own one update only after its claim has lapsed. The argument:  *)
(* a live claim has a row (so an insert fails and a find sees it), and only *)
(* its owner may delete that row.                                           *)
THEOREM ClaimsAreExclusive == Spec => []ClaimExclusive
<1>1. LiveInv => ClaimExclusive
  BY DEF LiveInv
<1> QED
  BY <1>1, InitTypes, NextTypes, InitLive, NextLive, PTL DEF Spec

(* All replies that reach the chat for one update are the same reply: what  *)
(* was delivered is still stored, and what is sent is what is stored.       *)
THEOREM OneReplyPerUpdate == Spec => []NoRegeneration
<1>1. LiveInv => NoRegeneration
  BY DEF LiveInv, DeliveredStored, NoRegeneration
<1> QED
  BY <1>1, InitTypes, NextTypes, InitLive, NextLive, PTL DEF Spec

(* No step replaces or erases a stored reply whose claim has not lapsed. *)
LEMMA StepKeepsReplies ==
  ASSUME TypeOK, LiveInv, [Next]_vars, NEW u \in Updates, u \notin lapsed'
  PROVE  ReplySurvives(u)
<1> USE DEF JobPc, ClaimPc, UnsavedPc, SavedPc
<1>1. CASE UNCHANGED rows
  BY <1>1 DEF ReplySurvives, StoredReply
<1>2. ASSUME NEW w \in Workers, MarkAll(w) \/ Mark(w) PROVE ReplySurvives(u)
  <2>1. PICK v \in Updates : rows' = MarkProcessed(rows, v, now)
    BY <1>2, BusyTask DEF MarkAll, Mark, At
  <2> QED
    BY <2>1, MarkEffect DEF ReplySurvives, StoredReply, TypeOK
<1>3. ASSUME NEW w \in Workers, Rollback(w) \/ Release(w) PROVE ReplySurvives(u)
  <2>1. PICK v \in Updates : rows' = ClearProcessing(rows, v)
    <3>1. Rollback(w) => \E v \in task[w].claimed : rows' = ClearProcessing(rows, v)
      BY DEF Rollback
    <3>2. Release(w) => rows' = ClearProcessing(rows, Primary(Msg(w))) /\ Primary(Msg(w)) \in Updates
      BY BusyTask DEF Release, At
    <3> QED
      BY <1>3, <3>1, <3>2 DEF TypeOK, Task
  <2> QED
    BY <2>1, ClearEffect DEF ReplySurvives, StoredReply, TypeOK
<1>4. ASSUME NEW w \in Workers, ClaimInsert(w) PROVE ReplySurvives(u)
  <2>1. Current(w) \in Updates /\ task[w].stamp \in Nat /\ rows \in Table
    BY <1>4, BusyTask DEF ClaimInsert, At, TypeOK, Task
  <2>2. CASE u = Current(w)
    BY <1>4, <2>2 DEF ClaimInsert, ReplySurvives, StoredReply, ReplyOf
  <2>3. CASE u # Current(w)
    BY <1>4, <2>1, <2>3, ClaimEffect DEF ClaimInsert, ReplySurvives, StoredReply
  <2> QED
    BY <2>2, <2>3
<1>5. ASSUME NEW w \in Workers, ClaimReclaim(w) PROVE ReplySurvives(u)
  <2>1. Current(w) \in Updates /\ task[w].stamp \in Nat /\ rows \in Table /\ u # Current(w)
    BY <1>5, BusyTask DEF ClaimReclaim, At, TypeOK, Task
  <2> QED
    BY <1>5, <2>1, ClaimEffect DEF ClaimReclaim, ReplySurvives, StoredReply
<1>6. ASSUME NEW w \in Workers, PruneDelete(w) PROVE ReplySurvives(u)
  BY <1>6 DEF PruneDelete, PruneSentBefore, ReplySurvives, StoredReply
<1>7. ASSUME NEW w \in Workers, Save(w) PROVE ReplySurvives(u)
  <2>1. /\ Primary(Msg(w)) \in Updates \cap task[w].claimed /\ task[w].reply \in Replies
        /\ rows \in Table /\ now \in Nat /\ UNCHANGED lapsed
    BY <1>7, BusyTask DEF Save, At, TypeOK, DeliveryPc, LiveInv, OwnsPrimary
  <2>2. CASE u = Primary(Msg(w))
    BY <1>7, <2>1, <2>2 DEF Save, At, ReplySurvives, LiveInv, ClaimUnsaved
  <2>3. CASE u # Primary(Msg(w))
    BY <1>7, <2>1, <2>3, SaveEffect DEF Save, ReplySurvives, StoredReply
  <2> QED
    BY <2>2, <2>3
<1> QED
  <2>1. ASSUME NEW w \in Workers, Webhook(w) PROVE ReplySurvives(u)
    BY <1>1, <1>2, <1>3, <1>4, <1>5, <2>1
       DEF Webhook, Lookup, Resend, ResendPersist, SendNotice, Guard, ClaimFind, ClaimConflict, Respond
  <2>2. ASSUME NEW w \in Workers, Job(w) PROVE ReplySurvives(u)
    BY <1>1, <1>2, <1>3, <1>6, <1>7, <2>2 DEF Job, PruneDue, Generate, Send, Persist
  <2> QED
    BY <1>1, <2>1, <2>2 DEF Next, vars, Deliver, Fail, Tick, Crash

(* A stored reply is erased or replaced only after its claim has lapsed:    *)
(* marking keeps it, clearing spares it, and a job saves only under a claim *)
(* that has none.                                                           *)
THEOREM StoredRepliesSurvive == Spec => StoredReplySurvives
<1>1. TypeOK /\ LiveInv /\ [Next]_vars => [\A u \in Updates : u \in lapsed' \/ ReplySurvives(u)]_vars
  BY StepKeepsReplies
<1> QED
  BY <1>1, InitTypes, NextTypes, InitLive, NextLive, PTL DEF Spec, StoredReplySurvives

-----------------------------------------------------------------------------
(* Nothing is ignored unanswered. *)

ToldInv == ToldBeforeMark /\ SentImpliesAnswered

(* A step that marks nothing, tells at most more than before, and moves w   *)
(* past a send only if the message was told.                                *)
LEMMA ToldStep ==
  ASSUME TypeOK, ToldInv, NEW w \in Workers, NEW t, Become(w, t),
         answered \subseteq answered',
         \A u \in Updates : Duplicate(rows'[u]) => Duplicate(rows[u]) \/ u \in answered',
         t.pc \in {"resendPersist", "markAll", "persist", "mark"} => PartsOf(t.msg) \subseteq answered'
  PROVE  ToldInv'
<1>1. task'[w] = t /\ \A v \in Workers \ {w} : task'[v] = task[v]
  BY DEF Become, TypeOK
<1>2. ToldBeforeMark'
  BY <1>1 DEF ToldInv, ToldBeforeMark, Msg
<1>3. SentImpliesAnswered'
  BY DEF ToldInv, SentImpliesAnswered
<1> QED
  BY <1>2, <1>3 DEF ToldInv

LEMMA ToldGoto ==
  ASSUME TypeOK, ToldInv, NEW w \in Workers, NEW pc, Goto(w, pc), task[w].pc # "idle",
         answered \subseteq answered',
         \A u \in Updates : Duplicate(rows'[u]) => Duplicate(rows[u]) \/ u \in answered',
         pc \in {"resendPersist", "markAll", "persist", "mark"} =>
           \/ PartsOf(Msg(w)) \subseteq answered'
           \/ task[w].pc \in {"resendPersist", "markAll", "persist", "mark"}
  PROVE  ToldInv'
<1>1. PICK t : t = [task[w] EXCEPT !.pc = pc]
  OBVIOUS
<1>2. t.pc = pc /\ t.msg = Msg(w)
  BY <1>1, BusyTask DEF Task, Msg
<1>3. t.pc \in {"resendPersist", "markAll", "persist", "mark"} => PartsOf(t.msg) \subseteq answered'
  BY <1>2 DEF ToldInv, ToldBeforeMark
<1> QED
  BY <1>1, <1>3, ToldStep DEF Goto

LEMMA ToldEnd ==
  ASSUME TypeOK, ToldInv, NEW w \in Workers, Become(w, Idle),
         answered \subseteq answered',
         \A u \in Updates : Duplicate(rows'[u]) => Duplicate(rows[u]) \/ u \in answered'
  PROVE  ToldInv'
<1>1. PICK t : t = Idle
  OBVIOUS
<1>2. t.pc = "idle"
  BY <1>1 DEF Idle
<1> QED
  BY <1>1, <1>2, ToldStep

(* Only marking makes a duplicate of an update. *)
LEMMA OnlyMarksDuplicate ==
  ASSUME NEW table \in Table, NEW u \in Updates
  PROVE  /\ \A v \in Updates : Duplicate(ClearProcessing(table, v)[u]) => Duplicate(table[u])
         /\ \A cutoff : Duplicate(PruneSentBefore(table, cutoff)[u]) => Duplicate(table[u])
         /\ \A v \in Updates, at \in Nat : Duplicate(InsertClaim(table, v, at)[u]) => Duplicate(table[u])
         /\ \A v \in Updates, at \in Nat : Duplicate(ReclaimRow(table, v, at)[u]) => Duplicate(table[u])
         /\ \A v \in Updates, at \in Nat, r \in Replies :
              Duplicate(SavePendingReply(table, v, r, at)[u]) => Duplicate(table[u])
         /\ \A v \in Updates, at \in Nat : Duplicate(MarkProcessed(table, v, at)[u]) => Duplicate(table[u]) \/ u = v
<1>1. \A v \in Updates : Duplicate(ClearProcessing(table, v)[u]) => Duplicate(table[u])
  BY DEF ClearProcessing, Duplicate, Present, Table
<1>2. \A cutoff : Duplicate(PruneSentBefore(table, cutoff)[u]) => Duplicate(table[u])
  BY DEF PruneSentBefore, Duplicate, Present
<1>3. \A v \in Updates, at \in Nat :
        /\ Duplicate(InsertClaim(table, v, at)[u]) => Duplicate(table[u])
        /\ Duplicate(ReclaimRow(table, v, at)[u]) => Duplicate(table[u])
  BY ClaimEffect
<1>4. \A v \in Updates, at \in Nat, r \in Replies :
        Duplicate(SavePendingReply(table, v, r, at)[u]) => Duplicate(table[u])
  BY SaveEffect
<1>5. \A v \in Updates, at \in Nat :
        Duplicate(MarkProcessed(table, v, at)[u]) => Duplicate(table[u]) \/ u = v
  BY MarkEffect
<1> QED
  BY <1>1, <1>2, <1>3, <1>4, <1>5

LEMMA WebhookTold ==
  ASSUME TypeOK, TypeOK', ToldInv, NEW w \in Workers, Webhook(w)
  PROVE  ToldInv'
<1> DEFINE Quiet == /\ answered \subseteq answered'
                    /\ \A u \in Updates : Duplicate(rows'[u]) => Duplicate(rows[u]) \/ u \in answered'
<1>1. CASE Lookup(w)
  <2>1. At(w, "lookup") /\ Quiet
    BY <1>1 DEF Lookup
  <2>2. CASE Become(w, [task[w] EXCEPT !.pc = "resend", !.reply = rows[Primary(Msg(w))].reply])
    <3>1. PICK t : t = [task[w] EXCEPT !.pc = "resend", !.reply = rows[Primary(Msg(w))].reply]
      OBVIOUS
    <3>2. t.pc = "resend"
      BY <2>1, <3>1, BusyTask DEF At, Task
    <3> QED
      BY <2>1, <2>2, <3>1, <3>2, ToldStep
  <2> QED
    BY <1>1, <2>1, <2>2, ToldGoto DEF Lookup, At
<1>2. CASE Resend(w)
  <2>1. Quiet /\ PartsOf(Msg(w)) \subseteq answered'
    BY <1>2 DEF Resend, ToldReply, Told
  <2> QED
    BY <1>2, <2>1, ToldGoto, ToldEnd DEF Resend, At
<1>3. CASE ResendPersist(w)
  BY <1>3, ToldGoto DEF ResendPersist, At
<1>4. CASE SendNotice(w)
  <2>1. Quiet /\ PartsOf(Msg(w)) \subseteq answered'
    BY <1>4 DEF SendNotice, Told
  <2> QED
    BY <1>4, <2>1, ToldGoto, ToldEnd DEF SendNotice, NoticePc
<1>5. CASE MarkAll(w)
  <2>1. /\ At(w, "markAll") /\ task[w] \in Task /\ PartsOf(Msg(w)) \subseteq answered
        /\ Current(w) \in Updates \cap PartsOf(Msg(w))
    BY <1>5, BusyTask DEF MarkAll, At, ToldInv, ToldBeforeMark
  <2>2. Quiet
    BY <1>5, <2>1, OnlyMarksDuplicate DEF MarkAll, TypeOK
  <2>3. CASE LastPart(w)
    BY <1>5, <2>1, <2>2, <2>3, ToldGoto DEF MarkAll, At, Goto
  <2>4. CASE ~LastPart(w)
    <3>1. PICK t : t = [task[w] EXCEPT !.ix = @ + 1]
      OBVIOUS
    <3>2. t.msg = Msg(w)
      BY <2>1, <3>1 DEF Task, Msg
    <3> QED
      BY <1>5, <2>1, <2>2, <2>4, <3>1, <3>2, ToldStep DEF MarkAll
  <2> QED
    BY <2>3, <2>4
<1>6. CASE Guard(w)
  BY <1>6, ToldGoto DEF Guard, At
<1>7. CASE ClaimFind(w)
  <2>1. At(w, "claim") /\ Quiet
    BY <1>7 DEF ClaimFind
  <2>2. ASSUME NEW pc \in {"insert", "reclaim"}, Become(w, [task[w] EXCEPT !.pc = pc, !.stamp = now])
        PROVE  ToldInv'
    <3>1. PICK t : t = [task[w] EXCEPT !.pc = pc, !.stamp = now]
      OBVIOUS
    <3>2. t.pc = pc
      BY <2>1, <3>1, BusyTask DEF At, Task
    <3> QED
      BY <2>1, <2>2, <3>1, <3>2, ToldStep
  <2> QED
    BY <1>7, <2>1, <2>2, ToldGoto DEF ClaimFind, At
<1>8. ASSUME ClaimedCurrent(w), task[w].pc # "idle", Quiet PROVE ToldInv'
  <2>1. task[w] \in Task
    BY <1>8, BusyTask
  <2>2. CASE LastPart(w)
    <3>1. PICK t : t = [task[w] EXCEPT !.claimed = task[w].claimed \cup {Current(w)}, !.pc = "prune"]
      OBVIOUS
    <3>2. t.pc = "prune"
      BY <2>1, <3>1 DEF Task
    <3>3. Become(w, t)
      BY <1>8, <2>2, <3>1 DEF ClaimedCurrent
    <3> QED
      BY <1>8, <3>2, <3>3, ToldStep
  <2>3. CASE ~LastPart(w)
    <3>1. PICK t : t = [task[w] EXCEPT !.claimed = task[w].claimed \cup {Current(w)},
                                       !.pc = "claim", !.ix = task[w].ix + 1]
      OBVIOUS
    <3>2. t.pc = "claim"
      BY <2>1, <3>1 DEF Task
    <3>3. Become(w, t)
      BY <1>8, <2>3, <3>1 DEF ClaimedCurrent
    <3> QED
      BY <1>8, <3>2, <3>3, ToldStep
  <2> QED
    BY <2>2, <2>3
<1>9. CASE ClaimInsert(w)
  <2>1. Current(w) \in Updates /\ task[w].stamp \in Nat
    BY <1>9, BusyTask DEF ClaimInsert, At, TypeOK, Task
  <2> QED
    BY <1>8, <1>9, <2>1, OnlyMarksDuplicate DEF ClaimInsert, At, TypeOK
<1>10. CASE ClaimConflict(w)
  BY <1>10, ToldEnd DEF ClaimConflict
<1>11. CASE ClaimReclaim(w)
  <2>1. Current(w) \in Updates /\ task[w].stamp \in Nat
    BY <1>11, BusyTask DEF ClaimReclaim, At, TypeOK, Task
  <2> QED
    BY <1>8, <1>11, <2>1, OnlyMarksDuplicate DEF ClaimReclaim, At, TypeOK
<1>12. CASE Rollback(w)
  <2>1. PICK u \in task[w].claimed :
          /\ rows' = ClearProcessing(rows, u)
          /\ Become(w, [task[w] EXCEPT !.claimed = task[w].claimed \ {u},
                                       !.pc = IF task[w].claimed \ {u} = {} THEN "respond" ELSE "rollback"])
    BY <1>12 DEF Rollback
  <2>2. Quiet
    BY <1>12, <2>1, OnlyMarksDuplicate DEF Rollback, TypeOK, Task
  <2>3. PICK t : t = [task[w] EXCEPT !.claimed = task[w].claimed \ {u},
                                     !.pc = IF task[w].claimed \ {u} = {} THEN "respond" ELSE "rollback"]
    OBVIOUS
  <2>4. t.pc \in {"respond", "rollback"}
    BY <1>12, <2>3, BusyTask DEF Rollback, At, Task
  <2> QED
    BY <2>1, <2>2, <2>3, <2>4, ToldStep
<1>13. CASE Respond(w)
  BY <1>13, ToldEnd DEF Respond
<1> QED
  BY <1>1, <1>2, <1>3, <1>4, <1>5, <1>6, <1>7, <1>9, <1>10, <1>11, <1>12, <1>13 DEF Webhook

LEMMA JobTold ==
  ASSUME TypeOK, TypeOK', ToldInv, NEW w \in Workers, Job(w)
  PROVE  ToldInv'
<1>1. CASE PruneDue(w)
  <2>1. CASE Become(w, [task[w] EXCEPT !.pc = "delete", !.stamp = now])
    <3>1. PICK t : t = [task[w] EXCEPT !.pc = "delete", !.stamp = now]
      OBVIOUS
    <3>2. t.pc = "delete"
      BY <1>1, <3>1, BusyTask DEF PruneDue, At, Task
    <3> QED
      BY <1>1, <2>1, <3>1, <3>2, ToldStep DEF PruneDue
  <2> QED
    BY <1>1, <2>1, ToldGoto DEF PruneDue, At
<1>2. CASE PruneDelete(w)
  <2>1. \A u \in Updates : Duplicate(rows'[u]) => Duplicate(rows[u])
    BY <1>2, OnlyMarksDuplicate DEF PruneDelete, TypeOK
  <2> QED
    BY <1>2, <2>1, ToldGoto DEF PruneDelete, At
<1>3. CASE Generate(w)
  <2>1. PICK r \in Replies : Become(w, [task[w] EXCEPT !.pc = "save", !.reply = r])
    BY <1>3 DEF Generate
  <2>2. PICK t : t = [task[w] EXCEPT !.pc = "save", !.reply = r]
    OBVIOUS
  <2>3. t.pc = "save"
    BY <1>3, <2>2, BusyTask DEF Generate, At, Task
  <2> QED
    BY <1>3, <2>1, <2>2, <2>3, ToldStep DEF Generate
<1>4. CASE Save(w)
  <2>1. Primary(Msg(w)) \in Updates /\ task[w].reply \in Replies
    BY <1>4, BusyTask DEF Save, At, DeliveryPc
  <2>2. \A u \in Updates : Duplicate(rows'[u]) => Duplicate(rows[u])
    BY <1>4, <2>1, OnlyMarksDuplicate DEF Save, TypeOK
  <2> QED
    BY <1>4, <2>2, ToldGoto DEF Save, At
<1>5. CASE Send(w)
  <2>1. answered \subseteq answered' /\ PartsOf(Msg(w)) \subseteq answered'
    BY <1>5 DEF Send, ToldReply, Told
  <2> QED
    BY <1>5, <2>1, ToldGoto DEF Send, At
<1>6. CASE Persist(w)
  BY <1>6, ToldGoto DEF Persist, At
<1>7. CASE Mark(w)
  <2>1. Primary(Msg(w)) \in Updates \cap answered
    BY <1>7, BusyTask, PartsType DEF Mark, At, ToldInv, ToldBeforeMark
  <2>2. \A u \in Updates : Duplicate(rows'[u]) => Duplicate(rows[u]) \/ u \in answered
    BY <1>7, <2>1, OnlyMarksDuplicate DEF Mark, TypeOK
  <2> QED
    BY <1>7, <2>2, ToldEnd DEF Mark
<1>8. CASE Release(w)
  <2>1. Primary(Msg(w)) \in Updates
    BY <1>8, BusyTask DEF Release, At
  <2>2. \A u \in Updates : Duplicate(rows'[u]) => Duplicate(rows[u])
    BY <1>8, <2>1, OnlyMarksDuplicate DEF Release, TypeOK
  <2> QED
    BY <1>8, <2>2, ToldEnd DEF Release
<1> QED
  BY <1>1, <1>2, <1>3, <1>4, <1>5, <1>6, <1>7, <1>8 DEF Job

LEMMA NextTold == TypeOK /\ TypeOK' /\ ToldInv /\ [Next]_vars => ToldInv'
<1> SUFFICES ASSUME TypeOK, TypeOK', ToldInv, [Next]_vars PROVE ToldInv'
  OBVIOUS
<1>1. ASSUME NEW w \in Workers, Deliver(w) PROVE ToldInv'
  <2>1. PICK m \in Messages :
          Become(w, [Idle EXCEPT !.pc = IF m \in Unsupported THEN "notice" ELSE "lookup", !.msg = m])
    BY <1>1 DEF Deliver
  <2>2. PICK t : t = [Idle EXCEPT !.pc = IF m \in Unsupported THEN "notice" ELSE "lookup", !.msg = m]
    OBVIOUS
  <2>3. t.pc \in {"notice", "lookup"}
    BY <2>2 DEF Idle
  <2> QED
    BY <1>1, <2>1, <2>2, <2>3, ToldStep DEF Deliver
<1>2. ASSUME NEW w \in Workers, Fail(w) PROVE ToldInv'
  <2>1. CASE Become(w, Idle)
    BY <1>2, <2>1, ToldEnd DEF Fail
  <2>2. CASE task[w].pc \in JobPc /\ Goto(w, "release")
    <3>1. task[w].pc # "idle"
      BY <2>2 DEF JobPc, UnsavedPc, SavedPc
    <3> QED
      BY <1>2, <2>2, <3>1, ToldGoto DEF Fail
  <2> QED
    BY <1>2, <2>1, <2>2 DEF Fail
<1>3. CASE Tick
  BY <1>3 DEF Tick, ToldInv, ToldBeforeMark, SentImpliesAnswered, Msg
<1>4. CASE Crash
  BY <1>4 DEF Crash, ToldInv, ToldBeforeMark, SentImpliesAnswered, Idle
<1>5. CASE UNCHANGED vars
  BY <1>5 DEF vars, ToldInv, ToldBeforeMark, SentImpliesAnswered, Msg
<1> QED
  BY <1>1, <1>2, <1>3, <1>4, <1>5, WebhookTold, JobTold DEF Next

LEMMA InitTold == Init => ToldInv
  BY DEF Init, ToldInv, ToldBeforeMark, SentImpliesAnswered, Idle, EmptyTable, Duplicate, Present

(* An update that will be ignored as a duplicate has been answered: every   *)
(* path to mark_processed goes through a send for the same message.         *)
THEOREM IgnoredOnlyIfAnswered == Spec => []SentImpliesAnswered
<1>1. ToldInv => SentImpliesAnswered
  BY DEF ToldInv
<1> QED
  BY <1>1, InitTypes, NextTypes, InitTold, NextTold, PTL DEF Spec

-----------------------------------------------------------------------------
(***************************************************************************)
(* UpdatePipeline implements ReplyLedger, for any set of workers, messages  *)
(* and updates, with failures and crashes allowed: every step of a task,    *)
(* seen from one update that has not lapsed, is a step of the ledger.       *)
(***************************************************************************)

Kept(u) == rows'[u] = rows[u]

Untold(u) == delivered'[u] = delivered[u] /\ (u \in answered' <=> u \in answered)

-----------------------------------------------------------------------------
(* What the rows and the chats must do for each step of the ledger.         *)

LEMMA Stutters ==
  ASSUME NEW u \in Updates, Kept(u), Untold(u)
  PROVE  Ledger!Step(u)
  BY DEF Kept, Untold, Ledger!Step, Ledger!SameRow, Ledger!SameChat

LEMMA Claims ==
  ASSUME NEW u \in Updates, Untold(u), ~Present(rows[u]),
         Present(rows'[u]), ~Duplicate(rows'[u]), ReplyOf(rows'[u]) = NoReply
  PROVE  Ledger!Step(u)
  BY DEF Untold, Duplicate, Ledger!Step, Ledger!Claim, Ledger!SameChat

LEMMA GivesUp ==
  ASSUME NEW u \in Updates, Untold(u), BareClaim(rows[u]), delivered[u] = {}, ~Present(rows'[u])
  PROVE  Ledger!Step(u)
  BY DEF Untold, BareClaim, ReplyOf, Ledger!Step, Ledger!GiveUp, Ledger!SameChat

LEMMA Stores ==
  ASSUME NEW u \in Updates, Untold(u), Present(rows[u]), StoredReply(u) = NoReply, delivered[u] = {},
         Present(rows'[u]), ~Duplicate(rows'[u]), ReplyOf(rows'[u]) \in Replies
  PROVE  Ledger!Step(u)
  BY DEF Untold, StoredReply, Duplicate, Ledger!Step, Ledger!Store, Ledger!SameChat

LEMMA Tells ==
  ASSUME NEW u \in Updates, Kept(u), StoredReply(u) \in Replies, u \in answered',
         delivered'[u] = delivered[u] \cup {StoredReply(u)}
  PROVE  Ledger!Step(u)
  BY DEF Kept, StoredReply, Ledger!Step, Ledger!Tell, Ledger!SameRow

LEMMA Notifies ==
  ASSUME NEW u \in Updates, Kept(u), u \in answered', delivered'[u] = delivered[u]
  PROVE  Ledger!Step(u)
  BY DEF Kept, Ledger!Step, Ledger!Notify, Ledger!SameRow

LEMMA Closes ==
  ASSUME NEW u \in Updates, Untold(u), u \in answered, Duplicate(rows'[u]),
         ReplyOf(rows'[u]) = ReplyOf(rows[u])
  PROVE  Ledger!Step(u)
  BY DEF Untold, Duplicate, Ledger!Step, Ledger!Close, Ledger!SameChat

-----------------------------------------------------------------------------
(* The steps of a task. *)

(* What the chat got for an update is stored, so that nothing was told for  *)
(* an update without a stored reply.                                        *)
LEMMA NothingTold ==
  ASSUME TypeOK, LiveInv, NEW u \in Updates \ lapsed, StoredReply(u) = NoReply
  PROVE  delivered[u] = {}
<1>1. delivered[u] \subseteq Replies /\ NoReply \notin Replies
  BY TableAssumption DEF TypeOK
<1> QED
  BY <1>1 DEF LiveInv, DeliveredStored

LEMMA MarkCloses ==
  ASSUME TypeOK, ToldInv, NEW w \in Workers, MarkAll(w) \/ Mark(w), NEW u \in Updates
  PROVE  Ledger!Step(u)
<1> USE DEF UnsavedPc, SavedPc
<1>1. Untold(u)
  BY DEF MarkAll, Mark, Untold
<1>2. PICK v \in Updates : v \in answered /\ rows' = MarkProcessed(rows, v, now)
  <2>1. PartsOf(Msg(w)) \subseteq answered
    BY DEF MarkAll, Mark, At, ToldInv, ToldBeforeMark
  <2>2. Current(w) \in PartsOf(Msg(w)) /\ Primary(Msg(w)) \in PartsOf(Msg(w)) /\ PartsOf(Msg(w)) \subseteq Updates
    BY BusyTask, PartsType DEF MarkAll, Mark, At
  <2> QED
    BY <2>1, <2>2 DEF MarkAll, Mark
<1>3. CASE u = v
  <2>1. rows'[u] = [processed_at |-> now, reply |-> ReplyOf(rows[u]), sent |-> TRUE]
    BY <1>2, <1>3 DEF MarkProcessed, TypeOK, Table
  <2>2. rows'[u] \in Row
    BY <2>1 DEF Row, ReplyOf, Present, TypeOK, Table
  <2>3. Present(rows'[u])
    BY <2>2, TableAssumption DEF Present
  <2>4. Duplicate(rows'[u])
    BY <2>1, <2>3 DEF Duplicate
  <2>5. ReplyOf(rows'[u]) = ReplyOf(rows[u])
    BY <1>2, MarkEffect DEF TypeOK
  <2> QED
    BY <1>1, <1>2, <1>3, <2>4, <2>5, Closes
<1>4. CASE u # v
  <2>1. Kept(u)
    BY <1>2, <1>4, MarkEffect DEF Kept, TypeOK
  <2> QED
    BY <1>1, <2>1, Stutters
<1> QED
  BY <1>3, <1>4

LEMMA ClearGivesUp ==
  ASSUME TypeOK, LiveInv, NEW w \in Workers, Rollback(w) \/ Release(w), NEW u \in Updates \ lapsed
  PROVE  Ledger!Step(u)
<1>1. Untold(u)
  BY DEF Rollback, Release, Untold
<1>2. PICK v \in Updates : rows' = ClearProcessing(rows, v)
  <2>1. Rollback(w) => \E v \in task[w].claimed : rows' = ClearProcessing(rows, v)
    BY DEF Rollback
  <2>2. Release(w) => rows' = ClearProcessing(rows, Primary(Msg(w))) /\ Primary(Msg(w)) \in Updates
    BY BusyTask DEF Release, At
  <2> QED
    BY <2>1, <2>2 DEF TypeOK, Task
<1>3. CASE u = v /\ BareClaim(rows[u])
  <2>1. rows'[u] = NoRow
    BY <1>2, <1>3 DEF ClearProcessing, TypeOK, Table
  <2>2. delivered[u] = {}
    BY <1>3, NothingTold DEF BareClaim, StoredReply, ReplyOf
  <2> QED
    BY <1>1, <1>3, <2>1, <2>2, GivesUp DEF Present
<1>4. CASE ~(u = v /\ BareClaim(rows[u]))
  <2>1. Kept(u)
    BY <1>2, <1>4, ClearEffect DEF Kept, ClearProcessing, TypeOK
  <2> QED
    BY <1>1, <2>1, Stutters
<1> QED
  BY <1>3, <1>4

LEMMA InsertClaims ==
  ASSUME TypeOK, NEW w \in Workers, ClaimInsert(w), NEW u \in Updates
  PROVE  Ledger!Step(u)
<1>1. Untold(u) /\ Current(w) \in Updates /\ task[w].stamp \in Nat /\ rows \in Table
  BY BusyTask DEF ClaimInsert, At, TypeOK, Task, Untold
<1>2. CASE u = Current(w)
  BY <1>1, <1>2, ClaimEffect, Claims DEF ClaimInsert
<1>3. CASE u # Current(w)
  <2>1. Kept(u)
    BY <1>1, <1>3, ClaimEffect DEF ClaimInsert, Kept
  <2> QED
    BY <1>1, <2>1, Stutters
<1> QED
  BY <1>2, <1>3

LEMMA SaveStores ==
  ASSUME TypeOK, LiveInv, NEW w \in Workers, Save(w), NEW u \in Updates \ lapsed
  PROVE  Ledger!Step(u)
<1> DEFINE p == Primary(Msg(w))
<1>1. /\ Untold(u) /\ p \in Updates \cap task[w].claimed /\ task[w].reply \in Replies
      /\ rows \in Table /\ now \in Nat
      /\ rows' = SavePendingReply(rows, p, task[w].reply, now)
  BY BusyTask DEF Save, At, TypeOK, DeliveryPc, UnsavedPc, JobPc, LiveInv, OwnsPrimary, Untold
<1>2. CASE u = p
  <2>1. Present(rows[u]) /\ StoredReply(u) = NoReply
    BY <1>1, <1>2 DEF Save, At, UnsavedPc, LiveInv, ClaimUnsaved, ClaimHasRow
  <2>2. Present(rows'[u]) /\ ~Duplicate(rows'[u]) /\ ReplyOf(rows'[u]) \in Replies
    BY <1>1, <1>2, SaveEffect
  <2> QED
    BY <1>1, <2>1, <2>2, NothingTold, Stores
<1>3. CASE u # p
  <2>1. Kept(u)
    BY <1>1, <1>3, SaveEffect DEF Kept
  <2> QED
    BY <1>1, <2>1, Stutters
<1> QED
  BY <1>2, <1>3

LEMMA SendTells ==
  ASSUME TypeOK, LiveInv, NEW w \in Workers, Send(w) \/ Resend(w), NEW u \in Updates \ lapsed
  PROVE  Ledger!Step(u)
<1> DEFINE p == Primary(Msg(w))
           r == task[w].reply
<1> USE DEF ResendPc, SavedPc, DeliveryPc
<1>1. /\ p \in Updates /\ p \in PartsOf(Msg(w)) /\ r \in Replies
      /\ p \notin lapsed => StoredReply(p) = r
  BY BusyTask, PartsType DEF Send, Resend, At, LiveInv, DeliveringStored
<1>2. /\ answered' = answered \cup PartsOf(Msg(w))
      /\ delivered' = [delivered EXCEPT ![p] = @ \cup {r}]
      /\ Kept(u)
  BY DEF Send, Resend, ToldReply, Told, Kept
<1>3. CASE u = p
  <2>1. delivered'[u] = delivered[u] \cup {StoredReply(u)}
    BY <1>1, <1>2, <1>3 DEF TypeOK
  <2> QED
    BY <1>1, <1>2, <1>3, <2>1, Tells
<1>4. CASE u # p
  <2>1. delivered'[u] = delivered[u]
    BY <1>1, <1>2, <1>4 DEF TypeOK
  <2>2. CASE u \in PartsOf(Msg(w))
    BY <1>2, <2>1, <2>2, Notifies
  <2>3. CASE u \notin PartsOf(Msg(w))
    BY <1>2, <2>1, <2>3, Stutters DEF Untold
  <2> QED
    BY <2>2, <2>3
<1> QED
  BY <1>3, <1>4

LEMMA NoticeNotifies ==
  ASSUME NEW w \in Workers, SendNotice(w), NEW u \in Updates
  PROVE  Ledger!Step(u)
<1>1. Kept(u) /\ delivered'[u] = delivered[u] /\ answered' = answered \cup PartsOf(Msg(w))
  BY DEF SendNotice, Told, Kept
<1>2. CASE u \in PartsOf(Msg(w))
  BY <1>1, <1>2, Notifies
<1>3. CASE u \notin PartsOf(Msg(w))
  BY <1>1, <1>3, Stutters DEF Untold
<1> QED
  BY <1>2, <1>3

LEMMA PruneStutters ==
  ASSUME TypeOK, NEW w \in Workers, PruneDelete(w), NEW u \in Updates, u \notin lapsed'
  PROVE  Ledger!Step(u)
<1>1. Kept(u) /\ Untold(u)
  BY DEF PruneDelete, PruneSentBefore, Kept, Untold
<1> QED
  BY <1>1, Stutters

LEMMA ReclaimStutters ==
  ASSUME TypeOK, NEW w \in Workers, ClaimReclaim(w), NEW u \in Updates, u \notin lapsed'
  PROVE  Ledger!Step(u)
<1>1. Current(w) \in Updates /\ task[w].stamp \in Nat /\ rows \in Table /\ u # Current(w)
  BY BusyTask DEF ClaimReclaim, At, TypeOK, Task
<1>2. Kept(u) /\ Untold(u)
  BY <1>1, ClaimEffect DEF ClaimReclaim, Kept, Untold
<1> QED
  BY <1>2, Stutters

-----------------------------------------------------------------------------
(* The refinement. *)

LEMMA StepImplements ==
  ASSUME TypeOK, LiveInv, ToldInv, [Next]_vars, NEW u \in Updates, u \notin lapsed'
  PROVE  Ledger!Step(u)
<1>1. lapsed \subseteq lapsed'
  BY DEF Next, vars, Deliver, Webhook, Job, Fail, Tick, Crash, Lookup, Resend, ResendPersist,
         SendNotice, MarkAll, Guard, ClaimFind, ClaimInsert, ClaimConflict, ClaimReclaim, Rollback,
         Respond, PruneDue, PruneDelete, Generate, Save, Send, Persist, Mark, Release
<1>2. u \in Updates \ lapsed
  BY <1>1
<1>3. ASSUME UNCHANGED <<rows, delivered, answered>> PROVE Ledger!Step(u)
  BY <1>3, Stutters DEF Kept, Untold
<1>4. ASSUME NEW w \in Workers, Webhook(w) PROVE Ledger!Step(u)
  BY <1>2, <1>3, <1>4, MarkCloses, ClearGivesUp, InsertClaims, SendTells, NoticeNotifies, ReclaimStutters
     DEF Webhook, Lookup, ResendPersist, Guard, ClaimFind, ClaimConflict, Respond
<1>5. ASSUME NEW w \in Workers, Job(w) PROVE Ledger!Step(u)
  BY <1>2, <1>3, <1>5, MarkCloses, ClearGivesUp, SaveStores, SendTells, PruneStutters
     DEF Job, PruneDue, Generate, Persist
<1> QED
  BY <1>3, <1>4, <1>5 DEF Next, vars, Deliver, Fail, Tick, Crash

LEMMA NextImplements == TypeOK /\ LiveInv /\ ToldInv /\ [Next]_vars => [Ledger!Next]_(Ledger!vars)
<1> SUFFICES ASSUME TypeOK, LiveInv, ToldInv, [Next]_vars PROVE Ledger!Next
  OBVIOUS
<1>1. lapsed \subseteq lapsed'
  BY DEF Next, vars, Deliver, Webhook, Job, Fail, Tick, Crash, Lookup, Resend, ResendPersist,
         SendNotice, MarkAll, Guard, ClaimFind, ClaimInsert, ClaimConflict, ClaimReclaim, Rollback,
         Respond, PruneDue, PruneDelete, Generate, Save, Send, Persist, Mark, Release
<1> QED
  BY <1>1, StepImplements DEF Ledger!Next

LEMMA InitImplements == Init => Ledger!Init
  BY DEF Init, EmptyTable, Present, ReplyOf, Ledger!Init

(* The rows of processed_updates and the chats keep the ledger's promise    *)
(* through every interleaving, failure and crash: one reply for an update,  *)
(* stored before it is told, told as often as it takes, and the update      *)
(* closed only when its chat has been told something.                       *)
THEOREM PipelineKeepsTheLedger == Spec => ImplementsLedger
<1>1. Spec => Init /\ [][Next]_vars
  BY DEF Spec
<1> QED
  BY <1>1, InitImplements, NextImplements, InitTypes, NextTypes, InitLive, NextLive, InitTold, NextTold, PTL
     DEF ImplementsLedger, Ledger!Spec
=============================================================================
