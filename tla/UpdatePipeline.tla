---------------------------- MODULE UpdatePipeline ----------------------------
(***************************************************************************)
(* The life of a Telegram message inside the bot, from the webhook to the   *)
(* reply: unsupported -> duplicate -> command -> guard (which claims every  *)
(* update of the message) -> background reply job.                          *)
(*                                                                          *)
(* A worker is one asynchronous task: the webhook handler, or the album     *)
(* flush, up to the moment the job is enqueued, and the job from then on.   *)
(* One action is the code between two awaits, so every statement of the     *)
(* table, and every call to Telegram or Codex, is a step of its own.        *)
(*                                                                          *)
(* Session and memory contents, the rate limiter's decision and the album   *)
(* buffer are left to other modules: here the first two only can fail, the  *)
(* third is a free choice and the fourth hands over whole messages.         *)
(***************************************************************************)
EXTENDS ProcessedUpdateTable, Sequences

CONSTANTS
  Workers,
  Messages,       \* normalised messages: single updates and merged albums
  NoMessage,
  Parts,          \* Parts[m]: m's processing_updates, in message id order
  Commands,       \* messages the command registry resolves
  Unsupported,    \* messages without text and images
  Albums,         \* messages that come from a media group flush
  PruneInterval,  \* PROCESSED_UPDATE_PRUNE_INTERVAL_MS
  MaxTime,        \* bound: the last instant of a behaviour
  MayFail,        \* whether calls to Telegram, Codex and SQLite may fail
  MayCrash        \* whether the process may stop and restart

PartsOf(m) == {Parts[m][i] : i \in DOMAIN Parts[m]}

(* update_id: the merger takes it from the first message of the album. *)
Primary(m) == Parts[m][1]

ASSUME PipelineAssumption ==
  /\ NoMessage \notin Messages
  /\ Parts \in [Messages -> Seq(Updates)]
  /\ \A m \in Messages :
       /\ Len(Parts[m]) > 0
       /\ \A i, j \in DOMAIN Parts[m] : Parts[m][i] = Parts[m][j] => i = j
  /\ Commands \subseteq Messages
  /\ Unsupported \subseteq Messages
  /\ Albums \subseteq Messages
  /\ PruneInterval \in Nat
  /\ MaxTime \in Nat
  /\ MayFail \in BOOLEAN
  /\ MayCrash \in BOOLEAN

VARIABLES
  rows,       \* the table
  task,       \* task[w]: where worker w is, and its local variables
  now,        \* clock::now_ms
  lastPrune,  \* last_processed_update_prune_at, 0 after a start
  acked,      \* messages Telegram knows to be answered with 200
  generated,  \* replies Codex has produced
  answered,   \* history: updates whose chat was sent something for them
  delivered,  \* history: the generated replies the chat got for an update
  lapsed      \* history: updates whose row was taken over or pruned

vars == <<rows, task, now, lastPrune, acked, generated, answered, delivered, lapsed>>

ClaimPc == {"claim", "insert", "reclaim"}
(* run_inner of the job, up to the moment the reply is saved, and after. *)
UnsavedPc == {"prune", "delete", "generate", "save"}
SavedPc == {"send", "persist", "mark"}
JobPc == UnsavedPc \cup SavedPc \cup {"release"}
ResendPc == {"resend", "resendPersist"}
(* A task that holds the reply it delivers. *)
DeliveryPc == ResendPc \cup SavedPc \cup {"save"}
NoticePc == {"notice", "command", "reject"}
WebhookPc == {"lookup", "guard", "markAll", "rollback"} \cup ClaimPc \cup ResendPc \cup NoticePc
Pc == {"idle", "respond"} \cup WebhookPc \cup JobPc

Task == [pc : Pc, msg : Messages \cup {NoMessage}, ix : Nat, claimed : SUBSET Updates,
         reply : Replies \cup {NoReply}, stamp : Nat]

Idle == [pc |-> "idle", msg |-> NoMessage, ix |-> 1, claimed |-> {},
         reply |-> NoReply, stamp |-> 0]

Init ==
  /\ rows = EmptyTable
  /\ task = [w \in Workers |-> Idle]
  /\ now = 1
  /\ lastPrune = 0
  /\ acked = {}
  /\ generated = {}
  /\ answered = {}
  /\ delivered = [u \in Updates |-> {}]
  /\ lapsed = {}

-----------------------------------------------------------------------------
(* Helpers: what worker w is at, and its moves. *)

At(w, pc) == task[w].pc = pc

Msg(w) == task[w].msg

(* The update that the loop over processing_updates has reached. *)
Current(w) == Parts[Msg(w)][task[w].ix]

(* Mutant of LastPart: the loop runs one past the end. *)
PastLastPart(w) == task[w].ix > Len(Parts[Msg(w)])

LastPart(w) == task[w].ix = Len(Parts[Msg(w)])

Become(w, t) == task' = [task EXCEPT ![w] = t]

Goto(w, pc) == Become(w, [task[w] EXCEPT !.pc = pc])

Told(w) == answered' = answered \cup PartsOf(Msg(w))

ToldReply(w) ==
  /\ Told(w)
  /\ delivered' = [delivered EXCEPT ![Primary(Msg(w))] = @ \cup {task[w].reply}]

-----------------------------------------------------------------------------
(* The webhook, or the flush of an album, hands a message to process(). The *)
(* photos of an album were acknowledged when they were buffered: unless an  *)
(* acknowledgement was lost, Telegram does not send them again.             *)

Deliver(w) ==
  /\ At(w, "idle")
  /\ \E m \in Messages \ acked :
       /\ Become(w, [Idle EXCEPT !.pc = IF m \in Unsupported THEN "notice" ELSE "lookup",
                                 !.msg = m])
       /\ acked' \in {acked} \cup (IF m \in Albums THEN {acked \cup {m}} ELSE {})
  /\ UNCHANGED <<rows, now, lastPrune, generated, answered, delivered, lapsed>>

(* handle_webhook returns 200; the response may be lost on its way. *)
Respond(w) ==
  /\ At(w, "respond")
  /\ acked' \in {acked} \cup (IF Msg(w) \in Albums THEN {} ELSE {acked \cup {Msg(w)}})
  /\ Become(w, Idle)
  /\ UNCHANGED <<rows, now, lastPrune, generated, answered, delivered, lapsed>>

(* DuplicateUpdateHandler::handle, which looks at the primary update only. *)
Lookup(w) ==
  LET row == rows[Primary(Msg(w))] IN
  /\ At(w, "lookup")
  /\ \/ /\ Duplicate(row)
        /\ Goto(w, "respond")
     \/ /\ ~Duplicate(row)
        /\ Replayable(row)
        /\ Become(w, [task[w] EXCEPT !.pc = "resend", !.reply = row.reply])
     \/ /\ ~Duplicate(row)
        /\ ~Replayable(row)
        /\ Goto(w, IF Msg(w) \in Commands THEN "command" ELSE "guard")
  /\ UNCHANGED <<rows, now, lastPrune, acked, generated, answered, delivered, lapsed>>

(* resend_pending_reply: send, persist the conversation state, mark. *)
Resend(w) ==
  /\ At(w, "resend")
  /\ ToldReply(w)
  /\ \/ Goto(w, "resendPersist")
     \/ MayFail /\ Become(w, Idle)
  /\ UNCHANGED <<rows, now, lastPrune, acked, generated, lapsed>>

ResendPersist(w) ==
  /\ At(w, "resendPersist")
  /\ Goto(w, "markAll")
  /\ UNCHANGED <<rows, now, lastPrune, acked, generated, answered, delivered, lapsed>>

(* The notices: the unsupported message's is never marked, a command's and  *)
(* a rejection's are. The call can fail although the chat got the text.     *)
SendNotice(w) ==
  /\ task[w].pc \in NoticePc
  /\ Told(w)
  /\ \/ Goto(w, IF At(w, "notice") THEN "respond" ELSE "markAll")
     \/ MayFail /\ Become(w, Idle)
  /\ UNCHANGED <<rows, now, lastPrune, acked, generated, delivered, lapsed>>

(* mark_processed_message, one update per step. *)
MarkAll(w) ==
  /\ At(w, "markAll")
  /\ rows' = MarkProcessed(rows, Current(w), now)
  /\ Become(w, IF LastPart(w) THEN [task[w] EXCEPT !.pc = "respond"]
                              ELSE [task[w] EXCEPT !.ix = @ + 1])
  /\ UNCHANGED <<now, lastPrune, acked, generated, answered, delivered, lapsed>>

(* Mutant of Guard: a refusal is marked, and the chat is not told. *)
GuardMarksOnly(w) ==
  /\ At(w, "guard")
  /\ \/ Goto(w, "markAll")
     \/ Goto(w, "claim")
  /\ UNCHANGED <<rows, now, lastPrune, acked, generated, answered, delivered, lapsed>>

(* Mutant of Guard: a refused message is dropped silently. *)
GuardDrops(w) ==
  /\ At(w, "guard")
  /\ \/ Goto(w, "respond")
     \/ Goto(w, "claim")
  /\ UNCHANGED <<rows, now, lastPrune, acked, generated, answered, delivered, lapsed>>

(* The guard's three refusals: user, album size, chat rate. *)
Guard(w) ==
  /\ At(w, "guard")
  /\ \/ Goto(w, "reject")
     \/ Goto(w, "claim")
  /\ UNCHANGED <<rows, now, lastPrune, acked, generated, answered, delivered, lapsed>>

-----------------------------------------------------------------------------
(* begin_processing. The repository reads the clock and the row, and only   *)
(* then writes: two statements, no transaction.                             *)

Taken(row) ==
  Present(row) /\ (row.sent \/ row.reply # NoReply \/ ~Expired(row, now))

ClaimFind(w) ==
  LET row == rows[Current(w)] IN
  /\ At(w, "claim")
  /\ \/ /\ ~Present(row)
        /\ Become(w, [task[w] EXCEPT !.pc = "insert", !.stamp = now])
     \/ /\ Present(row)
        /\ ~Taken(row)
        /\ Become(w, [task[w] EXCEPT !.pc = "reclaim", !.stamp = now])
     \/ /\ Taken(row)
        /\ Goto(w, IF task[w].claimed = {} THEN "respond" ELSE "rollback")
  /\ UNCHANGED <<rows, now, lastPrune, acked, generated, answered, delivered, lapsed>>

(* The loop goes on to the next update; after the last one the job is       *)
(* enqueued and the webhook answers 200, which may be lost.                 *)
ClaimedCurrent(w) ==
  LET owned == task[w].claimed \cup {Current(w)} IN
  IF LastPart(w)
    THEN /\ Become(w, [task[w] EXCEPT !.claimed = owned, !.pc = "prune"])
         /\ acked' \in {acked} \cup (IF Msg(w) \in Albums THEN {} ELSE {acked \cup {Msg(w)}})
    ELSE /\ Become(w, [task[w] EXCEPT !.claimed = owned, !.pc = "claim", !.ix = @ + 1])
         /\ UNCHANGED acked

(* Mutant of ClaimInsert: "insert or replace". *)
ClaimReplace(w) ==
  /\ At(w, "insert")
  /\ rows' = InsertClaim(rows, Current(w), task[w].stamp)
  /\ ClaimedCurrent(w)
  /\ UNCHANGED <<now, lastPrune, generated, answered, delivered, lapsed>>

ClaimInsert(w) ==
  /\ At(w, "insert")
  /\ ~Present(rows[Current(w)])
  /\ rows' = InsertClaim(rows, Current(w), task[w].stamp)
  /\ ClaimedCurrent(w)
  /\ UNCHANGED <<now, lastPrune, generated, answered, delivered, lapsed>>

(* update_id is unique: the insert of a row another task has inserted since *)
(* is an error, which leaves the loop without rolling back.                 *)
ClaimConflict(w) ==
  /\ At(w, "insert")
  /\ Present(rows[Current(w)])
  /\ Become(w, Idle)
  /\ UNCHANGED <<rows, now, lastPrune, acked, generated, answered, delivered, lapsed>>

ClaimReclaim(w) ==
  /\ At(w, "reclaim")
  /\ rows' = ReclaimRow(rows, Current(w), task[w].stamp)
  /\ lapsed' = lapsed \cup {Current(w)}
  /\ ClaimedCurrent(w)
  /\ UNCHANGED <<now, lastPrune, generated, answered, delivered>>

(* Mutant of Rollback: every update of the message is cleared, the taken    *)
(* one too.                                                                 *)
RollbackEverything(w) ==
  /\ At(w, "rollback")
  /\ rows' = [u \in Updates |-> IF u \in PartsOf(Msg(w)) /\ BareClaim(rows[u]) THEN NoRow ELSE rows[u]]
  /\ Become(w, [task[w] EXCEPT !.claimed = {}, !.pc = "respond"])
  /\ UNCHANGED <<now, lastPrune, acked, generated, answered, delivered, lapsed>>

(* One of the updates is taken: the claimed ones are cleared in order. *)
Rollback(w) ==
  /\ At(w, "rollback")
  /\ \E i \in DOMAIN Parts[Msg(w)] :
       LET u == Parts[Msg(w)][i]
           rest == task[w].claimed \ {u}
       IN
       /\ u \in task[w].claimed
       /\ \A j \in 1 .. i - 1 : Parts[Msg(w)][j] \notin task[w].claimed
       /\ rows' = ClearProcessing(rows, u)
       /\ Become(w, [task[w] EXCEPT !.claimed = rest,
                                    !.pc = IF rest = {} THEN "respond" ELSE "rollback"])
  /\ UNCHANGED <<now, lastPrune, acked, generated, answered, delivered, lapsed>>

-----------------------------------------------------------------------------
(* The reply job: ReplyGenerationService::handle_inner and deliver_reply. *)

(* prune_if_needed, up to its delete: 0 stands for "never pruned". *)
PruneDue(w) ==
  /\ At(w, "prune")
  /\ IF lastPrune # 0 /\ now - lastPrune < PruneInterval
       THEN Goto(w, "generate")
       ELSE Become(w, [task[w] EXCEPT !.pc = "delete", !.stamp = now])
  /\ UNCHANGED <<rows, now, lastPrune, acked, generated, answered, delivered, lapsed>>

PruneDelete(w) ==
  LET cutoff == task[w].stamp - Retention IN
  /\ At(w, "delete")
  /\ rows' = PruneSentBefore(rows, cutoff)
  /\ lapsed' = lapsed \cup Prunable(rows, cutoff)
  /\ lastPrune' = task[w].stamp
  /\ Goto(w, "generate")
  /\ UNCHANGED <<now, acked, generated, answered, delivered>>

(* Mutant of Generate: the reply is sent without being stored. *)
GenerateUnsaved(w) ==
  /\ At(w, "generate")
  /\ \E r \in Replies \ generated :
       /\ generated' = generated \cup {r}
       /\ Become(w, [task[w] EXCEPT !.pc = "send", !.reply = r])
  /\ UNCHANGED <<rows, now, lastPrune, acked, answered, delivered, lapsed>>

(* generate_reply: downloads, session and memory lookups, codex exec. *)
Generate(w) ==
  /\ At(w, "generate")
  /\ \E r \in Replies \ generated :
       /\ generated' = generated \cup {r}
       /\ Become(w, [task[w] EXCEPT !.pc = "save", !.reply = r])
  /\ UNCHANGED <<rows, now, lastPrune, acked, answered, delivered, lapsed>>

Save(w) ==
  /\ At(w, "save")
  /\ rows' = SavePendingReply(rows, Primary(Msg(w)), task[w].reply, now)
  /\ Goto(w, "send")
  /\ UNCHANGED <<now, lastPrune, acked, generated, answered, delivered, lapsed>>

Send(w) ==
  /\ At(w, "send")
  /\ ToldReply(w)
  /\ \/ Goto(w, "persist")
     \/ MayFail /\ Goto(w, "release")
  /\ UNCHANGED <<rows, now, lastPrune, acked, generated, lapsed>>

(* persist_conversation_state, then refresh_memory, which never fails. *)
Persist(w) ==
  /\ At(w, "persist")
  /\ Goto(w, "mark")
  /\ UNCHANGED <<rows, now, lastPrune, acked, generated, answered, delivered, lapsed>>

(* The job marks message.update_id, not every update of the message. *)
Mark(w) ==
  /\ At(w, "mark")
  /\ rows' = MarkProcessed(rows, Primary(Msg(w)), now)
  /\ Become(w, Idle)
  /\ UNCHANGED <<now, lastPrune, acked, generated, answered, delivered, lapsed>>

(* handle: after an error the primary's claim is released. *)
Release(w) ==
  /\ At(w, "release")
  /\ rows' = ClearProcessing(rows, Primary(Msg(w)))
  /\ Become(w, Idle)
  /\ UNCHANGED <<now, lastPrune, acked, generated, answered, delivered, lapsed>>

-----------------------------------------------------------------------------
(* The environment. *)

(* The call a task awaits fails without effect: the webhook answers 500 and *)
(* Telegram will send the update again; the job goes to its error handler,  *)
(* whose own failure ends it.                                               *)
Fail(w) ==
  /\ MayFail
  /\ \/ /\ task[w].pc \in (WebhookPc \ {"guard"}) \cup {"release"}
        /\ Become(w, Idle)
     \/ /\ task[w].pc \in (JobPc \ {"prune", "release"})
        /\ Goto(w, "release")
  /\ UNCHANGED <<rows, now, lastPrune, acked, generated, answered, delivered, lapsed>>

Tick ==
  /\ now < MaxTime
  /\ now' = now + 1
  /\ UNCHANGED <<rows, task, lastPrune, acked, generated, answered, delivered, lapsed>>

(* The process stops (shutdown aborts every task) and starts again: only    *)
(* the table is left.                                                       *)
Crash ==
  /\ MayCrash
  /\ task' = [w \in Workers |-> Idle]
  /\ lastPrune' = 0
  /\ UNCHANGED <<rows, now, acked, generated, answered, delivered, lapsed>>

Webhook(w) ==
  \/ Lookup(w) \/ Resend(w) \/ ResendPersist(w) \/ SendNotice(w) \/ MarkAll(w)
  \/ Guard(w) \/ ClaimFind(w) \/ ClaimInsert(w) \/ ClaimConflict(w) \/ ClaimReclaim(w)
  \/ Rollback(w) \/ Respond(w)

Job(w) ==
  \/ PruneDue(w) \/ PruneDelete(w) \/ Generate(w) \/ Save(w) \/ Send(w)
  \/ Persist(w) \/ Mark(w) \/ Release(w)

Next ==
  \/ \E w \in Workers : Deliver(w) \/ Webhook(w) \/ Job(w) \/ Fail(w)
  \/ Tick
  \/ Crash

Spec == Init /\ [][Next]_vars

(* Telegram repeats an update until it is acknowledged, and the runtime     *)
(* polls every task that can go on; the clock and failures are not forced.  *)
FairSpec ==
  /\ Spec
  /\ \A w \in Workers : WF_vars(Webhook(w)) /\ WF_vars(Job(w))

-----------------------------------------------------------------------------
(* Properties. *)

(* Every variable has its type, and a task that is on a message points at   *)
(* one of the message's updates, has claimed no other message's, and holds  *)
(* the reply it is about to send or save: the loops over processing_updates *)
(* never run past the end.                                                  *)
TypeOK ==
  /\ rows \in Table
  /\ task \in [Workers -> Task]
  /\ now \in Nat \ {0}
  /\ lastPrune \in Nat
  /\ acked \subseteq Messages
  /\ generated \subseteq Replies
  /\ answered \subseteq Updates
  /\ delivered \in [Updates -> SUBSET Replies]
  /\ lapsed \subseteq Updates
  /\ \A w \in Workers :
       \/ task[w] = Idle
       \/ /\ task[w].pc # "idle"
          /\ Msg(w) \in Messages
          /\ task[w].ix \in 1 .. Len(Parts[Msg(w)])
          /\ task[w].claimed \subseteq PartsOf(Msg(w))
          /\ task[w].pc \in DeliveryPc => task[w].reply \in Replies

(* Two tasks own the same update only if one of them took it over after the *)
(* in-flight timeout (begin_processing), or its row was pruned: rollbacks,  *)
(* releases and duplicate inserts never hand a live claim to a second task. *)
ClaimExclusive ==
  \A v, w \in Workers : v # w => task[v].claimed \cap task[w].claimed \subseteq lapsed

(* An update is marked as sent, and so ignored for good when Telegram       *)
(* repeats it, only after its chat was sent something for it: no failure,   *)
(* crash or race makes the bot swallow a message by marking it first.       *)
SentImpliesAnswered ==
  \A u \in Updates : Duplicate(rows[u]) => u \in answered

(* However often an update is delivered again, replayed or retried, every   *)
(* generated reply that reaches the chat for it is the same one, unless its *)
(* claim lapsed (deliver_reply saves before it sends; a stored reply is     *)
(* replayed and never generated anew).                                      *)
NoRegeneration ==
  \A u \in Updates \ lapsed : \A r, s \in delivered[u] : r = s

StoredReply(u) == ReplyOf(rows[u])

(* A stored reply is what a retry will replay: no step may erase or replace *)
(* it unless the update's claim lapsed. (mark_processed is an upsert of the *)
(* bookkeeping columns only; clear_processing spares a stored reply.)       *)
ReplySurvives(u) == StoredReply(u) # NoReply => StoredReply(u)' = StoredReply(u)

StoredReplySurvives ==
  [][\A u \in Updates : u \in lapsed' \/ ReplySurvives(u)]_vars

(* A message that is acknowledged, so that Telegram forgets it, is answered *)
(* in the end, at least by way of one of its updates: an acknowledgement    *)
(* leaves no claimed, unanswered message behind while nothing fails.        *)
AckedIsAnswered ==
  \A m \in Messages : m \in acked ~> PartsOf(m) \cap answered # {}

(* The rows of processed_updates and the chats keep the ledger's promise.   *)
Ledger == INSTANCE ReplyLedger WITH
  status <- [u \in Updates |-> IF ~Present(rows[u]) THEN "free"
                                ELSE IF rows[u].sent THEN "closed" ELSE "open"],
  reply  <- [u \in Updates |-> ReplyOf(rows[u])],
  told   <- delivered

ImplementsLedger == Ledger!Spec

-----------------------------------------------------------------------------
(* What a comment of the code says, and the code does not do. *)

(* reply_generation.rs: "Releasing the claim lets Telegram's retry          *)
(* regenerate the reply": there is a retry to come when the claim is        *)
(* released.                                                                *)
RetryCanRegenerate ==
  \A w \in Workers : At(w, "release") => Msg(w) \notin acked
=============================================================================
