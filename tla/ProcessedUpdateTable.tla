------------------------- MODULE ProcessedUpdateTable -------------------------
(***************************************************************************)
(* The SQLite table processed_updates, which is the only thing that keeps   *)
(* the bot from answering one Telegram update twice.  A table maps an       *)
(* update id to its row, or to NoRow; every operator below is one SQL       *)
(* statement of ProcessedUpdateRepository, or one test its callers make on  *)
(* a row they have read.                                                    *)
(*                                                                          *)
(* reply stands for the pair (reply_text, conversation_state): the only     *)
(* writer, save_pending_reply, sets both or, through a reclaim, neither.    *)
(* sent stands for "sent_at is not null".                                   *)
(***************************************************************************)
EXTENDS Integers

CONSTANTS
  Updates,          \* update ids
  Replies,          \* generated replies, one value per run of the model
  NoReply,          \* reply_text and conversation_state are null
  NoRow,            \* the update has no row
  InflightTimeout,  \* INFLIGHT_TIMEOUT_MS
  Retention         \* PROCESSED_UPDATE_RETENTION_MS

Row == [processed_at : Nat, reply : Replies \cup {NoReply}, sent : BOOLEAN]

ASSUME TableAssumption ==
  /\ NoReply \notin Replies
  /\ NoRow \notin Row
  /\ InflightTimeout \in Nat
  /\ Retention \in Nat

Table == [Updates -> Row \cup {NoRow}]

EmptyTable == [u \in Updates |-> NoRow]

Present(row) == row # NoRow

(* ProcessedUpdateService::duplicate *)
Duplicate(row) == Present(row) /\ row.sent

(* What a repeated update would be answered with. *)
ReplyOf(row) == IF Present(row) THEN row.reply ELSE NoReply

(* ProcessedUpdateService::replayable *)
Replayable(row) == ReplyOf(row) # NoReply

(* Mutant of BareClaim: clear_processing forgets the reply_text condition. *)
UnsentClaim(row) == Present(row) /\ ~row.sent

(* A claim nobody has answered yet: what clear_processing may delete. *)
BareClaim(row) == Present(row) /\ ~row.sent /\ row.reply = NoReply

(* The claim was made at least InflightTimeout before the given time. *)
Expired(row, at) == at - row.processed_at >= InflightTimeout

Claimed(at) == [processed_at |-> at, reply |-> NoReply, sent |-> FALSE]

(* begin_processing, the insert of a row that find did not see. *)
InsertClaim(table, u, at) == [table EXCEPT ![u] = Claimed(at)]

(* begin_processing, the update of an expired row: no condition but the id, *)
(* so a row that has gone stays gone and one that was answered is reset.    *)
ReclaimRow(table, u, at) ==
  IF Present(table[u]) THEN [table EXCEPT ![u] = Claimed(at)] ELSE table

(* Mutant of ClearProcessing: a delete by id alone. *)
ClearAnything(table, u) == [table EXCEPT ![u] = NoRow]

ClearProcessing(table, u) ==
  IF BareClaim(table[u]) THEN [table EXCEPT ![u] = NoRow] ELSE table

(* Mutant of MarkProcessed: an upsert of every column. *)
MarkWholeRow(table, u, at) ==
  [table EXCEPT ![u] = [processed_at |-> at, reply |-> NoReply, sent |-> TRUE]]

(* An upsert of processed_at and sent_at: a stored reply survives. *)
MarkProcessed(table, u, at) ==
  [table EXCEPT ![u] =
     [processed_at |-> at,
      reply        |-> ReplyOf(@),
      sent         |-> TRUE]]

(* Mutant of SavePendingReply: sent_at is stamped when the reply is stored. *)
SaveAsSent(table, u, reply, at) ==
  [table EXCEPT ![u] = [processed_at |-> at, reply |-> reply, sent |-> TRUE]]

(* An upsert of every column, sent_at to null among them. *)
SavePendingReply(table, u, reply, at) ==
  [table EXCEPT ![u] = [processed_at |-> at, reply |-> reply, sent |-> FALSE]]

Prunable(table, cutoff) ==
  {u \in Updates : Duplicate(table[u]) /\ table[u].processed_at < cutoff}

PruneSentBefore(table, cutoff) ==
  [u \in Updates |-> IF u \in Prunable(table, cutoff) THEN NoRow ELSE table[u]]
=============================================================================
