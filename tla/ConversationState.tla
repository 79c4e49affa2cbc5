--------------------------- MODULE ConversationState ---------------------------
(***************************************************************************)
(* The state of one chat: its session (chat_sessions), its long-term memory *)
(* (chat_memories) and the replies that are stored until they are marked as *)
(* sent (processed_updates.conversation_state).  Every statement names one  *)
(* chat_id, so chats do not interact.                                       *)
(*                                                                          *)
(* A worker is an asynchronous task: a reply job, a replay of a stored      *)
(* reply, a command, or a compaction job.  Every statement and every call   *)
(* to Codex or Telegram is a step; nothing holds a lock between two steps.  *)
(*                                                                          *)
(* The memory is the set of messages it draws on, and so is the text of a   *)
(* reply: Codex writes it from the message, the transcript and the memory,  *)
(* and it becomes part of the transcript and of what the memory is merged   *)
(* with. Which messages are answered, and by how many tasks, is             *)
(* UpdatePipeline's business: here each one is answered once, and replayed  *)
(* as long as its reply is stored.                                          *)
(***************************************************************************)
EXTENDS Transcript

CONSTANTS
  Workers,
  NoMessage,
  NoSession,  \* no row in chat_sessions
  NoReply,    \* the message has no stored reply that is not marked as sent
  Ttl,        \* session_ttl_ms
  MaxTime,    \* bound: the last instant of a behaviour
  MayFail     \* whether a task may end before it is done: errors and crashes

Session == [turns : Transcripts, at : Nat]

ASSUME ConversationStateAssumption ==
  /\ NoMessage \notin Messages
  /\ NoSession \notin Session
  /\ NoReply \notin Transcripts
  /\ Ttl \in Nat
  /\ MaxTime \in Nat
  /\ MayFail \in BOOLEAN

VARIABLES
  session,   \* the row of chat_sessions
  memory,    \* memory_text, {} if there is no row
  stored,    \* stored[m]: the conversation_state of m's pending reply
  drawn,     \* drawn[m]: the earlier messages that the text of m's reply may tell of
  task,
  now,
  restarts,  \* history: how often /new was carried out, modulo 2
  begun,     \* history: the messages that have got a reply job
  before,    \* history: those that got it before the last /new, /forget
  held       \* history: those that tasks or texts still had in hand at that time

vars == <<session, memory, stored, drawn, task, now, restarts, begun, before, held>>

(* What a task is for: a reply job, the replay of a stored reply, a command *)
(* that shows the session, /compact itself, and the job it may start.       *)
Purpose == {"reply", "replay", "show", "offer", "compact"}

DeliveryPc == {"save", "send", "persist"}
(* The task has found the session, and what it writes is based on it. *)
WritingPc == {"know", "generate", "summarise", "persistSummary"} \cup DeliveryPc
MemoryPc == {"recall", "merge", "remember"}
Pc == {"idle", "find", "drop", "resend", "mark"} \cup WritingPc \cup MemoryPc

Task == [pc : Pc, purpose : Purpose, msg : Messages \cup {NoMessage},
         turns : Transcripts, facts : SUBSET Messages]

Idle == [pc |-> "idle", purpose |-> "reply", msg |-> NoMessage, turns |-> <<>>, facts |-> {}]

Init ==
  /\ session = NoSession
  /\ memory = {}
  /\ stored = [m \in Messages |-> NoReply]
  /\ drawn = [m \in Messages |-> {}]
  /\ task = [w \in Workers |-> Idle]
  /\ now = 1
  /\ restarts = 0
  /\ begun = {}
  /\ before = [new |-> {}, forget |-> {}]
  /\ held = [new |-> {}, forget |-> {}]

-----------------------------------------------------------------------------

At(w, pc) == task[w].pc = pc

Become(w, t) == task' = [task EXCEPT ![w] = t]

Goto(w, pc) == Become(w, [task[w] EXCEPT !.pc = pc])

Context == IF session = NoSession THEN <<>> ELSE session.turns

Expired(row) == now - row.at > Ttl

Persisted(turns) == session' = [turns |-> turns, at |-> now]

(* What the exchanges of the messages tell of: they and their replies. *)
Said(messages) == messages \cup UNION {drawn[m] : m \in messages}

(* What unfinished tasks, and replays of stored replies, may still write    *)
(* into the session; and what the memory may still be made from: these, the *)
(* session that a later reply will be written from, and the memories that   *)
(* tasks have read.                                                         *)
Asked(w) == {task[w].msg} \ {NoMessage}
HeldTurns ==
  (UNION {Told(task[w].turns) \cup Asked(w) : w \in Workers})
    \cup (UNION {Told(stored[m]) : m \in {n \in Messages : stored[n] # NoReply}})
HeldFacts == Said(Told(Context) \cup HeldTurns) \cup UNION {task[w].facts : w \in Workers}

-----------------------------------------------------------------------------
(* What starts a task. *)

(* A message of the user reaches its reply job. *)
Say(w) ==
  /\ At(w, "idle")
  /\ \E m \in Messages \ begun :
       /\ begun' = begun \cup {m}
       /\ Become(w, [Idle EXCEPT !.pc = "find", !.msg = m])
  /\ UNCHANGED <<session, memory, stored, drawn, now, restarts, before, held>>

(* resend_pending_reply, with the row that was read. *)
Replay(w) ==
  /\ At(w, "idle")
  /\ \E m \in Messages :
       /\ stored[m] # NoReply
       /\ Become(w, [Idle EXCEPT !.pc = "resend", !.purpose = "replay", !.msg = m,
                                 !.turns = stored[m]])
  /\ UNCHANGED <<session, memory, stored, drawn, now, restarts, begun, before, held>>

(* Mutant of Restart: the wrong repository's reset. *)
RestartForgets(w) ==
  /\ At(w, "idle")
  /\ memory' = {}
  /\ restarts' = 1 - restarts
  /\ before' = [before EXCEPT !.new = begun]
  /\ held' = [held EXCEPT !.new = HeldTurns]
  /\ UNCHANGED <<session, stored, drawn, task, now, begun>>

(* /new and /start: SessionService::reset is one statement. *)
Restart(w) ==
  /\ At(w, "idle")
  /\ session' = NoSession
  /\ restarts' = 1 - restarts
  /\ before' = [before EXCEPT !.new = begun]
  /\ held' = [held EXCEPT !.new = HeldTurns]
  /\ UNCHANGED <<memory, stored, drawn, task, now, begun>>

(* Mutant of Forget: the row is kept. *)
ForgetNothing(w) ==
  /\ At(w, "idle")
  /\ before' = [before EXCEPT !.forget = begun]
  /\ held' = [held EXCEPT !.forget = HeldFacts]
  /\ UNCHANGED <<session, memory, stored, drawn, task, now, restarts, begun>>

(* /forget *)
Forget(w) ==
  /\ At(w, "idle")
  /\ memory' = {}
  /\ before' = [before EXCEPT !.forget = begun]
  /\ held' = [held EXCEPT !.forget = HeldFacts]
  /\ UNCHANGED <<session, stored, drawn, task, now, restarts, begun>>

(* /status and /session look the session up; /compact does, to tell whether *)
(* there is anything to compact.                                            *)
Ask(w) ==
  /\ At(w, "idle")
  /\ \E purpose \in {"show", "offer"} :
       Become(w, [Idle EXCEPT !.pc = "find", !.purpose = purpose])
  /\ UNCHANGED <<session, memory, stored, drawn, now, restarts, begun, before, held>>

-----------------------------------------------------------------------------
(* ChatSessionRepository::find_active: a select, and a delete of a row that *)
(* was too old.                                                             *)

(* How the task goes on with the transcript it has found. *)
Found(w, turns) ==
  \/ /\ task[w].purpose = "reply"
     /\ Become(w, [task[w] EXCEPT !.pc = "know", !.turns = turns])
  \/ /\ task[w].purpose = "show"
     /\ Become(w, Idle)
  \/ /\ task[w].purpose \in {"offer", "compact"}
     /\ Len(turns) < MinTurns
     /\ Become(w, Idle)
  \/ /\ task[w].purpose = "offer"
     /\ Len(turns) >= MinTurns
     /\ Become(w, [task[w] EXCEPT !.pc = "find", !.purpose = "compact"])
  \/ /\ task[w].purpose = "compact"
     /\ Len(turns) >= MinTurns
     /\ Become(w, [task[w] EXCEPT !.pc = "summarise", !.turns = turns])

(* Mutant of Find: a session that is too old is used once more. *)
FindStale(w) ==
  /\ At(w, "find")
  /\ Found(w, Context)
  /\ UNCHANGED <<session, memory, stored, drawn, now, restarts, begun, before, held>>

Find(w) ==
  /\ At(w, "find")
  /\ IF session # NoSession /\ Expired(session)
       THEN Goto(w, "drop")
       ELSE Found(w, Context)
  /\ UNCHANGED <<session, memory, stored, drawn, now, restarts, begun, before, held>>

Drop(w) ==
  /\ At(w, "drop")
  /\ session' = NoSession
  /\ Found(w, <<>>)
  /\ UNCHANGED <<memory, stored, drawn, now, restarts, begun, before, held>>

-----------------------------------------------------------------------------
(* The reply job: find_memory_text, CodexReplyClient::generate_reply, then  *)
(* deliver_reply.                                                           *)

Know(w) ==
  /\ At(w, "know")
  /\ Become(w, [task[w] EXCEPT !.pc = "generate", !.facts = memory])
  /\ UNCHANGED <<session, memory, stored, drawn, now, restarts, begun, before, held>>

Generate(w) ==
  /\ At(w, "generate")
  /\ Become(w, [task[w] EXCEPT !.pc = "save", !.turns = Extend(@, task[w].msg)])
  /\ drawn' = [drawn EXCEPT ![task[w].msg] = Said(Told(task[w].turns)) \cup task[w].facts]
  /\ UNCHANGED <<session, memory, stored, now, restarts, begun, before, held>>

Save(w) ==
  /\ At(w, "save")
  /\ stored' = [stored EXCEPT ![task[w].msg] = task[w].turns]
  /\ Goto(w, "send")
  /\ UNCHANGED <<session, memory, drawn, now, restarts, begun, before, held>>

Send(w) ==
  /\ At(w, "send") \/ At(w, "resend")
  /\ Become(w, [task[w] EXCEPT !.pc = "persist"])
  /\ UNCHANGED <<session, memory, stored, drawn, now, restarts, begun, before, held>>

(* persist_conversation_state. A replay does not touch the memory, nor does *)
(* the reply to a message without text.                                     *)
Persist(w) ==
  /\ At(w, "persist")
  /\ Persisted(task[w].turns)
  /\ \/ task[w].purpose = "reply" /\ Goto(w, "recall")
     \/ Goto(w, "mark")
  /\ UNCHANGED <<memory, stored, drawn, now, restarts, begun, before, held>>

(* refresh_memory: read, merge, write if it changed. What Codex merges with *)
(* the memory is the message and the text of its reply. It is best effort,  *)
(* so each of the three may also lead straight to mark.                     *)
Recall(w) ==
  /\ At(w, "recall")
  /\ Become(w, [task[w] EXCEPT !.pc = "merge", !.facts = memory])
  /\ UNCHANGED <<session, memory, stored, drawn, now, restarts, begun, before, held>>

Merge(w) ==
  /\ At(w, "merge")
  /\ \E merged \in SUBSET (task[w].facts \cup Said({task[w].msg})) :
       Become(w, IF merged = task[w].facts
                   THEN [task[w] EXCEPT !.pc = "mark"]
                   ELSE [task[w] EXCEPT !.pc = "remember", !.facts = merged])
  /\ UNCHANGED <<session, memory, stored, drawn, now, restarts, begun, before, held>>

(* An empty text deletes the row. *)
Remember(w) ==
  /\ At(w, "remember")
  /\ memory' = task[w].facts
  /\ Goto(w, "mark")
  /\ UNCHANGED <<session, stored, drawn, now, restarts, begun, before, held>>

GiveMemoryUp(w) ==
  /\ MayFail
  /\ task[w].pc \in MemoryPc
  /\ Goto(w, "mark")
  /\ UNCHANGED <<session, memory, stored, drawn, now, restarts, begun, before, held>>

(* The row is marked as sent: it will not be replayed. *)
Mark(w) ==
  /\ At(w, "mark")
  /\ stored' = [stored EXCEPT ![task[w].msg] = NoReply]
  /\ Become(w, Idle)
  /\ UNCHANGED <<session, memory, drawn, now, restarts, begun, before, held>>

-----------------------------------------------------------------------------
(* The compaction job: SessionService::compact. *)

Summarise(w) ==
  /\ At(w, "summarise")
  /\ Become(w, [task[w] EXCEPT !.pc = "persistSummary", !.turns = Summary(@)])
  /\ UNCHANGED <<session, memory, stored, drawn, now, restarts, begun, before, held>>

PersistSummary(w) ==
  /\ At(w, "persistSummary")
  /\ Persisted(task[w].turns)
  /\ Become(w, Idle)
  /\ UNCHANGED <<memory, stored, drawn, now, restarts, begun, before, held>>

-----------------------------------------------------------------------------

(* The task ends where it is: a call fails, or the process stops. *)
Fail(w) ==
  /\ MayFail
  /\ ~At(w, "idle")
  /\ Become(w, Idle)
  /\ UNCHANGED <<session, memory, stored, drawn, now, restarts, begun, before, held>>

Tick ==
  /\ now < MaxTime
  /\ now' = now + 1
  /\ UNCHANGED <<session, memory, stored, drawn, task, restarts, begun, before, held>>

Start(w) == Say(w) \/ Replay(w) \/ Restart(w) \/ Forget(w) \/ Ask(w)

Lookup(w) == Find(w) \/ Drop(w)

Deliver(w) == Know(w) \/ Generate(w) \/ Save(w) \/ Send(w) \/ Persist(w) \/ Mark(w)

Refresh(w) == Recall(w) \/ Merge(w) \/ Remember(w) \/ GiveMemoryUp(w)

Compaction(w) == Summarise(w) \/ PersistSummary(w)

Next ==
  \/ \E w \in Workers :
       Start(w) \/ Lookup(w) \/ Deliver(w) \/ Refresh(w) \/ Compaction(w) \/ Fail(w)
  \/ Tick

Spec == Init /\ [][Next]_vars

-----------------------------------------------------------------------------
(* Properties. *)

(* Every variable has its type; no transcript, stored, held by a task or in *)
(* the session, outgrows the window.                                        *)
TypeOK ==
  /\ session \in Session \cup {NoSession}
  /\ memory \subseteq Messages
  /\ stored \in [Messages -> Transcripts \cup {NoReply}]
  /\ drawn \in [Messages -> SUBSET Messages]
  /\ task \in [Workers -> Task]
  /\ now \in Nat \ {0}
  /\ restarts \in {0, 1}
  /\ begun \subseteq Messages
  /\ before \in [new : SUBSET Messages, forget : SUBSET Messages]
  /\ held \in [new : SUBSET Messages, forget : SUBSET Messages]
  /\ Len(Context) <= MaxTurns
  /\ \A w \in Workers : Len(task[w].turns) <= MaxTurns
  /\ \A m \in Messages : stored[m] # NoReply => Len(stored[m]) <= MaxTurns

(* With one task at a time and no failure, the session is what the bot      *)
(* promises: the lookup, the window, the expiry, the compaction and the     *)
(* writes that are far apart from their reads lose and invent nothing.      *)
Promise == INSTANCE Conversation WITH
  context <- Context,
  touched <- IF session = NoSession THEN 0 ELSE session.at,
  busy    <- \E w \in Workers : task[w].pc \in WritingPc

ImplementsConversation == Promise!Spec

(* After /new, no exchange from before comes back into the session, unless  *)
(* a task that was not done, or a reply that was stored but never marked as *)
(* sent, had it in hand at that time. (What a later reply says out of the   *)
(* memory, which /new does not touch, is another matter.)                   *)
RestartHolds == Told(Context) \cap before.new \subseteq held.new

(* The same for /forget and the memory: what the user said before comes     *)
(* back only out of what was in hand at that time: the session, which       *)
(* /forget does not touch and which Codex writes later replies from, the    *)
(* tasks that were not done, and the stored replies; with all that those    *)
(* texts drew on. With none of these the old memory is gone for good.       *)
ForgetHolds == memory \cap before.forget \subseteq held.forget

-----------------------------------------------------------------------------
(* What the documents and comments say, and the code does not do. *)

(* session_service.rs: compact "replaces the transcript with a single       *)
(* compacted baseline turn": the baseline stands for the transcript that it *)
(* replaces.                                                                *)
CompactReplacesTranscript ==
  [][\A w \in Workers : At(w, "persistSummary") /\ At(w, "idle")' /\ session' # session =>
       Told(Context) \subseteq Told(task[w].turns)]_vars
=============================================================================
