--------------------------- MODULE MediaGroupBuffer ---------------------------
(***************************************************************************)
(* Albums.  Telegram delivers the photos of an album as separate updates;   *)
(* the webhook buffers each one in SQLite (MediaGroupBufferRepository::     *)
(* enqueue), pushes the album's deadline back and starts a timer; a timer   *)
(* whose deadline is still the album's takes the buffered photos out        *)
(* (flush) and hands them over as one message.                              *)
(*                                                                          *)
(* A worker is the webhook task of one photo, up to the moment it starts    *)
(* its timer, and the timer's task from then on.  Neither enqueue nor flush *)
(* is a transaction: each SQL statement is a step.                          *)
(*                                                                          *)
(* The sleep of a timer may end at any time.  It measures another clock     *)
(* than the deadline, and flush itself copes with a timer that is early.    *)
(***************************************************************************)
EXTENDS Integers

CONSTANTS
  Workers,
  Photos,     \* album photos, each one an update
  Keys,       \* chat_id:media_group_id
  KeyOf,      \* build_key, for each photo
  NoPhoto,
  NoDeadline, \* no row in media_group_buffers
  Wait,       \* media_group_wait_ms
  MaxTime,    \* bound: the last instant of a behaviour
  Faults      \* what may go wrong: "enqueue", "flush", "crash"

ASSUME BufferAssumption ==
  /\ NoPhoto \notin Photos
  /\ KeyOf \in [Photos -> Keys]
  /\ NoDeadline \notin Nat
  /\ Wait \in Nat
  /\ MaxTime \in Nat
  /\ Faults \subseteq {"enqueue", "flush", "crash"}

VARIABLES
  buffers,  \* media_group_buffers: the deadline of each album, or NoDeadline
  queued,   \* media_group_messages
  task,
  now,
  acked,    \* photos whose delivery was answered with 200
  retry,    \* photos whose last delivery was answered with an error
  handed,   \* photos that were handed over as part of an album
  abandoned \* history: albums a flush failed on, or a restart found, since their
            \* deadline was last written

vars == <<buffers, queued, task, now, acked, retry, handed, abandoned>>

EnqueuePc == {"upsert", "insert", "schedule"}
TakingPc == {"select", "delete", "drop"}
Pc == {"idle", "sleep", "read", "handoff"} \cup EnqueuePc \cup TakingPc

Task == [pc : Pc, photo : Photos \cup {NoPhoto}, deadline : Nat, batch : SUBSET Photos]

Idle == [pc |-> "idle", photo |-> NoPhoto, deadline |-> 0, batch |-> {}]

Init ==
  /\ buffers = [k \in Keys |-> NoDeadline]
  /\ queued = {}
  /\ task = [w \in Workers |-> Idle]
  /\ now = 0
  /\ acked = {}
  /\ retry = {}
  /\ handed = {}
  /\ abandoned = {}

-----------------------------------------------------------------------------

At(w, pc) == task[w].pc = pc

Key(w) == KeyOf[task[w].photo]

Buffered(k) == {p \in queued : KeyOf[p] = k}

Become(w, t) == task' = [task EXCEPT ![w] = t]

Goto(w, pc) == Become(w, [task[w] EXCEPT !.pc = pc])

-----------------------------------------------------------------------------
(* enqueue, and the schedule_media_group_flush that follows it. *)

(* Mutant of Arrive: the deadline lies in the past. *)
ArriveLate(w) ==
  /\ At(w, "idle")
  /\ now + Wait <= MaxTime
  /\ \E p \in Photos \ acked :
       /\ Become(w, [Idle EXCEPT !.pc = "upsert", !.photo = p, !.deadline = now - Wait])
       /\ retry' = retry \ {p}
  /\ UNCHANGED <<buffers, queued, now, acked, handed, abandoned>>

(* The webhook receives a photo that Telegram does not know to be received; *)
(* the deadline is computed before anything is written. (Bound: deadlines   *)
(* do not lie beyond MaxTime, so that every timer can come due.)            *)
Arrive(w) ==
  /\ At(w, "idle")
  /\ now + Wait <= MaxTime
  /\ \E p \in Photos \ acked :
       /\ Become(w, [Idle EXCEPT !.pc = "upsert", !.photo = p, !.deadline = now + Wait])
       /\ retry' = retry \ {p}
  /\ UNCHANGED <<buffers, queued, now, acked, handed, abandoned>>

UpsertBuffer(w) ==
  /\ At(w, "upsert")
  /\ buffers' = [buffers EXCEPT ![Key(w)] = task[w].deadline]
  /\ abandoned' = abandoned \ {Key(w)}
  /\ Goto(w, "insert")
  /\ UNCHANGED <<queued, now, acked, retry, handed>>

InsertMessage(w) ==
  /\ At(w, "insert")
  /\ buffers[Key(w)] # NoDeadline
  /\ queued' = queued \cup {task[w].photo}
  /\ Goto(w, "schedule")
  /\ UNCHANGED <<buffers, now, acked, retry, handed, abandoned>>

(* The foreign key: the album was flushed since its deadline was written.   *)
(* The webhook answers 500 and Telegram will send the photo again.          *)
InsertRefused(w) ==
  /\ At(w, "insert")
  /\ buffers[Key(w)] = NoDeadline
  /\ retry' = retry \cup {task[w].photo}
  /\ Become(w, Idle)
  /\ UNCHANGED <<buffers, queued, now, acked, handed, abandoned>>

(* Mutant of Schedule: the timer expects a deadline computed anew. *)
ScheduleAnew(w) ==
  /\ At(w, "schedule")
  /\ Become(w, [task[w] EXCEPT !.pc = "sleep", !.deadline = now + Wait])
  /\ acked' \in {acked, acked \cup {task[w].photo}}
  /\ UNCHANGED <<buffers, queued, now, retry, handed, abandoned>>

(* The timer is started and the webhook answers 200, which may be lost. *)
Schedule(w) ==
  /\ At(w, "schedule")
  /\ Goto(w, "sleep")
  /\ acked' \in {acked, acked \cup {task[w].photo}}
  /\ UNCHANGED <<buffers, queued, now, retry, handed, abandoned>>

-----------------------------------------------------------------------------
(* flush_media_group. *)

Wake(w) ==
  /\ At(w, "sleep")
  /\ Goto(w, "read")
  /\ UNCHANGED <<buffers, queued, now, acked, retry, handed, abandoned>>

(* Mutant of Read: a timer that is early is taken for a stale one. *)
ReadGivesUp(w) ==
  LET deadline == buffers[Key(w)] IN
  /\ At(w, "read")
  /\ IF deadline # NoDeadline /\ deadline = task[w].deadline /\ deadline <= now
       THEN Goto(w, "select")
       ELSE Become(w, Idle)
  /\ UNCHANGED <<buffers, queued, now, acked, retry, handed, abandoned>>

(* Missing and Stale end the timer; Pending lets it sleep again. *)
Read(w) ==
  LET deadline == buffers[Key(w)] IN
  /\ At(w, "read")
  /\ \/ /\ deadline = NoDeadline \/ deadline # task[w].deadline
        /\ Become(w, Idle)
     \/ /\ deadline # NoDeadline
        /\ deadline = task[w].deadline
        /\ Goto(w, IF deadline > now THEN "sleep" ELSE "select")
  /\ UNCHANGED <<buffers, queued, now, acked, retry, handed, abandoned>>

Select(w) ==
  /\ At(w, "select")
  /\ Become(w, [task[w] EXCEPT !.pc = "delete", !.batch = Buffered(Key(w))])
  /\ UNCHANGED <<buffers, queued, now, acked, retry, handed, abandoned>>

(* Everything that is buffered by now, not only what was selected. *)
DeleteMessages(w) ==
  /\ At(w, "delete")
  /\ queued' = queued \ Buffered(Key(w))
  /\ Goto(w, "drop")
  /\ UNCHANGED <<buffers, now, acked, retry, handed, abandoned>>

(* Mutant of DropBuffer: the messages inserted meanwhile are left behind. *)
DropRowOnly(w) ==
  /\ At(w, "drop")
  /\ buffers' = [buffers EXCEPT ![Key(w)] = NoDeadline]
  /\ IF task[w].batch = {} THEN Become(w, Idle) ELSE Goto(w, "handoff")
  /\ UNCHANGED <<queued, now, acked, retry, handed, abandoned>>

(* "on delete cascade" takes the messages that were inserted meanwhile. *)
DropBuffer(w) ==
  /\ At(w, "drop")
  /\ buffers' = [buffers EXCEPT ![Key(w)] = NoDeadline]
  /\ queued' = queued \ Buffered(Key(w))
  /\ IF task[w].batch = {} THEN Become(w, Idle) ELSE Goto(w, "handoff")
  /\ UNCHANGED <<now, acked, retry, handed, abandoned>>

(* The photos are merged, and process() takes the album: UpdatePipeline. *)
Handoff(w) ==
  /\ At(w, "handoff")
  /\ handed' = handed \cup task[w].batch
  /\ Become(w, Idle)
  /\ UNCHANGED <<buffers, queued, now, acked, retry, abandoned>>

-----------------------------------------------------------------------------
(* The environment. *)

EnqueueFails(w) ==
  /\ "enqueue" \in Faults
  /\ task[w].pc \in {"upsert", "insert"}
  /\ retry' = retry \cup {task[w].photo}
  /\ Become(w, Idle)
  /\ UNCHANGED <<buffers, queued, now, acked, handed, abandoned>>

(* A statement of flush fails: the error is logged and the timer is gone. *)
FlushFails(w) ==
  /\ "flush" \in Faults
  /\ task[w].pc \in {"read"} \cup TakingPc
  /\ abandoned' = abandoned \cup {Key(w)}
  /\ Become(w, Idle)
  /\ UNCHANGED <<buffers, queued, now, acked, retry, handed>>

Tick ==
  /\ now < MaxTime
  /\ now' = now + 1
  /\ UNCHANGED <<buffers, queued, task, acked, retry, handed, abandoned>>

(* The tables are persistent, the timers are not; a delivery that was under *)
(* way gets no answer.                                                      *)
Crash ==
  /\ "crash" \in Faults
  /\ retry' = retry \cup {task[w].photo : w \in {v \in Workers : task[v].pc \in EnqueuePc}}
  /\ task' = [w \in Workers |-> Idle]
  /\ abandoned' = Keys
  /\ UNCHANGED <<buffers, queued, now, acked, handed>>

Enqueue(w) == UpsertBuffer(w) \/ InsertMessage(w) \/ InsertRefused(w) \/ Schedule(w)

Flush(w) == Wake(w) \/ Read(w) \/ Select(w) \/ DeleteMessages(w) \/ DropBuffer(w) \/ Handoff(w)

Next ==
  \/ \E w \in Workers : Arrive(w) \/ Enqueue(w) \/ Flush(w) \/ EnqueueFails(w) \/ FlushFails(w)
  \/ Tick
  \/ Crash

Spec == Init /\ [][Next]_vars

(* Tasks that can go on do, and time passes; arrivals are not forced. *)
FairSpec ==
  /\ Spec
  /\ WF_vars(Tick)
  /\ \A w \in Workers : WF_vars(Enqueue(w)) /\ WF_vars(Flush(w))

-----------------------------------------------------------------------------
(* Properties. *)

(* Every variable has its type, and a task that is not idle has a photo. *)
TypeOK ==
  /\ buffers \in [Keys -> Nat \cup {NoDeadline}]
  /\ queued \subseteq Photos
  /\ task \in [Workers -> Task]
  /\ \A w \in Workers : task[w].pc # "idle" => task[w].photo \in Photos
  /\ now \in Nat
  /\ acked \subseteq Photos
  /\ retry \subseteq Photos
  /\ handed \subseteq Photos
  /\ abandoned \subseteq Keys

(* Worker w will flush album k, or push its deadline back and start a timer *)
(* for the new one.                                                         *)
Attends(w, k) ==
  /\ task[w].pc # "idle"
  /\ Key(w) = k
  /\ \/ task[w].pc \in {"upsert"} \cup TakingPc
     \/ task[w].pc \in {"insert", "schedule", "sleep", "read"} /\ task[w].deadline = buffers[k]

(* A photo is in the buffer only while its album has a deadline, so that    *)
(* the album's timers can find it: no order of the statements of enqueue    *)
(* and flush, and no failure or crash between two of them, leaves a photo   *)
(* behind without the row that its timers look for.                         *)
NoOrphanPhotos == \A p \in queued : buffers[KeyOf[p]] # NoDeadline

(* Every buffered album has a task that will flush it, or a photo that      *)
(* Telegram will send again: the stale timers may end because the one that  *)
(* matches the deadline is still there, in every order in which enqueues,   *)
(* timers and flushes overlap and whichever enqueue fails half-way. An      *)
(* album is left to itself only by a failing flush or a restart, and only   *)
(* until its next photo writes a new deadline.                              *)
AlbumAttended ==
  \A k \in Keys : buffers[k] # NoDeadline =>
    \/ \E w \in Workers : Attends(w, k)
    \/ \E p \in retry : KeyOf[p] = k
    \/ k \in abandoned

(* A photo that is buffered does not stay in the buffer for ever, unless a  *)
(* flush of its album fails, the process is restarted, or Telegram still    *)
(* owes the album a photo whose delivery has failed (and which will write a *)
(* new deadline when it comes).                                             *)
AlbumFlushed ==
  \A p \in Photos :
    p \in queued ~> \/ p \notin queued
                    \/ KeyOf[p] \in abandoned
                    \/ \E q \in retry : KeyOf[q] = KeyOf[p]

-----------------------------------------------------------------------------
(* What a comment of the code says, and the code does not do. *)

(* inbound_message_processor.rs: "Albums arrive as separate updates, so     *)
(* they are buffered until the group is complete": a photo whose delivery   *)
(* was acknowledged is buffered, or taken out by a flush, or handed over.   *)
NoPhotoLost ==
  \A p \in acked :
    p \in queued \cup handed \/ \E w \in Workers : p \in task[w].batch
=============================================================================
