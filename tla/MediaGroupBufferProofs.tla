------------------------ MODULE MediaGroupBufferProofs ------------------------
(***************************************************************************)
(* Theorems about MediaGroupBuffer, for any set of tasks, photos and        *)
(* albums.                                                                  *)
(***************************************************************************)
EXTENDS MediaGroupBuffer, TLAPS

(* What is known of one task's state. *)
GoodTask(t) ==
  /\ t \in Task
  /\ t.pc # "idle" => t.photo \in Photos

(* The part of TypeOK that is not about tasks. *)
GoodData ==
  /\ buffers \in [Keys -> Nat \cup {NoDeadline}]
  /\ queued \subseteq Photos
  /\ now \in Nat
  /\ acked \subseteq Photos
  /\ retry \subseteq Photos
  /\ handed \subseteq Photos
  /\ abandoned \subseteq Keys

GoodTasks ==
  /\ DOMAIN task = Workers
  /\ task = [w \in Workers |-> task[w]]
  /\ \A w \in Workers : GoodTask(task[w])

-----------------------------------------------------------------------------
(* Type correctness. *)

LEMMA TypeSplit == TypeOK <=> GoodData /\ GoodTasks
<1>1. TypeOK => GoodData /\ GoodTasks
  BY DEF TypeOK, GoodData, GoodTasks, GoodTask
<1>2. GoodTasks => task \in [Workers -> Task]
  BY DEF GoodTasks, GoodTask
<1> QED
  BY <1>1, <1>2 DEF TypeOK, GoodData, GoodTasks, GoodTask

LEMMA TypeSplitNext == TypeOK' <=> GoodData' /\ GoodTasks'
  BY TypeSplit, PTL

LEMMA IdleIsGood == GoodTask(Idle)
  BY BufferAssumption DEF GoodTask, Task, Idle, Pc

(* A step of one task keeps the types of all of them. *)
LEMMA BecomeGood ==
  ASSUME TypeOK, NEW w \in Workers, NEW t, GoodTask(t), Become(w, t)
  PROVE  GoodTasks'
  BY TypeSplit DEF GoodTasks, GoodTask, Become, Task

LEMMA GotoGood ==
  ASSUME TypeOK, NEW w \in Workers, NEW pc \in Pc, Goto(w, pc), ~At(w, "idle")
  PROVE  GoodTasks'
<1>1. PICK t : t = [task[w] EXCEPT !.pc = pc]
  OBVIOUS
<1>2. GoodTask(t)
  BY <1>1, TypeSplit DEF GoodTasks, GoodTask, Task, At
<1> QED
  BY <1>1, <1>2, BecomeGood DEF Goto

LEMMA InitTypes == Init => TypeOK
<1> SUFFICES ASSUME Init PROVE GoodData /\ GoodTasks
  BY TypeSplit
<1>1. GoodTasks
  BY IdleIsGood DEF Init, GoodTasks
<1>2. GoodData
  BY DEF Init, GoodData
<1> QED
  BY <1>1, <1>2

(* The key of a task that has a photo. *)
LEMMA KeyType ==
  ASSUME TypeOK, NEW w \in Workers, ~At(w, "idle")
  PROVE  Key(w) \in Keys /\ task[w].photo \in Photos /\ task[w].deadline \in Nat
  BY BufferAssumption DEF TypeOK, Key, At, Task

LEMMA NextTypes == TypeOK /\ [Next]_vars => TypeOK'
<1> SUFFICES ASSUME TypeOK, [Next]_vars PROVE TypeOK'
  OBVIOUS
<1> USE DEF EnqueuePc, TakingPc
<1>1. ASSUME NEW w \in Workers, Arrive(w) PROVE TypeOK'
  <2>1. PICK p \in Photos \ acked :
          /\ Become(w, [Idle EXCEPT !.pc = "upsert", !.photo = p, !.deadline = now + Wait])
          /\ retry' = retry \ {p}
    BY <1>1 DEF Arrive
  <2>2. PICK t : t = [Idle EXCEPT !.pc = "upsert", !.photo = p, !.deadline = now + Wait]
    OBVIOUS
  <2> HIDE DEF EnqueuePc, TakingPc
  <2>3. now + Wait \in Nat /\ p \in Photos /\ "upsert" \in Pc
    BY BufferAssumption DEF TypeOK, Pc, EnqueuePc
  <2>4. GoodTask(t)
    BY <2>2, <2>3 DEF GoodTask, Idle, Task
  <2>5. GoodTasks'
    BY <2>1, <2>2, <2>4, BecomeGood
  <2> QED
    BY <1>1, <2>1, <2>5, TypeSplitNext DEF Arrive, GoodData, TypeOK
<1>2. ASSUME NEW w \in Workers, UpsertBuffer(w) PROVE TypeOK'
  <2>1. GoodTasks'
    BY <1>2, GotoGood DEF UpsertBuffer, At, Pc
  <2> QED
    BY <1>2, <2>1, KeyType, TypeSplitNext DEF UpsertBuffer, GoodData, TypeOK, At
<1>3. ASSUME NEW w \in Workers, InsertMessage(w) PROVE TypeOK'
  <2>1. GoodTasks'
    BY <1>3, GotoGood DEF InsertMessage, At, Pc
  <2> QED
    BY <1>3, <2>1, KeyType, TypeSplitNext DEF InsertMessage, GoodData, TypeOK, At
<1>4. ASSUME NEW w \in Workers, InsertRefused(w) \/ EnqueueFails(w) PROVE TypeOK'
  <2>1. GoodTasks'
    BY <1>4, BecomeGood, IdleIsGood DEF InsertRefused, EnqueueFails
  <2>2. task[w].photo \in Photos
    BY <1>4, KeyType DEF InsertRefused, EnqueueFails, At
  <2> QED
    BY <1>4, <2>1, <2>2, TypeSplitNext DEF InsertRefused, EnqueueFails, GoodData, TypeOK
<1>5. ASSUME NEW w \in Workers, Schedule(w) PROVE TypeOK'
  <2>1. GoodTasks'
    BY <1>5, GotoGood DEF Schedule, At, Pc
  <2> QED
    BY <1>5, <2>1, KeyType, TypeSplitNext DEF Schedule, GoodData, TypeOK, At
<1>6. ASSUME NEW w \in Workers, Wake(w) PROVE TypeOK'
  <2>1. GoodTasks'
    BY <1>6, GotoGood DEF Wake, At, Pc
  <2> QED
    BY <1>6, <2>1, TypeSplitNext DEF Wake, GoodData, TypeOK
<1>7. ASSUME NEW w \in Workers, Read(w) PROVE TypeOK'
  <2>1. Become(w, Idle) \/ Goto(w, "sleep") \/ Goto(w, "select")
    BY <1>7 DEF Read
  <2>2. GoodTasks'
    BY <1>7, <2>1, GotoGood, BecomeGood, IdleIsGood DEF Read, At, Pc
  <2> QED
    BY <1>7, <2>2, TypeSplitNext DEF Read, GoodData, TypeOK
<1>8. ASSUME NEW w \in Workers, Select(w) PROVE TypeOK'
  <2>1. PICK t : t = [task[w] EXCEPT !.pc = "delete", !.batch = Buffered(Key(w))]
    OBVIOUS
  <2>2. Buffered(Key(w)) \subseteq Photos
    BY DEF Buffered, TypeOK
  <2>3. GoodTask(t)
    BY <1>8, <2>1, <2>2 DEF Select, At, GoodTask, TypeOK, Task, Pc
  <2>4. GoodTasks'
    BY <1>8, <2>1, <2>3, BecomeGood DEF Select
  <2> QED
    BY <1>8, <2>4, TypeSplitNext DEF Select, GoodData, TypeOK
<1>9. ASSUME NEW w \in Workers, DeleteMessages(w) PROVE TypeOK'
  <2>1. GoodTasks'
    BY <1>9, GotoGood DEF DeleteMessages, At, Pc
  <2> QED
    BY <1>9, <2>1, TypeSplitNext DEF DeleteMessages, GoodData, TypeOK
<1>10. ASSUME NEW w \in Workers, DropBuffer(w) PROVE TypeOK'
  <2>1. Become(w, Idle) \/ Goto(w, "handoff")
    BY <1>10 DEF DropBuffer
  <2>2. GoodTasks'
    BY <1>10, <2>1, GotoGood, BecomeGood, IdleIsGood DEF DropBuffer, At, Pc
  <2> QED
    BY <1>10, <2>2, KeyType, TypeSplitNext DEF DropBuffer, GoodData, TypeOK, At
<1>11. ASSUME NEW w \in Workers, Handoff(w) PROVE TypeOK'
  <2>1. GoodTasks'
    BY <1>11, BecomeGood, IdleIsGood DEF Handoff
  <2>2. task[w].batch \subseteq Photos
    BY DEF TypeOK, Task
  <2> QED
    BY <1>11, <2>1, <2>2, TypeSplitNext DEF Handoff, GoodData, TypeOK
<1>12. ASSUME NEW w \in Workers, FlushFails(w) PROVE TypeOK'
  <2>1. GoodTasks'
    BY <1>12, BecomeGood, IdleIsGood DEF FlushFails
  <2> QED
    BY <1>12, <2>1, KeyType, TypeSplitNext DEF FlushFails, GoodData, TypeOK, At
<1>13. CASE Tick
  BY <1>13 DEF Tick, TypeOK
<1>14. CASE Crash
  <2>1. GoodTasks'
    BY <1>14, IdleIsGood DEF Crash, GoodTasks
  <2>2. {task[w].photo : w \in {v \in Workers : task[v].pc \in EnqueuePc}} \subseteq Photos
    BY DEF TypeOK
  <2> QED
    BY <1>14, <2>1, <2>2, TypeSplitNext DEF Crash, GoodData, TypeOK
<1>15. CASE UNCHANGED vars
  BY <1>15 DEF vars, TypeOK
<1> QED
  BY <1>1, <1>2, <1>3, <1>4, <1>5, <1>6, <1>7, <1>8, <1>9, <1>10, <1>11, <1>12, <1>13,
     <1>14, <1>15 DEF Next, Enqueue, Flush

(* A timer or a delivery always works on a photo of its own, and the two    *)
(* tables only ever name known albums and photos.                           *)
THEOREM TypeCorrect == Spec => []TypeOK
  BY InitTypes, NextTypes, PTL DEF Spec

-----------------------------------------------------------------------------
(* A photo in the buffer has its album's row. *)

LEMMA InitOrphans == Init => NoOrphanPhotos
  BY DEF Init, NoOrphanPhotos

LEMMA NextOrphans == TypeOK /\ NoOrphanPhotos /\ [Next]_vars => NoOrphanPhotos'
<1> SUFFICES ASSUME TypeOK, NoOrphanPhotos, [Next]_vars PROVE NoOrphanPhotos'
  OBVIOUS
<1>1. ASSUME NEW w \in Workers, UpsertBuffer(w) PROVE NoOrphanPhotos'
  <2>1. task[w].deadline # NoDeadline
    BY <1>1, KeyType, BufferAssumption DEF UpsertBuffer, At
  <2> QED
    BY <1>1, <2>1, BufferAssumption DEF UpsertBuffer, NoOrphanPhotos, TypeOK
<1>2. ASSUME NEW w \in Workers, InsertMessage(w) PROVE NoOrphanPhotos'
  BY <1>2 DEF InsertMessage, NoOrphanPhotos, Key
<1>3. ASSUME NEW w \in Workers, DeleteMessages(w) PROVE NoOrphanPhotos'
  BY <1>3 DEF DeleteMessages, NoOrphanPhotos
<1>4. ASSUME NEW w \in Workers, DropBuffer(w) PROVE NoOrphanPhotos'
  BY <1>4, BufferAssumption DEF DropBuffer, NoOrphanPhotos, Buffered, TypeOK
<1>5. CASE UNCHANGED <<buffers, queued>>
  BY <1>5 DEF NoOrphanPhotos
<1>6. ASSUME NEW w \in Workers,
             \/ Arrive(w) \/ InsertRefused(w) \/ Schedule(w) \/ Wake(w) \/ Read(w)
             \/ Select(w) \/ Handoff(w) \/ EnqueueFails(w) \/ FlushFails(w)
      PROVE  UNCHANGED <<buffers, queued>>
  BY <1>6 DEF Arrive, InsertRefused, Schedule, Wake, Read, Select, Handoff, EnqueueFails, FlushFails
<1>7. Tick \/ Crash \/ UNCHANGED vars => UNCHANGED <<buffers, queued>>
  BY DEF Tick, Crash, vars
<1> QED
  BY <1>1, <1>2, <1>3, <1>4, <1>5, <1>6, <1>7 DEF Next, Enqueue, Flush

(* Whatever fails, and whenever the process stops, a buffered photo belongs *)
(* to an album whose row is there: the two tables never come apart.         *)
THEOREM BufferedPhotosHaveAlbums == Spec => []NoOrphanPhotos
  BY InitTypes, NextTypes, InitOrphans, NextOrphans, PTL DEF Spec

-----------------------------------------------------------------------------
(* An album in the buffer is attended to. *)

(* The album k is attended to, or will be repeated by Telegram. *)
Attended(k) ==
  \/ \E w \in Workers : Attends(w, k)
  \/ \E p \in retry : KeyOf[p] = k
  \/ k \in abandoned

(* A step of task w, which works on album k, keeps the invariant if it      *)
(* leaves the other albums alone, and if k loses its row, is repeated, has  *)
(* w attending to it, or is none of w's business.                           *)
LEMMA AttendedStep ==
  ASSUME TypeOK, AlbumAttended, NEW w \in Workers, NEW t, Become(w, t), ~At(w, "idle"),
         NEW k, k = Key(w),
         \A j \in Keys \ {k} : buffers'[j] = buffers[j],
         retry \subseteq retry', abandoned \ {k} \subseteq abandoned',
         \/ buffers'[k] = NoDeadline
         \/ \E p \in retry' : KeyOf[p] = k
         \/ k \in abandoned'
         \/ Attends(w, k)'
         \/ ~Attends(w, k) /\ buffers'[k] = buffers[k] /\ abandoned' = abandoned
  PROVE  AlbumAttended'
<1> SUFFICES ASSUME NEW j \in Keys, buffers'[j] # NoDeadline PROVE Attended(j)'
  BY DEF AlbumAttended, Attended
<1>1. ASSUME NEW v \in Workers \ {w}, Attends(v, j), buffers'[j] = buffers[j]
      PROVE  Attends(v, j)'
  BY <1>1 DEF Attends, Become, Key, TypeOK
<1>2. CASE j # k
  <2>1. buffers'[j] = buffers[j] /\ ~Attends(w, j)
    BY <1>2 DEF Attends
  <2> QED
    BY <1>1, <2>1 DEF AlbumAttended, Attended
<1>3. CASE j = k
  <2>1. CASE \E p \in retry' : KeyOf[p] = k
    BY <1>3, <2>1 DEF Attended
  <2>2. CASE Attends(w, k)'
    BY <1>3, <2>2 DEF Attended
  <2>3. CASE ~Attends(w, k) /\ buffers'[k] = buffers[k] /\ abandoned' = abandoned
    BY <1>1, <1>3, <2>3 DEF AlbumAttended, Attended
  <2>4. CASE k \in abandoned'
    BY <1>3, <2>4 DEF Attended
  <2> QED
    BY <1>3, <2>1, <2>2, <2>3, <2>4
<1> QED
  BY <1>2, <1>3

(* The same for a step to another place of the code. *)
LEMMA AttendedGoto ==
  ASSUME TypeOK, AlbumAttended, NEW w \in Workers, NEW pc \in Pc \ {"idle", "handoff"},
         Goto(w, pc), ~At(w, "idle"), UNCHANGED <<buffers, retry, abandoned>>,
         Attends(w, Key(w)) =>
           pc \in {"upsert"} \cup TakingPc \/ task[w].deadline = buffers[Key(w)]
  PROVE  AlbumAttended'
<1>1. PICK t : t = [task[w] EXCEPT !.pc = pc]
  OBVIOUS
<1>2. PICK k : k = Key(w)
  OBVIOUS
<1>3. task[w] \in Task /\ task' = [task EXCEPT ![w] = t]
  BY <1>1 DEF Goto, Become, TypeOK
<1>4. task'[w] = t /\ t.photo = task[w].photo /\ t.deadline = task[w].deadline /\ t.pc = pc
  BY <1>1, <1>3 DEF Task, TypeOK
<1>5. pc \in {"upsert", "insert", "schedule", "sleep", "read"} \cup TakingPc
  BY DEF Pc, EnqueuePc
<1>6. CASE Attends(w, k)
  <2>1. Attends(w, k)'
    BY <1>2, <1>4, <1>5, <1>6 DEF Attends, Key
  <2> QED
    BY <1>1, <1>2, <1>3, <2>1, AttendedStep DEF Become
<1> QED
  BY <1>1, <1>2, <1>3, <1>6, AttendedStep DEF Become

LEMMA InitAttended == Init => AlbumAttended
  BY DEF Init, AlbumAttended

LEMMA NextAttended ==
  TypeOK /\ AlbumAttended /\ [Next]_vars => AlbumAttended'
<1> SUFFICES ASSUME TypeOK, AlbumAttended, [Next]_vars PROVE AlbumAttended'
  OBVIOUS
<1>1. ASSUME NEW w \in Workers, Arrive(w) PROVE AlbumAttended'
  <2>1. PICK p \in Photos \ acked :
          /\ Become(w, [Idle EXCEPT !.pc = "upsert", !.photo = p, !.deadline = now + Wait])
          /\ retry' = retry \ {p}
    BY <1>1 DEF Arrive
  <2>2. PICK t : t = [Idle EXCEPT !.pc = "upsert", !.photo = p, !.deadline = now + Wait]
    OBVIOUS
  <2>3. task' = [task EXCEPT ![w] = t] /\ t.pc = "upsert" /\ t.photo = p
    BY <2>1, <2>2 DEF Become, Idle
  <2>4. Attends(w, KeyOf[p])'
    BY <2>3 DEF Attends, Key, TypeOK
  <2>5. ASSUME NEW v \in Workers, NEW k \in Keys, Attends(v, k) PROVE Attends(v, k)'
    BY <1>1, <2>3, <2>5 DEF Attends, Key, TypeOK, Arrive, At
  <2>6. UNCHANGED <<buffers, abandoned>>
    BY <1>1 DEF Arrive
  <2> QED
    BY <2>1, <2>4, <2>5, <2>6 DEF AlbumAttended
<1>2. ASSUME NEW w \in Workers, UpsertBuffer(w) PROVE AlbumAttended'
  <2>1. PICK t : t = [task[w] EXCEPT !.pc = "insert"]
    OBVIOUS
  <2>2. PICK k : k = Key(w)
    OBVIOUS
  <2>3. task[w] \in Task /\ k \in Keys /\ Become(w, t) /\ ~At(w, "idle")
    BY <1>2, <2>1, <2>2, KeyType DEF UpsertBuffer, Goto, At, TypeOK
  <2>4. task'[w] = t /\ t.photo = task[w].photo /\ t.deadline = task[w].deadline /\ t.pc = "insert"
    BY <2>1, <2>3 DEF Task, TypeOK, Become
  <2>5. /\ buffers' = [buffers EXCEPT ![k] = task[w].deadline]
        /\ retry' = retry
        /\ abandoned' = abandoned \ {k}
    BY <1>2, <2>2 DEF UpsertBuffer
  <2>6. buffers'[k] = task[w].deadline /\ \A j \in Keys \ {k} : buffers'[j] = buffers[j]
    BY <2>3, <2>5 DEF TypeOK
  <2>7. Attends(w, k)'
    BY <2>2, <2>4, <2>6 DEF Attends, Key
  <2> QED
    BY <2>2, <2>3, <2>5, <2>6, <2>7, AttendedStep
<1>3. ASSUME NEW w \in Workers, InsertMessage(w) PROVE AlbumAttended'
  BY <1>3, AttendedGoto DEF InsertMessage, At, Attends, Pc, EnqueuePc, TakingPc
<1>4. ASSUME NEW w \in Workers, InsertRefused(w) \/ EnqueueFails(w) PROVE AlbumAttended'
  <2>1. PICK k : k = Key(w)
    OBVIOUS
  <2>2. task[w].photo \in retry' /\ KeyOf[task[w].photo] = k
    BY <1>4, <2>1 DEF InsertRefused, EnqueueFails, Key
  <2>3. ~At(w, "idle") /\ Become(w, Idle) /\ retry \subseteq retry' /\ UNCHANGED <<buffers, abandoned>>
    BY <1>4 DEF InsertRefused, EnqueueFails, At
  <2> QED
    BY <2>1, <2>2, <2>3, AttendedStep
<1>5. ASSUME NEW w \in Workers, Schedule(w) PROVE AlbumAttended'
  BY <1>5, AttendedGoto DEF Schedule, At, Attends, Pc, EnqueuePc, TakingPc
<1>6. ASSUME NEW w \in Workers, Wake(w) PROVE AlbumAttended'
  BY <1>6, AttendedGoto DEF Wake, At, Attends, Pc, EnqueuePc, TakingPc
<1>7. ASSUME NEW w \in Workers, Read(w) PROVE AlbumAttended'
  <2>1. ~At(w, "idle") /\ UNCHANGED <<buffers, retry, abandoned>>
    BY <1>7 DEF Read, At
  <2>2. CASE (buffers[Key(w)] = NoDeadline \/ buffers[Key(w)] # task[w].deadline) /\ Become(w, Idle)
    <3>1. PICK k : k = Key(w)
      OBVIOUS
    <3>2. buffers[k] = NoDeadline \/ ~Attends(w, k)
      BY <1>7, <2>2, <3>1 DEF Read, At, Attends, TakingPc
    <3> QED
      BY <2>1, <2>2, <3>1, <3>2, AttendedStep
  <2>3. CASE buffers[Key(w)] = task[w].deadline /\ (Goto(w, "sleep") \/ Goto(w, "select"))
    BY <2>1, <2>3, AttendedGoto DEF Pc, TakingPc
  <2> QED
    BY <1>7, <2>2, <2>3 DEF Read
<1>8. ASSUME NEW w \in Workers, Select(w) PROVE AlbumAttended'
  <2>1. PICK t : t = [task[w] EXCEPT !.pc = "delete", !.batch = Buffered(Key(w))]
    OBVIOUS
  <2>2. PICK k : k = Key(w)
    OBVIOUS
  <2>3. task[w] \in Task /\ Become(w, t) /\ ~At(w, "idle") /\ UNCHANGED <<buffers, retry, abandoned>>
    BY <1>8, <2>1 DEF Select, At, TypeOK
  <2>4. task'[w] = t /\ t.photo = task[w].photo /\ t.pc = "delete"
    BY <2>1, <2>3 DEF Task, TypeOK, Become
  <2>5. Attends(w, k)'
    BY <2>2, <2>4 DEF Attends, Key, TakingPc
  <2> QED
    BY <2>2, <2>3, <2>5, AttendedStep
<1>9. ASSUME NEW w \in Workers, DeleteMessages(w) PROVE AlbumAttended'
  BY <1>9, AttendedGoto DEF DeleteMessages, At, Pc, TakingPc
<1>10. ASSUME NEW w \in Workers, DropBuffer(w) PROVE AlbumAttended'
  <2>1. PICK k : k = Key(w)
    OBVIOUS
  <2>2. ~At(w, "idle") /\ k \in Keys /\ UNCHANGED <<retry, abandoned>>
    BY <1>10, <2>1, KeyType DEF DropBuffer, At
  <2>3. buffers'[k] = NoDeadline /\ \A j \in Keys \ {k} : buffers'[j] = buffers[j]
    BY <1>10, <2>1, <2>2 DEF DropBuffer, TypeOK
  <2>4. PICK t : Become(w, t)
    BY <1>10 DEF DropBuffer, Goto
  <2> QED
    BY <2>1, <2>2, <2>3, <2>4, AttendedStep
<1>11. ASSUME NEW w \in Workers, Handoff(w) PROVE AlbumAttended'
  <2>1. PICK k : k = Key(w)
    OBVIOUS
  <2>2. ~Attends(w, k) /\ ~At(w, "idle") /\ Become(w, Idle) /\ UNCHANGED <<buffers, retry, abandoned>>
    BY <1>11 DEF Handoff, Attends, At, TakingPc
  <2> QED
    BY <2>1, <2>2, AttendedStep
<1>12. ASSUME NEW w \in Workers, FlushFails(w) PROVE AlbumAttended'
  <2>1. PICK k : k = Key(w)
    OBVIOUS
  <2>2. /\ ~At(w, "idle") /\ Become(w, Idle) /\ UNCHANGED <<buffers, retry>>
        /\ abandoned' = abandoned \cup {k}
    BY <1>12, <2>1 DEF FlushFails, At, TakingPc
  <2> QED
    BY <2>1, <2>2, AttendedStep
<1>13. CASE Tick
  BY <1>13 DEF Tick, AlbumAttended, Attends, Key
<1>14. CASE Crash
  BY <1>14 DEF Crash, AlbumAttended
<1>15. CASE UNCHANGED vars
  BY <1>15 DEF vars, AlbumAttended, Attends, Key
<1> QED
  BY <1>1, <1>2, <1>3, <1>4, <1>5, <1>6, <1>7, <1>8, <1>9, <1>10, <1>11, <1>12, <1>13,
     <1>14, <1>15 DEF Next, Enqueue, Flush

(* Every buffered album has a task that will flush it or a photo that       *)
(* Telegram will repeat, however deliveries, timers and flushes of one      *)
(* album overlap and whichever statements of enqueue fail; only a flush     *)
(* that fails, or a restart, leaves an album without, until the next photo. *)
THEOREM AlbumsAreAttended == Spec => []AlbumAttended
  BY InitTypes, NextTypes, InitAttended, NextAttended, PTL DEF Spec
=============================================================================
