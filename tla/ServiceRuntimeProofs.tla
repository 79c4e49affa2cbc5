------------------------- MODULE ServiceRuntimeProofs -------------------------
(***************************************************************************)
(* Theorems about ServiceRuntime, for any number of requests, tasks, images *)
(* and slots, with every fault allowed.                                     *)
(***************************************************************************)
EXTENDS ServiceRuntime, FiniteSetTheorems, TLAPS

(* A task's state: only a reply job types and holds files, only an exec has *)
(* a child, which has succeeded only with all or nothing written.           *)
SoundTask(s) ==
  /\ s \in Task
  /\ s.child = "succeeded" => s.output # "half"
  /\ s.reply # "half"
  /\ s.child # "none" => s.pc \in {"feed", "wait"}
  /\ s.typing => s.pc \in GeneratingPc /\ s.kind = "reply"
  /\ s.pc \in {"typing", "download", "lookup", "cleanup"} => s.kind = "reply"

SoundTasks == task \in [Tasks -> Task] /\ \A t \in Tasks : SoundTask(task[t])

(* What has been spawned and not yet tracked is known to its spawner, which *)
(* has at most one such task.                                               *)
SpawnedKnown ==
  /\ \A r \in Requests : IF request[r] = "track" THEN spawned[r] \in Tasks ELSE spawned[r] = NoTask
  /\ \A t \in Tasks : IF At(t, "track") THEN spawned[t] \in Tasks ELSE spawned[t] = NoTask

RuntimeInv == TypeOK /\ SoundTasks /\ SpawnedKnown

-----------------------------------------------------------------------------
(* The states a task can become. *)

NewPc == {"unborn", "handle", "track", "typing"}

LEMMA EndedIsSound == SoundTask(Ended) /\ Ended.pc = "done" /\ SoundTask(Unborn)
  BY DEF Ended, Unborn, SoundTask, Task, Kind, Pc, GeneratingPc, ExecPc, Child, Output

LEMMA WithPc ==
  ASSUME NEW s \in Task, NEW pc \in Pc
  PROVE  \E n \in Task :
           /\ n = [s EXCEPT !.pc = pc]
           /\ n.pc = pc
           /\ n.kind = s.kind /\ n.child = s.child /\ n.output = s.output
           /\ n.reply = s.reply /\ n.typing = s.typing
<1> DEFINE n == [s EXCEPT !.pc = pc]
<1>1. n \in Task
  BY DEF Task
<1>2. n.pc = pc /\ n.kind = s.kind /\ n.child = s.child /\ n.output = s.output
        /\ n.reply = s.reply /\ n.typing = s.typing
  BY DEF Task
<1> QED
  BY <1>1, <1>2

(* A task's step that neither spawns nor tracks. *)
OwnStep(t) ==
  \/ FlushEnds(t) \/ Cancel(t) \/ Work(t)
  \/ StartTyping(t) \/ Deliver(t) \/ Feed(t) \/ ChildWorks(t)

Becomes(t) == \E s : Become(t, s) /\ SoundTask(s) /\ s.pc \notin NewPc

LEMMA GoesSoundly ==
  ASSUME SoundTasks, NEW t \in Tasks, NEW pc \in Pc \ NewPc, Goes(t, pc),
         task[t].child # "none" => pc \in {"feed", "wait"},
         task[t].typing => pc \in GeneratingPc,
         pc \in {"download", "lookup", "cleanup"} => task[t].kind = "reply"
  PROVE  Becomes(t)
<1>1. task[t] \in Task /\ SoundTask(task[t])
  BY DEF SoundTasks
<1>2. PICK n \in Task :
           /\ n = [task[t] EXCEPT !.pc = pc]
           /\ n.pc = pc
           /\ n.kind = task[t].kind /\ n.child = task[t].child /\ n.output = task[t].output
           /\ n.reply = task[t].reply /\ n.typing = task[t].typing
  BY <1>1, WithPc
<1>3. SoundTask(n)
  BY <1>1, <1>2 DEF SoundTask, NewPc
<1>4. Become(t, n)
  BY <1>2 DEF Goes, Moves
<1> QED
  BY <1>2, <1>3, <1>4 DEF Becomes

LEMMA EndsSoundly ==
  ASSUME NEW t \in Tasks, Become(t, Ended)
  PROVE  Becomes(t)
  BY EndedIsSound DEF Becomes, NewPc

LEMMA FinishesSoundly ==
  ASSUME SoundTasks, NEW t \in Tasks, NEW reply \in Output, reply # "half",
         task[t].pc \in ExecPc, Finished(t, reply)
  PROVE  Becomes(t)
<1>1. task[t] \in Task /\ SoundTask(task[t])
  BY DEF SoundTasks
<1>2. PICK over : over = [task[t] EXCEPT !.child = "none", !.output = "none", !.reply = reply]
  OBVIOUS
<1>3. /\ over \in Task /\ over.child = "none" /\ over.output = "none" /\ over.reply = reply
      /\ over.pc = task[t].pc /\ over.kind = task[t].kind /\ over.typing = task[t].typing
  BY <1>1, <1>2 DEF Task, Child, Output
<1>4. CASE task[t].kind = "reply"
  <2>1. PICK n \in Task :
             /\ n = [over EXCEPT !.pc = "cleanup"]
             /\ n.pc = "cleanup"
             /\ n.kind = over.kind /\ n.child = over.child /\ n.output = over.output
             /\ n.reply = over.reply /\ n.typing = over.typing
    BY <1>3, WithPc DEF Pc, GeneratingPc
  <2>2. SoundTask(n)
    BY <1>3, <1>4, <2>1 DEF SoundTask, GeneratingPc
  <2>3. Become(t, n)
    BY <1>2, <1>4, <2>1 DEF Finished, Moves
  <2> QED
    BY <2>1, <2>2, <2>3 DEF Becomes, NewPc
<1>5. CASE task[t].kind = "compact" /\ reply # "none"
  <2>1. PICK n \in Task :
             /\ n = [over EXCEPT !.pc = "deliver"]
             /\ n.pc = "deliver"
             /\ n.kind = over.kind /\ n.child = over.child /\ n.output = over.output
             /\ n.reply = over.reply /\ n.typing = over.typing
    BY <1>3, WithPc DEF Pc, GeneratingPc
  <2>2. ~n.typing
    BY <1>1, <1>3, <1>5, <2>1 DEF SoundTask
  <2>3. SoundTask(n)
    BY <1>3, <1>5, <2>1, <2>2 DEF SoundTask, GeneratingPc
  <2>4. Become(t, n)
    BY <1>2, <1>5, <2>1 DEF Finished, Moves
  <2> QED
    BY <2>1, <2>3, <2>4 DEF Becomes, NewPc
<1>6. CASE task[t].kind # "reply" /\ ~(task[t].kind = "compact" /\ reply # "none")
  BY <1>6, EndsSoundly DEF Finished, Moves
<1> QED
  BY <1>4, <1>5, <1>6

LEMMA OwnSteps ==
  ASSUME SoundTasks, NEW t \in Tasks, OwnStep(t)
  PROVE  Becomes(t) /\ Running(t) /\ UNCHANGED <<phase, request, spawned, tracked, aborted, unbound>>
<1> DEFINE Same == UNCHANGED <<phase, request, spawned, tracked, aborted, unbound>>
<1> USE DEF Running, Awaits, At, Same
<1>1. task[t] \in Task /\ SoundTask(task[t])
  BY DEF SoundTasks
<1>2. Running(t)
  <2>1. task[t].child = "running" => task[t].pc \in {"feed", "wait"}
    BY <1>1 DEF SoundTask
  <2> QED
    BY <2>1 DEF OwnStep, FlushEnds, Cancel, Work, StartTyping, Deliver, Feed, ChildWorks, Downloaded,
                LookUp, LookUpFails, SpawnChild, Collect, Timeout, Remove, CleanedUp
<1>3. Same
  BY DEF OwnStep, FlushEnds, Cancel, Work, StartTyping, Deliver, Feed, ChildWorks, Downloaded, Stays,
         LookUp, LookUpFails, SpawnChild, Collect, Timeout, Remove, CleanedUp, Goes, Moves, Finished
<1>4. CASE FlushEnds(t)
  BY <1>4, EndsSoundly DEF FlushEnds, Moves
<1>5. CASE Cancel(t)
  BY <1>5, EndsSoundly DEF Cancel
<1>6. CASE StartTyping(t)
  <2>1. PICK n : n = [task[t] EXCEPT !.pc = "download", !.typing = TRUE]
    OBVIOUS
  <2>2. task[t].pc = "typing" /\ Become(t, n)
    BY <1>6, <2>1 DEF StartTyping
  <2>3. /\ n \in Task /\ n.pc = "download" /\ n.kind = task[t].kind /\ n.child = task[t].child
        /\ n.output = task[t].output /\ n.reply = task[t].reply
    BY <1>1, <2>1 DEF Task, Pc, GeneratingPc
  <2>4. SoundTask(n)
    BY <1>1, <2>2, <2>3 DEF SoundTask, GeneratingPc
  <2> QED
    BY <1>2, <1>3, <2>2, <2>3, <2>4 DEF Becomes, NewPc
<1>7. CASE Deliver(t)
  <2>1. PICK n : n = [Unborn EXCEPT !.kind = "memory", !.pc = "start"]
    OBVIOUS
  <2>2. SoundTask(n) /\ n.pc = "start"
    BY <2>1 DEF SoundTask, Unborn, Task, Kind, Pc, GeneratingPc, ExecPc, Child, Output
  <2> QED
    BY <1>2, <1>3, <1>7, <2>1, <2>2, EndsSoundly DEF Deliver, Moves, Becomes, NewPc
<1>8. CASE Feed(t)
  <2>1. task[t].pc = "feed" /\ (Goes(t, "wait") \/ Finished(t, "none"))
    BY <1>8 DEF Feed
  <2>2. CASE Goes(t, "wait")
    BY <1>2, <1>3, <2>1, <2>2, GoesSoundly DEF Pc, GeneratingPc, ExecPc, NewPc
  <2>3. CASE Finished(t, "none")
    BY <1>2, <1>3, <2>1, <2>3, FinishesSoundly DEF ExecPc, Output
  <2> QED
    BY <2>1, <2>2, <2>3
<1>9. CASE ChildWorks(t)
  <2>1. task[t].child = "running" /\ task[t].pc \in {"feed", "wait"}
    BY <1>1, <1>9 DEF ChildWorks, SoundTask
  <2>2. PICK n : /\ Become(t, n) /\ n \in Task /\ n.pc = task[t].pc /\ n.kind = task[t].kind
                 /\ n.reply = task[t].reply /\ n.typing = task[t].typing
                 /\ n.child = "succeeded" => n.output # "half"
    <3>1. CASE \E output \in {"half", "whole"} : Moves(t, [task[t] EXCEPT !.output = output])
      <4>1. PICK output \in {"half", "whole"} : Moves(t, [task[t] EXCEPT !.output = output])
        BY <3>1
      <4>2. PICK n : n = [task[t] EXCEPT !.output = output]
        OBVIOUS
      <4>3. /\ n \in Task /\ n.pc = task[t].pc /\ n.kind = task[t].kind /\ n.child = task[t].child
            /\ n.reply = task[t].reply /\ n.typing = task[t].typing
        BY <1>1, <4>2 DEF Task, Output
      <4> QED
        BY <2>1, <4>1, <4>2, <4>3 DEF Moves
    <3>2. CASE Moves(t, [task[t] EXCEPT !.child = "failed"])
      <4>1. PICK n : n = [task[t] EXCEPT !.child = "failed"]
        OBVIOUS
      <4>2. /\ n \in Task /\ n.pc = task[t].pc /\ n.kind = task[t].kind /\ n.child = "failed"
            /\ n.reply = task[t].reply /\ n.typing = task[t].typing
        BY <1>1, <4>1 DEF Task, Child
      <4> QED
        BY <3>2, <4>1, <4>2 DEF Moves
    <3>3. CASE task[t].output # "half" /\ Moves(t, [task[t] EXCEPT !.child = "succeeded"])
      <4>1. PICK n : n = [task[t] EXCEPT !.child = "succeeded"]
        OBVIOUS
      <4>2. /\ n \in Task /\ n.pc = task[t].pc /\ n.kind = task[t].kind /\ n.output = task[t].output
            /\ n.reply = task[t].reply /\ n.typing = task[t].typing
        BY <1>1, <4>1 DEF Task, Child
      <4> QED
        BY <3>3, <4>1, <4>2 DEF Moves
    <3>4. \/ \E output \in {"half", "whole"} : Moves(t, [task[t] EXCEPT !.output = output])
          \/ Moves(t, [task[t] EXCEPT !.child = "failed"])
          \/ task[t].output # "half" /\ Moves(t, [task[t] EXCEPT !.child = "succeeded"])
      BY <1>9 DEF ChildWorks
    <3> HIDE DEF Running, Awaits, At, Same
    <3> QED
      BY <3>1, <3>2, <3>3, <3>4
  <2>3. SoundTask(n)
    BY <1>1, <2>1, <2>2 DEF SoundTask
  <2> QED
    BY <1>2, <1>3, <2>1, <2>2, <2>3 DEF Becomes, NewPc
<1>10. CASE Work(t)
  <2>1. CASE Downloaded(t)
    <3>1. PICK pc \in {"cleanup", "lookup"} : Goes(t, pc)
      BY <2>1 DEF Downloaded
    <3>2. task[t].pc = "download" /\ task[t].child = "none" /\ task[t].kind = "reply"
      BY <1>1, <2>1 DEF Downloaded, SoundTask
    <3> QED
      BY <1>2, <1>3, <3>1, <3>2, GoesSoundly DEF Pc, GeneratingPc, NewPc
  <2>2. CASE LookUp(t)
    <3>1. task[t].pc = "lookup" /\ task[t].child = "none" /\ Goes(t, "start")
      BY <1>1, <2>2 DEF LookUp, SoundTask
    <3> QED
      BY <1>2, <1>3, <3>1, GoesSoundly DEF Pc, GeneratingPc, ExecPc, NewPc
  <2>3. CASE LookUpFails(t)
    BY <1>2, <1>3, <2>3, EndsSoundly DEF LookUpFails
  <2>4. CASE SpawnChild(t)
    <3>1. PICK n : n = [task[t] EXCEPT !.pc = "feed", !.child = "running"]
      OBVIOUS
    <3>2. /\ n \in Task /\ n.pc = "feed" /\ n.child = "running" /\ n.kind = task[t].kind
          /\ n.reply = task[t].reply /\ n.typing = task[t].typing /\ n.output = task[t].output
      BY <1>1, <3>1 DEF Task, Pc, GeneratingPc, ExecPc, Child
    <3>3. task[t].pc = "start" /\ (Become(t, n) \/ Finished(t, "none"))
      BY <2>4, <3>1 DEF SpawnChild, Moves
    <3>4. SoundTask(n)
      BY <1>1, <3>2, <3>3 DEF SoundTask, GeneratingPc, ExecPc
    <3> QED
      BY <1>2, <1>3, <3>2, <3>3, <3>4, FinishesSoundly DEF ExecPc, Output, NewPc, Becomes
  <2>5. CASE Collect(t) \/ Timeout(t)
    <3>1. PICK reply \in Output \ {"half"} : task[t].pc = "wait" /\ Finished(t, reply)
      BY <1>1, <2>5 DEF Collect, Timeout, SoundTask, Task, Output
    <3> QED
      BY <1>2, <1>3, <3>1, FinishesSoundly DEF ExecPc
  <2>6. CASE \E i \in Images : Remove(t, i)
    <3>1. task[t].pc = "cleanup" /\ Become(t, task[t])
      BY <2>6 DEF Remove, Become, SoundTasks
    <3> QED
      BY <1>1, <1>2, <1>3, <3>1 DEF Becomes, NewPc
  <2>7. CASE CleanedUp(t)
    <3>1. PICK n : n = [task[t] EXCEPT !.pc = "deliver", !.typing = FALSE]
      OBVIOUS
    <3>2. /\ n \in Task /\ n.pc = "deliver" /\ ~n.typing /\ n.child = task[t].child
          /\ n.output = task[t].output /\ n.reply = task[t].reply
      BY <1>1, <3>1 DEF Task, Pc, GeneratingPc
    <3>3. task[t].pc = "cleanup" /\ (Become(t, n) \/ Become(t, Ended))
      BY <2>7, <3>1 DEF CleanedUp
    <3>4. SoundTask(n)
      BY <1>1, <3>2, <3>3 DEF SoundTask
    <3> QED
      BY <1>2, <1>3, <3>2, <3>3, <3>4, EndsSoundly DEF NewPc, Becomes
  <2> QED
    BY <1>10, <2>1, <2>2, <2>3, <2>4, <2>5, <2>6, <2>7 DEF Work
<1> QED
  BY <1>2, <1>3, <1>4, <1>5, <1>6, <1>7, <1>8, <1>9, <1>10 DEF OwnStep

(* A spawn: the new task c was unborn, and its spawner s is about to track. *)
LEMMA SpawnSteps ==
  ASSUME SoundTasks, spawned \in [Requests \cup Tasks -> Tasks \cup {NoTask}],
         NEW s \in Requests \cup Tasks, SpawnedBy(s), s \in Tasks => At(s, "handle")
  PROVE  \E c \in Tasks :
           /\ At(c, "unborn")
           /\ c # s
           /\ spawned' = [spawned EXCEPT ![s] = c]
           /\ \A t \in Tasks \ {c, s} : task'[t] = task[t]
           /\ task' \in [Tasks -> Task]
           /\ SoundTask(task'[c]) /\ task'[c].pc \notin {"unborn", "track"}
           /\ s \in Tasks => SoundTask(task'[s]) /\ task'[s].pc = "track"
           /\ unbound' = IF s \in unbound THEN unbound \cup {c} ELSE unbound
<1> DEFINE Start(kind) == CASE kind = "flush" -> "handle"
                            [] kind = "reply" -> "typing"
                            [] OTHER -> "start"
<1>1. PICK c \in Tasks, kind \in {"flush", "reply", "compact"} :
        /\ At(c, "unborn")
        /\ spawned' = [spawned EXCEPT ![s] = c]
        /\ task' = [t \in Tasks |->
             IF t = c THEN [Unborn EXCEPT !.kind = kind, !.pc = Start(kind)]
             ELSE IF t = s THEN [task[t] EXCEPT !.pc = "track"]
             ELSE task[t]]
        /\ unbound' = IF s \in unbound THEN unbound \cup {c} ELSE unbound
  BY DEF SpawnedBy
<1>2. c # s
  BY <1>1 DEF At
<1>3. PICK n : n = [Unborn EXCEPT !.kind = kind, !.pc = Start(kind)]
  OBVIOUS
<1>4. Start(kind) \in {"handle", "typing", "start"} /\ (Start(kind) = "typing" => kind = "reply")
  OBVIOUS
<1>5. n.kind = kind /\ n.pc = Start(kind) /\ n.child = "none" /\ n.output = "none"
        /\ n.reply = "none" /\ n.typing = FALSE /\ n \in Task
  BY <1>3, <1>4 DEF Unborn, Task, Kind, Pc, GeneratingPc, ExecPc, Child, Output
<1>6. SoundTask(n) /\ n.pc \notin {"unborn", "track"}
  BY <1>4, <1>5 DEF SoundTask
<1>7. ASSUME s \in Tasks
      PROVE  LET m == [task[s] EXCEPT !.pc = "track"] IN SoundTask(m) /\ m.pc = "track"
  <2>1. task[s] \in Task /\ SoundTask(task[s]) /\ task[s].pc = "handle"
    BY <1>7 DEF SoundTasks, At
  <2>2. PICK m \in Task :
           /\ m = [task[s] EXCEPT !.pc = "track"]
           /\ m.pc = "track"
           /\ m.kind = task[s].kind /\ m.child = task[s].child /\ m.output = task[s].output
           /\ m.reply = task[s].reply /\ m.typing = task[s].typing
    BY <2>1, WithPc DEF Pc
  <2>3. task[s].child = "none" /\ ~task[s].typing
    BY <2>1 DEF SoundTask, GeneratingPc, ExecPc
  <2>4. SoundTask(m)
    BY <2>1, <2>2, <2>3 DEF SoundTask
  <2> QED
    BY <2>2, <2>4
<1>8. task'[c] = n /\ \A t \in Tasks \ {c, s} : task'[t] = task[t]
  BY <1>1, <1>3
<1>9. s \in Tasks => task'[s] = [task[s] EXCEPT !.pc = "track"]
  BY <1>1, <1>2
<1>10. \A t \in Tasks : task'[t] \in Task
  BY <1>6, <1>7, <1>8, <1>9 DEF SoundTask, SoundTasks
<1> HIDE DEF Start
<1> QED
  BY <1>1, <1>2, <1>6, <1>7, <1>8, <1>9, <1>10

-----------------------------------------------------------------------------
(* Type correctness. *)

LEMMA InitRuntime == Init => RuntimeInv
<1> SUFFICES ASSUME Init PROVE RuntimeInv
  OBVIOUS
<1>1. task \in [Tasks -> Task] /\ \A t \in Tasks : task[t] = Unborn /\ task[t].pc = "unborn"
  BY EndedIsSound DEF Init, SoundTask, Unborn
<1>2. SoundTasks
  BY <1>1, EndedIsSound DEF SoundTasks
<1>3. SpawnedKnown
  BY <1>1 DEF Init, SpawnedKnown, At
<1>4. TypeOK
  BY <1>1, RuntimeAssumption DEF Init, TypeOK, File
<1> QED
  BY <1>2, <1>3, <1>4 DEF RuntimeInv

LEMMA FileUpdate ==
  ASSUME TypeOK, NEW t \in Tasks, NEW i \in Images, NEW x \in File,
         file' = [file EXCEPT ![t][i] = x]
  PROVE  /\ file' \in [Tasks -> [Images -> File]]
         /\ file'[t][i] = x
         /\ \A u \in Tasks, j \in Images : u # t \/ j # i => file'[u][j] = file[u][j]
         /\ \A u \in Tasks \ {t} : file'[u] = file[u]
<1>1. file[t] \in [Images -> File]
  BY DEF TypeOK
<1>2. PICK g \in [Images -> File] : g = [file[t] EXCEPT ![i] = x]
  BY <1>1
<1>3. file' = [file EXCEPT ![t] = g]
  BY <1>2
<1> QED
  BY <1>1, <1>2, <1>3 DEF TypeOK

LEMMA DownloadTypes ==
  ASSUME TypeOK, NEW t \in Tasks, NEW i \in Images, Download(t, i)
  PROVE  TypeOK' /\ UNCHANGED task /\ Stays /\ UNCHANGED spilled
<1>1. UNCHANGED task /\ Stays /\ UNCHANGED spilled
  BY DEF Download, Acquire, Transfer
<1>2. permits' \in Nat
  BY DEF Download, Acquire, Transfer, TypeOK
<1>3. PICK x \in File : file' = [file EXCEPT ![t][i] = x]
  BY DEF Download, Acquire, Transfer, File
<1>4. file' \in [Tasks -> [Images -> File]]
  BY <1>3, FileUpdate
<1> QED
  BY <1>1, <1>2, <1>4 DEF TypeOK, Stays

LEMMA OwnNotTracking ==
  ASSUME NEW t \in Tasks, OwnStep(t), SoundTasks
  PROVE  task[t].pc # "track"
<1>1. SoundTask(task[t])
  BY DEF SoundTasks
<1> QED
  BY <1>1 DEF OwnStep, FlushEnds, Cancel, Work, StartTyping, Deliver, Feed, ChildWorks, Downloaded,
              LookUp, LookUpFails, SpawnChild, Collect, Timeout, Remove, CleanedUp, Awaits, At,
              SoundTask, ExecPc, GeneratingPc

LEMMA OwnTypes ==
  ASSUME RuntimeInv, NEW t \in Tasks, OwnStep(t)
  PROVE  RuntimeInv'
<1>1. PICK s : Become(t, s) /\ SoundTask(s) /\ s.pc \notin NewPc
  BY OwnSteps DEF RuntimeInv, Becomes
<1>2. UNCHANGED <<phase, request, spawned, tracked, aborted, unbound>>
  BY OwnSteps DEF RuntimeInv
<1>3. /\ task' \in [Tasks -> Task] /\ task'[t] = s
      /\ \A u \in Tasks \ {t} : task'[u] = task[u]
  BY <1>1 DEF Become, SoundTask, RuntimeInv, TypeOK
<1>4. SoundTasks' /\ SpawnedKnown'
  <2>1. task[t].pc # "track" \/ ~OwnStep(t)
    BY OwnNotTracking DEF RuntimeInv
  <2>2. task'[t].pc # "track"
    BY <1>1, <1>3 DEF NewPc
  <2>3. SpawnedKnown'
    BY <1>2, <1>3, <2>1, <2>2 DEF RuntimeInv, SpawnedKnown, At
  <2> QED
    BY <1>1, <1>3, <2>3 DEF RuntimeInv, SoundTasks
<1>5. UNCHANGED permits /\ spilled' \subseteq Tasks
  BY DEF RuntimeInv, TypeOK, OwnStep, FlushEnds, Cancel, Work, StartTyping, Deliver, Feed, ChildWorks,
         Downloaded, Stays, LookUp, LookUpFails, SpawnChild, Collect, Timeout, Remove, CleanedUp, Goes,
         Moves, Finished
<1>6. file' \in [Tasks -> [Images -> File]]
  <2>1. CASE StartTyping(t)
    <3>1. PICK n : file' = [file EXCEPT ![t] = [i \in Images |-> IF i <= n THEN "queued" ELSE "none"]]
      BY <2>1 DEF StartTyping
    <3>2. [i \in Images |-> IF i <= n THEN "queued" ELSE "none"] \in [Images -> File]
      BY DEF File
    <3> QED
      BY <3>1, <3>2 DEF RuntimeInv, TypeOK
  <2>2. CASE \E i \in Images : Remove(t, i)
    <3>1. PICK i \in Images : file' = [file EXCEPT ![t][i] = "none"]
      BY <2>2 DEF Remove
    <3> QED
      BY <3>1, FileUpdate DEF RuntimeInv, File
  <2>3. CASE CleanedUp(t)
    <3>1. [i \in Images |-> IF file[t][i] = "failed" THEN "none" ELSE file[t][i]] \in [Images -> File]
      BY DEF RuntimeInv, TypeOK, File
    <3> QED
      BY <2>3, <3>1 DEF CleanedUp, RuntimeInv, TypeOK
  <2>4. CASE ~StartTyping(t) /\ ~CleanedUp(t) /\ ~\E i \in Images : Remove(t, i)
    <3>1. UNCHANGED file
      BY <2>4
         DEF OwnStep, FlushEnds, Cancel, Work, Deliver, Feed, ChildWorks, Downloaded, Stays, LookUp,
             LookUpFails, SpawnChild, Collect, Timeout, Goes, Moves, Finished
    <3> QED
      BY <3>1 DEF RuntimeInv, TypeOK
  <2> QED
    BY <2>1, <2>2, <2>3, <2>4
<1> QED
  BY <1>2, <1>3, <1>4, <1>5, <1>6 DEF RuntimeInv, TypeOK

LEMMA SpawnTypes ==
  ASSUME RuntimeInv, NEW s \in Requests \cup Tasks,
         \/ s \in Requests /\ RequestSpawns(s)
         \/ s \in Tasks /\ FlushSpawns(s)
  PROVE  RuntimeInv'
<1>1. SpawnedBy(s) /\ (s \in Tasks => At(s, "handle"))
  BY RuntimeAssumption DEF RequestSpawns, FlushSpawns, Awaits
<1>2. PICK c \in Tasks :
           /\ At(c, "unborn")
           /\ c # s
           /\ spawned' = [spawned EXCEPT ![s] = c]
           /\ \A t \in Tasks \ {c, s} : task'[t] = task[t]
           /\ task' \in [Tasks -> Task]
           /\ SoundTask(task'[c]) /\ task'[c].pc \notin {"unborn", "track"}
           /\ s \in Tasks => SoundTask(task'[s]) /\ task'[s].pc = "track"
           /\ unbound' = IF s \in unbound THEN unbound \cup {c} ELSE unbound
  BY <1>1, SpawnSteps DEF RuntimeInv, TypeOK
<1>3. /\ UNCHANGED <<phase, tracked, aborted, permits, file, spilled>>
      /\ request' \in [Requests -> {"idle", "handle", "track"}]
      /\ \A r \in Requests \ {s} : request'[r] = request[r]
  BY DEF RequestSpawns, FlushSpawns, RuntimeInv, TypeOK
<1>4. spawned' \in [Requests \cup Tasks -> Tasks \cup {NoTask}] /\ spawned'[s] \in Tasks
        /\ \A x \in (Requests \cup Tasks) \ {s} : spawned'[x] = spawned[x]
  BY <1>2 DEF RuntimeInv, TypeOK
<1>5. SoundTasks'
  BY <1>2 DEF RuntimeInv, SoundTasks
<1>6. SpawnedKnown'
  <2>1. ~At(c, "track") /\ ~At(c, "track")'
    BY <1>2 DEF At
  <2>2. \A r \in Requests : IF request'[r] = "track" THEN spawned'[r] \in Tasks ELSE spawned'[r] = NoTask
    BY <1>3, <1>4, RuntimeAssumption DEF RuntimeInv, TypeOK, SpawnedKnown, RequestSpawns, FlushSpawns
  <2>3. \A t \in Tasks : IF At(t, "track")' THEN spawned'[t] \in Tasks ELSE spawned'[t] = NoTask
    BY <1>2, <1>4, <2>1 DEF RuntimeInv, SpawnedKnown, At
  <2> QED
    BY <2>2, <2>3 DEF SpawnedKnown
<1>7. TypeOK'
  BY <1>2, <1>3, <1>4 DEF RuntimeInv, TypeOK
<1> QED
  BY <1>5, <1>6, <1>7 DEF RuntimeInv

LEMMA TrackTypes ==
  ASSUME RuntimeInv, NEW s \in Requests \cup Tasks,
         \/ s \in Requests /\ RequestTracks(s)
         \/ s \in Tasks /\ FlushTracks(s)
  PROVE  RuntimeInv'
<1>1. TrackedBy(s) /\ spawned[s] \in Tasks
  BY DEF RequestTracks, FlushTracks, RuntimeInv, SpawnedKnown
<1>2. /\ UNCHANGED <<phase, aborted, permits, file, spilled, unbound>>
      /\ request' \in [Requests -> {"idle", "handle", "track"}]
      /\ \A r \in Requests \ {s} : request'[r] = request[r]
      /\ s \in Requests => request'[s] = "idle"
  BY RuntimeAssumption DEF RequestTracks, FlushTracks, RuntimeInv, TypeOK
<1>3. tracked' \subseteq Tasks
  BY <1>1 DEF TrackedBy, RuntimeInv, TypeOK
<1>4. spawned' \in [Requests \cup Tasks -> Tasks \cup {NoTask}]
        /\ \A x \in (Requests \cup Tasks) \ {s} : spawned'[x] = spawned[x]
  BY <1>1 DEF TrackedBy, RuntimeInv, TypeOK
<1>5. /\ task' \in [Tasks -> Task]
      /\ \A t \in Tasks \ {s} : task'[t] = task[t]
      /\ s \in Tasks => SoundTask(task'[s]) /\ task'[s].pc = "done"
  <2>1. CASE s \in Requests /\ RequestTracks(s)
    BY <2>1, RuntimeAssumption DEF RequestTracks, RuntimeInv, TypeOK
  <2>2. CASE s \in Tasks /\ FlushTracks(s)
    BY <2>2, EndedIsSound DEF FlushTracks, Become, RuntimeInv, TypeOK, SoundTask
  <2> QED
    BY <2>1, <2>2
<1>6. SoundTasks' /\ SpawnedKnown'
  <2>1. spawned'[s] = NoTask
    BY <1>1 DEF TrackedBy, RuntimeInv, TypeOK
  <2>2. \A r \in Requests : IF request'[r] = "track" THEN spawned'[r] \in Tasks ELSE spawned'[r] = NoTask
    BY <1>2, <1>4, <2>1 DEF RuntimeInv, SpawnedKnown
  <2>3. \A t \in Tasks : IF At(t, "track")' THEN spawned'[t] \in Tasks ELSE spawned'[t] = NoTask
    BY <1>4, <1>5, <2>1 DEF RuntimeInv, SpawnedKnown, At
  <2>4. SoundTasks'
    BY <1>5 DEF RuntimeInv, SoundTasks
  <2> QED
    BY <2>2, <2>3, <2>4 DEF SpawnedKnown
<1>7. TypeOK'
  BY <1>2, <1>3, <1>4, <1>5 DEF RuntimeInv, TypeOK
<1> QED
  BY <1>6, <1>7 DEF RuntimeInv

(* Once the server has returned no request is in progress. *)
NoRequests == phase \in {"closing", "exited"} => \A r \in Requests : request[r] = "idle"

LEMMA NextQuiet == RuntimeInv /\ NoRequests /\ [Next]_vars => NoRequests'
<1> SUFFICES ASSUME RuntimeInv, NoRequests, [Next]_vars PROVE NoRequests'
  OBVIOUS
<1> USE DEF NoRequests
<1>1. CASE UNCHANGED <<phase, request>>
  BY <1>1
<1>2. CASE Signal \/ Shutdown \/ Exit
  BY <1>2 DEF Signal, Shutdown, Exit
<1>3. ASSUME NEW r \in Requests, Accept(r) \/ Webhook(r) PROVE NoRequests'
  BY <1>3 DEF Accept, Webhook, RequestSpawns, RequestTracks, Respond
<1>4. ASSUME NEW t \in Tasks, OwnStep(t) PROVE NoRequests'
  BY <1>1, <1>4, OwnSteps DEF RuntimeInv
<1>5. ASSUME NEW t \in Tasks, FlushSpawns(t) \/ FlushTracks(t) PROVE NoRequests'
  BY <1>1, <1>5 DEF FlushSpawns, FlushTracks
<1>6. ASSUME NEW t \in Tasks, NEW i \in Images, Download(t, i) PROVE NoRequests'
  BY <1>1, <1>6 DEF Download, Acquire, Transfer, Stays
<1> QED
  BY <1>1, <1>2, <1>3, <1>4, <1>5, <1>6 DEF Next, vars, Flush, OwnStep

LEMMA NextRuntime == RuntimeInv /\ NoRequests /\ [Next]_vars => RuntimeInv'
<1> SUFFICES ASSUME RuntimeInv, NoRequests, [Next]_vars PROVE RuntimeInv'
  OBVIOUS
<1> USE DEF RuntimeInv, TypeOK, SoundTasks, SpawnedKnown, At
<1>1. CASE UNCHANGED vars
  BY <1>1 DEF vars
<1>2. CASE Signal \/ Shutdown
  BY <1>2 DEF Signal, Shutdown, Untracked
<1>3. CASE Exit
  <2>1. /\ task' = [t \in Tasks |-> IF Running(t) THEN Ended ELSE task[t]]
        /\ file' = [t \in Tasks |-> [i \in Images |->
                IF file[t][i] \in {"queued", "fetching"} THEN "failed" ELSE file[t][i]]]
        /\ permits' = Slots /\ phase' = "exited" /\ UNCHANGED <<request, tracked, aborted, unbound>>
        /\ spawned' = [s \in Requests \cup Tasks |-> NoTask]
        /\ spilled' \subseteq Tasks
    BY <1>3 DEF Exit
  <2>2. SoundTasks'
    <3>1. \A t \in Tasks : SoundTask(task'[t])
      BY <2>1, EndedIsSound
    <3> QED
      BY <2>1, <3>1, EndedIsSound DEF SoundTask
  <2>3. \A t \in Tasks : task'[t].pc # "track"
    BY <2>1, EndedIsSound DEF Running
  <2>4. \A r \in Requests : request[r] # "track"
    BY <1>3 DEF Exit, NoRequests
  <2>5. file' \in [Tasks -> [Images -> File]]
    BY <2>1 DEF File
  <2> QED
    BY <2>1, <2>2, <2>3, <2>4, <2>5, RuntimeAssumption
<1>4. ASSUME NEW r \in Requests, Accept(r) \/ Respond(r) PROVE RuntimeInv'
  BY <1>4 DEF Accept, Respond
<1>5. ASSUME NEW r \in Requests, RequestSpawns(r) \/ RequestTracks(r) PROVE RuntimeInv'
  BY <1>5, SpawnTypes, TrackTypes
<1>6. ASSUME NEW t \in Tasks, FlushSpawns(t) \/ FlushTracks(t) PROVE RuntimeInv'
  BY <1>6, SpawnTypes, TrackTypes
<1>7. ASSUME NEW t \in Tasks, OwnStep(t) PROVE RuntimeInv'
  BY <1>7, OwnTypes
<1>8. ASSUME NEW t \in Tasks, NEW i \in Images, Download(t, i) PROVE RuntimeInv'
  BY <1>8, DownloadTypes DEF Stays
<1> QED
  BY <1>1, <1>2, <1>3, <1>4, <1>5, <1>6, <1>7, <1>8 DEF Next, Webhook, Flush, OwnStep

Inv == RuntimeInv /\ NoRequests

LEMMA InitInv == Init => Inv
  BY InitRuntime DEF Inv, Init, NoRequests

LEMMA NextInv == Inv /\ [Next]_vars => Inv'
  BY NextRuntime, NextQuiet DEF Inv

(* Types are kept: what track puts among the handles is a task, and a slot  *)
(* is only taken when there is one.                                         *)
THEOREM TypeCorrect == Spec => []TypeOK
<1>1. Inv => TypeOK
  BY DEF Inv, RuntimeInv
<1> QED
  BY <1>1, InitInv, NextInv, PTL DEF Spec

(* A reply is never the part that a failed or killed child has written:     *)
(* the output counts when the child exited with 0.                          *)
THEOREM RepliesAreWhole == Spec => []NoHalfReplies
<1>1. Inv => NoHalfReplies
  BY DEF Inv, RuntimeInv, SoundTasks, SoundTask, NoHalfReplies
<1> QED
  BY <1>1, InitInv, NextInv, PTL DEF Spec

(* No way out of exec or of generate_reply leaves a child or a ticker. *)
THEOREM ChildrenAndTickersEnd == Spec => []NothingOutlivesItsJob
<1>1. Inv => NothingOutlivesItsJob
  BY DEF Inv, RuntimeInv, SoundTasks, SoundTask, NothingOutlivesItsJob
<1> QED
  BY <1>1, InitInv, NextInv, PTL DEF Spec

-----------------------------------------------------------------------------
(* Shutdown.                                                                *)

(* Before the shutdown the handle of every task that runs is in the list,   *)
(* or in the hands of the request or the flush that is about to put it      *)
(* there; afterwards every such task has been aborted, or escaped then.     *)
Handled(t) == t \in tracked \cup Untracked

Handles ==
  phase \in {"serving", "draining"} =>
    /\ unbound = {}
    /\ \A t \in Tasks : Running(t) => Handled(t)

HandlesInv == Handles /\ ShutdownReachesAll

(* No task begins to run, and the handles are left alone. *)
LEMMA HandlesKept ==
  ASSUME HandlesInv,
         UNCHANGED <<phase, tracked, spawned, aborted, unbound>>,
         \A t \in Tasks : Running(t)' => Running(t)
  PROVE  HandlesInv'
  BY DEF HandlesInv, Handles, Handled, Untracked, ShutdownReachesAll

(* A spawn: the handle of the new task is in the hands of its spawner. One  *)
(* that still spawns after the shutdown has itself escaped it.              *)
LEMMA SpawnHandles ==
  ASSUME Inv, HandlesInv, NEW s \in Requests \cup Tasks,
         \/ s \in Requests /\ RequestSpawns(s)
         \/ s \in Tasks /\ FlushSpawns(s)
  PROVE  HandlesInv'
<1>0. TypeOK /\ SoundTasks /\ SpawnedKnown /\ NoRequests
  BY DEF Inv, RuntimeInv
<1>1. SpawnedBy(s) /\ (s \in Tasks => At(s, "handle") /\ s \notin aborted)
  BY RuntimeAssumption DEF RequestSpawns, FlushSpawns, Awaits
<1>2. PICK c \in Tasks :
           /\ spawned' = [spawned EXCEPT ![s] = c]
           /\ \A t \in Tasks \ {c, s} : task'[t] = task[t]
           /\ unbound' = IF s \in unbound THEN unbound \cup {c} ELSE unbound
  BY <1>0, <1>1, SpawnSteps DEF TypeOK
<1>3. UNCHANGED <<phase, tracked, aborted>>
  BY DEF RequestSpawns, FlushSpawns
<1>4. s \in Tasks => Running(s)
  BY <1>1 DEF Running, At
<1>5. \A t \in Tasks \ {c} : Running(t)' => Running(t)
  BY <1>2, <1>4 DEF Running, At
<1>6. CASE phase \in {"serving", "draining"}
  <2>1. spawned[s] = NoTask
    BY <1>0, <1>1 DEF RequestSpawns, FlushSpawns, SpawnedKnown, At
  <2>2. spawned'[s] = c /\ \A x \in (Requests \cup Tasks) \ {s} : spawned'[x] = spawned[x]
    BY <1>0, <1>2 DEF TypeOK
  <2>3. c # NoTask
    BY RuntimeAssumption
  <2>4. Untracked \cup {c} \subseteq Untracked'
    BY <2>1, <2>2, <2>3 DEF Untracked
  <2> QED
    BY <1>2, <1>3, <1>5, <1>6, <2>4 DEF HandlesInv, Handles, Handled, ShutdownReachesAll
<1>7. CASE phase \in {"closing", "exited"}
  <2>1. s \notin Requests
    BY <1>0, <1>7, RuntimeAssumption DEF NoRequests, RequestSpawns, FlushSpawns
  <2>2. s \in unbound
    BY <1>1, <1>4, <1>7, <2>1 DEF HandlesInv, ShutdownReachesAll
  <2> QED
    BY <1>2, <1>3, <1>5, <1>7, <2>2 DEF HandlesInv, Handles, ShutdownReachesAll
<1> QED
  BY <1>0, <1>6, <1>7 DEF TypeOK

(* What a spawner has in its hands goes into the list; retain drops what    *)
(* has ended.                                                               *)
LEMMA TrackHandles ==
  ASSUME Inv, HandlesInv, NEW s \in Requests \cup Tasks,
         \/ s \in Requests /\ RequestTracks(s)
         \/ s \in Tasks /\ FlushTracks(s)
  PROVE  HandlesInv'
<1>0. TypeOK /\ SoundTasks /\ SpawnedKnown /\ NoRequests
  BY DEF Inv, RuntimeInv
<1>1. /\ tracked' = {t \in tracked : Running(t)} \cup {spawned[s]}
      /\ spawned' = [spawned EXCEPT ![s] = NoTask]
      /\ UNCHANGED <<phase, aborted, unbound>>
  BY RuntimeAssumption DEF RequestTracks, FlushTracks, TrackedBy
<1>2. \A t \in Tasks : Running(t)' => Running(t)
  <2>1. CASE UNCHANGED task
    BY <2>1 DEF Running, At
  <2>2. CASE s \in Tasks /\ task' = [task EXCEPT ![s] = Ended]
    BY <1>0, <2>2, EndedIsSound DEF Running, At, TypeOK
  <2> QED
    BY <2>1, <2>2 DEF RequestTracks, FlushTracks, Become
<1>3. \A x \in (Requests \cup Tasks) \ {s} : spawned'[x] = spawned[x]
  BY <1>0, <1>1 DEF TypeOK
<1>4. Untracked \subseteq Untracked' \cup {spawned[s]}
  BY <1>3 DEF Untracked
<1>5. \A t \in Tasks : Running(t) /\ Handled(t) => Handled(t)'
  BY <1>1, <1>4 DEF Handled
<1> QED
  BY <1>1, <1>2, <1>5 DEF HandlesInv, Handles, ShutdownReachesAll

LEMMA NextHandles == Inv /\ HandlesInv /\ [Next]_vars => HandlesInv'
<1> SUFFICES ASSUME Inv, HandlesInv, [Next]_vars PROVE HandlesInv'
  OBVIOUS
<1>0. TypeOK /\ SoundTasks
  BY DEF Inv, RuntimeInv
<1>1. CASE UNCHANGED vars
  BY <1>1, HandlesKept DEF vars, Running, At
<1>2. CASE Signal
  BY <1>2 DEF Signal, HandlesInv, Handles, Handled, Untracked, ShutdownReachesAll, Running, At
<1>3. CASE Shutdown
  <2>1. \A t \in Tasks : Running(t)' => Running(t)
    BY <1>3 DEF Shutdown, Running, At
  <2>2. \A t \in Tasks : Running(t) => t \in tracked \cup Untracked
    BY <1>3 DEF Shutdown, HandlesInv, Handles, Handled
  <2>3. phase' = "closing" /\ aborted' = aborted \cup tracked /\ unbound' = Untracked
    BY <1>3 DEF Shutdown
  <2> QED
    BY <2>1, <2>2, <2>3 DEF HandlesInv, Handles, ShutdownReachesAll
<1>4. CASE Exit
  <2>1. \A t \in Tasks : ~Running(t)'
    BY <1>4, EndedIsSound DEF Exit, Running, At
  <2> QED
    BY <1>4, <2>1 DEF Exit, HandlesInv, Handles, ShutdownReachesAll
<1>5. ASSUME NEW r \in Requests, Accept(r) \/ Respond(r) PROVE HandlesInv'
  BY <1>5, HandlesKept DEF Accept, Respond, Running, At
<1>6. ASSUME NEW t \in Tasks, OwnStep(t) PROVE HandlesInv'
  <2>1. PICK s : Become(t, s) /\ SoundTask(s) /\ s.pc \notin NewPc
    BY <1>0, <1>6, OwnSteps DEF Becomes
  <2>2. Running(t) /\ UNCHANGED <<phase, request, spawned, tracked, aborted, unbound>>
    BY <1>0, <1>6, OwnSteps
  <2>3. \A u \in Tasks : Running(u)' => Running(u)
    BY <1>0, <2>1, <2>2 DEF Become, TypeOK, Running, At
  <2> QED
    BY <2>2, <2>3, HandlesKept
<1>7. ASSUME NEW t \in Tasks, NEW i \in Images, Download(t, i) PROVE HandlesInv'
  BY <1>0, <1>7, DownloadTypes, HandlesKept DEF Stays, Running, At
<1>8. ASSUME NEW r \in Requests, RequestSpawns(r) \/ RequestTracks(r) PROVE HandlesInv'
  BY <1>8, SpawnHandles, TrackHandles
<1>9. ASSUME NEW t \in Tasks, FlushSpawns(t) \/ FlushTracks(t) PROVE HandlesInv'
  BY <1>9, SpawnHandles, TrackHandles
<1> QED
  BY <1>1, <1>2, <1>3, <1>4, <1>5, <1>6, <1>7, <1>8, <1>9 DEF Next, Webhook, Flush, OwnStep

(* Shutdown aborts every task that still runs, apart from one that a flush  *)
(* has spawned and not tracked at the drain and what comes of that one: the *)
(* server has returned, so that no request has a handle in its hands.       *)
THEOREM ShutdownIsComplete == Spec => []ShutdownReachesAll
<1>1. Init => HandlesInv
  BY DEF Init, HandlesInv, Handles, ShutdownReachesAll, Running, At, Unborn
<1>2. HandlesInv => ShutdownReachesAll
  BY DEF HandlesInv
<1> QED
  BY <1>1, <1>2, InitInv, NextInv, NextHandles, PTL DEF Spec

-----------------------------------------------------------------------------
(* Downloads.                                                               *)

(* Only a job that downloads has transfers, only one that generates has     *)
(* directories, and a task that has not begun has neither.                  *)
FilesHeld(t) ==
  /\ t \notin spilled /\ Kept(t) \cup InFlight(t) # {} =>
       task[t].kind = "reply" /\ task[t].pc \in GeneratingPc
  /\ t \notin spilled /\ InFlight(t) # {} => At(t, "download")
  /\ task[t].pc \in NewPc => InFlight(t) = {}

FilesInv == \A t \in Tasks : FilesHeld(t)

SameFiles(t) == file'[t] = file[t] /\ (t \in spilled' <=> t \in spilled)

LEMMA SameFilesHeld ==
  ASSUME NEW t \in Tasks, SameFiles(t)
  PROVE  Kept(t)' = Kept(t) /\ InFlight(t)' = InFlight(t)
  BY DEF SameFiles, Kept, InFlight

LEMMA FilesElsewhere ==
  ASSUME FilesInv, NEW t \in Tasks, FilesHeld(t)',
         \A u \in Tasks \ {t} : task'[u] = task[u] /\ SameFiles(u)
  PROVE  FilesInv'
<1>1. \A u \in Tasks \ {t} : FilesHeld(u)'
  BY SameFilesHeld DEF FilesInv, FilesHeld, At, SameFiles
<1> QED
  BY <1>1 DEF FilesInv

(* An exec leaves a reply job in the generation of its reply. *)
LEMMA ExecStaysGenerating ==
  ASSUME SoundTasks, NEW t \in Tasks, task[t].kind = "reply",
         Feed(t) \/ SpawnChild(t) \/ ChildWorks(t) \/ Collect(t) \/ Timeout(t)
  PROVE  task'[t].kind = "reply" /\ task'[t].pc \in GeneratingPc
<1>1. task[t] \in Task /\ SoundTask(task[t]) /\ task \in [Tasks -> Task]
  BY DEF SoundTasks
<1>2. ASSUME NEW reply, Finished(t, reply) PROVE task'[t].kind = "reply" /\ task'[t].pc \in GeneratingPc
  <2>1. PICK over : over = [task[t] EXCEPT !.child = "none", !.output = "none", !.reply = reply]
    OBVIOUS
  <2>2. over.kind = "reply" /\ "pc" \in DOMAIN over /\ "kind" \in DOMAIN over
    BY <1>1, <2>1 DEF Task
  <2>3. task'[t] = [over EXCEPT !.pc = "cleanup"]
    BY <1>1, <1>2, <2>1 DEF Finished, Moves, Become
  <2> QED
    BY <2>2, <2>3 DEF GeneratingPc
<1>3. ASSUME NEW pc \in ExecPc, Goes(t, pc) PROVE task'[t].kind = "reply" /\ task'[t].pc \in GeneratingPc
  BY <1>1, <1>3 DEF Goes, Moves, Become, Task, GeneratingPc
<1>4. CASE Feed(t)
  BY <1>2, <1>3, <1>4 DEF Feed, ExecPc
<1>5. CASE SpawnChild(t)
  <2>1. CASE Moves(t, [task[t] EXCEPT !.pc = "feed", !.child = "running"])
    BY <1>1, <2>1 DEF Moves, Become, Task, GeneratingPc, ExecPc
  <2> QED
    BY <1>2, <1>5, <2>1 DEF SpawnChild
<1>6. CASE ChildWorks(t)
  <2>1. task[t].pc \in {"feed", "wait"}
    BY <1>1, <1>6 DEF ChildWorks, SoundTask
  <2>2. task'[t].kind = task[t].kind /\ task'[t].pc = task[t].pc
    BY <1>1, <1>6 DEF ChildWorks, Moves, Become, Task
  <2> QED
    BY <2>1, <2>2 DEF GeneratingPc, ExecPc
<1>7. CASE Collect(t) \/ Timeout(t)
  BY <1>2, <1>7 DEF Collect, Timeout
<1> QED
  BY <1>4, <1>5, <1>6, <1>7

LEMMA OwnFiles ==
  ASSUME Inv, FilesInv, NEW t \in Tasks, OwnStep(t)
  PROVE  FilesInv'
<1>0. TypeOK /\ SoundTasks /\ FilesHeld(t) /\ SoundTask(task[t])
  BY DEF Inv, RuntimeInv, FilesInv, SoundTasks
<1>1. PICK s : Become(t, s) /\ SoundTask(s) /\ s.pc \notin NewPc
  BY <1>0, OwnSteps DEF Becomes
<1>2. task'[t] = s /\ \A u \in Tasks \ {t} : task'[u] = task[u]
  BY <1>0, <1>1 DEF Become, TypeOK
<1>3. \A u \in Tasks \ {t} : SameFiles(u)
  <2>1. \A u \in Tasks \ {t} : file'[u] = file[u]
    BY <1>0
       DEF TypeOK, OwnStep, FlushEnds, Cancel, Work, StartTyping, Deliver, Feed, ChildWorks, Downloaded,
           LookUp, LookUpFails, SpawnChild, Collect, Timeout, Remove, CleanedUp, Goes, Moves, Finished
  <2>2. \A u \in Tasks \ {t} : u \in spilled' <=> u \in spilled
    BY DEF OwnStep, FlushEnds, Cancel, Work, StartTyping, Deliver, Feed, ChildWorks, Downloaded,
           LookUp, LookUpFails, SpawnChild, Collect, Timeout, Remove, CleanedUp, Goes, Moves, Finished
  <2> QED
    BY <2>1, <2>2 DEF SameFiles
<1>4. CASE FlushEnds(t) \/ Deliver(t)
  <2>1. task[t].pc \in {"handle", "deliver"} /\ SameFiles(t)
    BY <1>4 DEF FlushEnds, Deliver, Awaits, At, Moves, SameFiles
  <2>2. t \notin spilled => Kept(t) \cup InFlight(t) = {}
    BY <1>0, <2>1 DEF FilesHeld, GeneratingPc, ExecPc
  <2>3. FilesHeld(t)'
    BY <1>1, <1>2, <2>1, <2>2, SameFilesHeld DEF FilesHeld, SameFiles
  <2> QED
    BY <1>2, <1>3, <2>3, FilesElsewhere
<1>5. CASE Feed(t) \/ SpawnChild(t) \/ ChildWorks(t) \/ Collect(t) \/ Timeout(t)
  <2>1. SameFiles(t)
    BY <1>5 DEF Feed, SpawnChild, ChildWorks, Collect, Timeout, Finished, Goes, Moves, SameFiles
  <2>2. task[t].pc \in ExecPc
    BY <1>0, <1>5 DEF Feed, SpawnChild, ChildWorks, Collect, Timeout, Awaits, At, SoundTask, ExecPc
  <2>3. task[t].kind = "reply" => s.kind = "reply" /\ s.pc \in GeneratingPc
    BY <1>0, <1>2, <1>5, ExecStaysGenerating
  <2>4. t \notin spilled => InFlight(t) = {}
    BY <1>0, <2>2 DEF FilesHeld, At, ExecPc
  <2>5. t \notin spilled /\ Kept(t) # {} => task[t].kind = "reply"
    BY <1>0 DEF FilesHeld
  <2>6. FilesHeld(t)'
    BY <1>1, <1>2, <2>1, <2>3, <2>4, <2>5, SameFilesHeld DEF FilesHeld, SameFiles
  <2> QED
    BY <1>2, <1>3, <2>6, FilesElsewhere
<1>6. CASE Cancel(t)
  <2>1. file' = file /\ spilled' = spilled \cup (IF Kept(t) \cup InFlight(t) # {} THEN {t} ELSE {})
    BY <1>6 DEF Cancel
  <2>2. FilesHeld(t)'
    BY <1>1, <1>2, <2>1 DEF FilesHeld, Kept, InFlight
  <2> QED
    BY <1>2, <1>3, <2>2, FilesElsewhere
<1>7. CASE StartTyping(t)
  <2>1. s.pc = "download" /\ s.kind = "reply"
    <3>1. s = [task[t] EXCEPT !.pc = "download", !.typing = TRUE] /\ task[t].pc = "typing"
      BY <1>0, <1>2, <1>7 DEF StartTyping, Become, Awaits, At, TypeOK
    <3> QED
      BY <1>0, <3>1 DEF SoundTask, Task
  <2>2. FilesHeld(t)'
    BY <1>2, <2>1 DEF FilesHeld, At, GeneratingPc, NewPc
  <2> QED
    BY <1>2, <1>3, <2>2, FilesElsewhere
<1>8. CASE Downloaded(t) \/ LookUp(t)
  <2>1. task[t].pc \in {"download", "lookup"} /\ SameFiles(t) /\ (t \notin spilled => InFlight(t) = {})
    BY <1>0, <1>8 DEF Downloaded, LookUp, Awaits, At, Goes, Moves, SameFiles, FilesHeld
  <2>2. s.kind = task[t].kind /\ s.pc \in {"cleanup", "lookup", "start"}
    <3>1. PICK pc \in {"cleanup", "lookup", "start"} : s = [task[t] EXCEPT !.pc = pc]
      BY <1>0, <1>2, <1>8 DEF Downloaded, LookUp, Goes, Moves, Become, TypeOK
    <3> QED
      BY <1>0, <3>1 DEF SoundTask, Task
  <2>3. FilesHeld(t)'
    BY <1>0, <1>2, <2>1, <2>2, SameFilesHeld DEF FilesHeld, SameFiles, SoundTask, GeneratingPc, ExecPc, NewPc
  <2> QED
    BY <1>2, <1>3, <2>3, FilesElsewhere
<1>9. CASE LookUpFails(t)
  <2>1. /\ file' = file /\ spilled' = spilled \cup (IF Kept(t) # {} THEN {t} ELSE {})
        /\ t \notin spilled => InFlight(t) = {}
    BY <1>0, <1>9 DEF LookUpFails, Awaits, At, FilesHeld
  <2>2. FilesHeld(t)'
    BY <1>1, <1>2, <2>1 DEF FilesHeld, Kept, InFlight
  <2> QED
    BY <1>2, <1>3, <2>2, FilesElsewhere
<1>10. CASE \E i \in Images : Remove(t, i)
  <2>1. PICK i \in Images : Remove(t, i)
    BY <1>10
  <2>2. file' = [file EXCEPT ![t][i] = "none"] /\ spilled \subseteq spilled' /\ task' = task /\ task[t].pc = "cleanup"
    BY <2>1 DEF Remove, Awaits, At
  <2>3. InFlight(t)' \subseteq InFlight(t) /\ Kept(t)' \subseteq Kept(t)
    BY <1>0, <2>2, FileUpdate DEF InFlight, Kept, File
  <2>4. FilesHeld(t)'
    BY <1>0, <2>2, <2>3 DEF FilesHeld, At, NewPc
  <2> QED
    BY <1>2, <1>3, <2>4, FilesElsewhere
<1>11. CASE CleanedUp(t)
  <2>1. /\ task[t].pc = "cleanup" /\ Kept(t) = {} /\ spilled' = spilled
        /\ file' = [file EXCEPT ![t] = [i \in Images |-> IF @[i] = "failed" THEN "none" ELSE @[i]]]
    BY <1>11 DEF CleanedUp, Awaits, At
  <2>2. file'[t] = [i \in Images |-> IF file[t][i] = "failed" THEN "none" ELSE file[t][i]]
    BY <1>0, <2>1 DEF TypeOK
  <2>3. InFlight(t)' = InFlight(t) /\ Kept(t)' = {}
    BY <2>1, <2>2 DEF InFlight, Kept
  <2>4. t \notin spilled => InFlight(t) = {}
    BY <1>0, <2>1 DEF FilesHeld, At
  <2>5. FilesHeld(t)'
    BY <1>1, <1>2, <2>1, <2>3, <2>4 DEF FilesHeld
  <2> QED
    BY <1>2, <1>3, <2>5, FilesElsewhere
<1> QED
  BY <1>4, <1>5, <1>6, <1>7, <1>8, <1>9, <1>10, <1>11 DEF OwnStep, Work

LEMMA SpawnFiles ==
  ASSUME Inv, FilesInv, NEW s \in Requests \cup Tasks,
         \/ s \in Requests /\ RequestSpawns(s)
         \/ s \in Tasks /\ FlushSpawns(s)
  PROVE  FilesInv'
<1>1. SpawnedBy(s) /\ (s \in Tasks => At(s, "handle")) /\ \A t \in Tasks : SameFiles(t)
  BY RuntimeAssumption DEF RequestSpawns, FlushSpawns, Awaits, SameFiles
<1>2. PICK c \in Tasks : At(c, "unborn") /\ \A t \in Tasks \ {c, s} : task'[t] = task[t]
  BY <1>1, SpawnSteps DEF Inv, RuntimeInv, TypeOK
<1>3. \A t \in Tasks \ {c, s} : FilesHeld(t)'
  BY <1>1, <1>2, SameFilesHeld DEF FilesInv, FilesHeld, At, SameFiles
<1>4. ASSUME NEW t \in Tasks \cap {c, s} PROVE FilesHeld(t)'
  <2>1. task[t].pc \in {"unborn", "handle"}
    BY <1>1, <1>2 DEF At
  <2>2. InFlight(t) = {} /\ (t \notin spilled => Kept(t) = {})
    BY <2>1 DEF FilesInv, FilesHeld, NewPc, GeneratingPc, ExecPc
  <2> QED
    BY <1>1, <2>2, SameFilesHeld DEF FilesHeld, SameFiles
<1> QED
  BY <1>3, <1>4 DEF FilesInv

LEMMA NextFiles == Inv /\ FilesInv /\ [Next]_vars => FilesInv'
<1> SUFFICES ASSUME Inv, FilesInv, [Next]_vars PROVE FilesInv'
  OBVIOUS
<1>0. TypeOK /\ SoundTasks
  BY DEF Inv, RuntimeInv
<1>1. ASSUME UNCHANGED <<task, file, spilled>> PROVE FilesInv'
  BY <1>1 DEF FilesInv, FilesHeld, Kept, InFlight, At
<1>2. CASE Exit
  <2>1. ASSUME NEW t \in Tasks PROVE FilesHeld(t)'
    <3>1. \A i \in Images : file'[t][i] =
            IF file[t][i] \in {"queued", "fetching"} THEN "failed" ELSE file[t][i]
      BY <1>2 DEF Exit
    <3>2. InFlight(t)' = {} /\ Kept(t)' = Kept(t)
      BY <3>1 DEF InFlight, Kept
    <3>3. CASE Running(t)
      BY <1>2, <3>2, <3>3 DEF Exit, FilesHeld
    <3>4. CASE ~Running(t)
      <4>1. task'[t] = task[t] /\ (t \notin spilled' => t \notin spilled)
        BY <1>2, <3>4 DEF Exit
      <4> QED
        BY <3>2, <4>1 DEF FilesInv, FilesHeld
    <3> QED
      BY <3>3, <3>4
  <2> QED
    BY <2>1 DEF FilesInv
<1>3. ASSUME NEW r \in Requests, Accept(r) \/ Webhook(r) PROVE FilesInv'
  BY <1>1, <1>3, SpawnFiles DEF Accept, Webhook, RequestTracks, Respond
<1>4. ASSUME NEW t \in Tasks, FlushSpawns(t) PROVE FilesInv'
  BY <1>4, SpawnFiles
<1>5. ASSUME NEW t \in Tasks, FlushTracks(t) PROVE FilesInv'
  <2>1. task[t].pc = "track" /\ Become(t, Ended) /\ \A u \in Tasks : SameFiles(u)
    BY <1>5 DEF FlushTracks, At, SameFiles
  <2>2. task'[t] = Ended /\ \A u \in Tasks \ {t} : task'[u] = task[u]
    BY <1>0, <2>1 DEF Become, TypeOK
  <2>3. InFlight(t) = {} /\ (t \notin spilled => Kept(t) = {})
    BY <2>1 DEF FilesInv, FilesHeld, NewPc, GeneratingPc, ExecPc
  <2>4. FilesHeld(t)'
    BY <2>1, <2>3, SameFilesHeld DEF FilesHeld, SameFiles
  <2> QED
    BY <2>1, <2>2, <2>4, FilesElsewhere
<1>6. ASSUME NEW t \in Tasks, OwnStep(t) PROVE FilesInv'
  BY <1>6, OwnFiles
<1>7. ASSUME NEW t \in Tasks, NEW i \in Images, Download(t, i) PROVE FilesInv'
  <2>1. UNCHANGED <<task, spilled>> /\ InFlight(t) # {}
    BY <1>7 DEF Download, Acquire, Transfer, InFlight, Stays
  <2>2. PICK x \in File : file' = [file EXCEPT ![t][i] = x]
    BY <1>7 DEF Download, Acquire, Transfer, File
  <2>3. \A u \in Tasks \ {t} : file'[u] = file[u]
    BY <1>0, <2>2, FileUpdate
  <2>4. task[t].pc \notin NewPc /\ (t \notin spilled => At(t, "download") /\ task[t].kind = "reply")
    BY <2>1 DEF FilesInv, FilesHeld
  <2>5. FilesHeld(t)'
    BY <2>1, <2>4 DEF FilesHeld, At, GeneratingPc
  <2> QED
    BY <2>1, <2>3, <2>5, FilesElsewhere DEF SameFiles
<1> QED
  BY <1>1, <1>2, <1>3, <1>4, <1>5, <1>6, <1>7 DEF Next, vars, Signal, Shutdown, Flush, OwnStep

LEMMA InitFiles == Init => FilesInv
  BY DEF Init, FilesInv, FilesHeld, Kept, InFlight

(* Every directory that is kept has a job in progress that will remove it,  *)
(* unless the job was aborted, failed in its lookups or could not remove it.*)
THEOREM DirectoriesAreOwned == Spec => []FilesOwned
<1>1. FilesInv => FilesOwned
  BY DEF FilesInv, FilesHeld, FilesOwned
<1> QED
  BY <1>1, InitInv, NextInv, InitFiles, NextFiles, PTL DEF Spec

-----------------------------------------------------------------------------
(* Download slots.                                                          *)

Fetching == {d \in Tasks \X Images : file[d[1]][d[2]] = "fetching"}

LEMMA FetchingFinite == IsFiniteSet(Fetching) /\ IsFiniteSet(Fetching')
<1>1. IsFiniteSet(Images)
  BY FS_Interval, RuntimeAssumption DEF Images
<1>2. IsFiniteSet(Tasks \X Images)
  BY <1>1, FS_Product, RuntimeAssumption
<1>3. Fetching \subseteq Tasks \X Images /\ Fetching' \subseteq Tasks \X Images
  BY DEF Fetching
<1> QED
  BY <1>2, <1>3, FS_Subset

LEMMA SlotsStep ==
  ASSUME SlotsConserved, permits' = permits, Fetching' = Fetching
  PROVE  SlotsConserved'
  BY DEF SlotsConserved, Fetching

(* A step that changes the files in nothing that concerns transfers. *)
LEMMA SameFetching ==
  ASSUME \A t \in Tasks, i \in Images : file'[t][i] = "fetching" <=> file[t][i] = "fetching"
  PROVE  Fetching' = Fetching
  BY DEF Fetching

LEMMA DownloadSlots ==
  ASSUME TypeOK, SlotsConserved, NEW t \in Tasks, NEW i \in Images, Download(t, i)
  PROVE  SlotsConserved'
<1> DEFINE d == <<t, i>>
<1>1. /\ permits + Cardinality(Fetching) = Slots
      /\ SlotsConserved' <=> permits' + Cardinality(Fetching') = Slots
      /\ Slots \in Nat /\ permits \in Nat /\ Cardinality(Fetching) \in Nat
  BY FetchingFinite, FS_CardinalityType, RuntimeAssumption DEF SlotsConserved, Fetching, TypeOK
<1>2. CASE Acquire(t, i)
  <2>1. /\ permits' = permits - 1 /\ file[t][i] = "queued"
        /\ file' = [file EXCEPT ![t][i] = "fetching"]
    BY <1>2 DEF Acquire
  <2>2. /\ file'[t][i] = "fetching"
        /\ \A u \in Tasks, j \in Images : u # t \/ j # i => file'[u][j] = file[u][j]
    BY <2>1, FileUpdate DEF File
  <2>3. Fetching' = Fetching \cup {d} /\ d \notin Fetching
    BY <2>1, <2>2 DEF Fetching
  <2>4. Cardinality(Fetching') = Cardinality(Fetching) + 1
    BY <2>3, FetchingFinite, FS_AddElement
  <2> QED
    BY <1>1, <2>1, <2>4
<1>3. CASE Transfer(t, i)
  <2>1. PICK x \in File : x # "fetching" /\ file' = [file EXCEPT ![t][i] = x]
    BY <1>3 DEF Transfer, File
  <2>2. permits' = permits + 1 /\ file[t][i] = "fetching"
    BY <1>3 DEF Transfer
  <2>3. /\ file'[t][i] = x
        /\ \A u \in Tasks, j \in Images : u # t \/ j # i => file'[u][j] = file[u][j]
    <3>1. file[t] \in [Images -> File]
      BY DEF TypeOK
    <3>2. PICK g \in [Images -> File] : g = [file[t] EXCEPT ![i] = x]
      BY <3>1
    <3>3. file' = [file EXCEPT ![t] = g]
      BY <2>1, <3>2
    <3> QED
      BY <3>1, <3>2, <3>3 DEF TypeOK
  <2>4. Fetching' = Fetching \ {d} /\ d \in Fetching
    BY <2>1, <2>2, <2>3 DEF Fetching
  <2>5. Cardinality(Fetching') = Cardinality(Fetching) - 1
    BY <2>4, FetchingFinite, FS_RemoveElement
  <2> QED
    BY <1>1, <2>2, <2>5
<1> QED
  BY <1>2, <1>3 DEF Download

LEMMA OwnSlots ==
  ASSUME Inv, FilesInv, SlotsConserved, NEW t \in Tasks, OwnStep(t)
  PROVE  SlotsConserved'
<1>0. TypeOK /\ SoundTasks
  BY DEF Inv, RuntimeInv
<1>1. permits' = permits
  BY DEF OwnStep, FlushEnds, Cancel, Work, StartTyping, Deliver, Feed, ChildWorks, Downloaded,
         LookUp, LookUpFails, SpawnChild, Collect, Timeout, Remove, CleanedUp, Goes, Moves, Finished
<1>2. CASE StartTyping(t)
  <2>1. task[t].pc = "typing" /\ InFlight(t) = {}
    BY <1>2 DEF StartTyping, Awaits, At, FilesInv, FilesHeld, NewPc
  <2>2. PICK n : file' = [file EXCEPT ![t] = [i \in Images |-> IF i <= n THEN "queued" ELSE "none"]]
    BY <1>2 DEF StartTyping
  <2>3. \A i \in Images : file[t][i] # "fetching" /\ file'[t][i] # "fetching"
    BY <1>0, <2>1, <2>2 DEF InFlight, TypeOK
  <2>4. \A u \in Tasks \ {t} : file'[u] = file[u]
    BY <1>0, <2>2 DEF TypeOK
  <2> QED
    BY <1>1, <2>3, <2>4, SameFetching, SlotsStep
<1>3. CASE \E i \in Images : Remove(t, i)
  <2>1. PICK i \in Images : file' = [file EXCEPT ![t][i] = "none"] /\ file[t][i] = "kept"
    BY <1>3 DEF Remove, Kept
  <2>2. /\ file'[t][i] = "none"
        /\ \A u \in Tasks, j \in Images : u # t \/ j # i => file'[u][j] = file[u][j]
    BY <1>0, <2>1, FileUpdate DEF File
  <2>3. \A u \in Tasks, j \in Images : file'[u][j] = "fetching" <=> file[u][j] = "fetching"
    BY <2>1, <2>2
  <2> QED
    BY <1>1, <2>3, SameFetching, SlotsStep
<1>4. CASE CleanedUp(t)
  <2>1. file' = [file EXCEPT ![t] = [i \in Images |-> IF @[i] = "failed" THEN "none" ELSE @[i]]]
    BY <1>4 DEF CleanedUp
  <2>2. file'[t] = [i \in Images |-> IF file[t][i] = "failed" THEN "none" ELSE file[t][i]]
    BY <1>0, <2>1 DEF TypeOK
  <2>3. \A u \in Tasks \ {t} : file'[u] = file[u]
    BY <1>0, <2>1 DEF TypeOK
  <2>4. \A u \in Tasks, j \in Images : file'[u][j] = "fetching" <=> file[u][j] = "fetching"
    BY <2>2, <2>3
  <2> QED
    BY <1>1, <2>4, SameFetching, SlotsStep
<1>5. CASE ~StartTyping(t) /\ ~CleanedUp(t) /\ ~\E i \in Images : Remove(t, i)
  <2>1. UNCHANGED file
    BY <1>5
       DEF OwnStep, FlushEnds, Cancel, Work, Deliver, Feed, ChildWorks, Downloaded, Stays, LookUp,
           LookUpFails, SpawnChild, Collect, Timeout, Goes, Moves, Finished
  <2> QED
    BY <1>1, <2>1, SameFetching, SlotsStep
<1> QED
  BY <1>2, <1>3, <1>4, <1>5

LEMMA NextSlots == Inv /\ FilesInv /\ SlotsConserved /\ [Next]_vars => SlotsConserved'
<1> SUFFICES ASSUME Inv, FilesInv, SlotsConserved, [Next]_vars PROVE SlotsConserved'
  OBVIOUS
<1>1. ASSUME UNCHANGED <<permits, file>> PROVE SlotsConserved'
  BY <1>1 DEF SlotsConserved
<1>2. CASE Exit
  <2>1. permits' = Slots /\ \A t \in Tasks, i \in Images : file'[t][i] # "fetching"
    BY <1>2 DEF Exit
  <2>2. Fetching' = {}
    BY <2>1 DEF Fetching
  <2>3. Cardinality(Fetching') = 0
    BY <2>2, FS_EmptySet
  <2> QED
    BY <2>1, <2>3, RuntimeAssumption DEF SlotsConserved, Fetching
<1>3. ASSUME NEW t \in Tasks, OwnStep(t) PROVE SlotsConserved'
  BY <1>3, OwnSlots
<1>4. ASSUME NEW t \in Tasks, NEW i \in Images, Download(t, i) PROVE SlotsConserved'
  BY <1>4, DownloadSlots DEF Inv, RuntimeInv
<1>5. ASSUME NEW r \in Requests, Accept(r) \/ Webhook(r) PROVE SlotsConserved'
  BY <1>1, <1>5 DEF Accept, Webhook, RequestSpawns, RequestTracks, Respond
<1>6. ASSUME NEW t \in Tasks, FlushSpawns(t) \/ FlushTracks(t) PROVE SlotsConserved'
  BY <1>1, <1>6 DEF FlushSpawns, FlushTracks
<1> QED
  BY <1>1, <1>2, <1>3, <1>4, <1>5, <1>6 DEF Next, vars, Signal, Shutdown, Flush, OwnStep

LEMMA InitSlots == Init => SlotsConserved
<1> SUFFICES ASSUME Init PROVE SlotsConserved
  OBVIOUS
<1>1. Fetching = {} /\ permits = Slots
  BY DEF Init, Fetching
<1>2. Cardinality(Fetching) = 0
  BY <1>1, FS_EmptySet
<1> QED
  BY <1>1, <1>2, RuntimeAssumption DEF SlotsConserved, Fetching

(* A slot is given back exactly when its transfer ends, whatever becomes of *)
(* the job that waits for it: at most Slots transfers run, and none of the  *)
(* slots is lost.                                                           *)
THEOREM SlotsAreConserved == Spec => []SlotsConserved
  BY InitInv, NextInv, InitFiles, NextFiles, InitSlots, NextSlots, PTL DEF Spec
=============================================================================
