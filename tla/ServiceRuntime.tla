---------------------------- MODULE ServiceRuntime ----------------------------
(***************************************************************************)
(* The process around the messages: the HTTP server and its shutdown, the   *)
(* scheduler's background tasks and their handles, and what a task holds    *)
(* while it runs: download slots, temporary directories, a codex child      *)
(* process and the typing indicator.                                        *)
(*                                                                          *)
(* A task is spawned once and ends once.  One action is the code between    *)
(* two awaits; aborting a task takes effect at its next await.  What a task *)
(* does to the database is left to the other modules.                       *)
(***************************************************************************)
EXTENDS Integers, FiniteSets

CONSTANTS
  Requests,  \* webhook requests the server works on at one time
  Tasks,     \* bound: the background tasks of a behaviour, spawned in order
  NoTask,
  MaxImages, \* max_media_group_images: a reply job downloads so many at most
  Slots,     \* MAX_CONCURRENT_DOWNLOADS
  Faults     \* which calls may fail

ASSUME RuntimeAssumption ==
  /\ NoTask \notin Tasks
  /\ Tasks \subseteq Nat
  /\ IsFiniteSet(Tasks)
  /\ Requests \cap Tasks = {}
  /\ MaxImages \in Nat
  /\ Slots \in Nat \ {0}
  /\ Faults \subseteq {"download", "lookup", "remove"}

Images == 1 .. MaxImages

VARIABLES
  phase,    \* of the process: see main.rs
  request,  \* request[r]: "idle", "handle", or "track" after a spawn
  task,
  spawned,  \* spawned[s]: the task s has spawned and not yet tracked
  tracked,  \* JobScheduler.tasks: the handles
  aborted,  \* tasks whose abort has been called
  permits,  \* free download slots
  file,     \* file[t][i]: t's download of image i and its directory
  spilled,  \* history: tasks that lost hold of a directory that was kept
  unbound   \* history: tasks that a flush had spawned and not yet tracked when the
            \* scheduler was shut down, and what those have spawned since

vars == <<phase, request, task, spawned, tracked, aborted, permits, file, spilled, unbound>>

(* A flush works on an album that is due; a reply job ends as the refresh   *)
(* of the memory, which is an exec of its own.                              *)
Kind == {"flush", "reply", "memory", "compact"}
ExecPc == {"start", "feed", "wait"}
GeneratingPc == {"download", "lookup", "cleanup"} \cup ExecPc
Pc == {"unborn", "handle", "track", "typing", "deliver", "done"} \cup GeneratingPc

(* The child process, and its --output-last-message file. *)
Child == {"none", "running", "succeeded", "failed"}
Output == {"none", "half", "whole"}

(* reply: what the job took for Codex's reply. *)
Task == [kind : Kind, pc : Pc, child : Child, output : Output,
         reply : Output, typing : BOOLEAN]

File == {"none", "queued", "fetching", "kept", "failed"}

Unborn == [kind |-> "flush", pc |-> "unborn", child |-> "none", output |-> "none",
           reply |-> "none", typing |-> FALSE]

Init ==
  /\ phase = "serving"
  /\ request = [r \in Requests |-> "idle"]
  /\ task = [t \in Tasks |-> Unborn]
  /\ spawned = [s \in Requests \cup Tasks |-> NoTask]
  /\ tracked = {}
  /\ aborted = {}
  /\ permits = Slots
  /\ file = [t \in Tasks |-> [i \in Images |-> "none"]]
  /\ spilled = {}
  /\ unbound = {}

-----------------------------------------------------------------------------

At(t, pc) == task[t].pc = pc

Become(t, state) == task' = [task EXCEPT ![t] = state]

(* The step changes nothing but the task's own state. *)
Moves(t, state) ==
  Become(t, state)
    /\ UNCHANGED <<phase, request, spawned, tracked, aborted, permits, file, spilled, unbound>>

Goes(t, pc) == Moves(t, [task[t] EXCEPT !.pc = pc])

(* A task that is aborted does not go on after the await it is in. *)
Awaits(t, pc) == At(t, pc) /\ t \notin aborted

(* What is left of a task that has ended in whichever way: its child is     *)
(* killed (kill_on_drop), its workspace and its ticker go with their guards.*)
Ended == [Unborn EXCEPT !.pc = "done"]

Running(t) == ~At(t, "unborn") /\ ~At(t, "done")

Kept(t) == {i \in Images : file[t][i] = "kept"}

InFlight(t) == {i \in Images : file[t][i] \in {"queued", "fetching"}}

Stays == UNCHANGED <<phase, request, spawned, tracked, aborted, unbound>>

-----------------------------------------------------------------------------
(* main.rs: axum serves until a signal, lets the requests finish, then the  *)
(* scheduler is shut down, the database closed and the runtime dropped.     *)

Signal ==
  /\ phase = "serving"
  /\ phase' = "draining"
  /\ UNCHANGED <<request, task, spawned, tracked, aborted, permits, file, spilled, unbound>>

(* The tasks whose handles are still in the hands of their spawners. *)
Untracked == {spawned[s] : s \in Requests \cup Tasks} \ {NoTask}

(* Mutant of Shutdown: the tasks are waited for. *)
ShutdownJoins ==
  /\ phase = "draining"
  /\ \A r \in Requests : request[r] = "idle"
  /\ \A t \in tracked : ~Running(t)
  /\ phase' = "closing"
  /\ tracked' = {}
  /\ unbound' = Untracked
  /\ UNCHANGED <<request, task, spawned, aborted, permits, file, spilled>>

(* JobScheduler::shutdown, once the server has returned. *)
Shutdown ==
  /\ phase = "draining"
  /\ \A r \in Requests : request[r] = "idle"
  /\ phase' = "closing"
  /\ aborted' = aborted \cup tracked
  /\ tracked' = {}
  /\ unbound' = Untracked
  /\ UNCHANGED <<request, task, spawned, permits, file, spilled>>

(* A task is cancelled at its next await. Between a spawn and the track     *)
(* that follows it there is none.                                           *)
Cancel(t) ==
  /\ t \in aborted
  /\ Running(t)
  /\ ~At(t, "track")
  /\ Become(t, Ended)
  /\ spilled' = spilled \cup (IF Kept(t) \cup InFlight(t) # {} THEN {t} ELSE {})
  /\ UNCHANGED <<phase, request, spawned, tracked, aborted, permits, file, unbound>>

(* database.close, and the end of run: whatever is left is dropped, and     *)
(* unfinished downloads take their directories with them.                   *)
Exit ==
  /\ phase = "closing"
  /\ phase' = "exited"
  /\ task' = [t \in Tasks |-> IF Running(t) THEN Ended ELSE task[t]]
  /\ spawned' = [s \in Requests \cup Tasks |-> NoTask]
  /\ file' = [t \in Tasks |-> [i \in Images |->
                IF file[t][i] \in {"queued", "fetching"} THEN "failed" ELSE file[t][i]]]
  /\ permits' = Slots
  /\ spilled' = spilled \cup {t \in Tasks : Running(t) /\ Kept(t) # {}}
  /\ UNCHANGED <<request, tracked, aborted, unbound>>

-----------------------------------------------------------------------------
(* JobScheduler: enqueue_reply_generation, schedule_media_group_flush and   *)
(* enqueue_session_compact spawn a task and then track its handle.          *)

SpawnedBy(s) ==
  \E c \in Tasks, kind \in {"flush", "reply", "compact"} :
    /\ At(c, "unborn")
    /\ \A t \in Tasks : At(t, "unborn") => c <= t
    /\ spawned' = [spawned EXCEPT ![s] = c]
    /\ task' = [t \in Tasks |->
         IF t = c THEN [Unborn EXCEPT !.kind = kind,
                          !.pc = CASE kind = "flush" -> "handle"
                                   [] kind = "reply" -> "typing"
                                   [] OTHER -> "start"]
         ELSE IF t = s THEN [task[t] EXCEPT !.pc = "track"]
         ELSE task[t]]
    /\ unbound' = IF s \in unbound THEN unbound \cup {c} ELSE unbound

(* Mutant of TrackedBy: retain keeps the finished handles. *)
TrackedInverted(s) ==
  /\ tracked' = {t \in tracked : ~Running(t)} \cup {spawned[s]}
  /\ spawned' = [spawned EXCEPT ![s] = NoTask]

(* track, under the mutex. *)
TrackedBy(s) ==
  /\ tracked' = {t \in tracked : Running(t)} \cup {spawned[s]}
  /\ spawned' = [spawned EXCEPT ![s] = NoTask]

(* The webhook: what it does before it spawns something, or answers without *)
(* doing so, is UpdatePipeline's and MediaGroupBuffer's business.           *)
Accept(r) ==
  /\ phase = "serving"
  /\ request[r] = "idle"
  /\ request' = [request EXCEPT ![r] = "handle"]
  /\ UNCHANGED <<phase, task, spawned, tracked, aborted, permits, file, spilled, unbound>>

RequestSpawns(r) ==
  /\ request[r] = "handle"
  /\ SpawnedBy(r)
  /\ request' = [request EXCEPT ![r] = "track"]
  /\ UNCHANGED <<phase, tracked, aborted, permits, file, spilled>>

RequestTracks(r) ==
  /\ request[r] = "track"
  /\ TrackedBy(r)
  /\ request' = [request EXCEPT ![r] = "idle"]
  /\ UNCHANGED <<phase, task, aborted, permits, file, spilled, unbound>>

Respond(r) ==
  /\ request[r] = "handle"
  /\ request' = [request EXCEPT ![r] = "idle"]
  /\ UNCHANGED <<phase, task, spawned, tracked, aborted, permits, file, spilled, unbound>>

(* flush_media_group: a pending album is scheduled again, a complete one is *)
(* processed, and anything else ends the flush.                             *)
FlushSpawns(t) ==
  /\ Awaits(t, "handle")
  /\ SpawnedBy(t)
  /\ UNCHANGED <<phase, request, tracked, aborted, permits, file, spilled>>

(* Mutant of FlushTracks: what a flush has spawned is not tracked. *)
FlushForgets(t) ==
  /\ At(t, "track")
  /\ spawned' = [spawned EXCEPT ![t] = NoTask]
  /\ Become(t, Ended)
  /\ UNCHANGED <<phase, request, tracked, aborted, permits, file, spilled, unbound>>

FlushTracks(t) ==
  /\ At(t, "track")
  /\ TrackedBy(t)
  /\ Become(t, Ended)
  /\ UNCHANGED <<phase, request, aborted, permits, file, spilled, unbound>>

FlushEnds(t) ==
  /\ Awaits(t, "handle")
  /\ Moves(t, Ended)

-----------------------------------------------------------------------------
(* generate_reply: the typing indicator, and the downloads, each of which   *)
(* is a task that nobody aborts.                                            *)

StartTyping(t) ==
  /\ Awaits(t, "typing")
  /\ Become(t, [task[t] EXCEPT !.pc = "download", !.typing = TRUE])
  /\ \E n \in 0 .. MaxImages :
       file' = [file EXCEPT ![t] = [i \in Images |-> IF i <= n THEN "queued" ELSE "none"]]
  /\ Stays
  /\ UNCHANGED <<permits, spilled>>

(* Mutant of Acquire: nothing waits for a slot. *)
AcquireUnbounded(t, i) ==
  /\ file[t][i] = "queued"
  /\ permits' = permits - 1
  /\ file' = [file EXCEPT ![t][i] = "fetching"]
  /\ Stays
  /\ UNCHANGED <<task, spilled>>

(* A slot, then download_file_to_temp. *)
Acquire(t, i) ==
  /\ file[t][i] = "queued"
  /\ permits > 0
  /\ permits' = permits - 1
  /\ file' = [file EXCEPT ![t][i] = "fetching"]
  /\ Stays
  /\ UNCHANGED <<task, spilled>>

(* Mutant of Transfer: a failed transfer does not give its slot back. *)
TransferLeaks(t, i) ==
  /\ file[t][i] = "fetching"
  /\ \/ permits' = permits + 1 /\ file' = [file EXCEPT ![t][i] = "kept"]
     \/ UNCHANGED permits /\ file' = [file EXCEPT ![t][i] = "failed"]
  /\ Stays
  /\ UNCHANGED <<task, spilled>>

(* The directory is kept, or goes with its guard. *)
Transfer(t, i) ==
  /\ file[t][i] = "fetching"
  /\ permits' = permits + 1
  /\ file' \in {[file EXCEPT ![t][i] = end] :
                  end \in {"kept"} \cup (IF "download" \in Faults THEN {"failed"} ELSE {})}
  /\ Stays
  /\ UNCHANGED <<task, spilled>>

(* Mutant of Downloaded: the first failure ends the wait. *)
DownloadedHastily(t) ==
  /\ Awaits(t, "download")
  /\ \/ InFlight(t) = {} /\ \A i \in Images : file[t][i] # "failed"
     \/ \E i \in Images : file[t][i] = "failed"
  /\ Goes(t, IF \E i \in Images : file[t][i] = "failed" THEN "cleanup" ELSE "lookup")

(* Every download is waited for, also after a failure; then the complete    *)
(* ones are cleaned up.                                                     *)
Downloaded(t) ==
  /\ Awaits(t, "download")
  /\ InFlight(t) = {}
  /\ Goes(t, IF \E i \in Images : file[t][i] = "failed" THEN "cleanup" ELSE "lookup")

(* find_last_response_id and find_memory_text. An error leaves              *)
(* generate_reply before its cleanup; so does the closed database.          *)
LookUp(t) ==
  /\ Awaits(t, "lookup")
  /\ Goes(t, "start")

LookUpFails(t) ==
  /\ Awaits(t, "lookup")
  /\ "lookup" \in Faults \/ phase = "closing"
  /\ Become(t, Ended)
  /\ spilled' = spilled \cup (IF Kept(t) # {} THEN {t} ELSE {})
  /\ Stays
  /\ UNCHANGED <<permits, file>>

(* AttachmentDownloader::cleanup, one directory per step. A removal that    *)
(* fails is logged. The ticker stops when generate_reply is done.           *)
Remove(t, i) ==
  /\ Awaits(t, "cleanup")
  /\ i \in Kept(t)
  /\ file' = [file EXCEPT ![t][i] = "none"]
  /\ spilled' \in {spilled} \cup (IF "remove" \in Faults THEN {spilled \cup {t}} ELSE {})
  /\ Stays
  /\ UNCHANGED <<task, permits>>

CleanedUp(t) ==
  /\ Awaits(t, "cleanup")
  /\ Kept(t) = {}
  /\ Become(t, IF task[t].reply = "none" THEN Ended
               ELSE [task[t] EXCEPT !.pc = "deliver", !.typing = FALSE])
  /\ file' = [file EXCEPT ![t] = [i \in Images |-> IF @[i] = "failed" THEN "none" ELSE @[i]]]
  /\ Stays
  /\ UNCHANGED <<permits, spilled>>

(* deliver_reply, or the persist and the result of /compact; any of it may  *)
(* fail. A reply to a text goes on to refresh_memory.                       *)
Deliver(t) ==
  /\ Awaits(t, "deliver")
  /\ \/ Moves(t, Ended)
     \/ /\ task[t].kind = "reply"
        /\ Moves(t, [Unborn EXCEPT !.kind = "memory", !.pc = "start"])

-----------------------------------------------------------------------------
(* ExecRunner::run_inner and execute_command. *)

(* How a job goes on after its exec. *)
Finished(t, reply) ==
  LET over == [task[t] EXCEPT !.child = "none", !.output = "none", !.reply = reply] IN
  Moves(t, CASE task[t].kind = "reply" -> [over EXCEPT !.pc = "cleanup"]
             [] task[t].kind = "compact" /\ reply # "none" -> [over EXCEPT !.pc = "deliver"]
             [] OTHER -> Ended)

(* The workspace, the schema file and the spawn of the child; a compaction  *)
(* may find that there is nothing to do.                                    *)
SpawnChild(t) ==
  /\ Awaits(t, "start")
  /\ \/ Moves(t, [task[t] EXCEPT !.pc = "feed", !.child = "running"])
     \/ Finished(t, "none")

(* The prompt fits the pipe or the child reads it: nothing bounds how long  *)
(* this takes. The write fails when the child has closed its input.         *)
Feed(t) ==
  /\ Awaits(t, "feed")
  /\ Goes(t, "wait") \/ Finished(t, "none")

(* codex, outside: it exits with 0 only if its last message is written or   *)
(* there is none.                                                           *)
ChildWorks(t) ==
  /\ task[t].child = "running"
  /\ \/ \E output \in {"half", "whole"} :
          /\ task[t].output = IF output = "half" THEN "none" ELSE "half"
          /\ Moves(t, [task[t] EXCEPT !.output = output])
     \/ Moves(t, [task[t] EXCEPT !.child = "failed"])
     \/ task[t].output # "half" /\ Moves(t, [task[t] EXCEPT !.child = "succeeded"])

(* Mutant of Collect: the exit code is not looked at. *)
CollectAnyway(t) ==
  /\ Awaits(t, "wait")
  /\ task[t].child # "running"
  /\ Finished(t, task[t].output)

(* The child has exited: its file counts if its code is 0. An empty file,   *)
(* or one that does not parse, is an error as well.                         *)
Collect(t) ==
  /\ Awaits(t, "wait")
  /\ task[t].child # "running"
  /\ \/ Finished(t, "none")
     \/ task[t].child = "succeeded" /\ Finished(t, task[t].output)

(* Mutant of Timeout: it does not fire. *)
NoTimeout(t) == FALSE /\ UNCHANGED vars

(* Mutant of Timeout: the child is left to itself. *)
TimeoutDetaches(t) ==
  /\ Awaits(t, "wait")
  /\ Moves(t, [task[t] EXCEPT !.pc = IF task[t].kind = "reply" THEN "cleanup" ELSE "done"])

(* CODEX_EXEC_TIMEOUT_SECONDS, which may race the exit of the child. *)
Timeout(t) ==
  /\ Awaits(t, "wait")
  /\ Finished(t, "none")

-----------------------------------------------------------------------------

Webhook(r) == RequestSpawns(r) \/ RequestTracks(r) \/ Respond(r)

Flush(t) == FlushSpawns(t) \/ FlushTracks(t) \/ FlushEnds(t)

Download(t, i) == Acquire(t, i) \/ Transfer(t, i)

(* The steps of a job that wait for nobody but the runtime, the disk or the *)
(* database.                                                                *)
Work(t) ==
  \/ Downloaded(t) \/ LookUp(t) \/ LookUpFails(t) \/ SpawnChild(t)
  \/ Collect(t) \/ Timeout(t)
  \/ (\E i \in Images : Remove(t, i)) \/ CleanedUp(t)

Next ==
  \/ Signal \/ Shutdown \/ Exit
  \/ \E r \in Requests : Accept(r) \/ Webhook(r)
  \/ \E t \in Tasks :
       \/ Flush(t) \/ Cancel(t) \/ Work(t)
       \/ StartTyping(t) \/ Deliver(t) \/ Feed(t) \/ ChildWorks(t)
       \/ \E i \in Images : Download(t, i)

Spec == Init /\ [][Next]_vars

(* The runtime polls main, the requests and the tasks; a request is assumed *)
(* to get its answers. Transfers, codex and the HTTP calls of a job are not *)
(* forced to end: no timeout of the code bounds them.                       *)
FairSpec ==
  /\ Spec
  /\ WF_vars(Shutdown) /\ WF_vars(Exit)
  /\ \A r \in Requests : WF_vars(Webhook(r))
  /\ \A t \in Tasks : WF_vars(Work(t)) /\ WF_vars(Cancel(t)) /\ WF_vars(Flush(t))

-----------------------------------------------------------------------------
(* Properties. *)

TypeOK ==
  /\ phase \in {"serving", "draining", "closing", "exited"}
  /\ request \in [Requests -> {"idle", "handle", "track"}]
  /\ task \in [Tasks -> Task]
  /\ spawned \in [Requests \cup Tasks -> Tasks \cup {NoTask}]
  /\ tracked \subseteq Tasks
  /\ aborted \subseteq Tasks
  /\ permits \in Nat
  /\ file \in [Tasks -> [Images -> File]]
  /\ spilled \subseteq Tasks
  /\ unbound \subseteq Tasks

(* No slot is lost or used twice, also when the job of a download has been  *)
(* aborted: process wide at most MAX_CONCURRENT_DOWNLOADS transfers run.    *)
SlotsConserved ==
  permits + Cardinality({d \in Tasks \X Images : file[d[1]][d[2]] = "fetching"}) = Slots

(* A directory that a download has kept has a job that will remove it,      *)
(* unless that job was aborted, failed in its lookups or could not remove.  *)
FilesOwned ==
  \A t \in Tasks \ spilled :
    Kept(t) \cup InFlight(t) # {} => task[t].kind = "reply" /\ task[t].pc \in GeneratingPc

(* What is taken for Codex's reply is the whole of it: never the part that  *)
(* a child had written when it failed or was killed.                        *)
NoHalfReplies == \A t \in Tasks : task[t].reply # "half"

(* A child runs only while its job waits for it, and the chat sees "typing" *)
(* only while its reply is being made: every way out of exec and of         *)
(* generate_reply, the abort included, stops them.                          *)
NothingOutlivesItsJob ==
  \A t \in Tasks :
    /\ task[t].child # "none" => task[t].pc \in {"feed", "wait"}
    /\ task[t].typing => task[t].pc \in GeneratingPc

(* After shutdown every task that still runs is about to be cancelled,      *)
(* whoever has spawned it and however long ago, although a handle is        *)
(* tracked only after its task has been spawned, and track drops handles.   *)
(* What escapes is what a flush has spawned and not tracked yet when the    *)
(* handles are drained, and what that task spawns in its turn.              *)
ShutdownReachesAll ==
  phase \in {"closing", "exited"} =>
    \A t \in Tasks \ unbound : Running(t) => t \in aborted

(* No download, child process or job can hold the exit up. *)
ExitIsNotHeldUp == phase = "draining" ~> phase = "exited"

(* Once the prompt is handed over, a child that never ends does not keep    *)
(* the job, nor the downloaded images, for good.                            *)
ExecEnds ==
  \A t \in Tasks : At(t, "wait") ~> (~At(t, "wait") /\ (Kept(t) = {} \/ t \in spilled))

-----------------------------------------------------------------------------
(* What a comment of the code says, and the code does not do. *)

(* telegram_api.rs on download_file_to_temp: "The caller removes the whole  *)
(* directory afterwards": no job leaves one behind, unless it is aborted.   *)
CallerRemovesDirectory ==
  \A t \in Tasks \ aborted : At(t, "done") => Kept(t) = {}
=============================================================================
