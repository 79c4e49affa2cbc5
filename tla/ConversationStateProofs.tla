----------------------- MODULE ConversationStateProofs -----------------------
(***************************************************************************)
(* Theorems about ConversationState, for any set of workers and messages    *)
(* and any window, with failures allowed.                                   *)
(***************************************************************************)
EXTENDS ConversationState, SequenceTheorems, TLAPS

-----------------------------------------------------------------------------
(* Transcripts. *)

LEMMA ToldType == \A turns \in Transcripts : Told(turns) \subseteq Messages
  BY DEF Transcripts, Told

LEMMA EmptyTranscript == <<>> \in Transcripts /\ Len(<<>>) = 0 /\ Told(<<>>) = {}
<1>1. Told(<<>>) = {}
  BY DEF Told
<1> QED
  BY <1>1 DEF Transcripts

(* The window keeps the turn that has just been added. *)
LEMMA ExtendFacts ==
  ASSUME NEW turns \in Transcripts, Len(turns) <= MaxTurns, NEW m \in Messages
  PROVE  /\ Extend(turns, m) \in Transcripts
         /\ Len(Extend(turns, m)) <= MaxTurns
         /\ Told(Extend(turns, m)) \subseteq Told(turns) \cup {m}
         /\ m \in Told(Extend(turns, m))
<1>1. PICK longer : longer = Append(turns, {m})
  OBVIOUS
<1>2. /\ longer \in Transcripts /\ Len(longer) = Len(turns) + 1
      /\ \A i \in 1 .. Len(turns) : longer[i] = turns[i]
      /\ longer[Len(turns) + 1] = {m}
      /\ Len(turns) \in Nat /\ DOMAIN turns = 1 .. Len(turns) /\ DOMAIN longer = 1 .. Len(turns) + 1
  BY <1>1 DEF Transcripts
<1>3. Told(longer) \subseteq Told(turns) \cup {m} /\ m \in Told(longer)
  BY <1>2 DEF Told
<1>4. CASE Len(longer) > MaxTurns
  <2>1. PICK rest : rest = Tail(longer)
    OBVIOUS
  <2>2. /\ rest \in Transcripts /\ Len(rest) = Len(turns) /\ DOMAIN rest = 1 .. Len(turns)
        /\ \A i \in 1 .. Len(turns) : rest[i] = longer[i + 1]
    <3>1. longer \in Seq(SUBSET Messages) /\ longer # <<>>
      BY <1>2 DEF Transcripts
    <3>2. rest \in Seq(SUBSET Messages) /\ Len(rest) = Len(longer) - 1
            /\ \A i \in 1 .. Len(rest) : rest[i] = longer[i + 1]
      BY <2>1, <3>1, HeadTailProperties
    <3>3. Len(rest) = Len(turns)
      BY <1>2, <3>2
    <3>4. DOMAIN rest = 1 .. Len(rest)
      BY <3>2
    <3> QED
      BY <3>2, <3>3, <3>4 DEF Transcripts
  <2>3. Len(turns) = MaxTurns /\ MaxTurns \in Nat \ {0}
    <3>1. \A k, n \in Nat : k <= n /\ k + 1 > n => k = n
      OBVIOUS
    <3>2. MaxTurns \in Nat \ {0}
      BY TranscriptAssumption
    <3> QED
      BY <1>2, <1>4, <3>1, <3>2
  <2>4. Told(rest) \subseteq Told(longer)
    <3>1. \A i \in DOMAIN rest : i + 1 \in DOMAIN longer /\ rest[i] = longer[i + 1]
      BY <1>2, <2>2
    <3> QED
      BY <3>1 DEF Told
  <2>5. rest[Len(turns)] = {m} /\ Len(turns) \in DOMAIN rest
    BY <1>2, <2>2, <2>3
  <2>6. m \in Told(rest)
    BY <2>5 DEF Told
  <2>7. Extend(turns, m) = rest
    BY <1>1, <1>4, <2>1 DEF Extend
  <2> QED
    BY <1>3, <2>2, <2>3, <2>4, <2>6, <2>7
<1>5. CASE ~(Len(longer) > MaxTurns)
  <2>1. Extend(turns, m) = longer
    BY <1>1, <1>5 DEF Extend
  <2>2. Len(longer) <= MaxTurns
    BY <1>2, <1>5, TranscriptAssumption
  <2> QED
    BY <1>2, <1>3, <2>1, <2>2
<1> QED
  BY <1>4, <1>5

LEMMA SummaryFacts ==
  ASSUME NEW turns \in Transcripts
  PROVE  /\ Summary(turns) \in Transcripts
         /\ Len(Summary(turns)) <= MaxTurns
         /\ Told(Summary(turns)) = Told(turns)
<1>1. PICK told \in SUBSET Messages : told = Told(turns)
  BY ToldType
<1>2. Summary(turns) = <<told>>
  BY <1>1 DEF Summary
<1>3. Told(<<told>>) = told
  BY DEF Told
<1>4. <<told>> \in Transcripts /\ Len(<<told>>) = 1
  BY DEF Transcripts
<1> QED
  BY <1>1, <1>2, <1>3, <1>4, TranscriptAssumption

-----------------------------------------------------------------------------
(* The inductive invariant. *)

(* A task's variables: a reply job has its message, which has begun, only a *)
(* reply job generates or writes to the memory, and what it saves tells of  *)
(* its message.                                                             *)
GoodTask(t) ==
  /\ t \in Task
  /\ Len(t.turns) <= MaxTurns
  /\ t.pc # "idle" /\ t.purpose = "reply" => t.msg \in begun
  /\ t.pc \in {"know", "generate", "save"} \cup MemoryPc => t.purpose = "reply"
  /\ t.pc = "save" => t.msg \in Told(t.turns)

(* The replies that are stored are transcripts that end with the message.   *)
GoodStore ==
  /\ stored \in [Messages -> Transcripts \cup {NoReply}]
  /\ \A m \in Messages : stored[m] # NoReply => Len(stored[m]) <= MaxTurns /\ m \in Told(stored[m])

GoodSession == session \in Session \cup {NoSession} /\ Len(Context) <= MaxTurns

GoodHistory ==
  /\ begun \subseteq Messages
  /\ before \in [new : SUBSET Messages, forget : SUBSET Messages]
  /\ held \in [new : SUBSET Messages, forget : SUBSET Messages]
  /\ before.new \cup before.forget \subseteq begun
  /\ drawn \in [Messages -> SUBSET Messages]
  /\ \A m \in Messages \ begun : drawn[m] = {}

GoodRest ==
  /\ memory \subseteq Messages
  /\ now \in Nat \ {0}
  /\ restarts \in {0, 1}

GoodTasks == task \in [Workers -> Task] /\ \A w \in Workers : GoodTask(task[w])

Good == GoodTasks /\ GoodStore /\ GoodSession /\ GoodHistory /\ GoodRest

AskedBy(t) == {t.msg} \ {NoMessage}

(* Where a message can come back into the session, or into the memory, from.*)
InTurns(t, x) == x \in Told(t.turns) \cup AskedBy(t)

Kept(x) ==
  \/ x \in Told(Context)
  \/ \E w \in Workers : InTurns(task[w], x)
  \/ \E m \in Messages : stored[m] # NoReply /\ x \in Told(stored[m])

Remembered(x) ==
  \/ x \in memory
  \/ Kept(x)
  \/ \E m \in Messages : Kept(m) /\ x \in drawn[m]
  \/ \E w \in Workers : x \in task[w].facts

RestartInv == \A x \in before.new : Kept(x) => x \in held.new

ForgetInv == \A x \in before.forget : Remembered(x) => x \in held.forget

Inv == Good /\ RestartInv /\ ForgetInv

LEMMA GoodTypes == Good => TypeOK
  BY DEF Good, GoodTasks, GoodTask, GoodStore, GoodSession, GoodHistory, GoodRest, TypeOK

LEMMA IdleIsGood == GoodTask(Idle) /\ GoodTask(Idle)' /\ Idle.facts = {} /\ \A x : ~InTurns(Idle, x)
<1>1. Told(<<>>) = {} /\ <<>> \in Transcripts /\ Len(<<>>) = 0
  BY EmptyTranscript
<1>2. /\ Idle.pc = "idle" /\ Idle.purpose = "reply" /\ Idle.msg = NoMessage /\ Idle.turns = <<>>
      /\ Idle.facts = {} /\ Idle \in Task
  BY <1>1 DEF Idle, Task, Pc, Purpose
<1>3. GoodTask(Idle) /\ GoodTask(Idle)'
  BY <1>1, <1>2, TranscriptAssumption DEF GoodTask, MemoryPc
<1> QED
  BY <1>1, <1>2, <1>3 DEF InTurns, AskedBy

LEMMA ContextType == GoodSession => Context \in Transcripts
  BY EmptyTranscript DEF GoodSession, Context, Session

LEMMA InitInv == Init => Inv
<1> SUFFICES ASSUME Init PROVE Inv
  OBVIOUS
<1>1. GoodTasks
  BY IdleIsGood DEF Init, GoodTasks, GoodTask
<1>2. GoodStore /\ GoodHistory /\ GoodRest
  BY DEF Init, GoodStore, GoodHistory, GoodRest
<1>3. GoodSession
  BY EmptyTranscript, TranscriptAssumption DEF Init, GoodSession, Context
<1>4. RestartInv /\ ForgetInv
  BY DEF Init, RestartInv, ForgetInv
<1> QED
  BY <1>1, <1>2, <1>3, <1>4 DEF Inv, Good

-----------------------------------------------------------------------------
(* The steps. *)

(* What a step of worker w that makes t of it must not bring back. *)
SafeTask(t) ==
  /\ GoodTask(t)'
  /\ \A x : InTurns(t, x) => Kept(x) \/ x \in Messages \ begun
  /\ \A x \in t.facts : Remembered(x)

Steps(w) == \E t : Become(w, t) /\ SafeTask(t)

SafeStore ==
  /\ GoodStore'
  /\ \A m \in Messages : stored'[m] # NoReply =>
       stored'[m] = stored[m] \/ \A x \in Told(stored'[m]) : Kept(x)

SafeSession == GoodSession' /\ \A x \in Told(Context)' : Kept(x)

SafeMemory == GoodRest' /\ \A x \in memory' : Remembered(x)

SafeDrawn ==
  \A m \in Messages : drawn'[m] = drawn[m] \/ \A x \in drawn'[m] : Remembered(x)

LEMMA SafeStep ==
  ASSUME Inv, NEW w \in Workers, Steps(w), SafeStore, SafeSession, SafeMemory, SafeDrawn,
         GoodHistory', begun \subseteq begun', UNCHANGED <<before, held>>
  PROVE  Inv'
<1>1. PICK t : Become(w, t) /\ SafeTask(t)
  BY DEF Steps
<1>2. /\ task' \in [Workers -> Task] /\ task'[w] = t
      /\ \A v \in Workers \ {w} : task'[v] = task[v]
  BY <1>1 DEF Become, SafeTask, GoodTask, Inv, Good, GoodTasks
<1>3. GoodTasks'
  <2>1. \A v \in Workers \ {w} : GoodTask(task[v])'
    BY <1>2 DEF GoodTask, Inv, Good, GoodTasks
  <2>2. GoodTask(task[w])'
    BY <1>1, <1>2 DEF SafeTask, GoodTask
  <2> QED
    BY <1>2, <2>1, <2>2 DEF GoodTasks
<1>4. \A x : Kept(x)' => Kept(x) \/ x \in Messages \ begun
  <2> SUFFICES ASSUME NEW x, Kept(x)' PROVE Kept(x) \/ x \in Messages \ begun
    OBVIOUS
  <2>1. CASE x \in Told(Context)'
    BY <2>1 DEF SafeSession
  <2>2. CASE \E v \in Workers : InTurns(task'[v], x)
    BY <1>1, <1>2, <2>2 DEF SafeTask, Kept
  <2>3. CASE \E m \in Messages : stored'[m] # NoReply /\ x \in Told(stored'[m])
    BY <2>3 DEF SafeStore, Kept
  <2> QED
    BY <2>1, <2>2, <2>3 DEF Kept
<1>5. \A x \in before.forget : Remembered(x)' => Remembered(x)
  <2> SUFFICES ASSUME NEW x \in before.forget, Remembered(x)' PROVE Remembered(x)
    OBVIOUS
  <2>1. before.forget \subseteq begun
    BY DEF Inv, Good, GoodHistory
  <2>2. CASE x \in memory'
    BY <2>2 DEF SafeMemory
  <2>3. CASE Kept(x)'
    BY <1>4, <2>1, <2>3 DEF Remembered
  <2>4. ASSUME NEW m \in Messages, Kept(m)', x \in drawn'[m] PROVE Remembered(x)
    <3>1. m \in Messages \ begun => drawn[m] = {}
      BY DEF Inv, Good, GoodHistory
    <3> QED
      BY <1>4, <2>4, <3>1 DEF SafeDrawn, Remembered
  <2>5. ASSUME NEW v \in Workers, x \in task'[v].facts PROVE Remembered(x)
    BY <1>1, <1>2, <2>5 DEF SafeTask, Remembered
  <2> QED
    BY <2>2, <2>3, <2>4, <2>5 DEF Remembered
<1>6. RestartInv'
  BY <1>4 DEF Inv, Good, GoodHistory, RestartInv
<1>7. ForgetInv'
  BY <1>5 DEF Inv, ForgetInv
<1> QED
  BY <1>3, <1>6, <1>7 DEF Inv, Good, SafeStore, SafeSession, SafeMemory

LEMMA Quiet ==
  /\ Inv /\ UNCHANGED stored => SafeStore
  /\ Inv /\ UNCHANGED session => SafeSession
  /\ Inv /\ UNCHANGED <<memory, now, restarts>> => SafeMemory
  /\ Inv /\ UNCHANGED <<drawn, begun, before, held>> => GoodHistory' /\ SafeDrawn
<1>1. Inv /\ UNCHANGED stored => SafeStore
  BY DEF Inv, Good, GoodStore, SafeStore
<1>2. Inv /\ UNCHANGED session => SafeSession
  BY DEF Inv, Good, GoodSession, SafeSession, Kept, Context
<1>3. Inv /\ UNCHANGED <<memory, now, restarts>> => SafeMemory
  BY DEF Inv, Good, GoodRest, SafeMemory, Remembered
<1>4. Inv /\ UNCHANGED <<drawn, begun, before, held>> => GoodHistory' /\ SafeDrawn
  BY DEF Inv, Good, GoodHistory, SafeDrawn
<1> QED
  BY <1>1, <1>2, <1>3, <1>4

LEMMA IdleStep ==
  ASSUME Inv, NEW w \in Workers, Become(w, Idle)
  PROVE  Steps(w)
  BY IdleIsGood DEF Steps, SafeTask

(* A task that goes on with the same variables, to a point that asks no     *)
(* more of them.                                                            *)
LEMMA GotoStep ==
  ASSUME Inv, NEW w \in Workers, NEW pc \in Pc, Goto(w, pc), ~At(w, "idle"),
         pc \in {"know", "generate", "save"} \cup MemoryPc => task[w].purpose = "reply",
         pc # "save", UNCHANGED begun
  PROVE  Steps(w)
<1>1. PICK t : t = [task[w] EXCEPT !.pc = pc]
  OBVIOUS
<1>2. GoodTask(task[w]) /\ task[w] \in Task
  BY DEF Inv, Good, GoodTasks, GoodTask
<1>3. /\ t \in Task /\ t.pc = pc /\ t.purpose = task[w].purpose /\ t.msg = task[w].msg
      /\ t.turns = task[w].turns /\ t.facts = task[w].facts
  BY <1>1, <1>2 DEF Task
<1>4. GoodTask(t)'
  BY <1>2, <1>3 DEF GoodTask, At
<1>5. \A x : InTurns(t, x) => Kept(x)
  BY <1>3 DEF InTurns, AskedBy, Kept
<1>6. \A x \in t.facts : Remembered(x)
  BY <1>3 DEF Remembered
<1>7. Become(w, t)
  BY <1>1 DEF Goto
<1> QED
  BY <1>4, <1>5, <1>6, <1>7 DEF Steps, SafeTask

(* A task whose transcript becomes turns. *)
LEMMA TurnsStep ==
  ASSUME Inv, NEW w \in Workers, NEW pc \in Pc, NEW turns \in Transcripts,
         Become(w, [task[w] EXCEPT !.pc = pc, !.turns = turns]), ~At(w, "idle"),
         Len(turns) <= MaxTurns,
         \A x \in Told(turns) : Kept(x),
         pc \in {"know", "generate", "save"} \cup MemoryPc => task[w].purpose = "reply",
         pc = "save" => task[w].msg \in Told(turns), UNCHANGED begun
  PROVE  Steps(w)
<1>1. PICK t : t = [task[w] EXCEPT !.pc = pc, !.turns = turns]
  OBVIOUS
<1>2. GoodTask(task[w]) /\ task[w] \in Task
  BY DEF Inv, Good, GoodTasks, GoodTask
<1>3. /\ t \in Task /\ t.pc = pc /\ t.purpose = task[w].purpose /\ t.msg = task[w].msg
      /\ t.turns = turns /\ t.facts = task[w].facts
  BY <1>1, <1>2 DEF Task
<1>4. GoodTask(t)'
  BY <1>2, <1>3 DEF GoodTask, At
<1>5. \A x : InTurns(t, x) => Kept(x)
  BY <1>3 DEF InTurns, AskedBy, Kept
<1>6. \A x \in t.facts : Remembered(x)
  BY <1>3 DEF Remembered
<1> QED
  BY <1>1, <1>4, <1>5, <1>6 DEF Steps, SafeTask

(* A task whose facts become facts. *)
LEMMA FactsStep ==
  ASSUME Inv, NEW w \in Workers, NEW pc \in {"generate"} \cup MemoryPc,
         NEW facts \in SUBSET Messages, UNCHANGED begun,
         Become(w, [task[w] EXCEPT !.pc = pc, !.facts = facts]), ~At(w, "idle"),
         \A x \in facts : Remembered(x),
         task[w].purpose = "reply"
  PROVE  Steps(w)
<1>1. PICK t : t = [task[w] EXCEPT !.pc = pc, !.facts = facts]
  OBVIOUS
<1>2. GoodTask(task[w]) /\ task[w] \in Task
  BY DEF Inv, Good, GoodTasks, GoodTask
<1>3. /\ t \in Task /\ t.pc = pc /\ t.purpose = task[w].purpose /\ t.msg = task[w].msg
      /\ t.turns = task[w].turns /\ t.facts = facts
  BY <1>1, <1>2 DEF Task, Pc, WritingPc, MemoryPc
<1>4. GoodTask(t)'
  BY <1>2, <1>3 DEF GoodTask, At, MemoryPc
<1>5. \A x : InTurns(t, x) => Kept(x)
  BY <1>3 DEF InTurns, AskedBy, Kept
<1>6. \A x \in t.facts : Remembered(x)
  BY <1>3 DEF Remembered
<1> QED
  BY <1>1, <1>4, <1>5, <1>6 DEF Steps, SafeTask

(* find_active has returned turns. *)
LEMMA FoundStep ==
  ASSUME Inv, NEW w \in Workers, NEW turns \in Transcripts, Len(turns) <= MaxTurns,
         \A x \in Told(turns) : Kept(x), ~At(w, "idle"), Found(w, turns), UNCHANGED begun
  PROVE  Steps(w)
<1>1. CASE task[w].purpose = "reply" /\ Become(w, [task[w] EXCEPT !.pc = "know", !.turns = turns])
  BY <1>1, TurnsStep DEF Pc, WritingPc
<1>2. CASE Become(w, Idle)
  BY <1>2, IdleStep
<1>3. CASE task[w].purpose = "offer" /\ Become(w, [task[w] EXCEPT !.pc = "find", !.purpose = "compact"])
  <2>1. PICK t : t = [task[w] EXCEPT !.pc = "find", !.purpose = "compact"]
    OBVIOUS
  <2>2. GoodTask(task[w]) /\ task[w] \in Task
    BY DEF Inv, Good, GoodTasks, GoodTask
  <2>3. /\ t \in Task /\ t.pc = "find" /\ t.purpose = "compact" /\ t.msg = task[w].msg
        /\ t.turns = task[w].turns /\ t.facts = task[w].facts
    BY <2>1, <2>2 DEF Task, Pc, Purpose
  <2>4. GoodTask(t)'
    BY <2>2, <2>3 DEF GoodTask, MemoryPc
  <2>5. \A x : InTurns(t, x) => Kept(x)
    BY <2>3 DEF InTurns, AskedBy, Kept
  <2>6. \A x \in t.facts : Remembered(x)
    BY <2>3 DEF Remembered
  <2> QED
    BY <1>3, <2>1, <2>4, <2>5, <2>6 DEF Steps, SafeTask
<1>4. CASE task[w].purpose = "compact" /\ Become(w, [task[w] EXCEPT !.pc = "summarise", !.turns = turns])
  BY <1>4, TurnsStep DEF Pc, WritingPc, MemoryPc
<1> QED
  BY <1>1, <1>2, <1>3, <1>4 DEF Found

(* persist: what the session now tells of, the task had in hand. *)
LEMMA PersistedIsSafe ==
  ASSUME Inv, NEW w \in Workers, Persisted(task[w].turns)
  PROVE  SafeSession
<1>1. GoodTask(task[w]) /\ task[w].turns \in Transcripts /\ now \in Nat
  BY DEF Inv, Good, GoodTasks, GoodTask, GoodRest, Task
<1>2. PICK row \in Session : row = [turns |-> task[w].turns, at |-> now]
  BY <1>1 DEF Session
<1>3. session' = row /\ row.turns = task[w].turns /\ row # NoSession
  BY <1>2, ConversationStateAssumption DEF Persisted
<1>4. Context' = task[w].turns
  BY <1>3 DEF Context
<1>5. \A x \in Told(task[w].turns) : Kept(x)
  BY DEF Kept, InTurns
<1> QED
  BY <1>1, <1>2, <1>3, <1>4, <1>5 DEF SafeSession, GoodSession, GoodTask

LEMMA DroppedIsSafe ==
  ASSUME session' = NoSession
  PROVE  SafeSession
  BY EmptyTranscript, TranscriptAssumption DEF SafeSession, GoodSession, Context

LEMMA HeldTurnsType == Inv => HeldTurns \subseteq Messages
<1> SUFFICES ASSUME Inv PROVE HeldTurns \subseteq Messages
  OBVIOUS
<1>1. \A v \in Workers : Told(task[v].turns) \cup Asked(v) \subseteq Messages
  BY ToldType DEF Inv, Good, GoodTasks, Task, Asked
<1>2. \A m \in Messages : stored[m] # NoReply => Told(stored[m]) \subseteq Messages
  BY ToldType DEF Inv, Good, GoodStore
<1> QED
  BY <1>1, <1>2 DEF HeldTurns

LEMMA StartSafe ==
  ASSUME Inv, NEW w \in Workers, Start(w)
  PROVE  Inv'
<1>1. CASE Say(w)
  <2>1. PICK m \in Messages \ begun :
          /\ begun' = begun \cup {m}
          /\ Become(w, [Idle EXCEPT !.pc = "find", !.msg = m])
    BY <1>1 DEF Say
  <2>2. PICK t : t = [Idle EXCEPT !.pc = "find", !.msg = m]
    OBVIOUS
  <2>3. /\ t \in Task /\ t.pc = "find" /\ t.purpose = "reply" /\ t.msg = m
        /\ t.turns = <<>> /\ t.facts = {}
    BY <2>2, EmptyTranscript DEF Idle, Task, Pc, Purpose
  <2>4. GoodTask(t)'
    BY <2>1, <2>3, EmptyTranscript, TranscriptAssumption DEF GoodTask, MemoryPc
  <2>5. \A x : InTurns(t, x) => x = m
    BY <2>3, EmptyTranscript DEF InTurns, AskedBy
  <2>6. SafeTask(t)
    BY <2>1, <2>3, <2>4, <2>5 DEF SafeTask
  <2>7. Steps(w)
    BY <2>1, <2>2, <2>6 DEF Steps
  <2>8. GoodHistory' /\ SafeDrawn
    BY <1>1, <2>1 DEF Say, Inv, Good, GoodHistory, SafeDrawn
  <2> QED
    BY <1>1, <2>7, <2>8, Quiet, SafeStep DEF Say
<1>2. CASE Replay(w)
  <2>1. PICK m \in Messages :
          /\ stored[m] # NoReply
          /\ Become(w, [Idle EXCEPT !.pc = "resend", !.purpose = "replay", !.msg = m, !.turns = stored[m]])
    BY <1>2 DEF Replay
  <2>2. PICK t : t = [Idle EXCEPT !.pc = "resend", !.purpose = "replay", !.msg = m, !.turns = stored[m]]
    OBVIOUS
  <2>3. stored[m] \in Transcripts /\ Len(stored[m]) <= MaxTurns /\ m \in Told(stored[m])
    BY <2>1 DEF Inv, Good, GoodStore
  <2>4. /\ t \in Task /\ t.pc = "resend" /\ t.purpose = "replay" /\ t.msg = m
        /\ t.turns = stored[m] /\ t.facts = {}
    BY <2>2, <2>3 DEF Idle, Task, Pc, Purpose
  <2>5. GoodTask(t)'
    BY <2>3, <2>4 DEF GoodTask, MemoryPc
  <2>6. \A x : InTurns(t, x) => Kept(x)
    BY <2>1, <2>3, <2>4 DEF InTurns, AskedBy, Kept
  <2>7. Steps(w)
    BY <2>1, <2>2, <2>4, <2>5, <2>6 DEF Steps, SafeTask
  <2> QED
    BY <1>2, <2>7, Quiet, SafeStep DEF Replay
<1>3. CASE Restart(w)
  <2>1. /\ session' = NoSession /\ restarts' = 1 - restarts
        /\ before' = [before EXCEPT !.new = begun]
        /\ held' = [held EXCEPT !.new = HeldTurns]
        /\ UNCHANGED <<memory, stored, drawn, task, now, begun>>
    BY <1>3 DEF Restart
  <2>2. GoodSession' /\ Context' = <<>>
    BY <2>1, DroppedIsSafe DEF SafeSession, Context
  <2>3. \A x : Kept(x)' => x \in HeldTurns
    BY <2>1, <2>2, EmptyTranscript DEF Kept, InTurns, AskedBy, HeldTurns, Asked
  <2>4. HeldTurns \subseteq Messages
    BY HeldTurnsType
  <2>5. /\ before'.new = begun /\ before'.forget = before.forget
        /\ held'.new = HeldTurns /\ held'.forget = held.forget
    BY <2>1 DEF Inv, Good, GoodHistory
  <2>6. GoodHistory'
    BY <2>1, <2>4, <2>5 DEF Inv, Good, GoodHistory
  <2>7. GoodTasks' /\ GoodStore' /\ GoodRest'
    BY <2>1 DEF Inv, Good, GoodTasks, GoodTask, GoodStore, GoodRest
  <2>8. RestartInv'
    BY <2>1, <2>3, <2>5 DEF RestartInv
  <2>9. \A x : Kept(x)' => Kept(x)
    BY <2>1, <2>2, EmptyTranscript DEF Kept
  <2>10. ForgetInv'
    BY <2>1, <2>5, <2>9 DEF Inv, ForgetInv, Remembered
  <2> QED
    BY <2>2, <2>6, <2>7, <2>8, <2>10 DEF Inv, Good
<1>4. CASE Forget(w)
  <2>1. /\ memory' = {}
        /\ before' = [before EXCEPT !.forget = begun]
        /\ held' = [held EXCEPT !.forget = HeldFacts]
        /\ UNCHANGED <<session, stored, drawn, task, now, restarts, begun>>
    BY <1>4 DEF Forget
  <2>2. \A x : Remembered(x)' => x \in HeldFacts
    <3>1. \A x : Kept(x)' <=> x \in Told(Context) \cup HeldTurns
      BY <2>1 DEF Kept, InTurns, AskedBy, HeldTurns, Asked, Context
    <3> QED
      BY <2>1, <3>1 DEF Remembered, HeldFacts, Said
  <2>3. HeldFacts \subseteq Messages
    <3>1. Told(Context) \cup HeldTurns \subseteq Messages
      BY HeldTurnsType, ContextType, ToldType DEF Inv, Good
    <3>2. \A v \in Workers : task[v].facts \subseteq Messages
      BY DEF Inv, Good, GoodTasks, Task
    <3>3. \A m \in Messages : drawn[m] \subseteq Messages
      BY DEF Inv, Good, GoodHistory
    <3> QED
      BY <3>1, <3>2, <3>3 DEF HeldFacts, Said
  <2>4. /\ before'.forget = begun /\ before'.new = before.new
        /\ held'.forget = HeldFacts /\ held'.new = held.new
    BY <2>1 DEF Inv, Good, GoodHistory
  <2>5. GoodHistory'
    BY <2>1, <2>3, <2>4 DEF Inv, Good, GoodHistory
  <2>6. GoodTasks' /\ GoodStore' /\ GoodRest' /\ GoodSession'
    BY <2>1 DEF Inv, Good, GoodTasks, GoodTask, GoodStore, GoodRest, GoodSession, Context
  <2>7. RestartInv' /\ ForgetInv'
    BY <2>1, <2>2, <2>4 DEF Inv, RestartInv, ForgetInv, Kept, Context
  <2> QED
    BY <2>5, <2>6, <2>7 DEF Inv, Good
<1>5. CASE Ask(w)
  <2>1. PICK purpose \in {"show", "offer"} : Become(w, [Idle EXCEPT !.pc = "find", !.purpose = purpose])
    BY <1>5 DEF Ask
  <2>2. PICK t : t = [Idle EXCEPT !.pc = "find", !.purpose = purpose]
    OBVIOUS
  <2>3. /\ t \in Task /\ t.pc = "find" /\ t.purpose = purpose /\ t.msg = NoMessage
        /\ t.turns = <<>> /\ t.facts = {}
    BY <2>2, EmptyTranscript DEF Idle, Task, Pc, Purpose
  <2>4. GoodTask(t)'
    BY <2>3, EmptyTranscript, TranscriptAssumption DEF GoodTask, MemoryPc
  <2>5. \A x : ~InTurns(t, x)
    BY <2>3, EmptyTranscript DEF InTurns, AskedBy
  <2>6. Steps(w)
    BY <2>1, <2>2, <2>3, <2>4, <2>5 DEF Steps, SafeTask
  <2> QED
    BY <1>5, <2>6, Quiet, SafeStep DEF Ask
<1> QED
  BY <1>1, <1>2, <1>3, <1>4, <1>5 DEF Start

LEMMA LookupSafe ==
  ASSUME Inv, NEW w \in Workers, Lookup(w)
  PROVE  Inv'
<1>1. CASE Find(w)
  <2>1. ~At(w, "idle")
    BY <1>1 DEF Find, At
  <2>2. Context \in Transcripts /\ Len(Context) <= MaxTurns /\ \A x \in Told(Context) : Kept(x)
    BY ContextType DEF Inv, Good, GoodSession, Kept
  <2>3. Goto(w, "drop") \/ Found(w, Context)
    BY <1>1 DEF Find
  <2>4. Steps(w)
    BY <1>1, <2>1, <2>2, <2>3, FoundStep, GotoStep DEF Find, Pc, MemoryPc
  <2> QED
    BY <1>1, <2>4, Quiet, SafeStep DEF Find
<1>2. CASE Drop(w)
  <2>1. ~At(w, "idle") /\ Found(w, <<>>) /\ session' = NoSession
    BY <1>2 DEF Drop, At
  <2>2. Steps(w)
    BY <1>2, <2>1, EmptyTranscript, TranscriptAssumption, FoundStep DEF Drop
  <2> QED
    BY <1>2, <2>1, <2>2, DroppedIsSafe, Quiet, SafeStep DEF Drop
<1> QED
  BY <1>1, <1>2 DEF Lookup

LEMMA DeliverSafe ==
  ASSUME Inv, NEW w \in Workers, Deliver(w)
  PROVE  Inv'
<1>0. GoodTask(task[w]) /\ task[w] \in Task /\ GoodStore
  BY DEF Inv, Good, GoodTasks, GoodTask
<1>6. CASE Know(w)
  <2>1. memory \in SUBSET Messages /\ \A x \in memory : Remembered(x)
    BY DEF Inv, Good, GoodRest, Remembered
  <2>2. task[w].pc = "know" /\ task[w].purpose = "reply"
    BY <1>0, <1>6 DEF Know, At, GoodTask
  <2>3. Become(w, [task[w] EXCEPT !.pc = "generate", !.facts = memory]) /\ UNCHANGED begun
    BY <1>6 DEF Know
  <2>4. Steps(w)
    BY <2>1, <2>2, <2>3, FactsStep DEF At
  <2> QED
    BY <1>6, <2>4, Quiet, SafeStep DEF Know
<1>1. CASE Generate(w)
  <2>1. /\ task[w].pc = "generate" /\ task[w].purpose = "reply" /\ task[w].msg \in Messages \cap begun
        /\ task[w].turns \in Transcripts /\ Len(task[w].turns) <= MaxTurns
    BY <1>0, <1>1 DEF Generate, At, GoodTask, Task, Inv, Good, GoodHistory
  <2>2. PICK turns : turns = Extend(task[w].turns, task[w].msg)
    OBVIOUS
  <2>3. /\ turns \in Transcripts /\ Len(turns) <= MaxTurns
        /\ Told(turns) \subseteq Told(task[w].turns) \cup {task[w].msg} /\ task[w].msg \in Told(turns)
    BY <2>1, <2>2, ExtendFacts
  <2>4. \A x \in Told(turns) : Kept(x)
    BY <2>1, <2>3, ConversationStateAssumption DEF Kept, InTurns, AskedBy
  <2>5. Become(w, [task[w] EXCEPT !.pc = "save", !.turns = turns])
    BY <1>0, <1>1, <2>2 DEF Generate, Task
  <2>6. Steps(w)
    BY <1>1, <2>1, <2>3, <2>4, <2>5, TurnsStep DEF Generate, Pc, WritingPc, DeliveryPc, At
  <2>7. PICK texts : texts = Said(Told(task[w].turns)) \cup task[w].facts
    OBVIOUS
  <2>8. drawn' = [drawn EXCEPT ![task[w].msg] = texts]
    BY <1>1, <2>7 DEF Generate
  <2>9. \A x \in texts : Remembered(x)
    <3>1. \A m \in Told(task[w].turns) : Kept(m) /\ m \in Messages
      BY <2>1, ToldType DEF Kept, InTurns
    <3> QED
      BY <2>7, <3>1 DEF Said, Remembered
  <2>10. texts \subseteq Messages
    <3>1. \A m \in Told(task[w].turns) : m \in Messages /\ drawn[m] \subseteq Messages
      BY <2>1, ToldType DEF Inv, Good, GoodHistory
    <3>2. task[w].facts \subseteq Messages
      BY <1>0 DEF Task
    <3> QED
      BY <2>7, <3>1, <3>2 DEF Said
  <2>11. SafeDrawn
    BY <2>1, <2>8, <2>9 DEF SafeDrawn, Inv, Good, GoodHistory
  <2>12. GoodHistory'
    BY <1>1, <2>1, <2>8, <2>10 DEF Generate, Inv, Good, GoodHistory
  <2> QED
    BY <1>1, <2>6, <2>11, <2>12, Quiet, SafeStep DEF Generate
<1>2. CASE Save(w)
  <2>1. /\ task[w].pc = "save" /\ task[w].msg \in Messages /\ task[w].msg \in Told(task[w].turns)
        /\ task[w].turns \in Transcripts /\ Len(task[w].turns) <= MaxTurns
    BY <1>0, <1>2 DEF Save, At, GoodTask, Task, Inv, Good, GoodHistory
  <2>2. stored' = [stored EXCEPT ![task[w].msg] = task[w].turns]
    BY <1>2 DEF Save
  <2>3. GoodStore'
    BY <1>0, <2>1, <2>2 DEF GoodStore
  <2>4. \A x \in Told(task[w].turns) : Kept(x)
    BY DEF Kept, InTurns
  <2>5. SafeStore
    BY <1>0, <2>2, <2>3, <2>4 DEF SafeStore, GoodStore
  <2>6. Steps(w)
    BY <1>2, <2>1, GotoStep DEF Save, Pc, WritingPc, DeliveryPc, At, MemoryPc
  <2> QED
    BY <1>2, <2>5, <2>6, Quiet, SafeStep DEF Save
<1>3. CASE Send(w)
  <2>1. Steps(w)
    BY <1>3, GotoStep DEF Send, Goto, Pc, WritingPc, DeliveryPc, At, MemoryPc
  <2> QED
    BY <1>3, <2>1, Quiet, SafeStep DEF Send
<1>4. CASE Persist(w)
  <2>1. SafeSession
    BY <1>4, PersistedIsSafe DEF Persist
  <2>2. Steps(w)
    BY <1>4, GotoStep DEF Persist, Pc, At, MemoryPc
  <2> QED
    BY <1>4, <2>1, <2>2, Quiet, SafeStep DEF Persist
<1>5. CASE Mark(w)
  <2>1. stored' = [stored EXCEPT ![task[w].msg] = NoReply] /\ Become(w, Idle)
    BY <1>5 DEF Mark
  <2>2. SafeStore
    BY <1>0, <2>1 DEF SafeStore, GoodStore
  <2> QED
    BY <1>5, <2>1, <2>2, IdleStep, Quiet, SafeStep DEF Mark
<1> QED
  BY <1>1, <1>2, <1>3, <1>4, <1>5, <1>6 DEF Deliver

LEMMA RefreshSafe ==
  ASSUME Inv, NEW w \in Workers, Refresh(w)
  PROVE  Inv'
<1>0. /\ GoodTask(task[w]) /\ task[w] \in Task /\ memory \subseteq Messages
      /\ now \in Nat \ {0} /\ restarts \in {0, 1}
  BY DEF Inv, Good, GoodTasks, GoodTask, GoodRest
<1>1. /\ task[w].pc \in MemoryPc /\ task[w].purpose = "reply" /\ task[w].msg \in Messages
      /\ task[w].facts \subseteq Messages /\ task[w].pc # "idle"
  BY <1>0 DEF Refresh, Recall, Merge, Remember, GiveMemoryUp, At, MemoryPc, GoodTask, Task,
              Inv, Good, GoodHistory
<1>2. \A x \in task[w].facts \cup Said({task[w].msg}) : Remembered(x) /\ x \in Messages
  <2>1. Kept(task[w].msg)
    BY <1>1, ConversationStateAssumption DEF Kept, InTurns, AskedBy
  <2>2. drawn[task[w].msg] \subseteq Messages
    BY <1>1 DEF Inv, Good, GoodHistory
  <2> QED
    BY <1>1, <2>1, <2>2 DEF Remembered, Said
<1>3. CASE Recall(w)
  <2>1. Steps(w)
    BY <1>0, <1>1, <1>3, FactsStep DEF Recall, MemoryPc, At, Remembered
  <2> QED
    BY <1>3, <2>1, Quiet, SafeStep DEF Recall
<1>4. CASE Merge(w)
  <2>1. PICK merged \in SUBSET (task[w].facts \cup Said({task[w].msg})) :
           Become(w, IF merged = task[w].facts
                       THEN [task[w] EXCEPT !.pc = "mark"]
                       ELSE [task[w] EXCEPT !.pc = "remember", !.facts = merged])
    BY <1>4 DEF Merge
  <2>2. CASE merged = task[w].facts
    <3>1. Goto(w, "mark")
      BY <2>1, <2>2 DEF Goto
    <3> QED
      BY <1>1, <1>4, <3>1, GotoStep, Quiet, SafeStep DEF Merge, Pc, At, MemoryPc
  <2>3. CASE merged # task[w].facts
    <3>1. Become(w, [task[w] EXCEPT !.pc = "remember", !.facts = merged])
      BY <2>1, <2>3
    <3>2. merged \in SUBSET Messages /\ \A x \in merged : Remembered(x)
      BY <1>1, <1>2
    <3>3. Steps(w)
      BY <1>1, <1>4, <3>1, <3>2, FactsStep DEF Merge, MemoryPc, At
    <3> QED
      BY <1>4, <3>3, Quiet, SafeStep DEF Merge
  <2> QED
    BY <2>2, <2>3
<1>5. CASE Remember(w)
  <2>1. SafeMemory
    BY <1>0, <1>1, <1>2, <1>5 DEF Remember, SafeMemory, GoodRest
  <2>2. Steps(w)
    BY <1>1, <1>5, GotoStep DEF Remember, Pc, At, MemoryPc
  <2> QED
    BY <1>5, <2>1, <2>2, Quiet, SafeStep DEF Remember
<1>6. CASE GiveMemoryUp(w)
  <2>1. Steps(w)
    BY <1>1, <1>6, GotoStep DEF GiveMemoryUp, Pc, At, MemoryPc
  <2> QED
    BY <1>6, <2>1, Quiet, SafeStep DEF GiveMemoryUp
<1> QED
  BY <1>3, <1>4, <1>5, <1>6 DEF Refresh

LEMMA CompactionSafe ==
  ASSUME Inv, NEW w \in Workers, Compaction(w)
  PROVE  Inv'
<1>0. GoodTask(task[w]) /\ task[w] \in Task /\ task[w].turns \in Transcripts
  BY DEF Inv, Good, GoodTasks, GoodTask, Task
<1>1. CASE Summarise(w)
  <2>1. PICK turns : turns = Summary(task[w].turns)
    OBVIOUS
  <2>2. turns \in Transcripts /\ Len(turns) <= MaxTurns /\ Told(turns) = Told(task[w].turns)
    BY <1>0, <2>1, SummaryFacts
  <2>3. \A x \in Told(turns) : Kept(x)
    BY <2>2 DEF Kept, InTurns
  <2>4. Become(w, [task[w] EXCEPT !.pc = "persistSummary", !.turns = turns]) /\ task[w].pc = "summarise"
    BY <1>0, <1>1, <2>1 DEF Summarise, Task, At
  <2>5. Steps(w)
    BY <1>1, <2>2, <2>3, <2>4, TurnsStep DEF Summarise, Pc, WritingPc, At, MemoryPc
  <2> QED
    BY <1>1, <2>5, Quiet, SafeStep DEF Summarise
<1>2. CASE PersistSummary(w)
  <2>1. SafeSession
    BY <1>2, PersistedIsSafe DEF PersistSummary
  <2> QED
    BY <1>2, <2>1, IdleStep, Quiet, SafeStep DEF PersistSummary
<1> QED
  BY <1>1, <1>2 DEF Compaction

LEMMA NextInv == Inv /\ [Next]_vars => Inv'
<1> SUFFICES ASSUME Inv, [Next]_vars PROVE Inv'
  OBVIOUS
<1>1. ASSUME NEW w \in Workers, Fail(w) PROVE Inv'
  BY <1>1, IdleStep, Quiet, SafeStep DEF Fail
<1>2. CASE Tick
  <2>1. now' \in Nat \ {0} /\ UNCHANGED <<session, memory, stored, drawn, task, restarts, begun, before, held>>
    BY <1>2 DEF Tick, Inv, Good, GoodRest
  <2>2. Good'
    BY <2>1 DEF Inv, Good, GoodTasks, GoodTask, GoodStore, GoodSession, GoodHistory, GoodRest, Context
  <2>3. RestartInv' /\ ForgetInv'
    BY <2>1 DEF Inv, RestartInv, ForgetInv, Kept, Remembered, Context
  <2> QED
    BY <2>2, <2>3 DEF Inv
<1>3. CASE UNCHANGED vars
  <2>1. Good'
    BY <1>3 DEF vars, Inv, Good, GoodTasks, GoodTask, GoodStore, GoodSession, GoodHistory, GoodRest, Context
  <2>2. RestartInv' /\ ForgetInv'
    BY <1>3 DEF vars, Inv, RestartInv, ForgetInv, Kept, Remembered, Context
  <2> QED
    BY <2>1, <2>2 DEF Inv
<1> QED
  BY <1>1, <1>2, <1>3, StartSafe, LookupSafe, DeliverSafe, RefreshSafe, CompactionSafe DEF Next

-----------------------------------------------------------------------------
(* The theorems. *)

(* Every transcript, stored, in the session or held by a task, stays within *)
(* the window.                                                              *)
THEOREM TypeCorrect == Spec => []TypeOK
<1>1. Inv => TypeOK
  BY GoodTypes DEF Inv
<1> QED
  BY <1>1, InitInv, NextInv, PTL DEF Spec

(* An exchange from before /new comes back into the session only from a task*)
(* that was not done, or a reply that was stored and not marked as sent, at *)
(* that time: replays, compactions and expiries bring nothing else back.    *)
THEOREM RestartIsKept == Spec => []RestartHolds
<1>1. Inv => RestartHolds
  BY DEF Inv, RestartInv, Kept, RestartHolds
<1> QED
  BY <1>1, InitInv, NextInv, PTL DEF Spec

(* What was said before /forget comes back into the memory only out of the  *)
(* session, the stored replies and the unfinished tasks of that time and    *)
(* what their texts drew on, however long the chain of replies in between.  *)
THEOREM ForgetIsKept == Spec => []ForgetHolds
<1>1. Inv => ForgetHolds
  BY DEF Inv, ForgetInv, Remembered, ForgetHolds
<1> QED
  BY <1>1, InitInv, NextInv, PTL DEF Spec
-----------------------------------------------------------------------------
(* One task at a time. *)

(* What a lone task holds is up to date: it has read the session that is    *)
(* still there, and whoever is about to drop a row knows that it is too old.*)
LoneTask(t) ==
  /\ t.pc \in {"know", "generate", "summarise"} => t.turns = Context
  /\ t.pc \in {"summarise", "persistSummary"} => Len(Context) >= MinTurns
  /\ t.pc = "persistSummary" => t.turns = Summary(Context)
  /\ t.pc \in DeliveryPc => t.purpose = "reply" /\ t.turns = Extend(Context, t.msg)
  /\ t.pc = "drop" => session # NoSession /\ Expired(session)
  /\ t.pc # "resend"

(* A reply is stored only while its own job is going on, so there is never  *)
(* one to replay.                                                           *)
LoneStore(t) ==
  \A m \in Messages : stored[m] # NoReply =>
    t.msg = m /\ t.pc \in {"send", "persist", "mark"} \cup MemoryPc

LoneInv == \A w \in Workers : LoneTask(task[w]) /\ LoneStore(task[w])

LEMMA InitLone == Init => LoneInv
  BY DEF Init, LoneInv, LoneTask, LoneStore, Idle, DeliveryPc

(* The only task has become t. *)
LEMMA BecomesLone ==
  ASSUME Inv, NEW w, Workers = {w}, NEW t, Become(w, t), LoneTask(t)', LoneStore(t)'
  PROVE  LoneInv'
<1>1. task'[w] = t
  BY DEF Become, Inv, Good, GoodTasks
<1> QED
  BY <1>1 DEF LoneInv, LoneTask, LoneStore

(* A stored reply keeps its job from ending, and from not having begun.     *)
LEMMA NothingStored ==
  ASSUME NEW w, Workers = {w}, LoneInv, UNCHANGED stored,
         task[w].pc \notin {"send", "persist", "mark"} \cup MemoryPc
  PROVE  \A t : LoneStore(t)'
  BY DEF LoneInv, LoneStore

LEMMA FoundLone ==
  ASSUME Inv, LoneInv, NEW w, Workers = {w}, NEW turns, Found(w, turns), UNCHANGED stored,
         task[w].pc \in {"find", "drop"}, Context' = turns
  PROVE  LoneInv'
<1>0. task[w] \in Task /\ \A t : LoneStore(t)'
  BY NothingStored DEF Inv, Good, GoodTasks, MemoryPc
<1>1. ASSUME NEW t, Become(w, t), LoneTask(t)' PROVE LoneInv'
  BY <1>0, <1>1, BecomesLone
<1>2. CASE task[w].purpose = "reply" /\ Become(w, [task[w] EXCEPT !.pc = "know", !.turns = turns])
  BY <1>0, <1>1, <1>2 DEF LoneTask, Task, DeliveryPc
<1>3. CASE Become(w, Idle)
  BY <1>1, <1>3 DEF LoneTask, Idle, DeliveryPc
<1>4. CASE Become(w, [task[w] EXCEPT !.pc = "find", !.purpose = "compact"])
  BY <1>0, <1>1, <1>4 DEF LoneTask, Task, DeliveryPc
<1>5. CASE Len(turns) >= MinTurns /\ Become(w, [task[w] EXCEPT !.pc = "summarise", !.turns = turns])
  BY <1>0, <1>1, <1>5 DEF LoneTask, Task, DeliveryPc
<1> QED
  BY <1>2, <1>3, <1>4, <1>5 DEF Found

LEMMA NextLone ==
  ASSUME Inv, LoneInv, NEW w, Workers = {w}, MayFail = FALSE, [Next]_vars
  PROVE  LoneInv'
<1>0. /\ task[w] \in Task /\ GoodTask(task[w]) /\ GoodStore /\ LoneTask(task[w]) /\ LoneStore(task[w])
      /\ GoodSession /\ task \in [Workers -> Task] /\ now \in Nat
  BY DEF Inv, Good, GoodTasks, GoodRest, LoneInv
<1>1. ASSUME NEW t, Become(w, t), LoneTask(t)', LoneStore(t)' PROVE LoneInv'
  BY <1>1, BecomesLone
<1>2. CASE Start(w)
  <2>1. ~Replay(w)
    BY <1>0 DEF Replay, At, LoneStore, MemoryPc
  <2>2. CASE UNCHANGED task
    <3>1. task[w].pc = "idle" /\ UNCHANGED stored
      BY <1>2, <2>1, <2>2, <1>0 DEF Start, Say, Restart, Forget, Ask, At
    <3> QED
      BY <2>2, <3>1, <1>0 DEF LoneInv, LoneTask, LoneStore, DeliveryPc
  <2>3. ASSUME NEW t, Become(w, t), t.pc = "find", task[w].pc = "idle", UNCHANGED stored
        PROVE  LoneInv'
    <3>1. LoneStore(t)'
      BY <2>3, NothingStored DEF MemoryPc
    <3>2. LoneTask(t)'
      BY <2>3 DEF LoneTask, DeliveryPc
    <3> QED
      BY <1>1, <2>3, <3>1, <3>2
  <2>4. CASE Say(w)
    <3>1. PICK m : Become(w, [Idle EXCEPT !.pc = "find", !.msg = m])
      BY <2>4 DEF Say
    <3>2. [Idle EXCEPT !.pc = "find", !.msg = m].pc = "find"
      BY DEF Idle
    <3> QED
      BY <2>3, <2>4, <3>1, <3>2 DEF Say, At
  <2>5. CASE Ask(w)
    <3>1. PICK purpose : Become(w, [Idle EXCEPT !.pc = "find", !.purpose = purpose])
      BY <2>5 DEF Ask
    <3>2. [Idle EXCEPT !.pc = "find", !.purpose = purpose].pc = "find"
      BY DEF Idle
    <3> QED
      BY <2>3, <2>5, <3>1, <3>2 DEF Ask, At
  <2> QED
    BY <1>2, <2>1, <2>2, <2>4, <2>5 DEF Start, Restart, Forget
<1>3. CASE Find(w)
  <2>1. CASE session # NoSession /\ Expired(session)
    <3>1. PICK t : t = [task[w] EXCEPT !.pc = "drop"]
      OBVIOUS
    <3>2. /\ Become(w, t) /\ t.pc = "drop" /\ task[w].pc = "find" /\ UNCHANGED <<session, stored, now>>
      BY <1>0, <1>3, <2>1, <3>1 DEF Find, Goto, At, Task
    <3>3. LoneStore(t)'
      BY <3>2, NothingStored DEF MemoryPc
    <3>4. LoneTask(t)'
      BY <2>1, <3>2 DEF LoneTask, DeliveryPc, Expired
    <3> QED
      BY <1>1, <3>2, <3>3, <3>4
  <2>2. CASE ~(session # NoSession /\ Expired(session))
    BY <1>3, <2>2, FoundLone DEF Find, At, Context
  <2> QED
    BY <2>1, <2>2
<1>4. CASE Drop(w)
  BY <1>4, FoundLone DEF Drop, At, Context
<1>18. CASE Know(w)
  <2>1. PICK t : t = [task[w] EXCEPT !.pc = "generate", !.facts = memory]
    OBVIOUS
  <2>2. /\ Become(w, t) /\ task[w].pc = "know" /\ UNCHANGED <<session, stored, now>>
        /\ t.pc = "generate" /\ t.turns = task[w].turns
    BY <1>0, <1>18, <2>1 DEF Know, Task, At
  <2>3. LoneStore(t)'
    BY <2>2, NothingStored DEF MemoryPc
  <2>4. Context' = Context
    BY <2>2 DEF Context
  <2>5. LoneTask(t)'
    BY <1>0, <2>2, <2>4 DEF LoneTask, DeliveryPc
  <2> QED
    BY <1>1, <2>2, <2>3, <2>5
<1>5. CASE Generate(w)
  <2>1. PICK t : t = [task[w] EXCEPT !.pc = "save", !.turns = Extend(@, task[w].msg)]
    OBVIOUS
  <2>2. /\ Become(w, t) /\ task[w].pc = "generate" /\ UNCHANGED <<session, stored, now>>
        /\ t.pc = "save" /\ t.purpose = task[w].purpose /\ t.msg = task[w].msg
        /\ t.turns = Extend(task[w].turns, task[w].msg)
    BY <1>0, <1>5, <2>1 DEF Generate, Task, At
  <2>3. LoneStore(t)'
    BY <2>2, NothingStored DEF MemoryPc
  <2>4. Context' = Context
    BY <2>2 DEF Context
  <2>5. LoneTask(t)'
    BY <1>0, <2>2, <2>4 DEF LoneTask, GoodTask, DeliveryPc
  <2> QED
    BY <1>1, <2>2, <2>3, <2>5
<1>6. ASSUME NEW pc \in {"send", "persist", "mark"} \cup MemoryPc, NEW t, Become(w, t),
             t.pc = pc, t.msg = task[w].msg, \A m \in Messages : stored'[m] # NoReply => t.msg = m,
             pc \in DeliveryPc => /\ task[w].pc \in DeliveryPc /\ UNCHANGED session
                                  /\ t.turns = task[w].turns /\ t.purpose = task[w].purpose
      PROVE  LoneInv'
  <2>1. LoneStore(t)'
    BY <1>6 DEF LoneStore
  <2>2. UNCHANGED session => Context' = Context
    BY DEF Context
  <2>3. LoneTask(t)'
    BY <1>0, <1>6, <2>2 DEF LoneTask, DeliveryPc, MemoryPc
  <2> QED
    BY <1>1, <1>6, <2>1, <2>3
<1>7. ASSUME NEW pc \in {"send", "persist", "mark"} \cup MemoryPc, NEW t,
             task[w].pc \in {"send", "persist"} \cup MemoryPc, UNCHANGED stored, Become(w, t),
             t.pc = pc, t.msg = task[w].msg,
             pc \in DeliveryPc => /\ task[w].pc \in DeliveryPc /\ UNCHANGED session
                                  /\ t.turns = task[w].turns /\ t.purpose = task[w].purpose
      PROVE  LoneInv'
  <2>1. \A m \in Messages : stored'[m] # NoReply => t.msg = m
    BY <1>0, <1>7 DEF LoneStore
  <2> QED
    BY <1>6, <1>7, <2>1
<1>8. CASE Save(w)
  <2>1. PICK t : t = [task[w] EXCEPT !.pc = "send"]
    OBVIOUS
  <2>2. /\ Become(w, t) /\ task[w].pc = "save" /\ UNCHANGED session /\ t.pc = "send"
        /\ t.msg = task[w].msg /\ t.turns = task[w].turns /\ t.purpose = task[w].purpose
        /\ stored' = [stored EXCEPT ![task[w].msg] = task[w].turns]
    BY <1>0, <1>8, <2>1 DEF Save, Goto, Task, At
  <2>3. \A m \in Messages : stored'[m] # NoReply => t.msg = m
    BY <1>0, <2>2 DEF LoneStore, GoodStore, MemoryPc
  <2> QED
    BY <1>6, <2>2, <2>3 DEF DeliveryPc
<1>9. CASE Send(w)
  <2>1. PICK t : t = [task[w] EXCEPT !.pc = "persist"]
    OBVIOUS
  <2>2. /\ Become(w, t) /\ task[w].pc = "send" /\ UNCHANGED <<session, stored>> /\ t.pc = "persist"
        /\ t.msg = task[w].msg /\ t.turns = task[w].turns /\ t.purpose = task[w].purpose
    BY <1>0, <1>9, <2>1 DEF Send, Task, At, LoneTask
  <2> QED
    BY <1>7, <2>2 DEF DeliveryPc
<1>10. ASSUME NEW pc \in {"mark"} \cup MemoryPc, Goto(w, pc), UNCHANGED stored,
              task[w].pc \in {"persist"} \cup MemoryPc
       PROVE  LoneInv'
  <2>1. PICK t : t = [task[w] EXCEPT !.pc = pc]
    OBVIOUS
  <2>2. Become(w, t) /\ t.pc = pc /\ t.msg = task[w].msg
    BY <1>0, <1>10, <2>1 DEF Goto, Task
  <2> QED
    BY <1>7, <1>10, <2>2 DEF DeliveryPc, MemoryPc
<1>11. CASE Persist(w)
  BY <1>10, <1>11 DEF Persist, At, MemoryPc
<1>12. CASE Refresh(w)
  <2>1. CASE Recall(w)
    <3>1. PICK t : t = [task[w] EXCEPT !.pc = "merge", !.facts = memory]
      OBVIOUS
    <3>2. Become(w, t) /\ t.pc = "merge" /\ t.msg = task[w].msg /\ task[w].pc = "recall" /\ UNCHANGED stored
      BY <1>0, <2>1, <3>1 DEF Recall, Task, At
    <3> QED
      BY <1>7, <3>2 DEF DeliveryPc, MemoryPc
  <2>2. CASE Merge(w)
    <3>1. PICK merged : Become(w, IF merged = task[w].facts
                                    THEN [task[w] EXCEPT !.pc = "mark"]
                                    ELSE [task[w] EXCEPT !.pc = "remember", !.facts = merged])
      BY <2>2 DEF Merge
    <3>2. PICK t : t = IF merged = task[w].facts
                         THEN [task[w] EXCEPT !.pc = "mark"]
                         ELSE [task[w] EXCEPT !.pc = "remember", !.facts = merged]
      OBVIOUS
    <3>3. Become(w, t)
      BY <3>1, <3>2
    <3>4. t.pc \in {"mark", "remember"} /\ t.msg = task[w].msg
      BY <1>0, <3>2 DEF Task
    <3>5. task[w].pc = "merge" /\ UNCHANGED stored
      BY <2>2 DEF Merge, At
    <3> QED
      BY <1>7, <3>3, <3>4, <3>5 DEF DeliveryPc, MemoryPc
  <2>3. CASE Remember(w)
    BY <1>10, <2>3 DEF Remember, At, MemoryPc
  <2> QED
    BY <1>12, <2>1, <2>2, <2>3 DEF Refresh, GiveMemoryUp
<1>13. ASSUME Become(w, Idle), \A m \in Messages : stored'[m] = NoReply PROVE LoneInv'
  BY <1>1, <1>13 DEF LoneTask, LoneStore, Idle, DeliveryPc
<1>14. CASE Mark(w)
  <2>1. stored' = [stored EXCEPT ![task[w].msg] = NoReply] /\ Become(w, Idle)
    BY <1>14 DEF Mark
  <2>2. \A m \in Messages : stored'[m] = NoReply
    BY <1>0, <2>1 DEF LoneStore, GoodStore
  <2> QED
    BY <1>13, <2>1, <2>2
<1>15. CASE Summarise(w)
  <2>1. PICK t : t = [task[w] EXCEPT !.pc = "persistSummary", !.turns = Summary(@)]
    OBVIOUS
  <2>2. /\ Become(w, t) /\ task[w].pc = "summarise" /\ UNCHANGED <<session, stored>>
        /\ t.pc = "persistSummary" /\ t.turns = Summary(task[w].turns)
    BY <1>0, <1>15, <2>1 DEF Summarise, Task, At
  <2>3. LoneStore(t)'
    BY <2>2, NothingStored DEF MemoryPc
  <2>4. Context' = Context
    BY <2>2 DEF Context
  <2>5. LoneTask(t)'
    BY <1>0, <2>2, <2>4 DEF LoneTask, DeliveryPc
  <2> QED
    BY <1>1, <2>2, <2>3, <2>5
<1>16. CASE PersistSummary(w)
  <2>1. task[w].pc = "persistSummary" /\ Become(w, Idle) /\ UNCHANGED stored
    BY <1>16 DEF PersistSummary, At
  <2>2. \A m \in Messages : stored'[m] = NoReply
    BY <1>0, <2>1 DEF LoneStore, MemoryPc
  <2> QED
    BY <1>13, <2>1, <2>2
<1>17. CASE UNCHANGED <<session, stored, task>> /\ now' \in Nat /\ now <= now'
  <2>1. Context' = Context
    BY <1>17 DEF Context
  <2>2. session # NoSession /\ Expired(session) => Expired(session)'
    <3>1. session # NoSession => session.at \in Nat
      BY <1>0 DEF GoodSession, Session
    <3> QED
      BY <1>0, <1>17, <3>1, ConversationStateAssumption DEF Expired
  <2> QED
    BY <1>0, <1>17, <2>1, <2>2 DEF LoneInv, LoneTask, LoneStore
<1> QED
  BY <1>0, <1>2, <1>3, <1>4, <1>5, <1>8, <1>9, <1>11, <1>12, <1>14, <1>15, <1>16, <1>17, <1>18
     DEF Next, vars, Lookup, Deliver, Compaction, Fail, Tick
-----------------------------------------------------------------------------
(* The refinement of Conversation. *)

Writing == \E w \in Workers : task[w].pc \in WritingPc

Touched == IF session = NoSession THEN 0 ELSE session.at

(* A step that changes nothing of what the promise speaks of. *)
LEMMA Stutters ==
  ASSUME UNCHANGED <<session, now, restarts>>, Writing' <=> Writing
  PROVE  UNCHANGED Promise!vars
<1>1. Context' = Context /\ Touched' = Touched
  BY DEF Context, Touched
<1>2. Writing' = Writing
  BY DEF Writing
<1> QED
  BY <1>1, <1>2 DEF Promise!vars, Touched, Writing

(* A task has found a session that is not too old, or none. *)
LEMMA HearsFound ==
  ASSUME UNCHANGED <<session, now, restarts>>, ~Writing, Writing',
         ~(session # NoSession /\ Expired(session))
  PROVE  Promise!Hear
<1>1. Context' = Context /\ Touched' = Touched
  BY DEF Context, Touched
<1>2. Context = <<>> \/ ~(now - Touched > Ttl)
  BY DEF Context, Touched, Expired
<1> QED
  BY <1>1, <1>2 DEF Promise!Hear, Promise!Aged, Touched, Writing

(* A row that was too old is dropped. *)
LEMMA DropsAged ==
  ASSUME UNCHANGED <<now, restarts>>, ~Writing, session # NoSession, Expired(session), session' = NoSession
  PROVE  IF Writing' THEN Promise!HearAnew ELSE Promise!Expire
<1>1. Context' = <<>> /\ Touched' = 0 /\ now - Touched > Ttl
  BY DEF Context, Touched, Expired
<1>2. CASE Writing'
  BY <1>1, <1>2 DEF Promise!HearAnew, Promise!Aged, Touched, Writing
<1>3. CASE ~Writing'
  BY <1>1, <1>3 DEF Promise!Expire, Promise!Clear, Promise!Aged, Touched, Writing
<1> QED
  BY <1>2, <1>3

(* A task writes what it has made of the session. *)
LEMMA Finishes ==
  ASSUME NEW turns, Persisted(turns), UNCHANGED <<now, restarts>>, Writing, ~Writing',
         turns \in Transcripts, now \in Nat
  PROVE  Context' = turns /\ Touched' = now
<1>1. session' = [turns |-> turns, at |-> now] /\ session' \in Session
  BY DEF Persisted, Session
<1>2. session' # NoSession
  BY <1>1, ConversationStateAssumption
<1> QED
  BY <1>1, <1>2 DEF Context, Touched

LEMMA InitKeepsPromise == Init => Promise!Init
<1> SUFFICES ASSUME Init PROVE Promise!Init
  OBVIOUS
<1>1. ~Writing
  BY DEF Init, Writing, Idle, WritingPc, DeliveryPc
<1>2. Writing = FALSE
  BY <1>1 DEF Writing
<1> QED
  BY <1>2 DEF Init, Promise!Init, Context, Writing

LEMMA StepKeepsPromise ==
  ASSUME Inv, LoneInv, NEW w, Workers = {w}, MayFail = FALSE, [Next]_vars
  PROVE  Promise!Next \/ UNCHANGED Promise!vars
<1>0. /\ task[w] \in Task /\ GoodTask(task[w]) /\ LoneTask(task[w]) /\ LoneStore(task[w])
      /\ GoodSession /\ task \in [Workers -> Task] /\ now \in Nat
  BY DEF Inv, Good, GoodTasks, GoodRest, LoneInv
<1>1. (Writing <=> task[w].pc \in WritingPc) /\ (Writing' <=> task'[w].pc \in WritingPc)
  BY DEF Writing
<1>2. \A t : Become(w, t) => task'[w] = t
  BY <1>0 DEF Become
<1>3. \A pc : Goto(w, pc) => task'[w].pc = pc
  BY <1>0, <1>2 DEF Goto, Task
<1>4. CASE Start(w)
  <2>1. task[w].pc = "idle" /\ ~Replay(w)
    BY <1>0, <1>4 DEF Start, Say, Replay, Restart, Forget, Ask, At, LoneStore, MemoryPc
  <2>2. CASE Restart(w)
    <3>1. ~Writing /\ ~Writing'
      BY <1>1, <2>1, <2>2 DEF Restart, WritingPc, DeliveryPc
    <3>2. Context' = <<>> /\ Touched' = 0
      BY <2>2 DEF Restart, Context, Touched
    <3>3. Promise!Restart
      BY <2>2, <3>1, <3>2 DEF Restart, Promise!Restart, Promise!Clear, Touched, Writing
    <3> QED
      BY <3>3 DEF Promise!Next
  <2>3. CASE Say(w) \/ Ask(w) \/ Forget(w)
    <3>1. task'[w].pc \in {"idle", "find"} /\ UNCHANGED <<session, now, restarts>>
      BY <1>2, <2>1, <2>3 DEF Say, Ask, Forget, Idle
    <3> QED
      BY <1>1, <2>1, <3>1, Stutters DEF WritingPc, DeliveryPc
  <2> QED
    BY <1>4, <2>1, <2>2, <2>3 DEF Start
<1>5. ASSUME NEW turns, Found(w, turns), task[w].pc \in {"find", "drop"}
      PROVE  ~Writing /\ task'[w].pc \in {"know", "idle", "find", "summarise"}
  <2>1. ~Writing
    BY <1>1, <1>5 DEF WritingPc, DeliveryPc
  <2>2. CASE Become(w, Idle)
    BY <1>2, <2>1, <2>2 DEF Idle
  <2>3. CASE Become(w, [task[w] EXCEPT !.pc = "know", !.turns = turns])
    BY <1>0, <1>2, <2>1, <2>3 DEF Task
  <2>4. CASE Become(w, [task[w] EXCEPT !.pc = "find", !.purpose = "compact"])
    BY <1>0, <1>2, <2>1, <2>4 DEF Task
  <2>5. CASE Become(w, [task[w] EXCEPT !.pc = "summarise", !.turns = turns])
    BY <1>0, <1>2, <2>1, <2>5 DEF Task
  <2> QED
    BY <1>5, <2>2, <2>3, <2>4, <2>5 DEF Found
<1>6. CASE Find(w)
  <2>1. task[w].pc = "find" /\ UNCHANGED <<session, now, restarts>>
    BY <1>6 DEF Find, At
  <2>2. CASE session # NoSession /\ Expired(session)
    <3>1. task'[w].pc = "drop"
      BY <1>3, <1>6, <2>2 DEF Find
    <3> QED
      BY <1>1, <2>1, <3>1, Stutters DEF WritingPc, DeliveryPc
  <2>3. CASE ~(session # NoSession /\ Expired(session))
    <3>1. ~Writing
      BY <1>5, <1>6, <2>1, <2>3 DEF Find
    <3>2. CASE Writing'
      BY <2>1, <2>3, <3>1, <3>2, HearsFound DEF Promise!Next
    <3>3. CASE ~Writing'
      BY <2>1, <3>1, <3>3, Stutters
    <3> QED
      BY <3>2, <3>3
  <2> QED
    BY <2>2, <2>3
<1>7. CASE Drop(w)
  <2>1. /\ task[w].pc = "drop" /\ session # NoSession /\ Expired(session)
        /\ session' = NoSession /\ UNCHANGED <<now, restarts>>
    BY <1>0, <1>7 DEF Drop, At, LoneTask
  <2>2. ~Writing
    BY <1>5, <1>7, <2>1 DEF Drop
  <2> QED
    BY <2>1, <2>2, DropsAged DEF Promise!Next
<1>8. CASE Know(w) \/ Generate(w) \/ Save(w) \/ Send(w)
  <2>1. task[w].pc \in WritingPc /\ task'[w].pc \in WritingPc /\ UNCHANGED <<session, now, restarts>>
    BY <1>0, <1>2, <1>3, <1>8 DEF Know, Generate, Save, Send, At, WritingPc, DeliveryPc, LoneTask, Task
  <2> QED
    BY <1>1, <2>1, Stutters
<1>9. CASE Persist(w)
  <2>1. /\ task[w].pc = "persist" /\ task'[w].pc \in {"recall", "mark"}
        /\ task[w].msg \in Messages /\ task[w].turns \in Transcripts
        /\ task[w].turns = Extend(Context, task[w].msg)
        /\ Persisted(task[w].turns) /\ UNCHANGED <<now, restarts>>
    BY <1>0, <1>3, <1>9 DEF Persist, At, LoneTask, GoodTask, DeliveryPc, Task, Inv, Good, GoodHistory
  <2>2. Writing /\ ~Writing'
    BY <1>1, <2>1 DEF WritingPc, DeliveryPc
  <2>3. Context' = Extend(Context, task[w].msg) /\ Touched' = now
    BY <1>0, <2>1, <2>2, Finishes
  <2>4. PICK m \in Messages : m = task[w].msg
    BY <2>1
  <2>5. Context' = Promise!Extend(Context, m)
    BY <2>3, <2>4 DEF Extend, Promise!Extend
  <2>6. Promise!Answer
    BY <2>1, <2>2, <2>3, <2>5 DEF Promise!Answer, Promise!Finish, Touched, Writing
  <2> QED
    BY <2>6 DEF Promise!Next
<1>10. CASE Mark(w) \/ Refresh(w)
  <2>1. task[w].pc \in {"mark"} \cup MemoryPc /\ UNCHANGED <<session, now, restarts>>
    BY <1>10 DEF Mark, Refresh, Recall, Merge, Remember, GiveMemoryUp, At, MemoryPc
  <2>2. task'[w].pc \in {"idle", "mark"} \cup MemoryPc
    <3>1. CASE Merge(w)
      <4>1. PICK merged : Become(w, IF merged = task[w].facts
                                      THEN [task[w] EXCEPT !.pc = "mark"]
                                      ELSE [task[w] EXCEPT !.pc = "remember", !.facts = merged])
        BY <3>1 DEF Merge
      <4> QED
        BY <1>0, <1>2, <4>1 DEF Task, MemoryPc
    <3>2. CASE Recall(w)
      BY <1>0, <1>2, <3>2 DEF Recall, Task, MemoryPc
    <3>3. CASE Mark(w) \/ Remember(w) \/ GiveMemoryUp(w)
      BY <1>2, <1>3, <3>3 DEF Mark, Remember, GiveMemoryUp, Idle
    <3> QED
      BY <1>10, <3>1, <3>2, <3>3 DEF Refresh
  <2> QED
    BY <1>1, <2>1, <2>2, Stutters DEF WritingPc, DeliveryPc, MemoryPc
<1>11. CASE Summarise(w)
  <2>1. task[w].pc = "summarise" /\ task'[w].pc = "persistSummary" /\ UNCHANGED <<session, now, restarts>>
    BY <1>0, <1>2, <1>11 DEF Summarise, At, Task
  <2> QED
    BY <1>1, <2>1, Stutters DEF WritingPc
<1>12. CASE PersistSummary(w)
  <2>1. /\ task[w].pc = "persistSummary" /\ task'[w].pc = "idle"
        /\ task[w].turns = Summary(Context) /\ Len(Context) >= MinTurns
        /\ task[w].turns \in Transcripts
        /\ Persisted(task[w].turns) /\ UNCHANGED <<now, restarts>>
    BY <1>0, <1>2, <1>12 DEF PersistSummary, At, LoneTask, Task, Idle
  <2>2. Writing /\ ~Writing'
    BY <1>1, <2>1 DEF WritingPc, DeliveryPc
  <2>3. Context' = Promise!Summary(Context) /\ Touched' = now
    BY <1>0, <2>1, <2>2, Finishes DEF Summary, Told, Promise!Summary, Promise!Told
  <2>4. Promise!Compact
    BY <2>1, <2>2, <2>3 DEF Promise!Compact, Promise!Finish, Touched, Writing
  <2> QED
    BY <2>4 DEF Promise!Next
<1>13. CASE Tick
  <2>1. Context' = Context /\ Touched' = Touched /\ Writing' = Writing
    BY <1>13 DEF Tick, Context, Touched, Writing
  <2>2. Promise!Tick
    BY <1>13, <2>1 DEF Tick, Promise!Tick, Touched, Writing
  <2> QED
    BY <2>2 DEF Promise!Next
<1>14. CASE UNCHANGED vars
  BY <1>14, Stutters DEF vars, Writing
<1> QED
  BY <1>4, <1>6, <1>7, <1>8, <1>9, <1>10, <1>11, <1>12, <1>13, <1>14
     DEF Next, Lookup, Deliver, Compaction, Fail

(* As long as a chat's tasks run one at a time and nothing fails, its       *)
(* session is what the bot promises, over every lookup, expiry, reply,      *)
(* compaction and reset, for any window and any lifetime of a session.      *)
THEOREM OneTaskKeepsThePromise ==
  ASSUME NEW w, Workers = {w}, MayFail = FALSE
  PROVE  Spec => ImplementsConversation
<1>1. Inv /\ LoneInv /\ [Next]_vars => LoneInv'
  BY NextLone
<1>2. Inv /\ LoneInv /\ [Next]_vars => [Promise!Next]_(Promise!vars)
  BY StepKeepsPromise
<1> QED
  BY <1>1, <1>2, InitInv, NextInv, InitLone, InitKeepsPromise, PTL DEF Spec, ImplementsConversation, Promise!Spec
=============================================================================
