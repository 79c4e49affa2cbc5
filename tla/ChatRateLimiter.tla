---------------------------- MODULE ChatRateLimiter ----------------------------
(***************************************************************************)
(* ChatRateLimiter: an in-memory sliding window per chat, shared by every   *)
(* webhook task behind a mutex.  A caller reads the clock before it has the *)
(* lock, so a caller that waits decides with a time that has gone by.       *)
(*                                                                          *)
(* An admission is a timestamp in a Vec; here it also carries the time when *)
(* it was pushed, and the number of earlier admissions with its timestamp,  *)
(* so that a set of them is what the Vec holds: the order of the Vec is     *)
(* never looked at.                                                         *)
(***************************************************************************)
EXTENDS Integers, FiniteSets

CONSTANTS
  Callers,  \* concurrent calls of allow
  Chats,
  Window,   \* rate_limit_window_ms
  Max,      \* rate_limit_max_messages
  MaxTime   \* bound: the last instant of a behaviour

ASSUME LimiterAssumption ==
  /\ IsFiniteSet(Callers) /\ Callers # {}
  /\ Window \in Nat
  /\ Max \in Nat
  /\ MaxTime \in Nat

VARIABLES
  hits,     \* windows.hits: a function from the chats it has a key for
  sweptAt,  \* windows.swept_at
  call,     \* call[p]: the call that p is in
  now,
  admitted  \* history: every admission, of every chat

vars == <<hits, sweptAt, call, now, admitted>>

Admission == [chat : Chats, at : Nat, on : Nat, nth : Nat]

NoCall == [waiting |-> FALSE]

Call == [waiting : {TRUE}, chat : Chats, stamp : Nat]

Init ==
  /\ hits = [c \in {} |-> {}]
  /\ sweptAt = 0
  /\ call = [p \in Callers |-> NoCall]
  /\ now = 0
  /\ admitted = {}

-----------------------------------------------------------------------------

SameStamp(c, at) == {h \in admitted : h.chat = c /\ h.at = at}

(* Mutant of Live: the window is one unit too short. *)
LiveShort(window, at) == {h \in window : at - h.at < Window - 1}

(* The retain of allow and of sweep: what the window holds at a time. *)
Live(window, at) == {h \in window : at - h.at < Window}

(* sweep: the expired timestamps go, and so do the chats left without any. *)
Swept(table, at) ==
  [c \in {d \in DOMAIN table : Live(table[d], at) # {}} |-> Live(table[c], at)]

(* Mutant of WindowOf: one window for every chat. *)
SharedWindow(table, c) == UNION {table[d] : d \in DOMAIN table}

WindowOf(table, c) == IF c \in DOMAIN table THEN table[c] ELSE {}

SetWindow(table, c, window) ==
  [d \in DOMAIN table \cup {c} |-> IF d = c THEN window ELSE table[d]]

(* Mutant of Full: one admission too many. *)
Overfull(window) == Cardinality(window) > Max

Full(window) == Cardinality(window) >= Max

(* Mutant of SweepDue: the sweep never comes. *)
NeverDue(at) == FALSE

SweepDue(at) == at - sweptAt >= Window

-----------------------------------------------------------------------------

(* allow, before the lock: now_ms(). *)
Stamp(p) ==
  /\ call[p] = NoCall
  /\ \E c \in Chats : call' = [call EXCEPT ![p] = [waiting |-> TRUE, chat |-> c, stamp |-> now]]
  /\ UNCHANGED <<hits, sweptAt, now, admitted>>

(* allow, under the lock. A refused chat keeps its pruned window; one that  *)
(* has no window gets none.                                                 *)
Decide(p) ==
  LET c == call[p].chat
      at == call[p].stamp
      table == IF SweepDue(at) THEN Swept(hits, at) ELSE hits
      window == Live(WindowOf(table, c), at)
      new == [chat |-> c, at |-> at, on |-> now, nth |-> Cardinality(SameStamp(c, at))]
  IN
  /\ call[p] # NoCall
  /\ sweptAt' = IF SweepDue(at) THEN at ELSE sweptAt
  /\ \/ /\ Full(window)
        /\ hits' = IF c \in DOMAIN table THEN SetWindow(table, c, window) ELSE table
        /\ UNCHANGED admitted
     \/ /\ ~Full(window)
        /\ hits' = SetWindow(table, c, window \cup {new})
        /\ admitted' = admitted \cup {new}
  /\ call' = [call EXCEPT ![p] = NoCall]
  /\ UNCHANGED now

Tick ==
  /\ now < MaxTime
  /\ now' = now + 1
  /\ UNCHANGED <<hits, sweptAt, call, admitted>>

Next ==
  \/ \E p \in Callers : Stamp(p) \/ Decide(p)
  \/ Tick

Spec == Init /\ [][Next]_vars

-----------------------------------------------------------------------------
(* Properties. *)

(* Every variable has its type, and every admission of a chat's window was  *)
(* an admission of that chat.                                               *)
TypeOK ==
  /\ DOMAIN hits \subseteq Chats
  /\ hits = [c \in DOMAIN hits |-> hits[c]]
  /\ \A c \in DOMAIN hits : hits[c] \subseteq {h \in admitted : h.chat = c}
  /\ sweptAt \in Nat
  /\ call \in [Callers -> Call \cup {NoCall}]
  /\ now \in Nat
  /\ admitted \subseteq Admission
  /\ IsFiniteSet(admitted)

(* chat_rate_limiter.rs: "the window can never outgrow max_messages",       *)
(* which is what keeps the preallocated Vec from growing.                   *)
NeverOutgrows ==
  \A c \in DOMAIN hits : Cardinality(hits[c]) <= Max

(* The admissions of a chat whose timestamps lie in one window. *)
AdmittedIn(c, from) ==
  {h \in admitted : h.chat = c /\ from <= h.at /\ h.at < from + Window}

(* A sliding window: whatever the window begins with, at most Max messages  *)
(* of a chat are let through in it, and one more for every other caller     *)
(* that can be holding a timestamp from before the window was emptied. With *)
(* one caller at a time the limit is exact.                                 *)
WindowBound ==
  \A c \in Chats, from \in 0 .. MaxTime :
    Cardinality(AdmittedIn(c, from)) <= Max + (Cardinality(Callers) - 1)

(* "quiet chats need this periodic pass or their entry lives for the whole  *)
(* process": once a call has returned, every chat in the table has had a    *)
(* message let through within the last two windows, also when calls decide  *)
(* in another order than they read the clock.                               *)
NoQuietChats ==
  [][\A p \in Callers : call[p] # NoCall /\ call'[p] = NoCall =>
       \A c \in DOMAIN hits' : \E h \in hits'[c] : call[p].stamp - h.on < 2 * Window]_vars
=============================================================================
