----------------------------- MODULE Conversation -----------------------------
(***************************************************************************)
(* What the bot promises about a chat's context: it is the latest turns     *)
(* since the last /new, until /compact replaces them by one turn that sums  *)
(* them up, or the chat is left alone for longer than Ttl.  Nothing else    *)
(* ever takes a turn away.  ConversationState implements this as long as    *)
(* its tasks run one at a time and nothing fails.                           *)
(***************************************************************************)
EXTENDS Transcript

CONSTANTS
  Ttl,     \* session_ttl_ms
  MaxTime  \* bound: the last instant of a behaviour


VARIABLES
  context,
  touched,   \* when the context last changed, 0 if there is none
  busy,      \* a reply or a summary is being written
  restarts,  \* how often the user has said /new or /start, modulo 2
  now

vars == <<context, touched, busy, restarts, now>>

Aged == now - touched > Ttl

Init ==
  /\ context = <<>>
  /\ touched = 0
  /\ busy = FALSE
  /\ restarts = 0
  /\ now = 1

(* Nothing is based on a context that has aged. *)
Hear ==
  /\ ~busy
  /\ context = <<>> \/ ~Aged
  /\ busy' = TRUE
  /\ UNCHANGED <<context, touched, restarts, now>>

Finish(turns) ==
  /\ busy
  /\ busy' = FALSE
  /\ context' = turns
  /\ touched' = now
  /\ UNCHANGED <<restarts, now>>

Answer == \E m \in Messages : Finish(Extend(context, m))

Compact ==
  /\ Len(context) >= MinTurns
  /\ Finish(Summary(context))

Clear ==
  /\ ~busy
  /\ context' = <<>>
  /\ touched' = 0
  /\ UNCHANGED <<busy, now>>

Restart == Clear /\ restarts' = 1 - restarts

Expire == Aged /\ Clear /\ UNCHANGED restarts

(* A lookup of an aged context clears it, and a reply may be based on that. *)
HearAnew ==
  /\ ~busy
  /\ Aged
  /\ context' = <<>>
  /\ touched' = 0
  /\ busy' = TRUE
  /\ UNCHANGED <<restarts, now>>

Tick ==
  /\ now < MaxTime
  /\ now' = now + 1
  /\ UNCHANGED <<context, touched, busy, restarts>>

Next == Hear \/ HearAnew \/ Answer \/ Compact \/ Restart \/ Expire \/ Tick

Spec == Init /\ [][Next]_vars
=============================================================================
