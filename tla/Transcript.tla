------------------------------ MODULE Transcript ------------------------------
(***************************************************************************)
(* Transcripts: the rolling window over a chat's conversation.  What a user *)
(* said and what the bot replied always enter it, and leave it, together;   *)
(* such a turn is the set of the user's messages that it tells of: one, or, *)
(* for the turn that /compact leaves behind, all that were summed up.       *)
(***************************************************************************)
EXTENDS Integers, Sequences

CONSTANTS
  Messages,  \* what the user says, each one once
  MaxTurns,  \* MAX_TRANSCRIPT_MESSAGES: a turn is two messages
  MinTurns   \* MIN_TRANSCRIPT_SIZE_FOR_COMPACT, in turns

ASSUME TranscriptAssumption ==
  /\ MaxTurns \in Nat \ {0}
  /\ MinTurns \in Nat \ {0}

Transcripts == Seq(SUBSET Messages)

(* Mutant of Extend: the window grows. *)
ExtendForever(turns, m) == Append(turns, {m})

(* Transcript::append, of the user's message and then of the reply. *)
Extend(turns, m) ==
  LET longer == Append(turns, {m}) IN
  IF Len(longer) > MaxTurns THEN Tail(longer) ELSE longer

Told(turns) == UNION {turns[i] : i \in DOMAIN turns}

(* Transcript::compact_baseline *)
Summary(turns) == <<Told(turns)>>
=============================================================================
