----------------------------- MODULE ReplyLedger -----------------------------
(***************************************************************************)
(* What the bot promises about every Telegram update, whatever happens to   *)
(* its tasks: there is one reply for it, which is written down before the   *)
(* chat is told and told as often as it takes; the update is closed, so     *)
(* that Telegram's repetitions are ignored, only when its chat has been     *)
(* told something.  The promise ends when the update lapses: its claim was  *)
(* so old that another task took it over, or its row was pruned.            *)
(* UpdatePipeline implements this ledger.                                   *)
(***************************************************************************)
CONSTANTS
  Updates,
  Replies,
  NoReply

VARIABLES
  status,    \* nobody's, somebody's, or done with
  reply,     \* the reply that is written down
  told,      \* the replies the chat got
  answered,  \* the updates whose chat got something: a reply or a notice
  lapsed

vars == <<status, reply, told, answered, lapsed>>

Init ==
  /\ status = [u \in Updates |-> "free"]
  /\ reply = [u \in Updates |-> NoReply]
  /\ told = [u \in Updates |-> {}]
  /\ answered = {}
  /\ lapsed = {}

SameRow(u) == status'[u] = status[u] /\ reply'[u] = reply[u]
SameChat(u) == told'[u] = told[u] /\ (u \in answered' <=> u \in answered)

Claim(u) ==
  /\ status[u] = "free" /\ status'[u] = "open"
  /\ reply'[u] = NoReply
  /\ SameChat(u)

(* Only a claim for which nothing was written down, nor said, is given up. *)
GiveUp(u) ==
  /\ status[u] = "open" /\ status'[u] = "free"
  /\ reply[u] = NoReply /\ reply'[u] = NoReply
  /\ told[u] = {}
  /\ SameChat(u)

(* The one reply is written down. A notice may have closed the update       *)
(* meanwhile, which opens it again.                                         *)
Store(u) ==
  /\ status[u] # "free" /\ status'[u] = "open"
  /\ reply[u] = NoReply /\ reply'[u] \in Replies
  /\ told[u] = {}
  /\ SameChat(u)

Tell(u) ==
  /\ reply[u] \in Replies
  /\ told'[u] = told[u] \cup {reply[u]}
  /\ u \in answered'
  /\ SameRow(u)

Notify(u) ==
  /\ told'[u] = told[u]
  /\ u \in answered'
  /\ SameRow(u)

Close(u) ==
  /\ u \in answered
  /\ status'[u] = "closed"
  /\ reply'[u] = reply[u]
  /\ SameChat(u)

Step(u) ==
  \/ SameRow(u) /\ SameChat(u)
  \/ Claim(u) \/ GiveUp(u) \/ Store(u) \/ Tell(u) \/ Notify(u) \/ Close(u)

(* A step may concern several updates: all those of a message.              *)
Next ==
  /\ lapsed \subseteq lapsed'
  /\ \A u \in Updates : u \in lapsed' \/ Step(u)

Spec == Init /\ [][Next]_vars
=============================================================================
