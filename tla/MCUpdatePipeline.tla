--------------------------- MODULE MCUpdatePipeline ---------------------------
(***************************************************************************)
(* Instances of UpdatePipeline for TLC. In the code INFLIGHT_TIMEOUT_MS is  *)
(* 5 minutes, the prune interval 6 hours and the retention 30 days; only    *)
(* their order matters, and that a claim can be younger or older than each. *)
(***************************************************************************)
EXTENDS UpdatePipeline, TLC

CONSTANTS
  w1, w2,           \* two tasks of the runtime
  r1, r2, r3,       \* replies, in no order: each generation is a fresh one
  text, command, sticker, album, photo  \* messages

(* One text message, which Telegram repeats. *)
TextParts == [m \in {text} |-> <<1>>]

(* One album of two photos, which is handed over, or delivered, twice.      *)
OneAlbum == [m \in {album} |-> <<1, 2>>]

(* An album of two photos, the second of which is also delivered alone      *)
(* (its acknowledgement was lost and it came back after the flush).         *)
AlbumParts == (album :> <<1, 2>>) @@ (photo :> <<2>>)

(* The same with a command and a message of a kind the bot cannot read. *)
MixedParts == AlbumParts @@ (command :> <<3>>) @@ (sticker :> <<4>>)

TasksAndReplies == Permutations({w1, w2}) \cup Permutations({r1, r2, r3})
=============================================================================
