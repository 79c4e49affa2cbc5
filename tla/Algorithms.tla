------------------------------ MODULE Algorithms ------------------------------
(***************************************************************************)
(* The service's pure functions on messages and replies, applied to inputs: *)
(* every state after the first is one input and what the code makes of it.  *)
(***************************************************************************)
EXTENDS TranscriptEntries, ReplyParsing, MessageFormatting

CONSTANTS Updates,    \* updates from Telegram
          Albums,     \* the photos of an album, in the order of arrival
          Dialogues,  \* messages that go on, one after the other
          Replies,    \* what codex exec leaves behind
          Texts       \* texts that are sent

-----------------------------------------------------------------------------
(* Updates. Ids of chats and users are opaque; Telegram makes its file ids  *)
(* of characters that are not white space.                                  *)

FileIds == { t \in Text : Trimmed[t] = t }

PhotoSize == [file_id : FileIds, file_size : Nat \cup {None}]

Class == {"image", "other", None}

Document == [file_id : FileIds, mime_type : Class, file_name : Class]

TelegramMessage(quoted) ==
    [ message_id : Int \cup {None}, from : Text \cup {None}, chat : Text \cup {None},
      text : Text \cup {None}, caption : Text \cup {None},
      photo : Seq(PhotoSize) \cup {None}, document : Document \cup {None},
      media_group_id : Text \cup {None}, reply_to_message : quoted ]

Update ==
    [ update_id : Int \cup {None},
      message : TelegramMessage(TelegramMessage({None}) \cup {None}) \cup {None} ]

-----------------------------------------------------------------------------
(* Messages as InboundMessage::new leaves them.                             *)

Distinct(S) == { s \in Seq(S) : IsInjective(s) }

UpdateRef == [update_id : Int, message_id : Int]

InOrder(refs) == \A i, j \in DOMAIN refs : i < j => ~Earlier(refs[j], refs[i])

InboundMessage ==
    [ chat_id : Text, user_id : Text, message_id : Int, update_id : Int,
      text : Words \cup {None}, media_group_id : Words \cup {None},
      image_file_ids : Distinct(Words), reply_to_text : Words \cup {None},
      reply_to_image_file_ids : Distinct(Words),
      processing_updates : { refs \in Seq(UpdateRef) : refs # <<>> /\ InOrder(refs) } ]

(* A transcript, with the sentences that the service adds to what is said.  *)
Sentences ==
    {"COMPACT_BASELINE", "summary", "DESCRIBE_IMAGE", "COMPARE_IMAGES", "REPLYING_TO", "NO_WORDS", "answer"}

TranscriptEntry == [role : {"user", "assistant"}, content : Seq(Words \cup Sentences)]

(* The photos of an album are different messages: a row is an update, and   *)
(* Telegram sends a message in one update and numbers a chat's messages.    *)
Album ==
    { photos \in Seq(InboundMessage) :
        /\ photos # <<>>
        /\ \A i, j \in DOMAIN photos : i # j => photos[i].message_id # photos[j].message_id }

-----------------------------------------------------------------------------
(* Pieces, and the texts inside them.                                       *)

PieceText == Seq(Pieces)

Elements == Seq(PieceText \cup {Absent})

(* What truncate_chars leaves of a reply that is not blank is not blank,    *)
(* and short enough.                                                        *)
Shortens(reply) == Truncated(reply) # <<>> /\ Truncated(Truncated(reply)) = Truncated(reply)

Shortened(replies) == \A r \in ToSet(replies) : r \in {Absent, <<>>} \/ Shortens(r)

PieceType(p) ==
    /\ p.kind \in {"prose", "fence", "object", "broken", "array", "null", "quoted", "shred"}
    /\ p.kind = "fence" <=> p = Fence
    /\ p.kind = "shred" <=> <<p>> = Shred
    /\ p.kind \in {"object", "broken"} =>
         /\ p.text \in PieceText \cup {Absent}
         /\ p.replies = Absent \/ (p.replies \in Elements /\ Shortened(p.replies))
         /\ p.others \in Seq(PieceText)
    /\ p.kind = "array" => p.elements \in Elements /\ Shortened(p.elements)
    /\ p.kind = "quoted" => p.inner \in PieceText

ASSUME AlgorithmsAssumption ==
    /\ None \notin InboundMessage /\ None \notin Seq(TranscriptEntry)
    /\ Updates \subseteq Update
    /\ Albums \subseteq Album
    /\ Dialogues \subseteq Seq({ m \in InboundMessage : ~Unsupported(m) }) \ {<<>>}
    /\ {Fence, Shred[1]} \subseteq Pieces
    /\ \A p \in Pieces : PieceType(p)
    /\ Absent \notin Pieces /\ Absent \notin PieceText /\ Absent \notin Elements
    /\ Absent \notin [kind : {"object"}, text : PieceText, replies : Elements, others : {<<>>}]
    /\ \A i \in DOMAIN DefaultReplies : Truncated(DefaultReplies[i]) = DefaultReplies[i]
    /\ Replies \subseteq PieceText
    /\ Texts \subseteq Written

-----------------------------------------------------------------------------
VARIABLES input, result

vars == <<input, result>>

Nothing == [of |-> "nothing"]

Init == input = Nothing /\ result = Nothing

ParseUpdate ==
    /\ input = Nothing
    /\ \E u \in Updates :
         /\ input' = [of |-> "update", update |-> u]
         /\ result' = [message |-> Parse(u), handled |-> Handle(Parse(u), u)]

MergeAlbum ==
    /\ input = Nothing
    /\ \E photos \in Albums :
         /\ input' = [of |-> "album", photos |-> photos]
         /\ result' = [message |-> Merge(photos)]

(* From no session, or from a compacted one. *)
Converse ==
    /\ input = Nothing
    /\ \E start \in {None, CompactBaseline(<<"summary">>)}, messages \in Dialogues :
         /\ input' = [of |-> "messages", start |-> start, messages |-> messages]
         /\ result' = [stored |-> AfterReplies(start, messages, <<"answer">>)]

ReadReply ==
    /\ input = Nothing
    /\ \E raw \in Replies :
         /\ input' = [of |-> "reply", raw |-> raw]
         /\ \E parsed \in {ParseReply(raw)} :
              result' = [parsed |-> parsed,
                         sent |-> IF parsed.ok THEN SendMessage(parsed.text, parsed.suggested_replies)
                                  ELSE parsed]

FormatText ==
    /\ input = Nothing
    /\ \E written \in Texts :
         /\ input' = [of |-> "text", text |-> written]
         /\ result' = [html |-> FormatForTelegram(written)]

Next == ParseUpdate \/ MergeAlbum \/ Converse \/ ReadReply \/ FormatText

Spec == Init /\ [][Next]_vars

-----------------------------------------------------------------------------
(* NobodyIsIgnored, of every update.                                       *)
ChatsAreAnswered == input.of = "update" => NobodyIsIgnored(input.update, result.handled)

(* QuotedImagesAreExplained, of every update.                              *)
QuotesAreExplained == input.of = "update" => QuotedImagesAreExplained(result.message)

(* SurvivesStorage, of parsed and of merged messages.                      *)
MessagesSurviveStorage == input.of \in {"update", "album"} => SurvivesStorage(result.message)

(* MergeIgnoresArrival and MergeCoversAlbum, of every album.               *)
AlbumsMerge ==
    input.of = "album" => /\ MergeIgnoresArrival(input.photos, result.message)
                          /\ MergeCoversAlbum(input.photos, result.message)

(* TurnsStayWhole, of every conversation.                                  *)
TranscriptsAreWhole ==
    input.of = "messages" => TurnsStayWhole(input.start, input.messages, <<"answer">>, result.stored)

(* AnswerIsFound, of every reply of Codex.                                 *)
AnswersAreFound == input.of = "reply" => AnswerIsFound(input.raw, result.parsed)

(* KeyboardIsUsable, of every reply that is sent.                          *)
KeyboardsAreUsable == input.of = "reply" => KeyboardIsUsable(result.sent)

(* SentAsParsed, of every reply that is parsed and sent.                   *)
RepliesAreSentAsParsed == input.of = "reply" => SentAsParsed(result.parsed, result.sent)

(* ShowsWhatWasWritten, of every text.                                     *)
TextIsShown == input.of = "text" => ShowsWhatWasWritten(input.text, result.html)

(* NothingLeftUnrendered, of every text.                                   *)
MarkupIsRendered == input.of = "text" => NothingLeftUnrendered(result.html)

(* TagsStayInTheirLine, of every text.                                     *)
TagsAreLocal == input.of = "text" => TagsStayInTheirLine(result.html)
=============================================================================
