--------------------------- MODULE InboundParsing ---------------------------
(***************************************************************************)
(* From a Telegram update to the inbound message the service works on      *)
(* (telegram_update_parser.rs, inbound_message.rs), from the photos of an  *)
(* album to one message (media_group_merger.rs), and the choice between    *)
(* going on with a message and telling the chat that it is not supported   *)
(* (unsupported_message_handler.rs).  Pure functions: there is no state    *)
(* here, Algorithms applies them.                                          *)
(*                                                                         *)
(* A text is its core together with white space around it: Trimmed says    *)
(* what trim leaves.  Optional values are the value or None.  Types and    *)
(* names of documents are classes: what is_image_document looks at.        *)
(***************************************************************************)
EXTENDS Integers, SequencesExt

CONSTANTS None,         \* a value that is missing
          Trimmed       \* [text -> text]: the text without white space around it

Text == DOMAIN Trimmed

(* The texts that are not blank and have no white space around them. *)
Words == { t \in Text : t # "" /\ Trimmed[t] = t }

ASSUME TrimmedAssumption ==
    /\ None \notin Text
    /\ \A t \in Text : Trimmed[t] \in Text /\ Trimmed[Trimmed[t]] = Trimmed[t]
    /\ {"REPLY_TO_IMAGE", "REPLY_TO_IMAGE_DOCUMENT"} \subseteq Words

(* str::trim and the filter: a missing or a blank text becomes None. *)
BlankToNone(text) ==
    IF text = None \/ Trimmed[text] = "" THEN None ELSE Trimmed[text]

OrElse(a, b) == IF a = None THEN b ELSE a

(* What normalize_strings does with one value. *)
PushNew(kept, value) ==
    IF value = None \/ Contains(kept, value) THEN kept ELSE Append(kept, value)

(* normalize_strings: trimmed, without blanks, every value once, in order. *)
NormalizeStrings(values) ==
    LET kept[i \in 0..Len(values)] ==
            IF i = 0 THEN <<>> ELSE PushNew(kept[i - 1], BlankToNone(values[i]))
    IN kept[Len(values)]

Earlier(a, b) ==
    \/ a.message_id < b.message_id
    \/ a.message_id = b.message_id /\ a.update_id < b.update_id

(* Mutant of SortById: the order of arrival is kept. *)
SortNothing(items) == items

(* sort_by message id, then update id, which is stable. *)
SortById(items) ==
    LET Before(i, j) == \/ Earlier(items[i], items[j])
                        \/ ~Earlier(items[j], items[i]) /\ i < j
        order == CHOOSE p \in Bijection(DOMAIN items, DOMAIN items) :
                     \A i, j \in DOMAIN items : i < j => Before(p[i], p[j])
    IN [i \in DOMAIN items |-> items[order[i]]]

-----------------------------------------------------------------------------
(* InboundMessage *)

(* InboundMessage::new *)
New(m) ==
    [ m EXCEPT !.image_file_ids = NormalizeStrings(@),
               !.media_group_id = BlankToNone(@),
               !.reply_to_image_file_ids = NormalizeStrings(@),
               !.reply_to_text = BlankToNone(@),
               !.text = BlankToNone(@),
               !.processing_updates =
                   SortById(IF @ = <<>> THEN <<[update_id |-> m.update_id, message_id |-> m.message_id]>>
                                        ELSE @) ]

Unsupported(m) == m.text = None /\ m.image_file_ids = <<>>

(* What serde writes: camelCase keys for the message, the fields' own names
   for a processing update. *)
ToJson(m) ==
    [ chatId |-> m.chat_id, userId |-> m.user_id,
      messageId |-> m.message_id, updateId |-> m.update_id,
      text |-> m.text, mediaGroupId |-> m.media_group_id, imageFileIds |-> m.image_file_ids,
      replyToText |-> m.reply_to_text, replyToImageFileIds |-> m.reply_to_image_file_ids,
      processingUpdates |-> m.processing_updates ]

(* Fields of a JSON object; a key it does not have reads as the default. *)
Field(json, key, default) == IF key \in DOMAIN json THEN json[key] ELSE default

(* processing_updates_field *)
ProcessingUpdates(json) ==
    LET updates == Field(json, "processingUpdates", <<>>)
    IN [ i \in DOMAIN updates |-> [update_id |-> Field(updates[i], "update_id", 0),
                                   message_id |-> Field(updates[i], "message_id", 0)] ]

(* Mutant of FromJson: the updates of an album are not read back. *)
FromJsonAlone(json) ==
    New([ chat_id |-> json.chatId, user_id |-> json.userId, message_id |-> json.messageId,
          update_id |-> json.updateId, text |-> json.text, media_group_id |-> json.mediaGroupId,
          image_file_ids |-> json.imageFileIds, reply_to_text |-> json.replyToText,
          reply_to_image_file_ids |-> json.replyToImageFileIds, processing_updates |-> <<>> ])

(* InboundMessage::from_json *)
FromJson(json) ==
    New([ chat_id |-> Field(json, "chatId", ""), user_id |-> Field(json, "userId", ""),
          message_id |-> Field(json, "messageId", 0), update_id |-> Field(json, "updateId", 0),
          text |-> Field(json, "text", None), media_group_id |-> Field(json, "mediaGroupId", None),
          image_file_ids |-> Field(json, "imageFileIds", <<>>),
          reply_to_text |-> Field(json, "replyToText", None),
          reply_to_image_file_ids |-> Field(json, "replyToImageFileIds", <<>>),
          processing_updates |-> ProcessingUpdates(json) ])

-----------------------------------------------------------------------------
(* MessageExtractor and TelegramUpdateParser *)

TextOf(message) == OrElse(BlankToNone(message.text), BlankToNone(message.caption))

HasPhoto(message) == message.photo # None /\ message.photo # <<>>

SizeOf(photo) == OrElse(photo.file_size, 0)

(* The stable sort by descending size puts the first of the largest in front. *)
Largest(photos) ==
    photos[Min({ i \in DOMAIN photos : \A q \in ToSet(photos) : SizeOf(q) <= SizeOf(photos[i]) })]

FileId(file) == IF file.file_id = "" THEN None ELSE file.file_id

PhotoFileId(message) == IF HasPhoto(message) THEN FileId(Largest(message.photo)) ELSE None

IsImageDocument(document) == document.mime_type = "image" \/ document.file_name = "image"

ImageDocumentFileId(message) ==
    IF message.document # None /\ IsImageDocument(message.document)
    THEN FileId(message.document) ELSE None

ImageFileIds(message) ==
    LET id == OrElse(ImageDocumentFileId(message), PhotoFileId(message))
    IN IF id = None THEN <<>> ELSE <<id>>

(* Mutant of ReplyToText: only a quoted photo without words is mentioned. *)
ReplyToPhotoOnly(message) ==
    IF message.reply_to_message = None THEN None
    ELSE OrElse(TextOf(message.reply_to_message),
                IF HasPhoto(message.reply_to_message) THEN "REPLY_TO_IMAGE" ELSE None)

(* reply_to_text: the words of the quoted message, or what kind of image it is. *)
ReplyToText(message) ==
    IF message.reply_to_message = None THEN None
    ELSE LET reply == message.reply_to_message
         IN OrElse(TextOf(reply),
                   IF HasPhoto(reply) THEN "REPLY_TO_IMAGE"
                   ELSE IF ImageDocumentFileId(reply) # None THEN "REPLY_TO_IMAGE_DOCUMENT" ELSE None)

Supported(message) ==
    message.text # None \/ HasPhoto(message) \/ ImageDocumentFileId(message) # None

Complete(update) ==
    /\ update.update_id # None /\ update.message # None
    /\ update.message.message_id # None /\ update.message.from # None /\ update.message.chat # None

(* parse_incoming_telegram_message *)
Parse(update) ==
    IF ~(Complete(update) /\ Supported(update.message)) THEN None
    ELSE LET message == update.message
             reply == message.reply_to_message
         IN New([ chat_id |-> message.chat, user_id |-> message.from,
                  message_id |-> message.message_id, update_id |-> update.update_id,
                  text |-> TextOf(message), media_group_id |-> BlankToNone(message.media_group_id),
                  image_file_ids |-> ImageFileIds(message),
                  reply_to_text |-> ReplyToText(message),
                  reply_to_image_file_ids |-> IF reply = None THEN <<>> ELSE ImageFileIds(reply),
                  processing_updates |-> <<>> ])

(* Mutant of Handle: only a message that could be parsed is told off. *)
HandleParsedOnly(message, update) ==
    IF message # None /\ ~Unsupported(message) THEN [outcome |-> "goes on", chat |-> message.chat_id]
    ELSE IF message # None THEN [outcome |-> "notice", chat |-> message.chat_id]
    ELSE [outcome |-> "dropped", chat |-> None]

(* UnsupportedMessageHandler::handle: go on, or tell the chat if there is one. *)
Handle(message, update) ==
    IF message # None /\ ~Unsupported(message) THEN [outcome |-> "goes on", chat |-> message.chat_id]
    ELSE LET chat == IF message # None THEN message.chat_id
                     ELSE IF update.message = None THEN None ELSE update.message.chat
         IN [outcome |-> IF chat = None THEN "dropped" ELSE "notice", chat |-> chat]

-----------------------------------------------------------------------------
(* MediaGroupMerger *)

(* MediaGroupMerger::merge of a nonempty sequence of messages. *)
Merge(messages) ==
    LET sorted == SortById(messages)
        worded == { i \in DOMAIN sorted : sorted[i].text # None }
        primary == sorted[1]
    IN New([ primary EXCEPT
                 !.text = IF worded = {} THEN None ELSE sorted[Min(worded)].text,
                 !.image_file_ids = FlattenSeq([i \in DOMAIN sorted |-> sorted[i].image_file_ids]),
                 !.reply_to_text = None, !.reply_to_image_file_ids = <<>>,
                 !.processing_updates =
                     [ i \in DOMAIN sorted |-> [update_id |-> sorted[i].update_id,
                                                message_id |-> sorted[i].message_id] ] ])

-----------------------------------------------------------------------------
(***************************************************************************)
(* Properties of an update and of what became of it.                       *)
(***************************************************************************)

(* No chat is left without a word: an update that names its chat either    *)
(* goes on as a message or the chat is told that it is not supported; and  *)
(* a message with words in it, or with a photo, is never refused.          *)
NobodyIsIgnored(update, handled) ==
    LET message == update.message
    IN message # None =>
         /\ message.chat # None => handled.outcome # "dropped"
         /\ Complete(update)
            /\ \/ BlankToNone(message.text) # None
               \/ HasPhoto(message) /\ \A p \in ToSet(message.photo) : FileId(p) # None
            => handled.outcome = "goes on"

(* Images of a quoted message are never passed to Codex without a text     *)
(* that says where they come from.                                         *)
QuotedImagesAreExplained(message) ==
    message # None /\ message.reply_to_image_file_ids # <<>> => message.reply_to_text # None

(* A message that is stored in media_group_messages as JSON is read back   *)
(* as it was, with all the updates it answers for.                         *)
SurvivesStorage(message) == message # None => FromJson(ToJson(message)) = message

(* Merging the photos of an album, which arrive in any order, gives the    *)
(* message that merging them in the order they were sent would give.       *)
MergeIgnoresArrival(photos, merged) ==
    LET sent == CHOOSE s \in SetToSeqs(ToSet(photos)) :
                    \A i, j \in DOMAIN s : i < j => s[i].message_id < s[j].message_id
    IN merged = Merge(sent)

(* The merged message claims exactly the updates of its photos, its own    *)
(* update first, and shows every image once: what UpdatePipeline assumes   *)
(* of an album (Primary, PartsOf).                                         *)
MergeCoversAlbum(photos, merged) ==
    /\ merged.processing_updates[1] = [update_id |-> merged.update_id, message_id |-> merged.message_id]
    /\ Len(merged.processing_updates) = Len(photos)
    /\ {u.update_id : u \in ToSet(merged.processing_updates)} = {p.update_id : p \in ToSet(photos)}
    /\ ToSet(merged.image_file_ids) = UNION {ToSet(p.image_file_ids) : p \in ToSet(photos)}
    /\ IsInjective(merged.image_file_ids)
=============================================================================
