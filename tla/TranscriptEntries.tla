-------------------------- MODULE TranscriptEntries --------------------------
(***************************************************************************)
(* What of a message enters the transcript (codex_reply_client.rs), and    *)
(* how a transcript is stored and read back, entry by entry                *)
(* (transcript.rs).  The modules of the conversation take a turn of a user *)
(* message and a reply as one element (Transcript); that they may is       *)
(* TurnsStayWhole.                                                         *)
(*                                                                         *)
(* A content is the sequence of the texts it is composed of, the empty one *)
(* is blank; the sentences the service adds are "DESCRIBE_IMAGE" and so    *)
(* on, whatever their wording.                                             *)
(***************************************************************************)
EXTENDS InboundParsing

CONSTANT MAX_TRANSCRIPT_MESSAGES  \* entries of a transcript; 100 in the code

ASSUME WindowHoldsTurns ==
    MAX_TRANSCRIPT_MESSAGES \in {n \in Nat : n > 0 /\ n % 2 = 0}

Entry(role, content) == [role |-> role, content |-> content]

(* from_messages: the last entries. *)
Window(entries) ==
    SubSeq(entries, Len(entries) - MAX_TRANSCRIPT_MESSAGES + 1, Len(entries))

FromMessages(entries) ==
    IF Len(entries) <= MAX_TRANSCRIPT_MESSAGES THEN entries ELSE Window(entries)

(* Whether from_conversation_state keeps an entry. *)
Whole(entry) == entry.role \in {"user", "assistant"} /\ entry.content # <<>>

(* from_conversation_state; None is a state that is missing, blank or
   unreadable.  to_conversation_state writes the entries as they are. *)
FromConversationState(stored) ==
    IF stored = None THEN <<>>
    ELSE LET kept[i \in 0..Len(stored)] ==
                 IF i = 0 THEN <<>>
                 ELSE IF Whole(stored[i]) THEN Append(kept[i - 1], stored[i]) ELSE kept[i - 1]
         IN FromMessages(kept[Len(stored)])

AppendEntry(entries, role, content) == FromMessages(Append(entries, Entry(role, content)))

CompactBaseline(summary) ==
    AppendEntry(AppendEntry(<<>>, "user", <<"COMPACT_BASELINE">>), "assistant", summary)

-----------------------------------------------------------------------------
EffectiveImageFileIds(m) ==
    IF m.image_file_ids = <<>> THEN m.reply_to_image_file_ids ELSE m.image_file_ids

(* Mutant of NormalizeUserText: nothing is said of images without words. *)
NormalizeWordsOnly(text, images) == IF text = None THEN <<>> ELSE <<text>>

NormalizeUserText(text, images) ==
    IF text # None THEN <<text>>
    ELSE IF images = 0 THEN <<>>
    ELSE IF images = 1 THEN <<"DESCRIBE_IMAGE">> ELSE <<"COMPARE_IMAGES">>

BuildUserMessage(text, images, reply_to_text) ==
    LET base == NormalizeUserText(text, images)
    IN IF reply_to_text = None THEN base
       ELSE <<"REPLYING_TO", reply_to_text>> \o IF base = <<>> THEN <<"NO_WORDS">> ELSE base

(* The user message of an inbound message all of whose images were downloaded. *)
UserMessage(m) == BuildUserMessage(m.text, Len(EffectiveImageFileIds(m)), m.reply_to_text)

(* generate_reply: the conversation state that goes with the reply. *)
GenerateReply(stored, m, text) ==
    AppendEntry(AppendEntry(FromConversationState(stored), "user", UserMessage(m)), "assistant", text)

(* The state after a reply to each of some messages. *)
AfterReplies(start, messages, text) ==
    LET stored[i \in 0..Len(messages)] ==
            IF i = 0 THEN start ELSE GenerateReply(stored[i - 1], messages[i], text)
    IN stored[Len(messages)]

-----------------------------------------------------------------------------
(* After any messages that go on, each answered, the stored transcript is  *)
(* the end of all that was said, in whole turns of a user and an assistant *)
(* entry: no entry is lost when it is read back, not even that of a photo  *)
(* without words, and every message's own words and those it quotes are in *)
(* its entry.                                                              *)
TurnsStayWhole(start, messages, answer, stored) ==
    LET Turn(m) == <<Entry("user", UserMessage(m)), Entry("assistant", answer)>>
        said == (IF start = None THEN <<>> ELSE start)
                \o FlattenSeq([i \in DOMAIN messages |-> Turn(messages[i])])
    IN /\ IsSuffix(stored, said)
       /\ Len(stored) = IF Len(said) < MAX_TRANSCRIPT_MESSAGES THEN Len(said) ELSE MAX_TRANSCRIPT_MESSAGES
       /\ \A i \in DOMAIN stored : stored[i].role = "user" <=> i % 2 = 1
       /\ FromConversationState(stored) = stored
       /\ \A m \in ToSet(messages) :
            {m.text, m.reply_to_text} \ {None} \subseteq ToSet(UserMessage(m))
=============================================================================
