---------------------------- MODULE ReplyParsing ----------------------------
(***************************************************************************)
(* What the service makes of the text codex exec leaves behind             *)
(* (json_payload_parser.rs, reply_parser.rs), and what send_message makes  *)
(* of it once more (normalize_reply and build_reply_markup of              *)
(* telegram_message_formatter.rs).  Pure functions; Algorithms applies     *)
(* them.                                                                   *)
(*                                                                         *)
(* A text is a sequence of pieces, up to white space around it and up to   *)
(* the escapes normalize_text rewrites; the empty sequence is a blank      *)
(* text. What a regular expression takes out of JSON is not decoded, so a  *)
(* text or a reply of a broken piece is the characters between its quotes, *)
(* with their escapes. A piece is one of                                   *)
(*    prose   words without braces or quotes,                              *)
(*    fence   three backticks, with "json" or without,                     *)
(*    object  a JSON object: its "text" and "suggested_replies", or Absent,*)
(*            and the strings it has under other keys, in ascending order, *)
(*    broken  the same, but not valid JSON; closed if it has its brace,    *)
(*    array, null, and quoted, a JSON string that holds a text,            *)
(*    shred   what a cut through several pieces leaves: not JSON.          *)
(***************************************************************************)
EXTENDS Integers, SequencesExt, FiniteSetsExt

CONSTANTS Absent,        \* a key or an element that is missing or of another type
          Truncated(_),  \* truncate_chars: at most MAX_SUGGESTED_REPLY_LENGTH
          Pieces,        \* what texts are made of, also those inside a piece
          Opens(_),      \* a piece has an opening brace in it
          Closes(_)      \* a piece has a closing brace in it

(* A quoted string has the braces of the text it holds.                    *)
ASSUME BracesAssumption ==
    \A p \in Pieces :
      /\ Opens(p) <=> \/ p.kind \in {"object", "broken"}
                      \/ p.kind = "quoted" /\ \E i \in DOMAIN p.inner : Opens(p.inner[i])
      /\ Closes(p) <=> \/ p.kind = "object"
                       \/ p.kind = "broken" /\ p.closed
                       \/ p.kind = "quoted" /\ \E i \in DOMAIN p.inner : Closes(p.inner[i])

MAX_SUGGESTED_REPLIES == 3

Word(w) == <<[kind |-> "prose", word |-> w]>>
Fence == [kind |-> "fence"]
Shred == <<[kind |-> "shred"]>>

DefaultReplies == <<Word("default 1"), Word("default 2"), Word("default 3")>>

Blank(text) == text = <<>>

(* The indexes of the pieces of a text that satisfy a test. *)
Where(text, Test(_)) == { i \in DOMAIN text : Test(text[i]) }

-----------------------------------------------------------------------------
(* JsonPayloadParser *)

(* FENCE_PREFIX, then FENCE_SUFFIX *)
Unwrapped(text) ==
    LET tail == IF text # <<>> /\ text[1] = Fence THEN Tail(text) ELSE text
    IN IF tail # <<>> /\ Last(tail) = Fence THEN Front(tail) ELSE tail

(* extract_json_object: from the first "{" to the last "}"; a quoted string
   is cut in two by it. *)
Extracted(text) ==
    LET opening == Where(text, Opens)
        closing == Where(text, Closes)
    IN IF opening = {} \/ closing = {} \/ Min(opening) > Max(closing) THEN Absent
       ELSE LET first == Min(opening)
                last == Max(closing)
                Cut(i) == IF text[i].kind = "quoted" THEN Shred[1] ELSE text[i]
            IN IF first = last THEN <<Cut(first)>>
               ELSE <<Cut(first)>> \o SubSeq(text, first + 1, last - 1) \o <<Cut(last)>>

HasText(p) == p.kind \in {"object", "broken"} /\ p.text # Absent
HasReplies(p) == p.kind \in {"object", "broken"} /\ p.replies # Absent

(* RELAXED_TEXT: from the first "text" to the first "suggested_replies" that
   follows a string, across objects if need be. *)
RelaxedText(text) ==
    LET texts == Where(text, HasText)
        whole == { i \in texts : HasReplies(text[i]) }
    IN IF whole = {} THEN <<>>
       ELSE IF Min(texts) = Min(whole) THEN text[Min(whole)].text ELSE Shred

(* QUOTED_STRING: the strings of an array. *)
Strings(elements) ==
    LET found[i \in 0..Len(elements)] ==
            IF i = 0 THEN <<>>
            ELSE IF elements[i] = Absent THEN found[i - 1] ELSE Append(found[i - 1], elements[i])
    IN found[Len(elements)]

(* RELAXED_SUGGESTED_REPLIES: the quoted strings of the first such array. *)
RelaxedReplies(text) ==
    LET arrays == Where(text, HasReplies)
    IN IF arrays = {} THEN <<>> ELSE Strings(text[Min(arrays)].replies)

(* extract_relaxed_payload *)
Relaxed(text) ==
    IF Blank(RelaxedText(text)) /\ RelaxedReplies(text) = <<>> THEN <<>>
    ELSE <<[kind |-> "object", text |-> RelaxedText(text), replies |-> RelaxedReplies(text), others |-> <<>>]>>

(* Mutant of Candidates: nothing is read that is not valid JSON. *)
CandidatesStrict(raw) ==
    <<raw, Unwrapped(raw), IF Extracted(Unwrapped(raw)) = Absent THEN <<>> ELSE Extracted(Unwrapped(raw)), <<>>>>

(* candidate_payloads; a blank one is skipped. *)
Candidates(raw) ==
    LET unwrapped == Unwrapped(raw)
        extracted == Extracted(unwrapped)
    IN <<raw, unwrapped,
         IF extracted = Absent THEN <<>> ELSE extracted,
         Relaxed(IF extracted = Absent THEN unwrapped ELSE extracted)>>

(* serde_json::from_str: a text is JSON when it is one piece that is. *)
IsJson(text) == Len(text) = 1 /\ text[1].kind \in {"object", "array", "null", "quoted"}

(* The value of a candidate: a string is read once more. *)
Payload(text) ==
    IF ~IsJson(text) THEN Absent
    ELSE IF text[1].kind # "quoted" THEN text[1]
    ELSE IF IsJson(text[1].inner) THEN text[1].inner[1] ELSE Absent

(* parse_payload: the first value that is not null. *)
ParsePayload(raw) ==
    LET values == [i \in 1..4 |-> Payload(Candidates(raw)[i])]
        read == { i \in 1..4 : values[i] # Absent /\ values[i].kind # "null" }
    IN IF read = {} THEN Absent ELSE values[Min(read)]

-----------------------------------------------------------------------------
(* ReplyParser *)

(* sanitize_suggested_replies: a reply is compared with those already kept
   before it is truncated. *)
Sanitize(replies, fallback) ==
    LET Sanitized(kept, r) ==
            IF Len(kept) = MAX_SUGGESTED_REPLIES \/ r = Absent \/ r = <<>> \/ Contains(kept, r)
            THEN kept ELSE Append(kept, Truncated(r))
        cleaned[i \in 0..Len(replies)] ==
            IF i = 0 THEN <<>> ELSE Sanitized(cleaned[i - 1], replies[i])
    IN IF Len(cleaned[Len(replies)]) < MAX_SUGGESTED_REPLIES THEN fallback ELSE cleaned[Len(replies)]

(* Mutant of ReplyText: the fallback is the reply without its fences. *)
ReplyTextUnwrapped(payload, raw) ==
    IF payload # Absent /\ payload.kind = "object" /\ payload.text # Absent /\ ~Blank(payload.text)
    THEN payload.text ELSE Unwrapped(raw)

(* extract_reply_text and fallback_reply_text: "text", or the greatest other
   string, or the string itself, or the reply as it is. *)
ReplyText(payload, raw) ==
    IF payload = Absent THEN raw
    ELSE IF payload.kind = "object" THEN
        IF payload.text # Absent /\ ~Blank(payload.text) THEN payload.text
        ELSE LET strings == { i \in DOMAIN payload.others : ~Blank(payload.others[i]) }
             IN IF strings # {} THEN payload.others[Max(strings)] ELSE raw
    ELSE IF payload.kind = "quoted" /\ ~Blank(payload.inner) THEN payload.inner
    ELSE raw

(* extract_suggested_replies *)
SuggestedReplies(payload, raw) ==
    IF payload # Absent /\ payload.kind = "array" THEN Sanitize(payload.elements, DefaultReplies)
    ELSE IF payload # Absent /\ payload.kind = "object" /\ payload.replies # Absent
         THEN Sanitize(payload.replies, DefaultReplies)
    ELSE Sanitize(<<raw>>, DefaultReplies)

(* parse_reply: an error when there is no text at all. *)
ParseReply(raw) ==
    LET payload == ParsePayload(raw)
        text == ReplyText(payload, raw)
    IN [ok |-> ~Blank(text), text |-> text, suggested_replies |-> SuggestedReplies(payload, raw)]

-----------------------------------------------------------------------------
(* TelegramMessageFormatter, as send_message calls it *)

(* normalize_reply: the text is parsed as a reply of Codex would be. *)
NormalizeReply(text, suggested) ==
    [ParseReply(text) EXCEPT !.suggested_replies = IF suggested = <<>> THEN @ ELSE suggested]

(* Mutant of CleanReplies: what was sanitized needs no cleaning. *)
CleanNothing(replies) == replies

(* clean_replies *)
CleanReplies(replies) ==
    LET Cleaned(kept, r) ==
            IF Len(kept) = MAX_SUGGESTED_REPLIES \/ Blank(r) \/ Contains(kept, r)
            THEN kept ELSE Append(kept, r)
        cleaned[i \in 0..Len(replies)] ==
            IF i = 0 THEN <<>> ELSE Cleaned(cleaned[i - 1], replies[i])
    IN cleaned[Len(replies)]

(* build_reply_markup without remove_keyboard, and the call it goes into. *)
SendMessage(text, suggested) ==
    [NormalizeReply(text, suggested) EXCEPT !.suggested_replies = CleanReplies(@)]

-----------------------------------------------------------------------------
(***************************************************************************)
(* Properties of a raw reply, of what was parsed and of what was sent.     *)
(***************************************************************************)

(* An answer of the form the prompt asks for, valid or not.                *)
IsAnswer(p) ==
    /\ HasText(p) /\ ~Blank(p.text)
    /\ HasReplies(p) /\ Len(p.replies) = MAX_SUGGESTED_REPLIES
    /\ Sanitize(p.replies, <<>>) = p.replies

(* Whatever words and fences Codex puts around it, an answer of the form   *)
(* the prompt asks for is found and taken as it is, also one whose JSON is *)
(* broken or was encoded twice. (Of broken JSON it is taken as the regular *)
(* expressions read it: with the escapes in its strings.)                  *)
AnswerIsFound(raw, parsed) ==
    LET Taken(p) == parsed = [ok |-> TRUE, text |-> p.text, suggested_replies |-> p.replies]
    IN \A i \in DOMAIN raw :
         /\ /\ IsAnswer(raw[i])
            /\ \A j \in DOMAIN raw \ {i} : raw[j].kind \in {"fence", "prose"}
            => Taken(raw[i])
         /\ /\ raw[i].kind = "quoted" /\ raw \in {<<raw[i]>>, <<Fence, raw[i], Fence>>}
            /\ Len(raw[i].inner) = 1 /\ raw[i].inner[1].kind = "object" /\ IsAnswer(raw[i].inner[1])
            => Taken(raw[i].inner[1])

(* A message always goes out with a keyboard of one to three buttons, no   *)
(* two alike, none blank and none longer than the limit, although          *)
(* Sanitize may return the same reply twice (it compares before it         *)
(* truncates).                                                             *)
KeyboardIsUsable(sent) ==
    sent.ok => /\ Len(sent.suggested_replies) \in 1..MAX_SUGGESTED_REPLIES
               /\ IsInjective(sent.suggested_replies)
               /\ \A b \in ToSet(sent.suggested_replies) : ~Blank(b) /\ Truncated(b) = b

(* The text that was parsed, which is also what the transcript keeps, is   *)
(* the text that is sent, fences and all, unless there is an object or a   *)
(* quoted string in it: send_message parses it again and would send that.  *)
SentAsParsed(parsed, sent) ==
    parsed.ok => /\ sent.ok
                 /\ (\A p \in ToSet(parsed.text) : p.kind \notin {"object", "broken", "quoted"})
                    => sent.text = parsed.text
=============================================================================
