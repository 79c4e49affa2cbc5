-------------------------- MODULE MessageFormatting --------------------------
(***************************************************************************)
(* format_for_telegram of telegram_message_formatter.rs: the Markdown of a *)
(* reply becomes the HTML Telegram accepts.  A text is a sequence of       *)
(* characters: "n" is the newline, "r" the carriage return, " " a blank    *)
(* (or a tab), "x" any letter or digit, "." what else the name of a        *)
(* language may be made of, and "," any character without a meaning of     *)
(* its own.  The output is a sequence of characters and tags, an entity    *)
(* spelled out character by character because escape_html replaces "&"     *)
(* first and "<" after it.  Telegram rejects a message whose HTML it       *)
(* cannot parse, and the reply is then never delivered.                    *)
(***************************************************************************)
EXTENDS Integers, SequencesExt, FiniteSetsExt

Newline == "n"
Tick == "^"     \* the backtick, which TLA+ strings cannot hold
Return == "r"
Space == " "
Language == {"x", "_", "."}
Characters == Language \cup {Space, ",", Tick, "*", "|", "~", "&", "<", Newline, Return}
Written == Seq(Characters)

Rule(delimiter, forbidden, tag, lonely) ==
    [delimiter |-> delimiter, forbidden |-> forbidden, tag |-> tag, no_adjacent_underscore |-> lonely]

INLINE_RULES ==
    << Rule(<<Tick>>, Tick, "code", FALSE), Rule(<<"*", "*">>, "*", "b", FALSE),
       Rule(<<"|", "|">>, "|", "spoiler", FALSE), Rule(<<"~", "~">>, "~", "s", FALSE),
       Rule(<<"_", "_">>, "_", "i", TRUE) >>

Open(tag) ==
    [code |-> "<code>", b |-> "<b>", spoiler |-> "<tg-spoiler>", s |-> "<s>", i |-> "<i>", pre |-> "<pre>"][tag]
Close(tag) ==
    [code |-> "</code>", b |-> "</b>", spoiler |-> "</tg-spoiler>", s |-> "</s>", i |-> "</i>", pre |-> "</pre>"][tag]

StartsWith(text, i, prefix) ==
    i + Len(prefix) - 1 <= Len(text) /\ SubSeq(text, i, i + Len(prefix) - 1) = prefix

(* The lowest of a set of positions, or 0. *)
First(positions) == IF positions = {} THEN 0 ELSE Min(positions)

From(text, i) == SubSeq(text, i, Len(text))

Entity(c) == IF c = "&" THEN <<"&", "amp;">> ELSE IF c = "<" THEN <<"&", "lt;">> ELSE <<c>>

(* str::replace of one character by its entity. *)
Replace(text, c) == FlattenSeq([i \in DOMAIN text |-> IF text[i] = c THEN Entity(c) ELSE <<text[i]>>])

(* Mutant of EscapeHtml: the ampersand is replaced last. *)
EscapeAmpersandLast(text) == Replace(Replace(text, "<"), "&")

(* escape_html; the greater-than sign is treated like the less-than sign. *)
EscapeHtml(text) == Replace(Replace(text, "&"), "<")

(* wrap *)
Wrap(tag, content) == <<Open(tag)>> \o EscapeHtml(content) \o <<Close(tag)>>

(* scan_content: where the content that starts at i ends, or 0. It is not
   empty, and has no newline and no forbidden character in it. *)
ScanContent(text, rule, i) ==
    First({ j \in i + 1..Len(text) :
              /\ StartsWith(text, j, rule.delimiter)
              /\ \A k \in i..j - 1 : text[k] \notin {rule.forbidden, Newline} })

(* Mutant of Matches: the character before a delimiter is not looked at. *)
MatchesAnywhere(text, rule, i) ==
    /\ StartsWith(text, i, rule.delimiter)
    /\ ScanContent(text, rule, i + Len(rule.delimiter)) # 0

(* What find_match asks of a position. *)
Matches(text, rule, i) ==
    /\ StartsWith(text, i, rule.delimiter)
    /\ ~(rule.no_adjacent_underscore /\ i > 1 /\ text[i - 1] = "_")
    /\ LET end == ScanContent(text, rule, i + Len(rule.delimiter))
       IN end # 0 /\ ~(rule.no_adjacent_underscore /\ StartsWith(text, end + Len(rule.delimiter), <<"_">>))

(* InlineMatch; one that starts at 0 is none. *)
Match(start, content_start, content_end, end) ==
    [start |-> start, content_start |-> content_start, content_end |-> content_end, end |-> end]

NoMatch == Match(0, 0, 0, 0)

InlineMatch(text, rule, start) ==
    LET content == start + Len(rule.delimiter)
        end == ScanContent(text, rule, content)
    IN IF start = 0 THEN NoMatch ELSE Match(start, content, end, end + Len(rule.delimiter))

(* Mutant of FindMatch: a delimiter without a partner ends the search. *)
FindMatchOrGiveUp(text, rule, i) ==
    LET start == First({ k \in i..Len(text) : StartsWith(text, k, rule.delimiter) })
    IN InlineMatch(text, rule, IF start # 0 /\ Matches(text, rule, start) THEN start ELSE 0)

(* find_match: the first match at or after i. *)
FindMatch(text, rule, i) ==
    InlineMatch(text, rule, First({ k \in i..Len(text) : Matches(text, rule, k) }))

FENCE == <<Tick, Tick, Tick>>

(* A newline at i is passed over. *)
AfterNewline(text, i) == IF StartsWith(text, i, <<Newline>>) THEN i + 1 ELSE i

(* Where a run of characters of S that starts at i ends. *)
RunEnd(text, i, S) == Min({ j \in i..Len(text) + 1 : j <= Len(text) => text[j] \notin S })

(* Mutant of BodyStart: all that stands behind the fence in its line is
   taken for the language. *)
BodyStartBelow(text, i) == AfterNewline(text, RunEnd(text, i + 3, Characters \ {Newline, Tick}))

(* Where the body of a block fenced at i starts: blanks are taken with the
   language behind them, and left if there is none; then a newline. *)
BodyStart(text, i) ==
    LET language == RunEnd(text, i + 3, {Space})
        end == RunEnd(text, language, Language)
    IN AfterNewline(text, IF end = language THEN i + 3 ELSE end)

(* strip_single_leading_newline, of a text from i on. *)
StripLeadingNewline(text, i) ==
    IF StartsWith(text, i, <<Return, Newline>>) THEN i + 2 ELSE AfterNewline(text, i)

(* The first closing fence from position i on, or 0. *)
ClosingFence(text, i) == First({ k \in i..Len(text) : StartsWith(text, k, FENCE) })

(* What FENCED_CODE_BLOCK matches first at or after i, without the line end
   that is stripped from its body. *)
FindBlock(text, i) ==
    LET start == First({ k \in i..Len(text) :
                           StartsWith(text, k, FENCE) /\ ClosingFence(text, BodyStart(text, k)) # 0 })
        body == BodyStart(text, start)
        end == ClosingFence(text, body)
    IN IF start = 0 THEN NoMatch ELSE Match(start, StripLeadingNewline(text, body), end, end + 3)

(* The block's rule, for what its matches have in common with the others.  *)
CODE_BLOCK == Rule(FENCE, Tick, "pre", FALSE)

Find(text, rule, i) == IF rule = CODE_BLOCK THEN FindBlock(text, i) ELSE FindMatch(text, rule, i)

(* One round of the loops over the matches in a text: what is left before a
   match is formatted with next, the match is wrapped. *)
Round(text, match, tag, next, at) ==
    IF match.start = 0 THEN at
    ELSE [ cursor |-> match.end,
           formatted |-> at.formatted
                         \o next[SubSeq(text, at.cursor, match.start - 1)]
                         \o Wrap(tag, SubSeq(text, match.content_start, match.content_end - 1)) ]

(* The loop, and what is left behind the last match. *)
Formatted(text, rule, next) ==
    LET after[k \in 0..Len(text)] ==
            IF k = 0 THEN [cursor |-> 1, formatted |-> <<>>]
            ELSE LET at == after[k - 1]
                 IN Round(text, Find(text, rule, at.cursor), rule.tag, next, at)
        last == after[Len(text)]
    IN last.formatted \o next[From(text, last.cursor)]

(* apply_rules with the last n rules, for each text. *)
ApplyRules ==
    LET apply[n \in 0..Len(INLINE_RULES)] ==
            IF n = 0 THEN [text \in Written |-> EscapeHtml(text)]
            ELSE [text \in Written |-> Formatted(text, INLINE_RULES[Len(INLINE_RULES) + 1 - n], apply[n - 1])]
    IN apply

(* format_for_telegram *)
FormatForTelegram(text) == Formatted(text, CODE_BLOCK, ApplyRules[Len(INLINE_RULES)])

-----------------------------------------------------------------------------
(***************************************************************************)
(* Properties of a text and of the HTML it became.                         *)
(***************************************************************************)

Tags == {"code", "b", "spoiler", "s", "i", "pre"}
Delimiter == [code |-> <<Tick>>, b |-> <<"*", "*">>, spoiler |-> <<"|", "|">>,
              s |-> <<"~", "~">>, i |-> <<"_", "_">>, pre |-> FENCE]

Opening == { Open(tag) : tag \in Tags }
Closing == { Close(tag) : tag \in Tags }
TagOf(token) == CHOOSE tag \in Tags : token \in {Open(tag), Close(tag)}

Read == [ entity \in {"amp;", "lt;"} |-> IF entity = "amp;" THEN <<"&">> ELSE <<"<">> ]

(* What was written to get the i-th token: a tag is its delimiter, an      *)
(* entity is read at its end; what Telegram cannot read is no character.   *)
Source1(html, i) ==
    IF html[i] \in Opening \cup Closing THEN Delimiter[TagOf(html[i])]
    ELSE IF html[i] = "&" THEN IF i < Len(html) /\ html[i + 1] \in DOMAIN Read THEN <<>> ELSE <<"rejected">>
    ELSE IF html[i] = "<" THEN <<"rejected">>
    ELSE IF html[i] \in DOMAIN Read /\ i > 1 /\ html[i - 1] = "&" THEN Read[html[i]]
    ELSE <<html[i]>>

Source(html) == FlattenSeq([i \in DOMAIN html |-> Source1(html, i)])

(* What may be lost behind an opening fence: a language with the blanks    *)
(* before it, a newline and a line end.                                    *)
IsLanguage(s) ==
    \/ s = <<>>
    \/ \E blanks \in 0..Len(s) - 1 :
         \A i \in DOMAIN s : IF i <= blanks THEN s[i] = Space ELSE s[i] \in Language

Parts(text) == { SubSeq(text, i, j) : i \in 1..Len(text) + 1, j \in 0..Len(text) }

Gaps(text) ==
    { language \o newline \o end : language \in { s \in Parts(text) : IsLanguage(s) },
                                  newline \in {<<>>, <<Newline>>},
                                  end \in {<<>>, <<Newline>>, <<Return, Newline>>} }

Blocks(html) == { i \in DOMAIN html : html[i] = Open("pre") }

(* What the HTML was made of, if gaps are what its blocks lost. *)
SourceWith(html, gaps) ==
    FlattenSeq([i \in DOMAIN html |->
                  IF i \in Blocks(html) THEN Source1(html, i) \o gaps[i] ELSE Source1(html, i)])

(* The HTML shows what was written, character by character, escaped once;  *)
(* of a block, all but the language and line ends right behind its opening *)
(* fence.                                                                  *)
ShowsWhatWasWritten(text, html) ==
    \E gaps \in [Blocks(html) -> Gaps(text)] : SourceWith(html, gaps) = text

(* The stretches of the HTML without a tag in them, as <<first, last>>.    *)
Stretches(html) ==
    { s \in (DOMAIN html) \X (DOMAIN html) :
        /\ s[1] <= s[2]
        /\ \A i \in s[1]..s[2] : html[i] \notin Opening \cup Closing
        /\ s[1] > 1 => html[s[1] - 1] \in Opening \cup Closing
        /\ s[2] < Len(html) => html[s[2] + 1] \in Opening \cup Closing }

(* Outside the tags no rule has anything left to do.                       *)
NothingLeftUnrendered(html) ==
    \A s \in Stretches(html) :
      s[1] = 1 \/ html[s[1] - 1] \in Closing =>
        LET rest == Source(SubSeq(html, s[1], s[2]))
        IN \A rule \in ToSet(INLINE_RULES), i \in DOMAIN rest : ~Matches(rest, rule, i)

(* An inline tag stays on its line and is never empty, and italics are     *)
(* only made of exactly two underscores on each side.                      *)
TagsStayInTheirLine(html) ==
    \A i \in DOMAIN html :
      html[i] \in Opening /\ TagOf(html[i]) # "pre" =>
        LET j == Min({ k \in i..Len(html) : html[k] \in Closing })
            content == SubSeq(html, i + 1, j - 1)
        IN /\ content # <<>> /\ Newline \notin ToSet(content)
           /\ TagOf(html[j]) = TagOf(html[i])
           /\ TagOf(html[i]) = "i" =>
                /\ "_" \notin ToSet(content)
                /\ i > 1 => html[i - 1] # "_"
                /\ j < Len(html) => html[j + 1] # "_"
=============================================================================
