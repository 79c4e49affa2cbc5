-------------------------- MODULE FormattingProofs --------------------------
(***************************************************************************)
(* What MessageFormatting makes of a text: lemmas for AlgorithmsProofs.    *)
(***************************************************************************)
EXTENDS MessageFormatting, SequenceLemmas

Entities == {"amp;", "lt;"}
Escaped == Characters \cup Entities
Tokens == Escaped \cup Opening \cup Closing
Html == Seq(Tokens)

(* What can be read out of a token. *)
Shown == Escaped \cup {"rejected"}

(* An HTML that does not begin inside an entity. *)
Headed(html) == html = <<>> \/ html[1] \notin Entities

LEMMA TokenFacts ==
  /\ Opening = {"<code>", "<b>", "<tg-spoiler>", "<s>", "<i>", "<pre>"}
  /\ Closing = {"</code>", "</b>", "</tg-spoiler>", "</s>", "</i>", "</pre>"}
  /\ Characters = {"x", "_", ".", " ", ",", "^", "*", "|", "~", "&", "<", "n", "r"}
  /\ \A tag \in Tags : Open(tag) \in Opening /\ Close(tag) \in Closing
<1>1. Characters = {"x", "_", ".", " ", ",", "^", "*", "|", "~", "&", "<", "n", "r"}
  BY DEF Characters, Language, Space, Return, Tick, Newline
<1>2. /\ Open("code") = "<code>" /\ Open("b") = "<b>" /\ Open("spoiler") = "<tg-spoiler>"
      /\ Open("s") = "<s>" /\ Open("i") = "<i>" /\ Open("pre") = "<pre>"
  BY DEF Open
<1>3. /\ Close("code") = "</code>" /\ Close("b") = "</b>" /\ Close("spoiler") = "</tg-spoiler>"
      /\ Close("s") = "</s>" /\ Close("i") = "</i>" /\ Close("pre") = "</pre>"
  BY DEF Close
<1> QED
  BY <1>1, <1>2, <1>3 DEF Opening, Closing, Tags

LEMMA TagOfFacts ==
  ASSUME NEW tag \in Tags
  PROVE  TagOf(Open(tag)) = tag /\ TagOf(Close(tag)) = tag
<1>1. /\ Open("code") = "<code>" /\ Open("b") = "<b>" /\ Open("spoiler") = "<tg-spoiler>"
      /\ Open("s") = "<s>" /\ Open("i") = "<i>" /\ Open("pre") = "<pre>"
  BY DEF Open
<1>2. /\ Close("code") = "</code>" /\ Close("b") = "</b>" /\ Close("spoiler") = "</tg-spoiler>"
      /\ Close("s") = "</s>" /\ Close("i") = "</i>" /\ Close("pre") = "</pre>"
  BY DEF Close
<1>3. ASSUME NEW token, NEW t \in Tags, token \in {Open(tag), Close(tag)}, token \in {Open(t), Close(t)}
      PROVE  t = tag
  BY <1>1, <1>2, <1>3 DEF Tags
<1>4. ASSUME NEW token \in {Open(tag), Close(tag)} PROVE TagOf(token) = tag
  <2>1. \A t \in Tags : token \in {Open(t), Close(t)} => t = tag
    BY <1>3
  <2> QED
    BY <2>1 DEF TagOf
<1> QED
  BY <1>4

-----------------------------------------------------------------------------
(* escape_html puts an entity in the place of each character.               *)
LEMMA ReplaceFacts ==
  ASSUME NEW c \in {"&", "<"}
  PROVE  /\ Replace(<<>>, c) = <<>>
         /\ \A a \in Escaped : Replace(<<a>>, c) = IF a = c THEN Entity(c) ELSE <<a>>
         /\ \A s \in Seq(Escaped) : Replace(s, c) \in Seq(Escaped)
         /\ \A s, t \in Seq(Escaped) : Replace(s \o t, c) = Replace(s, c) \o Replace(t, c)
<1> DEFINE m == [a \in Escaped |-> IF a = c THEN Entity(c) ELSE <<a>>]
<1>1. Entity(c) \in Seq(Escaped)
  <2>1. "&" \in Escaped /\ "amp;" \in Escaped /\ "lt;" \in Escaped
    BY TokenFacts DEF Escaped, Entities
  <2> QED
    BY <2>1, TupleFacts DEF Entity
<1>2. m \in [Escaped -> Seq(Escaped)]
  BY <1>1
<1>3. ASSUME NEW s \in Seq(Escaped) PROVE Replace(s, c) = FlatMap(m, s)
  <2>1. \A i \in DOMAIN s : s[i] \in Escaped
    OBVIOUS
  <2>2. [i \in DOMAIN s |-> m[s[i]]] = [i \in DOMAIN s |-> IF s[i] = c THEN Entity(c) ELSE <<s[i]>>]
    BY <2>1
  <2> QED
    BY <2>2 DEF Replace, FlatMap
<1>4. /\ \A a \in Escaped : <<a>> \in Seq(Escaped) /\ m[a] = IF a = c THEN Entity(c) ELSE <<a>>
      /\ \A s, t \in Seq(Escaped) : s \o t \in Seq(Escaped)
      /\ <<>> \in Seq(Escaped)
  OBVIOUS
<1> HIDE DEF m
<1>5. /\ FlatMap(m, <<>>) = <<>>
      /\ \A a \in Escaped : FlatMap(m, <<a>>) = m[a]
      /\ \A s \in Seq(Escaped) : FlatMap(m, s) \in Seq(Escaped)
  BY <1>2, FlatMapFacts
<1>6. Replace(<<>>, c) = <<>>
  BY <1>3, <1>4, <1>5
<1>7. ASSUME NEW a \in Escaped PROVE Replace(<<a>>, c) = IF a = c THEN Entity(c) ELSE <<a>>
  BY <1>3, <1>4, <1>5
<1>8. ASSUME NEW s \in Seq(Escaped) PROVE Replace(s, c) \in Seq(Escaped)
  BY <1>3, <1>5
<1>9. ASSUME NEW s \in Seq(Escaped), NEW t \in Seq(Escaped)
      PROVE  Replace(s \o t, c) = Replace(s, c) \o Replace(t, c)
  <2>1. Replace(s \o t, c) = FlatMap(m, s \o t)
    <3>1. s \o t \in Seq(Escaped)
      OBVIOUS
    <3> QED
      BY <1>3, <3>1
  <2>2. FlatMap(m, s \o t) = FlatMap(m, s) \o FlatMap(m, t)
    BY <1>2, FlatMapSplit, Zenon
  <2>3. Replace(s, c) = FlatMap(m, s) /\ Replace(t, c) = FlatMap(m, t)
    BY <1>3
  <2> QED
    BY <2>1, <2>2, <2>3
<1> QED
  BY <1>6, <1>7, <1>8, <1>9

(* escape_html works character by character.                                *)
LEMMA EscapeFacts ==
  /\ EscapeHtml(<<>>) = <<>>
  /\ \A c \in Characters : EscapeHtml(<<c>>) = Entity(c)
  /\ \A s \in Written : EscapeHtml(s) \in Seq(Escaped)
  /\ \A s, t \in Written : EscapeHtml(s \o t) = EscapeHtml(s) \o EscapeHtml(t)
<1>1. \A s \in Written : s \in Seq(Escaped)
  BY DEF Written, Escaped
<1>2. EscapeHtml(<<>>) = <<>>
  BY ReplaceFacts DEF EscapeHtml
<1>3. ASSUME NEW c \in Characters PROVE EscapeHtml(<<c>>) = Entity(c)
  <2>1. c \in Escaped /\ "amp;" \in Escaped /\ "&" \in Escaped
    BY TokenFacts DEF Escaped, Entities
  <2>2. CASE c = "&"
    <3>1. Replace(<<c>>, "&") = <<"&", "amp;">>
      BY <2>1, <2>2, ReplaceFacts DEF Entity
    <3>2. <<"&", "amp;">> = <<"&">> \o <<"amp;">> /\ <<"&">> \in Seq(Escaped) /\ <<"amp;">> \in Seq(Escaped)
      BY <2>1, TupleFacts
    <3>3. Replace(<<"&">> \o <<"amp;">>, "<") = Replace(<<"&">>, "<") \o Replace(<<"amp;">>, "<")
      BY <3>2, ReplaceFacts
    <3>4. Replace(<<"&">>, "<") = <<"&">> /\ Replace(<<"amp;">>, "<") = <<"amp;">>
      BY <2>1, ReplaceFacts
    <3> QED
      BY <2>2, <3>1, <3>2, <3>3, <3>4 DEF EscapeHtml, Entity
  <2>3. CASE c # "&"
    <3>1. Replace(<<c>>, "&") = <<c>>
      BY <2>1, <2>3, ReplaceFacts
    <3>2. Replace(<<c>>, "<") = IF c = "<" THEN Entity("<") ELSE <<c>>
      BY <2>1, ReplaceFacts
    <3> QED
      BY <2>3, <3>1, <3>2 DEF EscapeHtml, Entity
  <2> QED
    BY <2>2, <2>3
<1>4. ASSUME NEW s \in Written PROVE EscapeHtml(s) \in Seq(Escaped)
  BY <1>1, ReplaceFacts DEF EscapeHtml
<1>5. ASSUME NEW s \in Written, NEW t \in Written
      PROVE  EscapeHtml(s \o t) = EscapeHtml(s) \o EscapeHtml(t)
  <2>1. Replace(s \o t, "&") = Replace(s, "&") \o Replace(t, "&")
    BY <1>1, ReplaceFacts
  <2>2. Replace(s, "&") \in Seq(Escaped) /\ Replace(t, "&") \in Seq(Escaped)
    BY <1>1, ReplaceFacts
  <2>3. Replace(Replace(s, "&") \o Replace(t, "&"), "<") = Replace(Replace(s, "&"), "<") \o Replace(Replace(t, "&"), "<")
    BY <2>2, ReplaceFacts
  <2> QED
    BY <2>1, <2>3 DEF EscapeHtml
<1> QED
  BY <1>2, <1>3, <1>4, <1>5

-----------------------------------------------------------------------------
(* Reading an HTML goes from part to part.                                  *)
LEMMA Source1Type ==
  ASSUME NEW html \in Html, NEW i \in DOMAIN html
  PROVE  Source1(html, i) \in Seq(Shown)
<1>1. html[i] \in Tokens
  BY DEF Html
<1>2. CASE html[i] \in Opening \cup Closing
  <2>1. PICK tag \in Tags : html[i] \in {Open(tag), Close(tag)}
    BY <1>2 DEF Opening, Closing
  <2>2. TagOf(html[i]) = tag
    BY <2>1, TagOfFacts
  <2>3. \A t \in Tags : Delimiter[t] \in Seq(Shown)
    <3>1. {Tick, "*", "|", "~", "_"} \subseteq Shown
      BY TokenFacts DEF Tick, Shown, Escaped
    <3>2. /\ Delimiter["code"] = <<Tick>> /\ Delimiter["b"] = <<"*", "*">> /\ Delimiter["spoiler"] = <<"|", "|">>
          /\ Delimiter["s"] = <<"~", "~">> /\ Delimiter["i"] = <<"_", "_">> /\ Delimiter["pre"] = <<Tick, Tick, Tick>>
      BY DEF Delimiter, FENCE
    <3>3. \A a \in Shown : <<a>> \in Seq(Shown) /\ <<a, a>> \in Seq(Shown) /\ <<a, a, a>> \in Seq(Shown)
      BY TupleFacts
    <3> QED
      BY <3>1, <3>2, <3>3 DEF Tags
  <2> QED
    BY <1>2, <2>2, <2>3 DEF Source1
<1>3. CASE html[i] \notin Opening \cup Closing
  <2>1. \A e \in DOMAIN Read : Read[e] \in Seq(Shown)
    <3>1. "&" \in Shown /\ "<" \in Shown
      BY TokenFacts DEF Shown, Escaped
    <3>2. \A e \in DOMAIN Read : Read[e] \in {<<"&">>, <<"<">>}
      BY DEF Read
    <3> QED
      BY <3>1, <3>2, TupleFacts
  <2>2. <<html[i]>> \in Seq(Shown) /\ <<"rejected">> \in Seq(Shown)
    <3>1. html[i] \in Shown /\ "rejected" \in Shown
      BY <1>1, <1>3 DEF Tokens, Shown
    <3> QED
      BY <3>1, TupleFacts
  <2>3. <<>> \in Seq(Shown)
    OBVIOUS
  <2> QED
    BY <1>3, <2>1, <2>2, <2>3 DEF Source1
<1> QED
  BY <1>2, <1>3

(* What is made of the parts of a whole, one behind the other.              *)
LEMMA FlattenJoin ==
  ASSUME NEW S, NEW x \in Seq(Seq(S)), NEW y \in Seq(Seq(S)), NEW z \in Seq(Seq(S)), Len(x) = Len(y) + Len(z),
         \A i \in 1..Len(y) : x[i] = y[i],
         \A i \in (Len(y) + 1)..(Len(y) + Len(z)) : x[i] = z[i - Len(y)]
  PROVE  FlattenSeq(x) = FlattenSeq(y) \o FlattenSeq(z)
<1>1. Len(y) \in Nat /\ Len(z) \in Nat
  OBVIOUS
<1>2. \A i \in 1..(Len(y) + Len(z)) : (i <= Len(y) => i \in 1..Len(y))
                                      /\ (~(i <= Len(y)) => i \in (Len(y) + 1)..(Len(y) + Len(z)))
  BY <1>1
<1>3. \A i \in 1..(Len(y) + Len(z)) : x[i] = IF i <= Len(y) THEN y[i] ELSE z[i - Len(y)]
  BY <1>2
<1>4. x = y \o z
  BY <1>3, ConcatIs
<1> QED
  BY <1>4, FlattenConcat

(* The tokens of two HTMLs are read in their own, unless the second begins  *)
(* inside an entity.                                                        *)
LEMMA Source1Concat ==
  ASSUME NEW a \in Html, NEW b \in Html, Headed(b)
  PROVE  /\ \A i \in 1..Len(a) : Source1(a \o b, i) = Source1(a, i)
         /\ \A i \in (Len(a) + 1)..(Len(a) + Len(b)) : Source1(a \o b, i) = Source1(b, i - Len(a))
<1> DEFINE c == a \o b
<1>1. /\ c \in Html /\ Len(a) \in Nat /\ Len(b) \in Nat /\ Len(c) = Len(a) + Len(b)
      /\ DOMAIN a = 1..Len(a) /\ DOMAIN b = 1..Len(b) /\ DOMAIN c = 1..(Len(a) + Len(b))
      /\ \A i \in 1..Len(a) : c[i] = a[i]
      /\ \A i \in (Len(a) + 1)..(Len(a) + Len(b)) : c[i] = b[i - Len(a)]
  BY DEF Html
<1>2. DOMAIN Read = Entities
  BY DEF Read, Entities
<1> HIDE DEF c
<1>3. ASSUME NEW i \in 1..Len(a) PROVE Source1(c, i) = Source1(a, i)
  <2>1. c[i] = a[i] /\ (i > 1 => c[i - 1] = a[i - 1])
    BY <1>1
  <2>2. i < Len(c) /\ c[i + 1] \in Entities <=> i < Len(a) /\ a[i + 1] \in Entities
    <3>1. CASE i < Len(a)
      BY <1>1, <3>1
    <3>2. CASE i = Len(a)
      <4>1. CASE Len(b) = 0
        BY <1>1, <3>2, <4>1
      <4>2. CASE Len(b) > 0
        <5>1. c[i + 1] = b[1] /\ b # <<>>
          <6>1. i + 1 \in (Len(a) + 1)..(Len(a) + Len(b)) /\ (i + 1) - Len(a) = 1
            BY <1>1, <3>2, <4>2
          <6>2. c[i + 1] = b[1]
            BY <1>1, <6>1
          <6> QED
            BY <4>2, <6>2
        <5>2. ~(i < Len(a))
          BY <1>1, <3>2
        <5> QED
          BY <5>1, <5>2 DEF Headed
      <4> QED
        BY <1>1, <4>1, <4>2
    <3>3. i < Len(a) \/ i = Len(a)
      <4>1. i \in Nat /\ Len(a) \in Nat /\ i <= Len(a)
        BY <1>1
      <4> QED
        BY <4>1
    <3> QED
      BY <3>1, <3>2, <3>3
  <2> QED
    BY <1>2, <2>1, <2>2 DEF Source1
<1>4. ASSUME NEW i \in (Len(a) + 1)..(Len(a) + Len(b)) PROVE Source1(c, i) = Source1(b, i - Len(a))
  <2> DEFINE j == i - Len(a)
  <2>1. j \in 1..Len(b) /\ c[i] = b[j] /\ (i < Len(c) <=> j < Len(b)) /\ (i < Len(c) => c[i + 1] = b[j + 1])
    BY <1>1
  <2>2. b[j] \in Entities => (i > 1 /\ c[i - 1] = "&" <=> j > 1 /\ b[j - 1] = "&")
    <3>1. CASE j = 1
      <4>1. b # <<>>
        BY <1>1, <2>1
      <4> QED
        BY <3>1, <4>1 DEF Headed
    <3>2. CASE j > 1
      <4>1. i - 1 \in (Len(a) + 1)..(Len(a) + Len(b)) /\ (i - 1) - Len(a) = j - 1 /\ i > 1
        BY <1>1, <3>2
      <4>2. c[i - 1] = b[j - 1]
        <5> HIDE DEF j
        <5> QED
          BY <1>1, <4>1
      <4> QED
        BY <3>2, <4>1, <4>2
    <3> QED
      BY <2>1, <3>1, <3>2
  <2> HIDE DEF j
  <2> QED
    BY <1>2, <2>1, <2>2 DEF Source1, j
<1> QED
  BY <1>3, <1>4 DEF c

(* Two such HTMLs are read one after the other.                             *)
LEMMA SourceConcat ==
  ASSUME NEW a \in Html, NEW b \in Html, Headed(b)
  PROVE  a \o b \in Html /\ Source(a \o b) = Source(a) \o Source(b)
<1> DEFINE m == Len(a)
           n == Len(b)
           x == [i \in DOMAIN (a \o b) |-> Source1(a \o b, i)]
           y == [i \in DOMAIN a |-> Source1(a, i)]
           z == [i \in DOMAIN b |-> Source1(b, i)]
<1>1. /\ a \o b \in Html /\ m \in Nat /\ n \in Nat
      /\ DOMAIN a = 1..m /\ DOMAIN b = 1..n /\ DOMAIN (a \o b) = 1..(m + n)
  BY DEF Html
<1>2. Source(a \o b) = FlattenSeq(x) /\ Source(a) = FlattenSeq(y) /\ Source(b) = FlattenSeq(z)
  BY DEF Source
<1>3. (\A i \in 1..m : x[i] = y[i]) /\ (\A i \in (m + 1)..(m + n) : x[i] = z[i - m])
  <2>1. \A i \in (m + 1)..(m + n) : i - m \in 1..n /\ i \in 1..(m + n)
    BY <1>1
  <2>2. \A i \in 1..m : i \in 1..(m + n)
    BY <1>1
  <2> QED
    BY <1>1, <2>1, <2>2, Source1Concat
<1>4. x \in [1..(m + n) -> Seq(Shown)] /\ y \in [1..m -> Seq(Shown)] /\ z \in [1..n -> Seq(Shown)]
  <2>1. \A h \in Html : [i \in DOMAIN h |-> Source1(h, i)] \in [DOMAIN h -> Seq(Shown)]
    BY Source1Type
  <2> HIDE DEF m, n
  <2> QED
    BY <1>1, <2>1
<1> HIDE DEF x, y, z, m, n
<1>5. /\ x \in Seq(Seq(Shown)) /\ y \in Seq(Seq(Shown)) /\ z \in Seq(Seq(Shown))
      /\ Len(x) = m + n /\ Len(y) = m /\ Len(z) = n
  <2>1. m \in Nat /\ n \in Nat /\ m + n \in Nat
    BY <1>1
  <2>2. x \in Seq(Seq(Shown)) /\ Len(x) = m + n
    BY <1>4, <2>1, FunctionIsSeq
  <2>3. y \in Seq(Seq(Shown)) /\ Len(y) = m
    BY <1>4, <2>1, FunctionIsSeq
  <2>4. z \in Seq(Seq(Shown)) /\ Len(z) = n
    BY <1>4, <2>1, FunctionIsSeq
  <2> QED
    BY <2>2, <2>3, <2>4
<1>6. FlattenSeq(x) = FlattenSeq(y) \o FlattenSeq(z)
  BY <1>3, <1>5, FlattenJoin
<1> QED
  BY <1>1, <1>2, <1>6

-----------------------------------------------------------------------------
LEMMA SubSeqFacts ==
  ASSUME NEW S, NEW s \in Seq(S), NEW a \in Nat, NEW b \in Nat, 1 <= a, a <= b + 1, b <= Len(s)
  PROVE  /\ SubSeq(s, a, b) \in Seq(S) /\ Len(SubSeq(s, a, b)) = b + 1 - a
         /\ \A k \in 1..(b + 1 - a) : SubSeq(s, a, b)[k] = s[a + k - 1]
  OBVIOUS

LEMMA SubSeqJoin ==
  ASSUME NEW S, NEW s \in Seq(S), NEW a \in Nat, NEW b \in Nat, NEW c \in Nat,
         1 <= a, a <= b + 1, b <= c, c <= Len(s)
  PROVE  SubSeq(s, a, b) \o SubSeq(s, b + 1, c) = SubSeq(s, a, c)
<1> DEFINE x == SubSeq(s, a, c)
           y == SubSeq(s, a, b)
           z == SubSeq(s, b + 1, c)
<1>1. /\ x \in Seq(S) /\ Len(x) = c + 1 - a
      /\ \A k \in 1..(c + 1 - a) : x[k] = s[a + k - 1]
  BY SubSeqFacts
<1>2. /\ y \in Seq(S) /\ Len(y) = b + 1 - a
      /\ \A k \in 1..(b + 1 - a) : y[k] = s[a + k - 1]
  BY SubSeqFacts
<1>3. /\ z \in Seq(S) /\ Len(z) = c - b
      /\ \A k \in 1..(c - b) : z[k] = s[b + k]
  <2>1. /\ z \in Seq(S) /\ Len(z) = c + 1 - (b + 1)
        /\ \A k \in 1..(c + 1 - (b + 1)) : z[k] = s[(b + 1) + k - 1]
    <3>1. b + 1 \in Nat /\ 1 <= b + 1 /\ b + 1 <= c + 1
      OBVIOUS
    <3> QED
      BY <3>1, SubSeqFacts
  <2>2. c + 1 - (b + 1) = c - b /\ \A k \in 1..(c - b) : (b + 1) + k - 1 = b + k
    OBVIOUS
  <2> QED
    BY <2>1, <2>2
<1> HIDE DEF x, y, z
<1>4. Len(x) = Len(y) + Len(z)
  BY <1>1, <1>2, <1>3
<1>5. \A i \in 1..(Len(y) + Len(z)) : x[i] = IF i <= Len(y) THEN y[i] ELSE z[i - Len(y)]
  <2> SUFFICES ASSUME NEW i \in 1..(c + 1 - a)
               PROVE  x[i] = IF i <= b + 1 - a THEN y[i] ELSE z[i - (b + 1 - a)]
    BY <1>1, <1>2, <1>3, <1>4
  <2>1. x[i] = s[a + i - 1]
    BY <1>1
  <2>2. CASE i <= b + 1 - a
    BY <1>2, <2>1, <2>2
  <2>3. CASE ~(i <= b + 1 - a)
    <3>1. i - (b + 1 - a) \in 1..(c - b) /\ b + (i - (b + 1 - a)) = a + i - 1
      BY <2>3
    <3> QED
      BY <1>3, <2>1, <2>3, <3>1
  <2> QED
    BY <2>2, <2>3
<1>6. x = y \o z
  BY <1>1, <1>2, <1>3, <1>4, <1>5, ConcatIs
<1> QED
  BY <1>6 DEF x, y, z

-----------------------------------------------------------------------------
(* The loops over the matches in a text.                                    *)

(* A match that a search from c on may return. *)
Within(text, c, m) ==
  /\ m.start \in Nat /\ m.content_start \in Nat /\ m.content_end \in Nat /\ m.end \in Nat
  /\ c <= m.start /\ m.start < m.content_start /\ m.content_start <= m.content_end
  /\ m.content_end < m.end /\ m.end <= Len(text) + 1

Forward(text, rule) ==
  \A c \in 1..(Len(text) + 1) :
    Find(text, rule, c).start = 0 \/ Within(text, c, Find(text, rule, c))

(* Where a loop may be in a text. *)
Ats(text) == [cursor : 1..(Len(text) + 1), formatted : Html]

Start == [cursor |-> 1, formatted |-> <<>>]

LEMMA WrittenIsHtml ==
  /\ Seq(Escaped) \subseteq Html /\ Written \subseteq Html
  /\ \A token \in Opening \cup Closing : <<token>> \in Html
  BY DEF Html, Tokens, Escaped, Written

LEMMA WrapType ==
  ASSUME NEW tag \in Tags, NEW s \in Written
  PROVE  Wrap(tag, s) \in Html
<1>1. <<Open(tag)>> \in Html /\ <<Close(tag)>> \in Html
  BY TokenFacts, WrittenIsHtml
<1>2. EscapeHtml(s) \in Html
  BY EscapeFacts, WrittenIsHtml
<1>3. \A a, b \in Html : a \o b \in Html
  BY DEF Html
<1> QED
  BY <1>1, <1>2, <1>3 DEF Wrap

LEMMA PartsOfText ==
  ASSUME NEW text \in Written, NEW c \in 1..(Len(text) + 1), NEW m, Within(text, c, m)
  PROVE  /\ SubSeq(text, c, m.start - 1) \in Written
         /\ SubSeq(text, m.content_start, m.content_end - 1) \in Written
         /\ m.end \in 1..(Len(text) + 1)
<1>1. text \in Seq(Characters) /\ Len(text) \in Nat /\ c \in Nat /\ m.start - 1 \in Nat /\ m.content_end - 1 \in Nat
  BY DEF Written, Within
<1>2. SubSeq(text, c, m.start - 1) \in Written
  <2>1. 1 <= c /\ c <= (m.start - 1) + 1 /\ m.start - 1 <= Len(text)
    BY <1>1 DEF Within
  <2> QED
    BY <1>1, <2>1, SubSeqFacts DEF Written
<1>3. SubSeq(text, m.content_start, m.content_end - 1) \in Written
  <2>1. 1 <= m.content_start /\ m.content_start <= (m.content_end - 1) + 1 /\ m.content_end - 1 <= Len(text)
    BY <1>1 DEF Within
  <2>2. m.content_start \in Nat
    BY DEF Within
  <2> QED
    BY <1>1, <2>1, <2>2, SubSeqFacts DEF Written
<1> QED
  BY <1>1, <1>2, <1>3 DEF Within

LEMMA RestOfText ==
  ASSUME NEW text \in Written, NEW c \in 1..(Len(text) + 1)
  PROVE  From(text, c) \in Written /\ Len(From(text, c)) = Len(text) + 1 - c
         /\ \A k \in 1..(Len(text) + 1 - c) : From(text, c)[k] = text[c + k - 1]
<1>1. text \in Seq(Characters) /\ Len(text) \in Nat /\ c \in Nat /\ 1 <= c /\ c <= Len(text) + 1
  BY DEF Written
<1> QED
  BY <1>1, SubSeqFacts DEF Written, From

(* A round leaves the loop further on, with HTML behind it.                 *)
LEMMA RoundType ==
  ASSUME NEW text \in Written, NEW tag \in Tags, NEW next \in [Written -> Html],
         NEW at \in Ats(text), NEW m, m.start = 0 \/ Within(text, at.cursor, m)
  PROVE  Round(text, m, tag, next, at) \in Ats(text)
<1>1. CASE m.start = 0
  BY <1>1 DEF Round
<1>2. CASE m.start # 0
  <2>0. at.cursor \in 1..(Len(text) + 1) /\ at.formatted \in Html
    BY DEF Ats
  <2>1. Within(text, at.cursor, m)
    BY <1>2
  <2>2. /\ SubSeq(text, at.cursor, m.start - 1) \in Written
        /\ SubSeq(text, m.content_start, m.content_end - 1) \in Written
        /\ m.end \in 1..(Len(text) + 1)
    BY <2>0, <2>1, PartsOfText
  <2> DEFINE gap == next[SubSeq(text, at.cursor, m.start - 1)]
             wrap == Wrap(tag, SubSeq(text, m.content_start, m.content_end - 1))
  <2>3. gap \in Html /\ wrap \in Html
    BY <2>2, WrapType
  <2>4. \A a, b \in Html : a \o b \in Html
    BY DEF Html
  <2>5. Round(text, m, tag, next, at) = [cursor |-> m.end, formatted |-> at.formatted \o gap \o wrap]
    BY <1>2 DEF Round
  <2> HIDE DEF gap, wrap
  <2>6. at.formatted \o gap \o wrap \in Html
    BY <2>0, <2>3, <2>4
  <2> QED
    BY <2>2, <2>5, <2>6 DEF Ats
<1> QED
  BY <1>1, <1>2

(* What the rounds keep. *)
Kept(S, text, rule, next) ==
  \A at \in Ats(text) :
    at \in S /\ Find(text, rule, at.cursor).start # 0
      => Round(text, Find(text, rule, at.cursor), rule.tag, next, at) \in S

(* What holds at the start of a loop, and is kept by every round, holds at
   its end; what follows is formatted with next. *)
LEMMA LoopInduction ==
  ASSUME NEW text \in Written, NEW rule, rule.tag \in Tags, Forward(text, rule),
         NEW next \in [Written -> Html], NEW S, Start \in S, Kept(S, text, rule, next)
  PROVE  \E at \in Ats(text) :
           /\ at \in S /\ Find(text, rule, at.cursor).start = 0
           /\ Formatted(text, rule, next) = at.formatted \o next[From(text, at.cursor)]
<1> DEFINE n == Len(text)
           D == Ats(text)
           Step(at) == Round(text, Find(text, rule, at.cursor), rule.tag, next, at)
           step == [x \in (1..n) \X D |-> Step(x[2])]
           Is(f) == f = [k \in 0..n |-> IF k = 0 THEN [cursor |-> 1, formatted |-> <<>>]
                                        ELSE LET at == f[k - 1]
                                             IN Round(text, Find(text, rule, at.cursor), rule.tag, next, at)]
           after == CHOOSE f : Is(f)
<1>1. n \in Nat /\ Start \in D
  <2>1. n \in Nat
    BY DEF Written
  <2>2. 1 \in 1..(n + 1) /\ <<>> \in Html
    BY <2>1 DEF Html
  <2> QED
    BY <2>1, <2>2 DEF Start, Ats
<1>2. ASSUME NEW at \in D PROVE Step(at) \in D
  <2>1. at.cursor \in 1..(n + 1)
    BY DEF Ats
  <2>2. Find(text, rule, at.cursor).start = 0 \/ Within(text, at.cursor, Find(text, rule, at.cursor))
    BY <2>1 DEF Forward
  <2> QED
    BY <2>2, RoundType
<1>3. step \in [(1..n) \X D -> D]
  <2> HIDE DEF D, n, Step
  <2> QED
    BY <1>2
<1>4. Recursions(n, D, Start, step) # {}
  <2> HIDE DEF step, n, D
  <2> QED
    BY <1>1, <1>3, RecursionExists
<1>5. PICK f \in [0..n -> D] : f[0] = Start /\ \A i \in 1..n : f[i] = step[<<i, f[i - 1]>>]
  <2> HIDE DEF step, D, n
  <2> QED
    BY <1>4 DEF Recursions
<1>6. ASSUME NEW i \in 1..n PROVE i - 1 \in 0..n /\ f[i - 1] \in D /\ f[i] = Step(f[i - 1])
  <2> HIDE DEF D, n, Step
  <2>1. i - 1 \in 0..n
    BY <1>1
  <2>2. <<i, f[i - 1]>> \in (1..n) \X D
    BY <2>1
  <2> QED
    BY <1>5, <2>1, <2>2
<1>7. Is(f)
  <2> DEFINE g == [k \in 0..n |-> IF k = 0 THEN Start ELSE Step(f[k - 1])]
  <2>1. f = g
    <3> HIDE DEF D, n, Step
    <3>1. \A k \in 0..n : f[k] = IF k = 0 THEN Start ELSE Step(f[k - 1])
      <4> SUFFICES ASSUME NEW k \in 0..n, k # 0 PROVE f[k] = Step(f[k - 1])
        BY <1>5
      <4>1. k \in 1..n
        BY <1>1
      <4> QED
        BY <1>6, <4>1
    <3> QED
      BY <3>1
  <2> QED
    BY <2>1 DEF Start
<1>8. Is(after)
  <2> HIDE DEF Is
  <2> QED
    BY <1>7
<1>9. Formatted(text, rule, next) = after[n].formatted \o next[From(text, after[n].cursor)]
  BY DEF Formatted
<1> HIDE DEF after
<1>10. after[0] = Start /\ \A k \in 1..n : after[k] = Step(after[k - 1])
  <2>1. \A k \in 0..n : after[k] = IF k = 0 THEN Start ELSE Step(after[k - 1])
    <3> HIDE DEF n, Round, Find
    <3> QED
      BY <1>8 DEF Start
  <2> HIDE DEF Step, n
  <2> QED
    BY <1>1, <2>1
<1> HIDE DEF Is, step
<1> DEFINE T == {i \in 0..n : after[i] \in D /\ after[i] \in S
                             /\ (Find(text, rule, after[i].cursor).start = 0 \/ after[i].cursor >= i + 1)}
<1>11. 0 \in T
  <2>1. Start.cursor = 1
    BY DEF Start
  <2> QED
    BY <1>1, <1>10, <2>1
<1>12. ASSUME NEW i \in 1..n, i - 1 \in T PROVE i \in T
  <2> DEFINE at == after[i - 1]
             m == Find(text, rule, at.cursor)
  <2>1. at \in D /\ at \in S /\ (m.start = 0 \/ at.cursor >= i) /\ after[i] = Step(at) /\ i \in 0..n
    <3>1. (i - 1) + 1 = i /\ i \in 0..n
      BY <1>1
    <3> QED
      BY <1>10, <1>12, <3>1
  <2>2. after[i] \in D
    BY <1>2, <2>1
  <2>3. CASE m.start = 0
    <3>1. after[i] = at
      BY <2>1, <2>3 DEF Round
    <3> QED
      BY <2>1, <2>3, <3>1
  <2>4. CASE m.start # 0
    <3>1. at.cursor \in 1..(n + 1)
      BY <2>1 DEF Ats
    <3>2. Within(text, at.cursor, m)
      BY <2>4, <3>1 DEF Forward
    <3>3. after[i].cursor = m.end
      BY <2>1, <2>4 DEF Round
    <3>4. m.end >= i + 1
      <4> HIDE DEF m, at
      <4> QED
        BY <2>1, <2>4, <3>1, <3>2 DEF Within
    <3>5. after[i] \in S
      BY <2>1, <2>4 DEF Kept
    <3> QED
      BY <2>1, <2>2, <3>3, <3>4, <3>5
  <2> QED
    BY <2>3, <2>4
<1>13. n \in T
  <2> HIDE DEF T, n
  <2>1. 0..n \subseteq T
    BY <1>1, <1>11, <1>12, UpToInduction
  <2> QED
    BY <1>1, <2>1
<1>14. Find(text, rule, after[n].cursor).start = 0
  <2> DEFINE at == after[n]
             m == Find(text, rule, at.cursor)
  <2>1. at \in D /\ (m.start = 0 \/ at.cursor >= n + 1)
    BY <1>13
  <2>2. at.cursor \in 1..(n + 1)
    BY <2>1 DEF Ats
  <2>3. m.start = 0 \/ Within(text, at.cursor, m)
    BY <2>2 DEF Forward
  <2>4. m.start = 0
    <3> HIDE DEF at, m
    <3> QED
      BY <1>1, <2>1, <2>2, <2>3 DEF Within
  <2> QED
    BY <2>4
<1> QED
  BY <1>9, <1>13, <1>14

-----------------------------------------------------------------------------
LEMMA OneFacts ==
  ASSUME NEW a
  PROVE  DOMAIN <<a>> = {1} /\ Len(<<a>>) = 1 /\ <<a>>[1] = a /\ <<a>> # <<>>
  OBVIOUS

LEMMA PairFacts ==
  ASSUME NEW a, NEW b
  PROVE  DOMAIN <<a, b>> = {1, 2} /\ Len(<<a, b>>) = 2 /\ <<a, b>>[1] = a /\ <<a, b>>[2] = b /\ <<a, b>> # <<>>
<1>1. Len(<<a, b>>) = 2
  OBVIOUS
<1>2. DOMAIN <<a, b>> = 1..2
  OBVIOUS
<1>3. <<a, b>>[1] = a /\ <<a, b>>[2] = b
  OBVIOUS
<1> QED
  BY <1>1, <1>2, <1>3

LEMMA PairIs ==
  ASSUME NEW f, NEW a, NEW b, f = [i \in {1, 2} |-> IF i = 1 THEN a ELSE b]
  PROVE  f = <<a, b>>
  OBVIOUS

LEMMA FlattenOne ==
  ASSUME NEW S, NEW x \in Seq(S)
  PROVE  FlattenSeq(<<x>>) = x
<1>1. <<x>> = Append(<<>>, x) /\ <<>> \in Seq(Seq(S))
  OBVIOUS
<1>2. FlattenSeq(Append(<<>>, x)) = FlattenSeq(<<>>) \o x
  BY <1>1, FlattenAppend
<1>3. <<>> \o x = x
  OBVIOUS
<1> QED
  BY <1>1, <1>2, <1>3, FlattenEmpty

LEMMA FlattenTwo ==
  ASSUME NEW S, NEW x \in Seq(S), NEW y \in Seq(S)
  PROVE  FlattenSeq(<<x, y>>) = x \o y
<1>1. <<x, y>> = Append(<<x>>, y) /\ <<x>> \in Seq(Seq(S))
  OBVIOUS
<1>2. FlattenSeq(Append(<<x>>, y)) = FlattenSeq(<<x>>) \o y
  BY <1>1, FlattenAppend
<1> QED
  BY <1>1, <1>2, FlattenOne

LEMMA ConcatFacts ==
  ASSUME NEW S, NEW a \in Seq(S), NEW b \in Seq(S)
  PROVE  /\ a \o b \in Seq(S) /\ Len(a \o b) = Len(a) + Len(b) /\ Len(a) \in Nat /\ Len(b) \in Nat
         /\ \A i \in 1..Len(a) : (a \o b)[i] = a[i]
         /\ \A i \in 1..Len(b) : (a \o b)[Len(a) + i] = b[i]
         /\ a \o <<>> = a /\ <<>> \o b = b
<1>1. \A i \in (Len(a) + 1)..(Len(a) + Len(b)) : (a \o b)[i] = b[i - Len(a)]
  OBVIOUS
<1>2. ASSUME NEW i \in 1..Len(b) PROVE (a \o b)[Len(a) + i] = b[i]
  <2>1. Len(a) + i \in (Len(a) + 1)..(Len(a) + Len(b)) /\ (Len(a) + i) - Len(a) = i
    OBVIOUS
  <2> QED
    BY <1>1, <2>1
<1>3. a \o <<>> = a /\ <<>> \o b = b
  OBVIOUS
<1>4. a \o b \in Seq(S) /\ Len(a \o b) = Len(a) + Len(b) /\ \A i \in 1..Len(a) : (a \o b)[i] = a[i]
  OBVIOUS
<1> QED
  BY <1>2, <1>3, <1>4

(* How one token, or one entity, is read. *)
LEMMA SourceOfToken ==
  /\ Source(<<>>) = <<>>
  /\ \A c \in Characters \ {"&", "<"} : Source(<<c>>) = <<c>>
  /\ Source(<<"&", "amp;">>) = <<"&">> /\ Source(<<"&", "lt;">>) = <<"<">>
  /\ \A tag \in Tags : Source(<<Open(tag)>>) = Delimiter[tag] /\ Source(<<Close(tag)>>) = Delimiter[tag]
<1>1. Source(<<>>) = <<>>
  <2>1. [i \in DOMAIN <<>> |-> Source1(<<>>, i)] = <<>>
    OBVIOUS
  <2> QED
    BY <2>1, FlattenEmpty DEF Source
<1>2. DOMAIN Read = Entities /\ Read["amp;"] = <<"&">> /\ Read["lt;"] = <<"<">>
  BY DEF Read, Entities
<1>3. ASSUME NEW token, <<token>> \in Html PROVE Source(<<token>>) = Source1(<<token>>, 1)
  <2> DEFINE h == <<token>>
  <2>1. DOMAIN h = {1}
    OBVIOUS
  <2>2. Source1(h, 1) \in Seq(Shown)
    BY <1>3, <2>1, Source1Type
  <2>3. [i \in DOMAIN h |-> Source1(h, i)] = <<Source1(h, 1)>>
    <3> HIDE DEF h
    <3> QED
      BY <2>1
  <2> HIDE DEF h
  <2>4. FlattenSeq(<<Source1(h, 1)>>) = Source1(h, 1)
    BY <2>2, FlattenOne
  <2> QED
    BY <2>3, <2>4 DEF Source, h
<1>4. ASSUME NEW c \in Characters, c \notin {"&", "<"} PROVE Source(<<c>>) = <<c>>
  <2>1. <<c>> \in Html
    BY DEF Html, Tokens, Escaped
  <2>2. c \notin Opening \cup Closing /\ c \notin Entities
    BY TokenFacts DEF Entities
  <2>3. Source1(<<c>>, 1) = <<c>>
    BY <1>2, <1>4, <2>2 DEF Source1
  <2> QED
    BY <1>3, <2>1, <2>3
<1>5. ASSUME NEW e \in Entities PROVE Source(<<"&", e>>) = Read[e]
  <2> DEFINE h == <<"&", e>>
  <2>1. DOMAIN h = {1, 2} /\ Len(h) = 2 /\ h[1] = "&" /\ h[2] = e
    BY PairFacts
  <2>2. "&" \notin Opening \cup Closing /\ e \notin Opening \cup Closing /\ e # "&" /\ e # "<"
    BY TokenFacts DEF Entities
  <2> HIDE DEF h
  <2>3. Source1(h, 1) = <<>> /\ Source1(h, 2) = Read[e]
    <3>1. Source1(h, 1) = <<>>
      <4>1. e \in DOMAIN Read
        BY <1>2
      <4>2. 1 + 1 = 2 /\ 1 < 2
        OBVIOUS
      <4>3. 1 < Len(h) /\ h[1 + 1] \in DOMAIN Read
        BY <2>1, <4>1, <4>2
      <4> QED
        BY <2>1, <2>2, <4>3 DEF Source1
    <3>2. Source1(h, 2) = Read[e]
      <4>1. e \in DOMAIN Read
        BY <1>2
      <4>2. 2 - 1 = 1 /\ 2 > 1
        OBVIOUS
      <4>3. h[2] = e /\ h[2] \in DOMAIN Read /\ 2 > 1 /\ h[2 - 1] = "&"
        BY <2>1, <4>1, <4>2
      <4> QED
        BY <2>2, <4>3 DEF Source1
    <3> QED
      BY <3>1, <3>2
  <2>4. [i \in DOMAIN h |-> Source1(h, i)] = <<<<>>, Read[e]>>
    <3>1. [i \in DOMAIN h |-> Source1(h, i)] = [i \in {1, 2} |-> IF i = 1 THEN <<>> ELSE Read[e]]
      BY <2>1, <2>3
    <3> DEFINE f == [i \in DOMAIN h |-> Source1(h, i)]
    <3>2. f = [i \in {1, 2} |-> IF i = 1 THEN <<>> ELSE Read[e]]
      BY <3>1
    <3> HIDE DEF f
    <3>3. f = <<<<>>, Read[e]>>
      BY <3>2, PairIs
    <3> QED
      BY <3>3 DEF f
  <2>5. <<>> \in Seq(Characters) /\ Read[e] \in Seq(Characters)
    <3>1. "&" \in Characters /\ "<" \in Characters
      BY TokenFacts
    <3>2. Read[e] = <<"&">> \/ Read[e] = <<"<">>
      BY <1>2 DEF Entities
    <3>3. <<"&">> \in Seq(Characters) /\ <<"<">> \in Seq(Characters) /\ <<>> \in Seq(Characters)
      BY <3>1, TupleFacts
    <3> QED
      BY <3>2, <3>3
  <2>6. FlattenSeq(<<<<>>, Read[e]>>) = <<>> \o Read[e]
    BY <2>5, FlattenTwo
  <2>7. <<>> \o Read[e] = Read[e]
    BY <2>5, ConcatFacts
  <2> QED
    BY <2>4, <2>6, <2>7 DEF Source, h
<1>6. ASSUME NEW tag \in Tags, NEW token \in {Open(tag), Close(tag)} PROVE Source(<<token>>) = Delimiter[tag]
  <2>1. <<token>> \in Html /\ token \in Opening \cup Closing
    BY TokenFacts, WrittenIsHtml
  <2>2. Source1(<<token>>, 1) = Delimiter[tag]
    BY <2>1, TagOfFacts DEF Source1
  <2> QED
    BY <1>3, <2>1, <2>2
<1> QED
  BY <1>1, <1>2, <1>4, <1>5, <1>6 DEF Entities

(* What escape_html makes of one character. *)
LEMMA EntityFacts ==
  ASSUME NEW c \in Characters
  PROVE  /\ Entity(c) \in Seq(Escaped) /\ Entity(c) # <<>> /\ Headed(Entity(c)) /\ Source(Entity(c)) = <<c>>
         /\ ToSet(Entity(c)) \subseteq {c, "&"} \cup Entities
         /\ Entity(c)[1] \in {c, "&"} /\ Entity(c)[Len(Entity(c))] \in {c} \cup Entities
<1>1. c \in Escaped /\ "&" \in Escaped /\ "amp;" \in Escaped /\ "lt;" \in Escaped /\ c \notin Entities /\ "&" \notin Entities
  BY TokenFacts DEF Escaped, Entities
<1>2. CASE c \notin {"&", "<"}
  <2>1. Entity(c) = <<c>> /\ Len(<<c>>) = 1 /\ DOMAIN <<c>> = {1} /\ <<c>>[1] = c
    <3>1. Entity(c) = <<c>>
      BY <1>2 DEF Entity
    <3> QED
      BY <3>1, OneFacts
  <2>2. Source(<<c>>) = <<c>>
    BY <1>2, SourceOfToken
  <2>3. <<c>> \in Seq(Escaped) /\ <<c>> # <<>>
    BY <1>1, TupleFacts, OneFacts
  <2> HIDE DEF Entity
  <2> QED
    BY <1>1, <2>1, <2>2, <2>3 DEF Headed, ToSet
<1>3. CASE c \in {"&", "<"}
  <2>1. PICK e \in Entities : Entity(c) = <<"&", e>> /\ Source(<<"&", e>>) = <<c>>
    BY <1>3, SourceOfToken DEF Entity, Entities
  <2>2. <<"&", e>> \in Seq(Escaped)
    <3>1. e \in Escaped /\ "&" \in Escaped
      BY <1>1 DEF Escaped
    <3> QED
      BY <3>1, TupleFacts
  <2>3. /\ Len(<<"&", e>>) = 2 /\ DOMAIN <<"&", e>> = {1, 2} /\ <<"&", e>>[1] = "&" /\ <<"&", e>>[2] = e
        /\ <<"&", e>> # <<>>
    BY PairFacts
  <2> QED
    BY <1>1, <2>1, <2>2, <2>3 DEF Headed, ToSet
<1> QED
  BY <1>2, <1>3

LEMMA HeadedConcat ==
  ASSUME NEW a \in Html, NEW b \in Html, Headed(a), Headed(b)
  PROVE  a \o b \in Html /\ Headed(a \o b)
<1>1. /\ a \o b \in Html /\ Len(a) \in Nat /\ \A i \in 1..Len(a) : (a \o b)[i] = a[i]
      /\ <<>> \o b = b
  BY ConcatFacts DEF Html
<1>2. CASE a = <<>>
  BY <1>1, <1>2
<1>3. CASE a # <<>>
  <2>1. 1 \in 1..Len(a)
    BY <1>1, <1>3 DEF Html
  <2>2. (a \o b)[1] = a[1]
    BY <1>1, <2>1
  <2> QED
    BY <1>1, <1>3, <2>2 DEF Headed
<1> QED
  BY <1>2, <1>3

(* An escaped text is read as it was written.                               *)
LEMMA EscapeReads ==
  ASSUME NEW s \in Written
  PROVE  /\ EscapeHtml(s) \in Seq(Escaped) /\ Headed(EscapeHtml(s)) /\ Source(EscapeHtml(s)) = s
         /\ ToSet(EscapeHtml(s)) \subseteq ToSet(s) \cup {"&"} \cup Entities
         /\ EscapeHtml(s) = <<>> <=> s = <<>>
         /\ s # <<>> => /\ EscapeHtml(s)[1] \in {s[1], "&"}
                        /\ EscapeHtml(s)[Len(EscapeHtml(s))] \in {s[Len(s)]} \cup Entities
<1> DEFINE Reads(t, e) ==
             /\ Headed(e) /\ Source(e) = t /\ ToSet(e) \subseteq ToSet(t) \cup {"&"} \cup Entities
             /\ e = <<>> <=> t = <<>>
             /\ t # <<>> => e[1] \in {t[1], "&"} /\ e[Len(e)] \in {t[Len(t)]} \cup Entities
           P == {t \in Written : Reads(t, EscapeHtml(t))}
<1>1. <<>> \in P
  <2>1. <<>> \in Written /\ EscapeHtml(<<>>) = <<>> /\ Source(<<>>) = <<>>
    <3>1. <<>> \in Written
      BY DEF Written
    <3> QED
      BY <3>1, EscapeFacts, SourceOfToken
  <2>2. ToSet(<<>>) = {}
    BY DEF ToSet
  <2> QED
    BY <2>1, <2>2 DEF Headed
<1>2. ASSUME NEW t \in Seq(Characters), NEW c \in Characters, t \in P PROVE Append(t, c) \in P
  <2> DEFINE e == EscapeHtml(t)
             u == Append(t, c)
             f == Entity(c)
  <2>1. /\ u \in Written /\ u = t \o <<c>> /\ <<c>> \in Written /\ t \in Written
        /\ Len(u) = Len(t) + 1 /\ u[Len(t) + 1] = c /\ u # <<>>
        /\ Len(t) \in Nat /\ (t # <<>> => Len(t) > 0 /\ u[1] = t[1]) /\ (t = <<>> => u[1] = c)
    BY DEF Written
  <2>2. EscapeHtml(u) = e \o f
    <3>1. EscapeHtml(t \o <<c>>) = EscapeHtml(t) \o EscapeHtml(<<c>>)
      BY <2>1, EscapeFacts
    <3> QED
      BY <2>1, <3>1, EscapeFacts
  <2>3. Reads(t, e) /\ e \in Seq(Escaped) /\ f \in Seq(Escaped) /\ e \in Html /\ f \in Html
    BY <1>2, <2>1, EscapeFacts, EntityFacts, WrittenIsHtml
  <2>4. /\ f # <<>> /\ Headed(f) /\ Source(f) = <<c>> /\ ToSet(f) \subseteq {c, "&"} \cup Entities
        /\ f[1] \in {c, "&"} /\ f[Len(f)] \in {c} \cup Entities
    BY EntityFacts
  <2> HIDE DEF e, u, f
  <2>5. Headed(e \o f)
    BY <2>3, <2>4, HeadedConcat
  <2>6. Source(e \o f) = u
    <3>1. Source(e \o f) = Source(e) \o Source(f)
      BY <2>3, <2>4, SourceConcat
    <3> QED
      BY <2>1, <2>3, <2>4, <3>1
  <2>7. ToSet(e \o f) \subseteq ToSet(u) \cup {"&"} \cup Entities
    <3>1. ToSet(e \o f) = ToSet(e) \cup ToSet(f)
      BY <2>3, ToSetOfConcat
    <3>2. ToSet(u) = ToSet(t) \cup {c}
      BY <1>2, ToSetOfAppend DEF u
    <3> QED
      BY <2>3, <2>4, <3>1, <3>2
  <2>8. /\ Len(e \o f) = Len(e) + Len(f) /\ Len(e) \in Nat /\ Len(f) \in Nat /\ <<>> \o f = f
        /\ \A i \in 1..Len(e) : (e \o f)[i] = e[i]
        /\ \A i \in 1..Len(f) : (e \o f)[Len(e) + i] = f[i]
    BY <2>3, ConcatFacts
  <2>9. Len(f) > 0
    BY <2>3, <2>4
  <2>10. e \o f # <<>>
    BY <2>3, <2>8, <2>9
  <2>11. (e \o f)[Len(e \o f)] \in {u[Len(u)]} \cup Entities
    <3>1. Len(f) \in 1..Len(f)
      BY <2>8, <2>9
    <3>2. (e \o f)[Len(e) + Len(f)] = f[Len(f)]
      BY <2>8, <3>1
    <3> QED
      BY <2>1, <2>4, <2>8, <3>2
  <2>12. (e \o f)[1] \in {u[1], "&"}
    <3>1. CASE t = <<>>
      BY <2>1, <2>3, <2>4, <2>8, <3>1
    <3>2. CASE t # <<>>
      <4>1. 1 \in 1..Len(e)
        BY <2>3, <3>2
      <4> QED
        BY <2>1, <2>3, <2>8, <3>2, <4>1
    <3> QED
      BY <3>1, <3>2
  <2>13. Reads(u, e \o f)
    BY <2>1, <2>5, <2>6, <2>7, <2>10, <2>11, <2>12
  <2> HIDE DEF Reads
  <2> QED
    BY <2>1, <2>2, <2>13 DEF u
<1>3. Written \subseteq P
  <2> HIDE DEF P
  <2> QED
    BY <1>1, <1>2, SeqSetInduction DEF Written
<1> QED
  BY <1>3, EscapeFacts

-----------------------------------------------------------------------------
LEMMA FirstFacts ==
  ASSUME NEW S, S \subseteq Nat \ {0}
  PROVE  /\ S = {} => First(S) = 0
         /\ S # {} => First(S) \in S /\ First(S) # 0 /\ \A x \in S : First(S) <= x
<1>1. CASE S = {}
  BY <1>1 DEF First
<1>2. CASE S # {}
  <2>1. First(S) = Min(S)
    BY <1>2 DEF First
  <2>2. Min(S) \in S /\ \A x \in S : Min(S) <= x
    BY <1>2, MinFact
  <2> QED
    BY <1>2, <2>1, <2>2
<1> QED
  BY <1>1, <1>2

(* What the rules for inline tags have in common.                           *)
ProperRule(rule) ==
  /\ rule.tag \in Tags \ {"pre"} /\ rule.delimiter = Delimiter[rule.tag]
  /\ rule.delimiter \in Written /\ Len(rule.delimiter) \in 1..2
  /\ rule.no_adjacent_underscore <=> rule.tag = "i"
  /\ rule.tag = "i" => rule.delimiter = <<"_", "_">> /\ rule.forbidden = "_"
  /\ rule # CODE_BLOCK

LEMMA SmallText ==
  ASSUME NEW c \in Characters, NEW s \in {<<c>>, <<c, c>>}
  PROVE  s \in Written /\ Len(s) \in 1..2
<1>1. <<c>> \in Written /\ <<c, c>> \in Written
  BY TupleFacts DEF Written
<1>2. Len(<<c>>) = 1 /\ Len(<<c, c>>) = 2
  BY OneFacts, PairFacts
<1>3. 1 \in 1..2 /\ 2 \in 1..2
  OBVIOUS
<1> QED
  BY <1>1, <1>2, <1>3, Zenon

LEMMA ProperRuleIs ==
  ASSUME NEW tag \in Tags, tag # "pre", NEW c \in Characters, NEW d \in {<<c>>, <<c, c>>}, d = Delimiter[tag],
         NEW lonely \in BOOLEAN, lonely <=> tag = "i", tag = "i" => c = "_" /\ d = <<"_", "_">>
  PROVE  ProperRule(Rule(d, c, tag, lonely))
<1> DEFINE r == Rule(d, c, tag, lonely)
<1>1. r.delimiter = d /\ r.forbidden = c /\ r.tag = tag /\ (r.no_adjacent_underscore <=> tag = "i")
  <2>1. r.delimiter = d /\ r.forbidden = c /\ r.tag = tag /\ r.no_adjacent_underscore = lonely
    BY DEF Rule
  <2> HIDE DEF r
  <2> QED
    BY <2>1
<1>2. d \in Written /\ Len(d) \in 1..2
  BY SmallText
<1>3. r # CODE_BLOCK
  BY <1>1 DEF CODE_BLOCK, Rule
<1> HIDE DEF r
<1> QED
  BY <1>1, <1>2, <1>3 DEF ProperRule, r

(* The inline rules are proper, and the lonely one is the last.             *)
LEMMA RuleFacts ==
  /\ Len(INLINE_RULES) = 5
  /\ \A i \in 1..5 : ProperRule(INLINE_RULES[i])
  /\ \A i \in 1..4 : INLINE_RULES[i].tag # "i"
  /\ INLINE_RULES[5].tag = "i"
  /\ ToSet(INLINE_RULES) = {INLINE_RULES[i] : i \in 1..5}
<1> DEFINE a1 == Rule(<<Tick>>, Tick, "code", FALSE)
           a2 == Rule(<<"*", "*">>, "*", "b", FALSE)
           a3 == Rule(<<"|", "|">>, "|", "spoiler", FALSE)
           a4 == Rule(<<"~", "~">>, "~", "s", FALSE)
           a5 == Rule(<<"_", "_">>, "_", "i", TRUE)
<1>1. INLINE_RULES = <<a1, a2, a3, a4, a5>>
  BY DEF INLINE_RULES
<1>2. /\ Tick \in Characters /\ "*" \in Characters /\ "|" \in Characters /\ "~" \in Characters /\ "_" \in Characters
  BY TokenFacts DEF Tick
<1>5. ProperRule(a1)
  <2>1. Delimiter["code"] = <<Tick>> /\ "code" \in Tags /\ "code" # "pre" /\ "code" # "i"
    BY DEF Delimiter, Tags
  <2> QED
    BY <1>2, <2>1, ProperRuleIs
<1>6. ProperRule(a2)
  <2>1. Delimiter["b"] = <<"*", "*">> /\ "b" \in Tags /\ "b" # "pre" /\ "b" # "i"
    BY DEF Delimiter, Tags
  <2> QED
    BY <1>2, <2>1, ProperRuleIs
<1>7. ProperRule(a3)
  <2>1. Delimiter["spoiler"] = <<"|", "|">> /\ "spoiler" \in Tags /\ "spoiler" # "pre" /\ "spoiler" # "i"
    BY DEF Delimiter, Tags
  <2> QED
    BY <1>2, <2>1, ProperRuleIs
<1>8. ProperRule(a4)
  <2>1. Delimiter["s"] = <<"~", "~">> /\ "s" \in Tags /\ "s" # "pre" /\ "s" # "i"
    BY DEF Delimiter, Tags
  <2> QED
    BY <1>2, <2>1, ProperRuleIs
<1>9. ProperRule(a5)
  <2>1. Delimiter["i"] = <<"_", "_">> /\ "i" \in Tags /\ "i" # "pre"
    BY DEF Delimiter, Tags
  <2> QED
    BY <1>2, <2>1, ProperRuleIs
<1>10. a1.tag = "code" /\ a2.tag = "b" /\ a3.tag = "spoiler" /\ a4.tag = "s" /\ a5.tag = "i"
  BY DEF Rule
<1> HIDE DEF a1, a2, a3, a4, a5
<1>11. /\ Len(INLINE_RULES) = 5 /\ DOMAIN INLINE_RULES = 1..5
       /\ INLINE_RULES[1] = a1 /\ INLINE_RULES[2] = a2 /\ INLINE_RULES[3] = a3 /\ INLINE_RULES[4] = a4
       /\ INLINE_RULES[5] = a5
  BY <1>1
<1>12. \A i \in 1..5 : i = 1 \/ i = 2 \/ i = 3 \/ i = 4 \/ i = 5
  OBVIOUS
<1>13. \A i \in 1..5 : ProperRule(INLINE_RULES[i])
  BY <1>5, <1>6, <1>7, <1>8, <1>9, <1>11, <1>12
<1>14. \A i \in 1..4 : INLINE_RULES[i].tag # "i"
  <2>1. \A i \in 1..4 : i = 1 \/ i = 2 \/ i = 3 \/ i = 4
    OBVIOUS
  <2> QED
    BY <1>10, <1>11, <2>1
<1>15. ToSet(INLINE_RULES) = {INLINE_RULES[i] : i \in 1..5}
  BY <1>11 DEF ToSet
<1> QED
  BY <1>10, <1>11, <1>13, <1>14, <1>15

(* Where a content that ends before j starts at i. *)
Inside(text, rule, i, j) ==
  /\ StartsWith(text, j, rule.delimiter)
  /\ \A k \in i..(j - 1) : text[k] \notin {rule.forbidden, Newline}

(* scan_content finds the first end of a content, if there is one.          *)
LEMMA ScanFacts ==
  ASSUME NEW text \in Written, NEW rule, NEW i \in Nat
  PROVE  LET j == ScanContent(text, rule, i)
         IN /\ j # 0 => j \in (i + 1)..Len(text) /\ Inside(text, rule, i, j)
            /\ \A k \in (i + 1)..Len(text) : Inside(text, rule, i, k) => j # 0 /\ j <= k
<1> DEFINE S == {j \in (i + 1)..Len(text) : Inside(text, rule, i, j)}
<1>1. ScanContent(text, rule, i) = First(S)
  BY DEF ScanContent, Inside
<1>2. S \subseteq Nat \ {0}
  BY DEF Written
<1>3. \A k \in (i + 1)..Len(text) : Inside(text, rule, i, k) => k \in S
  OBVIOUS
<1>4. \A k \in S : k \in (i + 1)..Len(text) /\ Inside(text, rule, i, k)
  OBVIOUS
<1> HIDE DEF S
<1> DEFINE j == ScanContent(text, rule, i)
<1>5. (S = {} => j = 0) /\ (S # {} => j \in S /\ j # 0 /\ \A x \in S : j <= x)
  <2>1. (S = {} => First(S) = 0) /\ (S # {} => First(S) \in S /\ First(S) # 0 /\ \A x \in S : First(S) <= x)
    BY <1>2, FirstFacts
  <2> HIDE DEF j
  <2> QED
    BY <1>1, <2>1 DEF j
<1> HIDE DEF j
<1>6. j # 0 => j \in (i + 1)..Len(text) /\ Inside(text, rule, i, j)
  BY <1>4, <1>5
<1>7. \A k \in (i + 1)..Len(text) : Inside(text, rule, i, k) => j # 0 /\ j <= k
  BY <1>3, <1>5
<1> QED
  BY <1>6, <1>7 DEF j

(* find_match returns the first match at or after c, and its content.       *)
LEMMA FindMatchFacts ==
  ASSUME NEW text \in Written, NEW rule, ProperRule(rule), NEW c \in 1..(Len(text) + 1)
  PROVE  LET m == Find(text, rule, c)
             d == Len(rule.delimiter)
         IN /\ m.start = 0 => \A k \in c..Len(text) : ~Matches(text, rule, k)
            /\ m.start # 0 =>
                 /\ Within(text, c, m) /\ Matches(text, rule, m.start)
                 /\ \A k \in c..(m.start - 1) : ~Matches(text, rule, k)
                 /\ m.content_start = m.start + d /\ m.end = m.content_end + d
                 /\ m.content_end = ScanContent(text, rule, m.content_start)
                 /\ m.content_start < m.content_end
                 /\ StartsWith(text, m.start, rule.delimiter)
                 /\ Inside(text, rule, m.content_start, m.content_end)
<1> DEFINE m == Find(text, rule, c)
           d == Len(rule.delimiter)
           S == {k \in c..Len(text) : Matches(text, rule, k)}
           start == First(S)
<1>1. m = InlineMatch(text, rule, start)
  BY DEF Find, FindMatch, ProperRule
<1>2. Len(text) \in Nat /\ S \subseteq Nat \ {0} /\ d \in 1..2
  <2>1. Len(text) \in Nat
    BY DEF Written
  <2>2. d \in 1..2
    BY DEF ProperRule
  <2>3. S \subseteq Nat \ {0}
    BY <2>1
  <2> QED
    BY <2>1, <2>2, <2>3
<1>3. \A k \in c..Len(text) : Matches(text, rule, k) => k \in S
  OBVIOUS
<1>4. \A k \in S : k \in c..Len(text) /\ Matches(text, rule, k)
  OBVIOUS
<1> HIDE DEF S
<1>5. CASE S = {}
  <2>1. start = 0
    BY <1>2, <1>5, FirstFacts
  <2>2. m.start = 0
    BY <1>1, <2>1 DEF InlineMatch, NoMatch, Match
  <2> QED
    BY <1>3, <1>5, <2>2
<1>6. CASE S # {}
  <2>1. start \in S /\ start # 0 /\ \A x \in S : start <= x
    BY <1>2, <1>6, FirstFacts
  <2>2. start \in c..Len(text) /\ Matches(text, rule, start) /\ start \in Nat
    BY <1>2, <1>4, <2>1
  <2> HIDE DEF start
  <2> DEFINE i == start + d
             j == ScanContent(text, rule, i)
  <2>3. m.start = start /\ m.content_start = i /\ m.content_end = j /\ m.end = j + d
    BY <1>1, <2>1 DEF InlineMatch, Match
  <2>4. StartsWith(text, start, rule.delimiter) /\ j # 0
    BY <2>2 DEF Matches
  <2>5. i \in Nat
    BY <1>2, <2>2
  <2>6. j \in (i + 1)..Len(text) /\ Inside(text, rule, i, j)
    BY <2>4, <2>5, ScanFacts
  <2>7. j + d - 1 <= Len(text)
    BY <2>6 DEF Inside, StartsWith
  <2>8. \A k \in c..(start - 1) : ~Matches(text, rule, k)
    BY <1>2, <1>3, <2>1, <2>2
  <2> HIDE DEF m, j
  <2>9. Within(text, c, m)
    <3>1. start \in Nat /\ i \in Nat /\ j \in Nat /\ j + d \in Nat
      BY <1>2, <2>2, <2>5, <2>6
    <3>2. c <= start /\ start < i /\ i <= j /\ j < j + d /\ j + d <= Len(text) + 1
      <4>1. c <= start /\ c \in Nat
        BY <1>2, <2>2
      <4> HIDE DEF d
      <4>2. d \in Nat /\ 1 <= d
        BY <1>2
      <4>3. i + 1 <= j /\ j <= Len(text)
        BY <1>2, <2>6, <3>1
      <4> QED
        BY <1>2, <2>7, <3>1, <4>1, <4>2, <4>3
    <3> HIDE DEF i, d
    <3> QED
      BY <2>3, <3>1, <3>2 DEF Within
  <2>10. m.content_start < m.content_end
    BY <2>3, <2>5, <2>6
  <2> QED
    BY <2>1, <2>2, <2>3, <2>4, <2>6, <2>8, <2>9, <2>10 DEF m, j
<1> QED
  BY <1>5, <1>6

(* A search for an inline match never goes back.                            *)
LEMMA InlineForward ==
  ASSUME NEW text \in Written, NEW rule, ProperRule(rule)
  PROVE  Forward(text, rule)
  BY FindMatchFacts DEF Forward

-----------------------------------------------------------------------------
(* What was written can be read, if blocks have lost one of the texts of G  *)
(* each.                                                                    *)
Reads(G, html, text) ==
  /\ html \in Html /\ Headed(html)
  /\ \E gaps \in [Blocks(html) -> G] : SourceWith(html, gaps) = text

(* What was written to get a token, with what a block lost. *)
Filled(html, gaps, i) == IF i \in Blocks(html) THEN Source1(html, i) \o gaps[i] ELSE Source1(html, i)

Fills(html, gaps) == [i \in DOMAIN html |-> Filled(html, gaps, i)]

LEMMA FilledType ==
  ASSUME NEW G, G \subseteq Written, NEW html \in Html, NEW gaps \in [Blocks(html) -> G]
  PROVE  /\ Fills(html, gaps) \in Seq(Seq(Shown)) /\ Len(Fills(html, gaps)) = Len(html)
         /\ SourceWith(html, gaps) = FlattenSeq(Fills(html, gaps))
         /\ SourceWith(html, gaps) \in Seq(Shown)
<1> DEFINE f == [i \in DOMAIN html |-> Filled(html, gaps, i)]
<1>1. DOMAIN html = 1..Len(html) /\ Len(html) \in Nat
  BY DEF Html
<1>2. ASSUME NEW i \in DOMAIN html PROVE Filled(html, gaps, i) \in Seq(Shown)
  <2>1. Source1(html, i) \in Seq(Shown)
    BY Source1Type
  <2>2. ASSUME i \in Blocks(html) PROVE Source1(html, i) \o gaps[i] \in Seq(Shown)
    <3>1. gaps[i] \in Seq(Characters) /\ Characters \subseteq Shown
      BY <2>2 DEF Written, Shown, Escaped
    <3>2. gaps[i] \in Seq(Shown)
      BY <3>1, LargerElements
    <3> QED
      BY <2>1, <3>2, ConcatFacts
  <2> QED
    BY <2>1, <2>2 DEF Filled
<1>3. f \in [1..Len(html) -> Seq(Shown)]
  BY <1>1, <1>2
<1>4. SourceWith(html, gaps) = FlattenSeq(f)
  BY DEF SourceWith, Filled
<1> HIDE DEF f
<1>5. f \in Seq(Seq(Shown)) /\ Len(f) = Len(html)
  BY <1>1, <1>3, FunctionIsSeq
<1>6. Fills(html, gaps) = f
  BY DEF Fills, f
<1> QED
  BY <1>4, <1>5, <1>6, FlattenType

LEMMA ReadsConcat ==
  ASSUME NEW G, G \subseteq Written, NEW a, NEW b, NEW s, NEW t, Reads(G, a, s), Reads(G, b, t)
  PROVE  Reads(G, a \o b, s \o t)
<1>0. a \in Html /\ b \in Html /\ Headed(a) /\ Headed(b)
  BY DEF Reads
<1>1. PICK g \in [Blocks(a) -> G] : SourceWith(a, g) = s
  BY DEF Reads
<1>2. PICK h \in [Blocks(b) -> G] : SourceWith(b, h) = t
  BY DEF Reads
<1> DEFINE c == a \o b
           m == Len(a)
           n == Len(b)
           gaps == [i \in Blocks(c) |-> IF i \in Blocks(a) THEN g[i] ELSE h[i - m]]
           x == Fills(c, gaps)
           y == Fills(a, g)
           z == Fills(b, h)
<1>3. /\ c \in Html /\ m \in Nat /\ n \in Nat /\ Len(c) = m + n
      /\ DOMAIN a = 1..m /\ DOMAIN b = 1..n /\ DOMAIN c = 1..(m + n)
      /\ \A i \in 1..m : c[i] = a[i]
      /\ \A i \in (m + 1)..(m + n) : c[i] = b[i - m]
  BY <1>0 DEF Html
<1>4. /\ \A i \in 1..m : Source1(c, i) = Source1(a, i)
      /\ \A i \in (m + 1)..(m + n) : Source1(c, i) = Source1(b, i - m)
  BY <1>0, Source1Concat
<1> HIDE DEF c, m, n
<1>5. /\ \A i \in 1..m : i \in Blocks(c) <=> i \in Blocks(a)
      /\ \A i \in (m + 1)..(m + n) : (i \in Blocks(c) <=> i - m \in Blocks(b)) /\ i \notin Blocks(a) /\ i - m \in 1..n
  BY <1>3 DEF Blocks
<1>6. \A i \in Blocks(c) : i \in 1..m \/ i \in (m + 1)..(m + n)
  BY <1>3 DEF Blocks
<1>7. gaps \in [Blocks(c) -> G]
  <2> SUFFICES ASSUME NEW i \in Blocks(c) PROVE (IF i \in Blocks(a) THEN g[i] ELSE h[i - m]) \in G
    OBVIOUS
  <2>1. CASE i \in 1..m
    BY <1>5, <2>1
  <2>2. CASE i \in (m + 1)..(m + n)
    BY <1>5, <2>2
  <2> QED
    BY <1>6, <2>1, <2>2
<1>8. \A i \in 1..m : x[i] = y[i]
  <2> SUFFICES ASSUME NEW i \in 1..m PROVE Filled(c, gaps, i) = Filled(a, g, i)
    <3>1. \A i \in 1..m : i \in 1..(m + n)
      BY <1>3
    <3> HIDE DEF gaps
    <3> QED
      BY <1>3, <3>1 DEF Fills
  <2>1. i \in Blocks(c) => gaps[i] = g[i]
    BY <1>5
  <2> HIDE DEF gaps
  <2> QED
    BY <1>4, <1>5, <2>1 DEF Filled
<1>9. \A i \in (m + 1)..(m + n) : x[i] = z[i - m]
  <2> SUFFICES ASSUME NEW i \in (m + 1)..(m + n) PROVE Filled(c, gaps, i) = Filled(b, h, i - m)
    <3>1. \A i \in (m + 1)..(m + n) : i \in 1..(m + n)
      BY <1>3
    <3> HIDE DEF gaps
    <3> QED
      BY <1>3, <1>5, <3>1 DEF Fills
  <2>1. i \in Blocks(c) => gaps[i] = h[i - m]
    BY <1>5
  <2> HIDE DEF gaps
  <2> QED
    BY <1>4, <1>5, <2>1 DEF Filled
<1> HIDE DEF gaps
<1>10. /\ x \in Seq(Seq(Shown)) /\ Len(x) = Len(c) /\ SourceWith(c, gaps) = FlattenSeq(x)
       /\ y \in Seq(Seq(Shown)) /\ Len(y) = Len(a) /\ s = FlattenSeq(y)
       /\ z \in Seq(Seq(Shown)) /\ Len(z) = Len(b) /\ t = FlattenSeq(z)
  BY <1>0, <1>1, <1>2, <1>3, <1>7, FilledType
<1> HIDE DEF x, y, z
<1>11. FlattenSeq(x) = FlattenSeq(y) \o FlattenSeq(z)
  <2>1. Len(y) = m /\ Len(z) = n /\ Len(x) = m + n
    BY <1>3, <1>10 DEF m, n
  <2>2. \A i \in 1..Len(y) : x[i] = y[i]
    BY <1>8, <2>1
  <2>3. \A i \in (Len(y) + 1)..(Len(y) + Len(z)) : x[i] = z[i - Len(y)]
    BY <1>9, <2>1
  <2> QED
    BY <1>10, <2>1, <2>2, <2>3, FlattenJoin
<1>12. Headed(c)
  BY <1>0, HeadedConcat DEF c
<1> QED
  BY <1>3, <1>7, <1>10, <1>11, <1>12 DEF Reads, c

(* An HTML without blocks lost nothing. *)
LEMMA PlainReads ==
  ASSUME NEW G, NEW html \in Html, Headed(html), Blocks(html) = {}
  PROVE  Reads(G, html, Source(html))
<1> DEFINE gaps == [i \in {} |-> <<>>]
<1>1. gaps \in [Blocks(html) -> G]
  OBVIOUS
<1>2. SourceWith(html, gaps) = Source(html)
  BY DEF SourceWith, Source
<1> QED
  BY <1>1, <1>2 DEF Reads

LEMMA EscapedReads ==
  ASSUME NEW G, NEW s \in Written
  PROVE  Reads(G, EscapeHtml(s), s)
<1>1. EscapeHtml(s) \in Seq(Escaped) /\ EscapeHtml(s) \in Html /\ Headed(EscapeHtml(s)) /\ Source(EscapeHtml(s)) = s
  BY EscapeReads, WrittenIsHtml
<1>2. Open("pre") \notin Escaped
  BY TokenFacts DEF Open, Escaped, Entities
<1>3. Blocks(EscapeHtml(s)) = {}
  BY <1>1, <1>2 DEF Blocks
<1> QED
  BY <1>1, <1>3, PlainReads

(* A wrapped content is read with what its tags are read as.                *)
LEMMA TaggedReads ==
  ASSUME NEW G, G \subseteq Written, NEW tag \in Tags, NEW s \in Written, NEW open, Reads(G, <<Open(tag)>>, open)
  PROVE  Reads(G, Wrap(tag, s), open \o s \o Delimiter[tag])
<1> DEFINE a == <<Open(tag)>>
           b == EscapeHtml(s)
           c == <<Close(tag)>>
<1>1. c \in Html /\ Source(c) = Delimiter[tag] /\ Close(tag) \in Closing
  BY TokenFacts, WrittenIsHtml, SourceOfToken
<1>2. Close(tag) \notin Entities /\ Close(tag) # Open("pre")
  <2>1. Open("pre") = "<pre>"
    BY DEF Open
  <2> QED
    BY <1>1, <2>1, TokenFacts DEF Entities
<1>3. Headed(c) /\ Blocks(c) = {}
  <2>1. DOMAIN c = {1} /\ c[1] = Close(tag)
    BY OneFacts
  <2> HIDE DEF c
  <2> QED
    BY <1>2, <2>1 DEF Headed, Blocks
<1>4. Reads(G, b, s)
  BY EscapedReads
<1>5. Wrap(tag, s) = a \o b \o c
  BY DEF Wrap
<1> HIDE DEF a, b, c
<1>6. Reads(G, c, Delimiter[tag])
  BY <1>1, <1>3, PlainReads
<1>7. Reads(G, a \o b, open \o s)
  BY <1>4, ReadsConcat DEF a
<1>8. Reads(G, a \o b \o c, open \o s \o Delimiter[tag])
  BY <1>6, <1>7, ReadsConcat
<1> QED
  BY <1>5, <1>8

LEMMA WrapReads ==
  ASSUME NEW G, G \subseteq Written, NEW tag \in Tags \ {"pre"}, NEW s \in Written
  PROVE  Reads(G, Wrap(tag, s), Delimiter[tag] \o s \o Delimiter[tag])
<1> DEFINE a == <<Open(tag)>>
<1>1. a \in Html /\ Source(a) = Delimiter[tag] /\ Open(tag) \in Opening
  BY TokenFacts, WrittenIsHtml, SourceOfToken
<1>2. Open(tag) \notin Entities /\ Open(tag) # Open("pre")
  <2>1. TagOf(Open(tag)) = tag /\ TagOf(Open("pre")) = "pre"
    BY TagOfFacts DEF Tags
  <2> QED
    BY <1>1, <2>1, TokenFacts DEF Entities
<1>3. DOMAIN a = {1} /\ a[1] = Open(tag)
  BY OneFacts
<1> HIDE DEF a
<1>4. Headed(a) /\ Blocks(a) = {}
  BY <1>2, <1>3 DEF Headed, Blocks
<1>5. Reads(G, a, Delimiter[tag])
  BY <1>1, <1>4, PlainReads
<1> QED
  BY <1>5, TaggedReads DEF a

(* A block is read with what it lost behind its opening fence.              *)
LEMMA BlockReads ==
  ASSUME NEW G, G \subseteq Written, NEW q \in G, NEW s \in Written
  PROVE  Reads(G, Wrap("pre", s), Delimiter["pre"] \o q \o s \o Delimiter["pre"])
<1> DEFINE a == <<Open("pre")>>
           gaps == [i \in {1} |-> q]
           f == Fills(a, gaps)
<1>0. "pre" \in Tags
  BY DEF Tags
<1>1. a \in Html /\ Open("pre") \in Opening
  BY <1>0, TokenFacts, WrittenIsHtml
<1>2. DOMAIN a = {1} /\ a[1] = Open("pre") /\ Open("pre") \notin Entities
  BY <1>1, OneFacts, TokenFacts DEF Entities
<1> HIDE DEF a
<1>3. Headed(a) /\ Blocks(a) = {1}
  BY <1>2 DEF Headed, Blocks
<1>4. gaps \in [Blocks(a) -> G] /\ gaps[1] = q
  BY <1>3
<1> HIDE DEF gaps
<1>5. Source1(a, 1) = Delimiter["pre"]
  <2>1. TagOf(a[1]) = "pre"
    BY <1>0, <1>2, TagOfFacts
  <2> QED
    BY <1>1, <1>2, <2>1 DEF Source1
<1>6. Filled(a, gaps, 1) = Delimiter["pre"] \o q
  BY <1>3, <1>4, <1>5 DEF Filled
<1>7. f \in Seq(Seq(Shown)) /\ Len(f) = Len(a) /\ SourceWith(a, gaps) = FlattenSeq(f)
  BY <1>1, <1>4, FilledType
<1>8. f = <<Delimiter["pre"] \o q>> /\ Delimiter["pre"] \o q \in Seq(Shown)
  <2>1. DOMAIN f = {1} /\ f[1] = Delimiter["pre"] \o q
    BY <1>2, <1>6 DEF Fills
  <2> HIDE DEF f
  <2>2. f[1] \in Seq(Shown) /\ Len(f) = 1
    <3>1. Len(a) = 1
      BY OneFacts DEF a
    <3>2. \A seqs \in Seq(Seq(Shown)) : \A i \in DOMAIN seqs : seqs[i] \in Seq(Shown)
      OBVIOUS
    <3>3. f[1] \in Seq(Shown)
      BY <1>7, <2>1, <3>2
    <3> QED
      BY <1>7, <3>1, <3>3
  <2> QED
    BY <1>7, <2>1, <2>2
<1> HIDE DEF f
<1>9. SourceWith(a, gaps) = Delimiter["pre"] \o q
  BY <1>7, <1>8, FlattenOne
<1>10. Reads(G, a, Delimiter["pre"] \o q)
  BY <1>1, <1>3, <1>4, <1>9 DEF Reads
<1> QED
  BY <1>0, <1>10, TaggedReads DEF a

(* The text of an inline match. *)
LEMMA MatchedText ==
  ASSUME NEW text \in Written, NEW rule, ProperRule(rule), NEW c \in 1..(Len(text) + 1),
         Find(text, rule, c).start # 0
  PROVE  LET m == Find(text, rule, c)
         IN SubSeq(text, m.start, m.end - 1) =
              rule.delimiter \o SubSeq(text, m.content_start, m.content_end - 1) \o rule.delimiter
<1> DEFINE m == Find(text, rule, c)
           d == Len(rule.delimiter)
<1>1. /\ Within(text, c, m) /\ m.content_start = m.start + d /\ m.end = m.content_end + d
      /\ m.content_start < m.content_end
      /\ StartsWith(text, m.start, rule.delimiter) /\ StartsWith(text, m.content_end, rule.delimiter)
  BY FindMatchFacts DEF Inside
<1>2. d \in 1..2 /\ Len(text) \in Nat /\ text \in Seq(Characters)
  <2>1. d \in 1..2
    BY DEF ProperRule
  <2>2. Len(text) \in Nat /\ text \in Seq(Characters)
    BY DEF Written
  <2> QED
    BY <2>1, <2>2
<1> HIDE DEF m
<1>3. /\ m.start \in Nat /\ m.content_start \in Nat /\ m.content_end \in Nat /\ m.end \in Nat /\ c \in Nat /\ 1 <= c
      /\ c <= m.start /\ m.start < m.content_start /\ m.content_start <= m.content_end
      /\ m.content_end < m.end /\ m.end <= Len(text) + 1
  BY <1>1 DEF Within
<1>4. /\ m.start \in Nat /\ m.content_start - 1 \in Nat /\ m.content_end - 1 \in Nat /\ m.end - 1 \in Nat
      /\ 1 <= m.start /\ m.start <= (m.content_start - 1) + 1 /\ m.content_start - 1 <= m.content_end - 1
      /\ m.content_end - 1 <= m.end - 1 /\ m.end - 1 <= Len(text) /\ m.content_end - 1 <= Len(text)
      /\ (m.content_start - 1) + 1 = m.content_start /\ (m.content_end - 1) + 1 = m.content_end
      /\ m.start <= (m.content_end - 1) + 1
  <2> DEFINE i == m.start
             j == m.content_start
             k == m.content_end
             l == m.end
             n == Len(text)
  <2> HIDE DEF i, j, k, l, n, d
  <2>1. /\ i \in Nat /\ j \in Nat /\ k \in Nat /\ l \in Nat /\ n \in Nat /\ 1 <= i /\ i < j /\ j <= k
        /\ k < l /\ l <= n + 1
    BY <1>2, <1>3 DEF i, j, k, l, n
  <2>2. /\ i \in Nat /\ j - 1 \in Nat /\ k - 1 \in Nat /\ l - 1 \in Nat
        /\ 1 <= i /\ i <= (j - 1) + 1 /\ j - 1 <= k - 1 /\ k - 1 <= l - 1 /\ l - 1 <= n /\ k - 1 <= n
        /\ (j - 1) + 1 = j /\ (k - 1) + 1 = k /\ i <= (k - 1) + 1
    BY <2>1
  <2> QED
    BY <2>2 DEF i, j, k, l, n
<1>7. /\ SubSeq(text, m.start, m.content_start - 1) = rule.delimiter
      /\ SubSeq(text, m.content_end, m.end - 1) = rule.delimiter
  <2>1. m.start + d - 1 = m.content_start - 1 /\ m.content_end + d - 1 = m.end - 1
    <3> HIDE DEF d
    <3> QED
      BY <1>1, <1>2, <1>3
  <2> QED
    BY <1>1, <2>1 DEF StartsWith
<1> HIDE DEF d
<1>5. SubSeq(text, m.start, m.content_start - 1) \o SubSeq(text, m.content_start, m.content_end - 1)
        = SubSeq(text, m.start, m.content_end - 1)
  <2> DEFINE b == m.content_start - 1
             e == m.content_end - 1
  <2>1. SubSeq(text, m.start, b) \o SubSeq(text, b + 1, e) = SubSeq(text, m.start, e)
    BY <1>2, <1>4, SubSeqJoin
  <2> QED
    BY <1>4, <2>1
<1>6. SubSeq(text, m.start, m.content_end - 1) \o SubSeq(text, m.content_end, m.end - 1)
        = SubSeq(text, m.start, m.end - 1)
  <2> DEFINE b == m.content_end - 1
             e == m.end - 1
  <2>1. SubSeq(text, m.start, b) \o SubSeq(text, b + 1, e) = SubSeq(text, m.start, e)
    BY <1>2, <1>4, SubSeqJoin
  <2> QED
    BY <1>4, <2>1
<1> QED
  BY <1>5, <1>6, <1>7 DEF m

-----------------------------------------------------------------------------
LEMMA PrefixAndRest ==
  ASSUME NEW text \in Written, NEW c \in 1..(Len(text) + 1)
  PROVE  /\ SubSeq(text, 1, c - 1) \o From(text, c) = text
         /\ SubSeq(text, 1, c - 1) \in Written /\ Len(SubSeq(text, 1, c - 1)) = c - 1
         /\ \A k \in 1..(c - 1) : SubSeq(text, 1, c - 1)[k] = text[k]
<1> DEFINE n == Len(text)
           a == c - 1
<1>1. text \in Seq(Characters) /\ n \in Nat
  BY DEF Written
<1>2. a \in Nat /\ a <= n /\ a + 1 = c /\ 1 <= a + 1 /\ a + 1 - 1 = a
  BY <1>1
<1>3. SubSeq(text, 1, n) = text
  BY <1>1, WholePrefix
<1> HIDE DEF a
<1>4. /\ SubSeq(text, 1, a) \in Seq(Characters) /\ Len(SubSeq(text, 1, a)) = a
      /\ \A k \in 1..a : SubSeq(text, 1, a)[k] = text[k]
  BY <1>1, <1>2
<1>5. SubSeq(text, 1, a) \o SubSeq(text, a + 1, n) = SubSeq(text, 1, n)
  <2>1. 1 <= a + 1 /\ a <= n /\ n <= Len(text) /\ 1 \in Nat /\ 1 <= 1
    BY <1>1, <1>2
  <2> HIDE DEF n
  <2> QED
    BY <1>1, <1>2, <2>1, SubSeqJoin
<1> QED
  BY <1>2, <1>3, <1>4, <1>5 DEF From, Written, a

(* Every match shows its part of the text. *)
MatchesShow(G, text, rule) ==
  \A c \in 1..(Len(text) + 1) :
    LET m == Find(text, rule, c)
    IN m.start # 0 =>
         Reads(G, Wrap(rule.tag, SubSeq(text, m.content_start, m.content_end - 1)), SubSeq(text, m.start, m.end - 1))

(* What is before a position, what is left there before a match, and the    *)
(* match itself are adjacent parts of the text.                             *)
LEMMA CutsOfText ==
  ASSUME NEW text \in Written, NEW c \in 1..(Len(text) + 1), NEW m, Within(text, c, m)
  PROVE  /\ SubSeq(text, 1, c - 1) \o SubSeq(text, c, m.start - 1) = SubSeq(text, 1, m.start - 1)
         /\ SubSeq(text, 1, m.start - 1) \o SubSeq(text, m.start, m.end - 1) = SubSeq(text, 1, m.end - 1)
<1>1. text \in Seq(Characters) /\ Len(text) \in Nat
  BY DEF Written
<1>2. /\ c \in Nat /\ m.start \in Nat /\ m.end \in Nat
      /\ 1 <= c /\ c <= m.start /\ m.start < m.end /\ m.end <= Len(text) + 1
  BY <1>1 DEF Within
<1>3. ASSUME NEW a \in Nat, NEW b \in Nat, a <= b, b <= Len(text)
      PROVE  SubSeq(text, 1, a) \o SubSeq(text, a + 1, b) = SubSeq(text, 1, b)
  BY <1>1, <1>3, SubSeqJoin
<1>4. /\ c - 1 \in Nat /\ m.start - 1 \in Nat /\ m.end - 1 \in Nat /\ c - 1 <= m.start - 1
      /\ m.start - 1 <= m.end - 1 /\ m.start - 1 <= Len(text) /\ m.end - 1 <= Len(text)
      /\ (c - 1) + 1 = c /\ (m.start - 1) + 1 = m.start
  BY <1>1, <1>2
<1>5. SubSeq(text, 1, c - 1) \o SubSeq(text, (c - 1) + 1, m.start - 1) = SubSeq(text, 1, m.start - 1)
  BY <1>3, <1>4
<1>6. SubSeq(text, 1, m.start - 1) \o SubSeq(text, (m.start - 1) + 1, m.end - 1) = SubSeq(text, 1, m.end - 1)
  BY <1>3, <1>4
<1> QED
  BY <1>4, <1>5, <1>6

(* Then the HTML shows the whole text. *)
LEMMA LoopShows ==
  ASSUME NEW G, G \subseteq Written, NEW text \in Written, NEW rule, rule.tag \in Tags, Forward(text, rule),
         NEW next \in [Written -> Html], \A t \in Written : Reads(G, next[t], t), MatchesShow(G, text, rule)
  PROVE  Reads(G, Formatted(text, rule, next), text)
<1> DEFINE S == {at \in Ats(text) : Reads(G, at.formatted, SubSeq(text, 1, at.cursor - 1))}
<1>0. text \in Seq(Characters) /\ Len(text) \in Nat
  BY DEF Written
<1>1. Start \in S
  <2>1. Start \in Ats(text)
    <3>1. 1 \in 1..(Len(text) + 1) /\ <<>> \in Html
      BY <1>0 DEF Html
    <3> QED
      BY <3>1 DEF Start, Ats
  <2>2. Start.formatted = <<>> /\ Start.cursor - 1 = 0
    BY DEF Start
  <2>3. SubSeq(text, 1, 0) = <<>>
    BY <1>0, WholePrefix
  <2>4. <<>> \in Html /\ Headed(<<>>) /\ Blocks(<<>>) = {} /\ Source(<<>>) = <<>>
    <3>1. <<>> \in Html /\ DOMAIN <<>> = {}
      BY DEF Html
    <3> QED
      BY <3>1, SourceOfToken DEF Headed, Blocks
  <2>5. Reads(G, <<>>, <<>>)
    BY <2>4, PlainReads
  <2> QED
    BY <2>1, <2>2, <2>3, <2>5
<1>2. Kept(S, text, rule, next)
  <2> SUFFICES ASSUME NEW at \in Ats(text), at \in S, Find(text, rule, at.cursor).start # 0
               PROVE  Round(text, Find(text, rule, at.cursor), rule.tag, next, at) \in S
    BY DEF Kept
  <2> DEFINE m == Find(text, rule, at.cursor)
             p1 == SubSeq(text, 1, at.cursor - 1)
             p2 == SubSeq(text, at.cursor, m.start - 1)
             p3 == SubSeq(text, m.start, m.end - 1)
             w == SubSeq(text, m.content_start, m.content_end - 1)
             gap == next[p2]
             wrap == Wrap(rule.tag, w)
             after == Round(text, m, rule.tag, next, at)
  <2>1. at.cursor \in 1..(Len(text) + 1) /\ at.formatted \in Html
    BY DEF Ats
  <2>2. Within(text, at.cursor, m)
    BY <2>1 DEF Forward
  <2>3. p2 \in Written
    BY <2>1, <2>2, PartsOfText
  <2>4. after \in Ats(text)
    BY <2>2, RoundType
  <2>5. after.cursor = m.end /\ after.formatted = at.formatted \o gap \o wrap
    BY DEF Round
  <2>6. Reads(G, at.formatted, p1) /\ Reads(G, gap, p2) /\ Reads(G, wrap, p3)
    BY <2>1, <2>3 DEF MatchesShow
  <2>7. p1 \o p2 = SubSeq(text, 1, m.start - 1) /\ SubSeq(text, 1, m.start - 1) \o p3 = SubSeq(text, 1, m.end - 1)
    BY <2>1, <2>2, CutsOfText
  <2> HIDE DEF m, p1, p2, p3, w, gap, wrap, after
  <2>8. Reads(G, at.formatted \o gap, p1 \o p2)
    BY <2>6, ReadsConcat
  <2>9. Reads(G, at.formatted \o gap \o wrap, p1 \o p2 \o p3)
    BY <2>6, <2>8, ReadsConcat
  <2> QED
    BY <2>4, <2>5, <2>7, <2>9 DEF after, m
<1> HIDE DEF S
<1>3. PICK at \in Ats(text) : /\ at \in S /\ Find(text, rule, at.cursor).start = 0
                              /\ Formatted(text, rule, next) = at.formatted \o next[From(text, at.cursor)]
  BY <1>1, <1>2, LoopInduction
<1> USE DEF S
<1>4. at.cursor \in 1..(Len(text) + 1) /\ Reads(G, at.formatted, SubSeq(text, 1, at.cursor - 1))
  BY <1>3 DEF Ats
<1>5. Reads(G, next[From(text, at.cursor)], From(text, at.cursor))
  BY <1>4, RestOfText
<1>6. SubSeq(text, 1, at.cursor - 1) \o From(text, at.cursor) = text
  BY <1>4, PrefixAndRest
<1>7. Reads(G, at.formatted \o next[From(text, at.cursor)], SubSeq(text, 1, at.cursor - 1) \o From(text, at.cursor))
  BY <1>4, <1>5, ReadsConcat
<1> QED
  BY <1>3, <1>6, <1>7

(* A loop over inline matches loses no character.                           *)
LEMMA InlineShows ==
  ASSUME NEW G, G \subseteq Written, NEW text \in Written, NEW rule, ProperRule(rule),
         NEW next \in [Written -> Html], \A t \in Written : Reads(G, next[t], t)
  PROVE  Reads(G, Formatted(text, rule, next), text)
<1>1. rule.tag \in Tags \ {"pre"} /\ rule.delimiter = Delimiter[rule.tag] /\ Forward(text, rule)
  BY InlineForward DEF ProperRule
<1>2. MatchesShow(G, text, rule)
  <2> SUFFICES ASSUME NEW c \in 1..(Len(text) + 1), Find(text, rule, c).start # 0
               PROVE  LET m == Find(text, rule, c)
                      IN Reads(G, Wrap(rule.tag, SubSeq(text, m.content_start, m.content_end - 1)),
                                  SubSeq(text, m.start, m.end - 1))
    BY DEF MatchesShow
  <2> DEFINE m == Find(text, rule, c)
  <2>1. Within(text, c, m)
    BY <1>1 DEF Forward
  <2>2. SubSeq(text, m.content_start, m.content_end - 1) \in Written
    BY <2>1, PartsOfText
  <2>3. SubSeq(text, m.start, m.end - 1) =
          rule.delimiter \o SubSeq(text, m.content_start, m.content_end - 1) \o rule.delimiter
    BY MatchedText
  <2> HIDE DEF m
  <2>4. Reads(G, Wrap(rule.tag, SubSeq(text, m.content_start, m.content_end - 1)), SubSeq(text, m.start, m.end - 1))
    BY <1>1, <2>2, <2>3, WrapReads
  <2> QED
    BY <2>4 DEF m
<1> QED
  BY <1>1, <1>2, LoopShows

-----------------------------------------------------------------------------
LEMMA FormattedType ==
  ASSUME NEW text \in Written, NEW rule, ProperRule(rule), NEW next \in [Written -> Html]
  PROVE  Formatted(text, rule, next) \in Html
<1> DEFINE S == Ats(text)
<1>1. rule.tag \in Tags /\ Forward(text, rule)
  BY InlineForward DEF ProperRule
<1>2. Kept(S, text, rule, next)
  <2> SUFFICES ASSUME NEW at \in Ats(text)
               PROVE  Round(text, Find(text, rule, at.cursor), rule.tag, next, at) \in S
    BY DEF Kept
  <2> DEFINE m == Find(text, rule, at.cursor)
  <2>1. at.cursor \in 1..(Len(text) + 1)
    BY DEF Ats
  <2>2. m.start = 0 \/ Within(text, at.cursor, m)
    BY <1>1, <2>1 DEF Forward
  <2> HIDE DEF m
  <2>3. Round(text, m, rule.tag, next, at) \in S
    BY <1>1, <2>2, RoundType
  <2> QED
    BY <2>3 DEF m
<1>3. Start \in S
  <2>1. Len(text) \in Nat
    BY DEF Written
  <2>2. 1 \in 1..(Len(text) + 1) /\ <<>> \in Html
    BY <2>1 DEF Html
  <2> QED
    BY <2>2 DEF Start, Ats
<1> HIDE DEF S
<1>4. PICK at \in Ats(text) : Formatted(text, rule, next) = at.formatted \o next[From(text, at.cursor)]
  BY <1>1, <1>2, <1>3, LoopInduction
<1>5. at.cursor \in 1..(Len(text) + 1) /\ at.formatted \in Html
  BY DEF Ats
<1>6. next[From(text, at.cursor)] \in Html
  BY <1>5, RestOfText
<1> QED
  BY <1>4, <1>5, <1>6, ConcatFacts DEF Html

(* apply_rules, level by level. *)
LEMMA LevelFacts ==
  /\ \A n \in 0..5 : ApplyRules[n] \in [Written -> Html]
  /\ \A text \in Written : ApplyRules[0][text] = EscapeHtml(text)
  /\ \A n \in 1..5 : \A text \in Written :
       ApplyRules[n][text] = Formatted(text, INLINE_RULES[6 - n], ApplyRules[n - 1])
<1> DEFINE D == [Written -> Html]
           base == [text \in Written |-> EscapeHtml(text)]
           Level(n, next) == [text \in Written |-> Formatted(text, INLINE_RULES[6 - n], next)]
           step == [x \in (1..5) \X D |-> Level(x[1], x[2])]
           Is(f) == f = [n \in 0..Len(INLINE_RULES) |->
                           IF n = 0 THEN [text \in Written |-> EscapeHtml(text)]
                           ELSE [text \in Written |-> Formatted(text, INLINE_RULES[Len(INLINE_RULES) + 1 - n], f[n - 1])]]
           apply == CHOOSE f : Is(f)
<1>1. base \in D
  BY EscapeFacts, WrittenIsHtml
<1>2. ASSUME NEW n \in 1..5, NEW next \in D PROVE Level(n, next) \in D
  <2>1. 6 - n \in 1..5
    OBVIOUS
  <2>2. ProperRule(INLINE_RULES[6 - n])
    BY <2>1, RuleFacts
  <2> QED
    BY <2>2, FormattedType
<1>3. step \in [(1..5) \X D -> D]
  <2> HIDE DEF D, Level
  <2> QED
    BY <1>2
<1>4. Recursions(5, D, base, step) # {}
  <2> HIDE DEF step, D, base
  <2> QED
    BY <1>1, <1>3, RecursionExists
<1>5. PICK f \in [0..5 -> D] : f[0] = base /\ \A i \in 1..5 : f[i] = step[<<i, f[i - 1]>>]
  <2> HIDE DEF step, D, base
  <2> QED
    BY <1>4 DEF Recursions
<1>6. ASSUME NEW i \in 1..5 PROVE f[i - 1] \in D /\ f[i] = Level(i, f[i - 1])
  <2> HIDE DEF D, Level
  <2>1. i - 1 \in 0..5
    OBVIOUS
  <2>2. <<i, f[i - 1]>> \in (1..5) \X D
    BY <2>1
  <2> QED
    BY <1>5, <2>1, <2>2
<1>7. ASSUME NEW n \in 0..5 PROVE n # 0 => n \in 1..5 /\ Len(INLINE_RULES) + 1 - n = 6 - n
  BY RuleFacts
<1>8. Is(f)
  <2>1. \A k \in 0..5 : f[k] = IF k = 0 THEN base ELSE Level(k, f[k - 1])
    <3> HIDE DEF D, base, Level
    <3> QED
      BY <1>5, <1>6, <1>7
  <2>2. f = [n \in 0..5 |-> IF n = 0 THEN base ELSE Level(n, f[n - 1])]
    <3> HIDE DEF D, base, Level
    <3> QED
      BY <2>1
  <2>3. \A n \in 0..5 : (IF n = 0 THEN base ELSE Level(n, f[n - 1]))
          = IF n = 0 THEN [text \in Written |-> EscapeHtml(text)]
            ELSE [text \in Written |-> Formatted(text, INLINE_RULES[Len(INLINE_RULES) + 1 - n], f[n - 1])]
    BY <1>7
  <2>4. 0..Len(INLINE_RULES) = 0..5
    BY RuleFacts
  <2> HIDE DEF base, Level, D
  <2> QED
    BY <2>2, <2>3, <2>4
<1>9. Is(apply)
  <2> HIDE DEF Is
  <2> QED
    BY <1>8
<1>10. ApplyRules = apply
  BY DEF ApplyRules
<1> HIDE DEF apply
<1>11. apply[0] = base /\ \A n \in 1..5 : apply[n] = Level(n, apply[n - 1])
  <2>1. 0..Len(INLINE_RULES) = 0..5
    BY RuleFacts
  <2>2. \A n \in 0..5 : apply[n] = IF n = 0 THEN base
                                   ELSE [text \in Written |->
                                           Formatted(text, INLINE_RULES[Len(INLINE_RULES) + 1 - n], apply[n - 1])]
    BY <1>9, <2>1
  <2>3. \A n \in 1..5 : n \in 0..5 /\ n # 0
    OBVIOUS
  <2>4. apply[0] = base
    BY <2>2
  <2>5. ASSUME NEW n \in 1..5 PROVE apply[n] = Level(n, apply[n - 1])
    <3>1. Len(INLINE_RULES) + 1 - n = 6 - n /\ n \in 0..5 /\ n # 0
      BY <1>7, <2>3
    <3> HIDE DEF base
    <3>2. apply[n] = [text \in Written |-> Formatted(text, INLINE_RULES[Len(INLINE_RULES) + 1 - n], apply[n - 1])]
      BY <2>2, <3>1
    <3> QED
      BY <3>1, <3>2
  <2> QED
    BY <2>4, <2>5
<1> HIDE DEF Is, step
<1> DEFINE T == {n \in 0..5 : apply[n] \in D}
<1>12. 0..5 \subseteq T
  <2>1. 0 \in T
    BY <1>1, <1>11
  <2>2. ASSUME NEW n \in 1..5, n - 1 \in T PROVE n \in T
    <3>1. apply[n] \in D
      <4> HIDE DEF D, Level
      <4> QED
        BY <1>2, <1>11, <2>2
    <3> QED
      BY <3>1
  <2> HIDE DEF T
  <2> QED
    BY <2>1, <2>2, UpToInduction
<1>13. \A n \in 0..5 : apply[n] \in D
  BY <1>12
<1>14. \A text \in Written : apply[0][text] = EscapeHtml(text)
  BY <1>11
<1>15. ASSUME NEW n \in 1..5, NEW text \in Written
       PROVE  apply[n][text] = Formatted(text, INLINE_RULES[6 - n], apply[n - 1])
  BY <1>11
<1> QED
  BY <1>10, <1>13, <1>14, <1>15

(* What is made of a text with the last n rules is read as that text.       *)
LEMMA LevelsShow ==
  ASSUME NEW G, G \subseteq Written, NEW n \in 0..5, NEW text \in Written
  PROVE  Reads(G, ApplyRules[n][text], text)
<1> DEFINE T == {i \in 0..5 : \A t \in Written : Reads(G, ApplyRules[i][t], t)}
<1>1. 0 \in T
  <2>1. ASSUME NEW t \in Written PROVE Reads(G, ApplyRules[0][t], t)
    BY LevelFacts, EscapedReads
  <2> QED
    BY <2>1
<1>2. ASSUME NEW i \in 1..5, i - 1 \in T PROVE i \in T
  <2>1. ASSUME NEW t \in Written PROVE Reads(G, ApplyRules[i][t], t)
    <3> DEFINE next == ApplyRules[i - 1]
               rule == INLINE_RULES[6 - i]
    <3>1. 6 - i \in 1..5 /\ i - 1 \in 0..5
      OBVIOUS
    <3>2. ProperRule(rule) /\ next \in [Written -> Html]
      BY <3>1, RuleFacts, LevelFacts
    <3>3. \A u \in Written : Reads(G, next[u], u)
      BY <1>2
    <3>4. ApplyRules[i][t] = Formatted(t, rule, next)
      BY LevelFacts
    <3> HIDE DEF rule, next
    <3> QED
      BY <3>2, <3>3, <3>4, InlineShows
  <2>2. i \in 0..5
    OBVIOUS
  <2> QED
    BY <2>1, <2>2
<1>3. 0..5 \subseteq T
  <2> HIDE DEF T
  <2> QED
    BY <1>1, <1>2, UpToInduction
<1> QED
  BY <1>3

-----------------------------------------------------------------------------
(* Fenced blocks.                                                           *)
LEMMA FenceFacts ==
  /\ Len(FENCE) = 3 /\ FENCE \in Written /\ FENCE[1] = Tick
  /\ CODE_BLOCK.tag = "pre" /\ CODE_BLOCK.delimiter = FENCE /\ Delimiter["pre"] = FENCE
<1>1. Tick \in Characters
  BY TokenFacts DEF Tick
<1>2. FENCE \in Seq(Characters)
  BY <1>1, TupleFacts DEF FENCE
<1>3. Len(FENCE) = 3 /\ FENCE[1] = Tick
  BY DEF FENCE
<1>4. CODE_BLOCK.tag = "pre" /\ CODE_BLOCK.delimiter = FENCE
  BY DEF CODE_BLOCK, Rule
<1>5. Delimiter["pre"] = FENCE
  BY DEF Delimiter
<1> QED
  BY <1>2, <1>3, <1>4, <1>5 DEF Written

LEMMA StartsWithFence ==
  ASSUME NEW text \in Written, NEW i \in 1..Len(text), StartsWith(text, i, FENCE)
  PROVE  i + 2 <= Len(text) /\ SubSeq(text, i, i + 2) = FENCE /\ text[i] = Tick
<1>1. i + 3 - 1 = i + 2 /\ Len(text) \in Nat
  BY DEF Written
<1>2. i + 2 <= Len(text) /\ SubSeq(text, i, i + 2) = FENCE
  BY <1>1, FenceFacts DEF StartsWith
<1>3. SubSeq(text, i, i + 2)[1] = text[i]
  <2>1. i \in Nat /\ i + 2 \in Nat /\ 1 <= i /\ i <= (i + 2) + 1 /\ 1 \in 1..((i + 2) + 1 - i) /\ i + 1 - 1 = i
    BY <1>1
  <2>2. text \in Seq(Characters)
    BY DEF Written
  <2>3. \A k \in 1..((i + 2) + 1 - i) : SubSeq(text, i, i + 2)[k] = text[i + k - 1]
    BY <1>2, <2>1, <2>2, SubSeqFacts
  <2> QED
    BY <2>1, <2>3
<1> QED
  BY <1>2, <1>3, FenceFacts

(* What a text starts with is in it. *)
LEMMA StartsWithOne ==
  ASSUME NEW text \in Written, NEW i \in 1..(Len(text) + 1), NEW c, StartsWith(text, i, <<c>>)
  PROVE  i <= Len(text) /\ SubSeq(text, i, i) = <<c>> /\ text[i] = c
<1>1. text \in Seq(Characters) /\ i \in Nat /\ 1 <= i /\ i <= i + 1 /\ i + 1 - 1 = i /\ 1 \in 1..(i + 1 - i)
  BY DEF Written
<1>2. i <= Len(text)
  BY <1>1, OneFacts DEF StartsWith
<1>3. SubSeq(text, i, i) = <<c>>
  BY <1>1, OneFacts DEF StartsWith
<1>4. \A k \in 1..(i + 1 - i) : SubSeq(text, i, i)[k] = text[i + k - 1]
  BY <1>1, <1>2, SubSeqFacts
<1>5. SubSeq(text, i, i)[1] = text[i]
  BY <1>1, <1>4
<1> QED
  BY <1>2, <1>3, <1>5, OneFacts

LEMMA StartsWithTwo ==
  ASSUME NEW text \in Written, NEW i \in 1..(Len(text) + 1), NEW c, NEW d, StartsWith(text, i, <<c, d>>)
  PROVE  i + 1 <= Len(text) /\ SubSeq(text, i, i + 1) = <<c, d>> /\ text[i] = c /\ text[i + 1] = d
<1>1. i + 2 - 1 = i + 1 /\ Len(text) \in Nat /\ text \in Seq(Characters)
  BY DEF Written
<1>2. i + 1 <= Len(text) /\ SubSeq(text, i, i + 1) = <<c, d>>
  BY <1>1, PairFacts DEF StartsWith
<1>3. /\ i \in Nat /\ i + 1 \in Nat /\ 1 <= i /\ i <= (i + 1) + 1
      /\ 1 \in 1..((i + 1) + 1 - i) /\ 2 \in 1..((i + 1) + 1 - i) /\ i + 1 - 1 = i /\ i + 2 - 1 = i + 1
  BY <1>1
<1>4. \A k \in 1..((i + 1) + 1 - i) : SubSeq(text, i, i + 1)[k] = text[i + k - 1]
  BY <1>1, <1>2, <1>3, SubSeqFacts
<1>5. SubSeq(text, i, i + 1)[1] = text[i] /\ SubSeq(text, i, i + 1)[2] = text[i + 1]
  BY <1>3, <1>4
<1>6. <<c, d>>[1] = c /\ <<c, d>>[2] = d
  BY PairFacts
<1> QED
  BY <1>2, <1>5, <1>6, Zenon

LEMMA EmptyPart ==
  ASSUME NEW text \in Written, NEW i \in 1..(Len(text) + 1)
  PROVE  SubSeq(text, i, i - 1) = <<>>
<1>1. text \in Seq(Characters) /\ i \in Nat /\ i - 1 \in Nat /\ 1 <= i /\ i <= (i - 1) + 1 /\ i - 1 <= Len(text)
      /\ (i - 1) + 1 - i = 0
  BY DEF Written
<1>2. SubSeq(text, i, i - 1) \in Seq(Characters) /\ Len(SubSeq(text, i, i - 1)) = 0
  BY <1>1, SubSeqFacts
<1> QED
  BY <1>2

(* What is passed over is a line end, or nothing.                           *)
LEMMA AfterNewlineFacts ==
  ASSUME NEW text \in Written, NEW i \in 1..(Len(text) + 1)
  PROVE  /\ AfterNewline(text, i) \in i..(Len(text) + 1)
         /\ SubSeq(text, i, AfterNewline(text, i) - 1) \in {<<>>, <<Newline>>}
         /\ \A k \in i..(AfterNewline(text, i) - 1) : text[k] # Tick
<1>0. i \in Nat /\ Len(text) \in Nat /\ Newline # Tick
  BY DEF Written, Newline, Tick
<1>1. CASE StartsWith(text, i, <<Newline>>)
  <2>1. i <= Len(text) /\ SubSeq(text, i, i) = <<Newline>> /\ text[i] = Newline
    BY <1>1, StartsWithOne
  <2>2. i + 1 \in i..(Len(text) + 1) /\ (i + 1) - 1 = i /\ \A k \in i..i : k = i
    BY <1>0, <2>1
  <2>3. AfterNewline(text, i) = i + 1
    BY <1>1 DEF AfterNewline
  <2> QED
    BY <1>0, <2>1, <2>2, <2>3
<1>2. CASE ~StartsWith(text, i, <<Newline>>)
  <2>1. AfterNewline(text, i) = i /\ i \in i..(Len(text) + 1) /\ i..(i - 1) = {}
    BY <1>0, <1>2 DEF AfterNewline
  <2> QED
    BY <2>1, EmptyPart
<1> QED
  BY <1>1, <1>2

LEMMA StripFacts ==
  ASSUME NEW text \in Written, NEW i \in 1..(Len(text) + 1)
  PROVE  /\ StripLeadingNewline(text, i) \in i..(Len(text) + 1)
         /\ SubSeq(text, i, StripLeadingNewline(text, i) - 1) \in {<<>>, <<Newline>>, <<Return, Newline>>}
         /\ \A k \in i..(StripLeadingNewline(text, i) - 1) : text[k] # Tick
<1>0. i \in Nat /\ Len(text) \in Nat /\ Newline # Tick /\ Return # Tick
  BY DEF Written, Newline, Return, Tick
<1>1. CASE StartsWith(text, i, <<Return, Newline>>)
  <2>1. i + 1 <= Len(text) /\ SubSeq(text, i, i + 1) = <<Return, Newline>> /\ text[i] = Return /\ text[i + 1] = Newline
    BY <1>1, StartsWithTwo
  <2>2. i + 2 \in i..(Len(text) + 1) /\ (i + 2) - 1 = i + 1 /\ \A k \in i..(i + 1) : k = i \/ k = i + 1
    BY <1>0, <2>1
  <2>3. StripLeadingNewline(text, i) = i + 2
    BY <1>1 DEF StripLeadingNewline
  <2> QED
    BY <1>0, <2>1, <2>2, <2>3
<1>2. CASE ~StartsWith(text, i, <<Return, Newline>>)
  <2>1. StripLeadingNewline(text, i) = AfterNewline(text, i)
    BY <1>2 DEF StripLeadingNewline
  <2> QED
    BY <2>1, AfterNewlineFacts
<1> QED
  BY <1>1, <1>2

(* A run of characters of S has only such characters in it.                 *)
LEMMA RunEndFacts ==
  ASSUME NEW text \in Written, NEW i \in 1..(Len(text) + 1), NEW S
  PROVE  /\ RunEnd(text, i, S) \in i..(Len(text) + 1)
         /\ \A k \in i..(RunEnd(text, i, S) - 1) : text[k] \in S
<1> DEFINE n == Len(text)
           R == {j \in i..(n + 1) : j <= n => text[j] \notin S}
           e == Min(R)
<1>1. n \in Nat /\ i \in Nat /\ i <= n + 1
  BY DEF Written
<1>2. n + 1 \in R /\ R \subseteq Nat
  BY <1>1
<1>3. e \in R /\ \A x \in R : e <= x
  BY <1>2, MinFact
<1>4. e \in i..(n + 1)
  BY <1>3
<1>5. RunEnd(text, i, S) = e
  BY DEF RunEnd
<1> HIDE DEF e
<1>6. ASSUME NEW k \in i..(e - 1) PROVE text[k] \in S
  <2>1. k \in i..(n + 1) /\ k <= n /\ ~(e <= k)
    BY <1>1, <1>4
  <2>2. k \notin R
    BY <1>3, <2>1
  <2> QED
    BY <2>1, <2>2
<1> QED
  BY <1>4, <1>5, <1>6

(* Behind an opening fence, a language and a newline are passed over.       *)
LEMMA BodyStartFacts ==
  ASSUME NEW text \in Written, NEW i \in 1..Len(text), i + 2 <= Len(text)
  PROVE  /\ BodyStart(text, i) \in (i + 3)..(Len(text) + 1)
         /\ \E language \in Parts(text), newline \in {<<>>, <<Newline>>} :
              IsLanguage(language) /\ SubSeq(text, i + 3, BodyStart(text, i) - 1) = language \o newline
<1> DEFINE n == Len(text)
           a == i + 3
           b == RunEnd(text, a, {Space})
           e == RunEnd(text, b, Language)
           l == IF e = b THEN a ELSE e
           j == AfterNewline(text, l)
           language == SubSeq(text, a, l - 1)
           newline == SubSeq(text, l, j - 1)
<1>1. n \in Nat /\ a \in 1..(n + 1) /\ a \in Nat /\ text \in Seq(Characters)
  BY DEF Written
<1>2. BodyStart(text, i) = j
  BY DEF BodyStart
<1>3. b \in a..(n + 1) /\ \A k \in a..(b - 1) : text[k] \in {Space}
  <2> HIDE DEF a, n
  <2> QED
    BY <1>1, RunEndFacts DEF n
<1> HIDE DEF b
<1>4. b \in 1..(n + 1) /\ b \in Nat /\ a <= b
  <2> HIDE DEF a, n
  <2> QED
    BY <1>1, <1>3
<1>5. e \in b..(n + 1) /\ \A k \in b..(e - 1) : text[k] \in Language
  <2> HIDE DEF n
  <2> QED
    BY <1>4, RunEndFacts DEF n
<1> HIDE DEF e
<1>6. l \in a..(n + 1) /\ l \in 1..(n + 1) /\ l \in Nat
  <2> HIDE DEF a, n
  <2> QED
    BY <1>1, <1>4, <1>5
<1>7. IsLanguage(language)
  <2>1. CASE l = a
    <3>1. language = <<>>
      <4> HIDE DEF a, l
      <4> QED
        BY <1>1, <2>1, EmptyPart DEF n
    <3> QED
      BY <3>1 DEF IsLanguage
  <2>2. CASE l # a
    <3>1. l = e /\ e # b /\ e \in Nat /\ b < e /\ e <= n + 1
      <4> HIDE DEF a, n
      <4> QED
        BY <1>1, <1>4, <1>5, <2>2 DEF l
    <3> HIDE DEF a, n, l
    <3>2. /\ language \in Seq(Characters) /\ Len(language) = (l - 1) + 1 - a
          /\ \A k \in 1..((l - 1) + 1 - a) : language[k] = text[a + k - 1]
      <4>1. l - 1 \in Nat /\ 1 <= a /\ a <= (l - 1) + 1 /\ l - 1 <= n
        BY <1>1, <1>6
      <4> HIDE DEF language
      <4> QED
        BY <1>1, <4>1, SubSeqFacts DEF language, n
    <3> HIDE DEF language
    <3> DEFINE blanks == b - a
    <3>3. Len(language) = l - a /\ DOMAIN language = 1..(l - a) /\ \A k \in 1..(l - a) : language[k] = text[a + k - 1]
      <4>1. (l - 1) + 1 - a = l - a
        BY <1>1, <1>6
      <4>2. DOMAIN language = 1..Len(language)
        BY <3>2
      <4> QED
        BY <3>2, <4>1, <4>2
    <3>4. blanks \in 0..Len(language) - 1
      BY <1>1, <1>4, <3>1, <3>3
    <3>5. ASSUME NEW k \in DOMAIN language
          PROVE  IF k <= blanks THEN language[k] = Space ELSE language[k] \in Language
      <4>1. k \in 1..(l - a) /\ language[k] = text[a + k - 1]
        BY <3>3
      <4>2. CASE k <= blanks
        <5>1. a + k - 1 \in a..(b - 1)
          BY <1>1, <1>4, <4>1, <4>2
        <5> QED
          BY <1>3, <4>1, <4>2, <5>1
      <4>3. CASE ~(k <= blanks)
        <5>1. a + k - 1 \in b..(e - 1)
          BY <1>1, <1>4, <3>1, <4>1, <4>3
        <5> QED
          BY <1>5, <4>1, <4>3, <5>1
      <4> QED
        BY <4>2, <4>3
    <3> HIDE DEF blanks
    <3> QED
      BY <3>4, <3>5 DEF IsLanguage
  <2> QED
    BY <2>1, <2>2
<1> HIDE DEF l
<1>8. j \in l..(n + 1) /\ newline \in {<<>>, <<Newline>>}
  <2> HIDE DEF n
  <2> QED
    BY <1>6, AfterNewlineFacts DEF n
<1> HIDE DEF j
<1>9. /\ language \in Parts(text)
      /\ language \o newline = SubSeq(text, a, j - 1)
  <2>1. /\ a \in 1..Len(text) + 1 /\ l - 1 \in 0..Len(text) /\ l - 1 \in Nat /\ j - 1 \in Nat /\ 1 <= a /\ a <= (l - 1) + 1
        /\ l - 1 <= j - 1 /\ j - 1 <= Len(text) /\ (l - 1) + 1 = l
    <3> HIDE DEF a
    <3> QED
      BY <1>1, <1>6, <1>8
  <2> DEFINE x == l - 1
             y == j - 1
  <2>2. language \in Parts(text)
    <3> HIDE DEF a
    <3> QED
      BY <2>1 DEF Parts
  <2>3. SubSeq(text, a, x) \o SubSeq(text, x + 1, y) = SubSeq(text, a, y)
    <3> HIDE DEF a, n, x, y
    <3> QED
      BY <1>1, <2>1, SubSeqJoin DEF x, y
  <2> QED
    BY <2>1, <2>2, <2>3
<1>10. j \in a..(n + 1)
  <2> HIDE DEF a, n
  <2> QED
    BY <1>1, <1>6, <1>8
<1> HIDE DEF language, newline
<1> QED
  BY <1>2, <1>7, <1>8, <1>9, <1>10

LEMMA ClosingFenceFacts ==
  ASSUME NEW text \in Written, NEW i \in Nat \ {0}
  PROVE  LET e == ClosingFence(text, i)
         IN e # 0 => e \in i..Len(text) /\ StartsWith(text, e, FENCE)
<1> DEFINE S == {k \in i..Len(text) : StartsWith(text, k, FENCE)}
<1>1. S \subseteq Nat \ {0}
  BY DEF Written
<1>2. ClosingFence(text, i) = First(S)
  BY DEF ClosingFence
<1>3. \A k \in S : k \in i..Len(text) /\ StartsWith(text, k, FENCE)
  OBVIOUS
<1> HIDE DEF S
<1>4. First(S) = 0 \/ First(S) \in S
  BY <1>1, FirstFacts
<1> QED
  BY <1>2, <1>3, <1>4

(* What a gap is made of. *)
LEMMA GapIs ==
  ASSUME NEW text, NEW language \in Parts(text), IsLanguage(language), NEW newline \in {<<>>, <<Newline>>},
         NEW end \in {<<>>, <<Newline>>, <<Return, Newline>>}
  PROVE  language \o newline \o end \in Gaps(text)
<1> DEFINE L == {s \in Parts(text) : IsLanguage(s)}
           N == {<<>>, <<Newline>>}
           E == {<<>>, <<Newline>>, <<Return, Newline>>}
<1>1. language \in L /\ newline \in N /\ end \in E
  OBVIOUS
<1>2. Gaps(text) = {l \o n \o e : l \in L, n \in N, e \in E}
  BY DEF Gaps
<1> HIDE DEF L, N, E
<1> QED
  BY <1>1, <1>2

LEMMA GapParts ==
  ASSUME NEW text, NEW gap \in Gaps(text)
  PROVE  \E language \in Parts(text), newline \in {<<>>, <<Newline>>}, end \in {<<>>, <<Newline>>, <<Return, Newline>>} :
           gap = language \o newline \o end
<1> DEFINE L == {s \in Parts(text) : IsLanguage(s)}
           N == {<<>>, <<Newline>>}
           E == {<<>>, <<Newline>>, <<Return, Newline>>}
<1>1. L \subseteq Parts(text)
  OBVIOUS
<1>2. Gaps(text) = {l \o n \o e : l \in L, n \in N, e \in E}
  BY DEF Gaps
<1> HIDE DEF L
<1>3. \E l \in L, n \in N, e \in E : gap = l \o n \o e
  <2> HIDE DEF N, E
  <2> QED
    BY <1>2
<1> QED
  BY <1>1, <1>3

(* A block has a fence on either side, and a gap behind the opening one.    *)
LEMMA FindBlockFacts ==
  ASSUME NEW text \in Written, NEW c \in 1..(Len(text) + 1), Find(text, CODE_BLOCK, c).start # 0
  PROVE  LET m == Find(text, CODE_BLOCK, c)
         IN /\ Within(text, c, m) /\ m.start + 2 <= Len(text) /\ m.end = m.content_end + 3
            /\ SubSeq(text, m.start, m.start + 2) = FENCE
            /\ SubSeq(text, m.content_end, m.content_end + 2) = FENCE
            /\ m.start + 3 <= m.content_start
            /\ SubSeq(text, m.start + 3, m.content_start - 1) \in Gaps(text)
<1> DEFINE m == Find(text, CODE_BLOCK, c)
           n == Len(text)
           S == {k \in c..n : StartsWith(text, k, FENCE) /\ ClosingFence(text, BodyStart(text, k)) # 0}
           start == First(S)
           body == BodyStart(text, start)
           end == ClosingFence(text, body)
           inner == StripLeadingNewline(text, body)
<1>1. n \in Nat /\ c \in Nat /\ 1 <= c /\ text \in Seq(Characters)
  BY DEF Written
<1>2. m = IF start = 0 THEN NoMatch ELSE Match(start, inner, end, end + 3)
  BY DEF Find, FindBlock
<1>3. start # 0
  <2> HIDE DEF start, inner, end
  <2> QED
    BY <1>2 DEF NoMatch, Match
<1>4. m.start = start /\ m.content_start = inner /\ m.content_end = end /\ m.end = end + 3
  <2> HIDE DEF start, inner, end
  <2> QED
    BY <1>2, <1>3 DEF Match
<1>5. start \in S
  <2>1. S \subseteq Nat \ {0}
    BY <1>1
  <2> HIDE DEF S
  <2> QED
    BY <1>3, <2>1, FirstFacts
<1>6. start \in c..n /\ StartsWith(text, start, FENCE) /\ end # 0
  BY <1>5
<1> HIDE DEF start, S, m
<1>7. start \in 1..Len(text) /\ start \in Nat
  BY <1>1, <1>6
<1>8. start + 2 <= n /\ SubSeq(text, start, start + 2) = FENCE
  BY <1>6, <1>7, StartsWithFence
<1>9. /\ body \in (start + 3)..(n + 1)
      /\ \E language \in Parts(text), newline \in {<<>>, <<Newline>>} :
           IsLanguage(language) /\ SubSeq(text, start + 3, body - 1) = language \o newline
  BY <1>7, <1>8, BodyStartFacts
<1> HIDE DEF body
<1>10. body \in Nat \ {0} /\ body \in 1..(Len(text) + 1)
  BY <1>1, <1>7, <1>9
<1>11. end \in body..n /\ StartsWith(text, end, FENCE)
  BY <1>6, <1>10, ClosingFenceFacts
<1> HIDE DEF end
<1>12. end \in 1..Len(text) /\ end \in Nat
  BY <1>1, <1>10, <1>11
<1>13. end + 2 <= n /\ SubSeq(text, end, end + 2) = FENCE /\ text[end] = Tick
  BY <1>11, <1>12, StartsWithFence
<1>14. /\ inner \in body..(n + 1) /\ \A k \in body..(inner - 1) : text[k] # Tick
       /\ SubSeq(text, body, inner - 1) \in {<<>>, <<Newline>>, <<Return, Newline>>}
  BY <1>10, StripFacts
<1> HIDE DEF inner
<1>15. inner \in Nat /\ inner <= end /\ start + 3 <= inner
  <2>1. end \notin body..(inner - 1)
    BY <1>13, <1>14
  <2> QED
    BY <1>7, <1>9, <1>10, <1>11, <1>12, <1>14, <2>1
<1>16. SubSeq(text, start + 3, inner - 1) \in Gaps(text)
  <2> DEFINE a == start + 3
             x == body - 1
             y == inner - 1
  <2>1. a \in Nat /\ x \in Nat /\ y \in Nat /\ 1 <= a /\ a <= x + 1 /\ x <= y /\ y <= Len(text) /\ x + 1 = body
    BY <1>1, <1>7, <1>9, <1>10, <1>14
  <2>2. SubSeq(text, a, x) \o SubSeq(text, x + 1, y) = SubSeq(text, a, y)
    <3> HIDE DEF a, x, y, n
    <3> QED
      BY <1>1, <2>1, SubSeqJoin
  <2>3. PICK language \in Parts(text), newline \in {<<>>, <<Newline>>} :
          IsLanguage(language) /\ SubSeq(text, a, x) = language \o newline
    BY <1>9
  <2>4. SubSeq(text, a, y) = language \o newline \o SubSeq(text, body, inner - 1)
    BY <2>1, <2>2, <2>3
  <2>5. language \o newline \o SubSeq(text, body, inner - 1) \in Gaps(text)
    BY <1>14, <2>3, GapIs
  <2> QED
    BY <2>4, <2>5
<1>17. Within(text, c, m)
  <2>1. /\ start \in Nat /\ inner \in Nat /\ end \in Nat /\ end + 3 \in Nat /\ c <= start /\ start < inner
        /\ inner <= end /\ end < end + 3 /\ end + 3 <= n + 1
    BY <1>1, <1>6, <1>7, <1>12, <1>13, <1>15
  <2> QED
    BY <1>4, <2>1 DEF Within
<1> QED
  BY <1>4, <1>8, <1>13, <1>15, <1>16, <1>17 DEF m

(* A search for a block never goes back.                                    *)
LEMMA BlockForward ==
  ASSUME NEW text \in Written
  PROVE  Forward(text, CODE_BLOCK)
  BY FindBlockFacts DEF Forward

-----------------------------------------------------------------------------
(* What a block may lose is written in the text, but for its line ends.     *)
LEMMA GapsType ==
  ASSUME NEW text \in Written
  PROVE  Gaps(text) \subseteq Written
<1>0. text \in Seq(Characters) /\ Len(text) \in Nat
  BY DEF Written
<1>1. <<>> \in Seq(Characters) /\ <<Newline>> \in Seq(Characters) /\ <<Return, Newline>> \in Seq(Characters)
  <2>1. Newline \in Characters /\ Return \in Characters
    BY DEF Characters
  <2> QED
    BY <2>1, TupleFacts
<1>2. Parts(text) \subseteq Seq(Characters)
  <2> SUFFICES ASSUME NEW s \in Parts(text) PROVE s \in Seq(Characters)
    OBVIOUS
  <2>1. PICK i \in 1..Len(text) + 1, j \in 0..Len(text) : s = SubSeq(text, i, j)
    BY DEF Parts
  <2>2. CASE i <= j + 1
    BY <1>0, <2>1, <2>2, SubSeqFacts
  <2>3. CASE i > j + 1
    <3>1. i..j = 1..0
      BY <2>3
    <3> QED
      BY <1>0, <2>1, <2>3, <3>1
  <2> QED
    BY <2>2, <2>3
<1> SUFFICES ASSUME NEW gap \in Gaps(text) PROVE gap \in Seq(Characters)
  BY DEF Written
<1>3. PICK language \in Parts(text), newline \in {<<>>, <<Newline>>}, end \in {<<>>, <<Newline>>, <<Return, Newline>>} :
        gap = language \o newline \o end
  BY GapParts
<1>4. language \in Seq(Characters) /\ newline \in Seq(Characters) /\ end \in Seq(Characters)
  BY <1>1, <1>2
<1>5. language \o newline \in Seq(Characters)
  BY <1>4, ConcatFacts
<1> QED
  BY <1>3, <1>4, <1>5, ConcatFacts

(* A block shows its part of the text, up to what it passes over.           *)
LEMMA BlocksShow ==
  ASSUME NEW text \in Written
  PROVE  MatchesShow(Gaps(text), text, CODE_BLOCK)
<1> SUFFICES ASSUME NEW c \in 1..(Len(text) + 1), Find(text, CODE_BLOCK, c).start # 0
             PROVE  LET m == Find(text, CODE_BLOCK, c)
                    IN Reads(Gaps(text), Wrap("pre", SubSeq(text, m.content_start, m.content_end - 1)),
                                         SubSeq(text, m.start, m.end - 1))
  BY FenceFacts DEF MatchesShow
<1> DEFINE m == Find(text, CODE_BLOCK, c)
           i == m.start
           j == m.content_start
           k == m.content_end
           n == Len(text)
           q == SubSeq(text, i + 3, j - 1)
           w == SubSeq(text, j, k - 1)
<1>1. /\ Within(text, c, m) /\ i + 2 <= n /\ m.end = k + 3
      /\ SubSeq(text, i, i + 2) = FENCE /\ SubSeq(text, k, k + 2) = FENCE
      /\ i + 3 <= j /\ q \in Gaps(text)
  BY FindBlockFacts
<1>2. text \in Seq(Characters) /\ n \in Nat /\ c \in Nat /\ 1 <= c
  BY DEF Written
<1>3. i \in Nat /\ j \in Nat /\ k \in Nat /\ c <= i /\ j <= k /\ k + 3 <= n + 1
  BY <1>1 DEF Within
<1>4. w \in Written
  BY <1>1, PartsOfText
<1> HIDE DEF m, i, j, k, n
<1>5. /\ 1 <= i /\ i + 2 \in Nat /\ j - 1 \in Nat /\ k - 1 \in Nat /\ k + 2 \in Nat
      /\ i + 2 <= j - 1 /\ j - 1 <= k - 1 /\ k - 1 <= k + 2 /\ k + 2 <= n /\ k - 1 <= n /\ j - 1 <= n
      /\ (i + 2) + 1 = i + 3 /\ (j - 1) + 1 = j /\ (k - 1) + 1 = k /\ (k + 3) - 1 = k + 2
      /\ i <= (i + 2) + 1 /\ i <= (j - 1) + 1 /\ i <= (k - 1) + 1
  BY <1>1, <1>2, <1>3
<1>6. FENCE \o q = SubSeq(text, i, j - 1)
  <2> DEFINE a == i + 2
             b == j - 1
  <2>1. SubSeq(text, i, a) \o SubSeq(text, a + 1, b) = SubSeq(text, i, b)
    <3>1. i \in Nat /\ a \in Nat /\ b \in Nat /\ 1 <= i /\ i <= a + 1 /\ a <= b /\ b <= Len(text)
      BY <1>3, <1>5 DEF n
    <3> HIDE DEF a, b
    <3> QED
      BY <1>2, <3>1, SubSeqJoin
  <2> QED
    BY <1>1, <1>5, <2>1
<1>7. SubSeq(text, i, j - 1) \o w = SubSeq(text, i, k - 1)
  <2> DEFINE a == j - 1
             b == k - 1
  <2>1. SubSeq(text, i, a) \o SubSeq(text, a + 1, b) = SubSeq(text, i, b)
    <3>1. i \in Nat /\ a \in Nat /\ b \in Nat /\ 1 <= i /\ i <= a + 1 /\ a <= b /\ b <= Len(text)
      BY <1>3, <1>5 DEF n
    <3> HIDE DEF a, b
    <3> QED
      BY <1>2, <3>1, SubSeqJoin
  <2> QED
    BY <1>5, <2>1
<1>8. SubSeq(text, i, k - 1) \o FENCE = SubSeq(text, i, m.end - 1)
  <2> DEFINE a == k - 1
             b == k + 2
  <2>1. SubSeq(text, i, a) \o SubSeq(text, a + 1, b) = SubSeq(text, i, b)
    <3>1. i \in Nat /\ a \in Nat /\ b \in Nat /\ 1 <= i /\ i <= a + 1 /\ a <= b /\ b <= Len(text)
      BY <1>3, <1>5 DEF n
    <3> HIDE DEF a, b
    <3> QED
      BY <1>2, <3>1, SubSeqJoin
  <2> QED
    BY <1>1, <1>5, <2>1
<1> HIDE DEF q, w
<1>9. Reads(Gaps(text), Wrap("pre", w), FENCE \o q \o w \o FENCE)
  BY <1>1, <1>4, GapsType, BlockReads, FenceFacts
<1> QED
  BY <1>6, <1>7, <1>8, <1>9 DEF w, i, j, k, m

(* The HTML of any text shows what was written.                             *)
LEMMA FormatShows ==
  ASSUME NEW text \in Written
  PROVE  ShowsWhatWasWritten(text, FormatForTelegram(text))
<1> DEFINE G == Gaps(text)
           next == ApplyRules[5]
           html == FormatForTelegram(text)
<1>1. G \subseteq Written
  BY GapsType
<1> HIDE DEF G
<1>2. next \in [Written -> Html] /\ \A t \in Written : Reads(G, next[t], t)
  <2>1. 5 \in 0..5
    OBVIOUS
  <2> QED
    BY <1>1, <2>1, LevelFacts, LevelsShow, Zenon
<1>3. html = Formatted(text, CODE_BLOCK, next)
  BY RuleFacts DEF FormatForTelegram
<1>4. CODE_BLOCK.tag \in Tags /\ Forward(text, CODE_BLOCK) /\ MatchesShow(G, text, CODE_BLOCK)
  BY FenceFacts, BlockForward, BlocksShow DEF Tags, G
<1> HIDE DEF next, html
<1>5. Reads(G, html, text)
  BY <1>1, <1>2, <1>3, <1>4, LoopShows
<1> QED
  BY <1>5 DEF Reads, ShowsWhatWasWritten, G, html

-----------------------------------------------------------------------------
(* The markup of an HTML.                                                   *)

TagTokens == Opening \cup Closing

Stretch(html, x, y) ==
  /\ x \in 1..Len(html) /\ y \in 1..Len(html) /\ x <= y
  /\ \A i \in x..y : html[i] \notin TagTokens
  /\ x > 1 => html[x - 1] \in TagTokens
  /\ y < Len(html) => html[y + 1] \in TagTokens

(* No rule matches anywhere in a text. *)
Clear(text) == \A rule \in ToSet(INLINE_RULES), i \in DOMAIN text : ~Matches(text, rule, i)

Rendered(html) ==
  \A x, y \in 1..Len(html) :
    Stretch(html, x, y) /\ (x = 1 \/ html[x - 1] \in Closing) => Clear(Source(SubSeq(html, x, y)))

(* What may be in italics, and next to them.                                *)
Free(tag, token) == tag = "i" => token # "_"

(* A tag that is opened at i is closed at j.                                *)
Around(html, tag, i, j) ==
  /\ html[j] = Close(tag)
  /\ \A k \in (i + 1)..(j - 1) : html[k] \notin TagTokens /\ html[k] # Newline /\ Free(tag, html[k])
  /\ i > 1 => Free(tag, html[i - 1])
  /\ j < Len(html) => Free(tag, html[j + 1])

Paired(html) ==
  \A i \in 1..Len(html), tag \in Tags :
    html[i] = Open(tag) /\ tag # "pre" => \E j \in (i + 2)..Len(html) : Around(html, tag, i, j)

WellFormed(html) == html \in Html /\ Headed(html) /\ Rendered(html) /\ Paired(html)

LEMMA TagTokenFacts ==
  /\ Opening \cap Closing = {} /\ "_" \notin TagTokens /\ Newline \notin TagTokens /\ Escaped \cap TagTokens = {}
  /\ \A s, t \in Tags : (Open(s) = Open(t) => s = t) /\ (Close(s) = Close(t) => s = t) /\ Open(s) # Close(t)
<1>1. Opening \cap Closing = {} /\ "_" \notin TagTokens /\ Newline \notin TagTokens
  BY TokenFacts DEF TagTokens, Newline
<1>2. Escaped \cap TagTokens = {}
  BY TokenFacts DEF TagTokens, Escaped, Entities
<1>3. \A s, t \in Tags : (Open(s) = Open(t) => s = t) /\ (Close(s) = Close(t) => s = t)
  <2> TAKE s, t \in Tags
  <2>1. TagOf(Open(s)) = s /\ TagOf(Open(t)) = t /\ TagOf(Close(s)) = s /\ TagOf(Close(t)) = t
    BY TagOfFacts
  <2> QED
    BY <2>1
<1>4. \A s, t \in Tags : Open(s) # Close(t)
  BY <1>1, TokenFacts
<1> QED
  BY <1>1, <1>2, <1>3, <1>4

LEMMA HtmlFacts ==
  ASSUME NEW html \in Html
  PROVE  /\ Len(html) \in Nat /\ DOMAIN html = 1..Len(html) /\ (html = <<>> <=> Len(html) = 0)
         /\ \A i \in 1..Len(html) : html[i] \in Tokens
  BY DEF Html

(* A well-formed HTML has what the properties ask for.                      *)
LEMMA WellFormedMeans ==
  ASSUME NEW html, WellFormed(html)
  PROVE  NothingLeftUnrendered(html) /\ TagsStayInTheirLine(html)
<1>0. html \in Html
  BY DEF WellFormed
<1>1. Len(html) \in Nat /\ DOMAIN html = 1..Len(html)
  BY <1>0, HtmlFacts
<1>2. ASSUME NEW s \in Stretches(html), s[1] = 1 \/ html[s[1] - 1] \in Closing
      PROVE  Clear(Source(SubSeq(html, s[1], s[2])))
  <2> DEFINE x == s[1]
             y == s[2]
  <2>1. /\ x \in 1..Len(html) /\ y \in 1..Len(html) /\ x <= y
        /\ \A i \in x..y : html[i] \notin Opening \cup Closing
        /\ x > 1 => html[x - 1] \in Opening \cup Closing
        /\ y < Len(html) => html[y + 1] \in Opening \cup Closing
    BY <1>1 DEF Stretches
  <2> HIDE DEF x, y
  <2>2. Stretch(html, x, y)
    BY <2>1 DEF Stretch, TagTokens
  <2> QED
    BY <1>2, <2>1, <2>2 DEF WellFormed, Rendered, x, y
<1>3. NothingLeftUnrendered(html)
  BY <1>2 DEF NothingLeftUnrendered, Clear
<1>4. ASSUME NEW i \in DOMAIN html, html[i] \in Opening, TagOf(html[i]) # "pre"
      PROVE  LET j == Min({k \in i..Len(html) : html[k] \in Closing})
                 content == SubSeq(html, i + 1, j - 1)
             IN /\ content # <<>> /\ Newline \notin ToSet(content)
                /\ TagOf(html[j]) = TagOf(html[i])
                /\ TagOf(html[i]) = "i" =>
                     /\ "_" \notin ToSet(content)
                     /\ i > 1 => html[i - 1] # "_"
                     /\ j < Len(html) => html[j + 1] # "_"
  <2> DEFINE S == {k \in i..Len(html) : html[k] \in Closing}
             j == Min(S)
             content == SubSeq(html, i + 1, j - 1)
  <2>1. PICK tag \in Tags : html[i] = Open(tag)
    BY <1>4 DEF Opening
  <2>2. TagOf(html[i]) = tag /\ tag # "pre"
    BY <1>4, <2>1, TagOfFacts
  <2>3. PICK l \in (i + 2)..Len(html) : Around(html, tag, i, l)
    BY <1>1, <2>1, <2>2 DEF WellFormed, Paired
  <2>4. i \in Nat /\ 1 <= i /\ i <= Len(html) /\ l \in Nat
    BY <1>1
  <2>5. l \in S
    <3>1. l \in i..Len(html)
      BY <1>1, <2>3, <2>4
    <3>2. html[l] \in Closing
      BY <2>3, TokenFacts DEF Around
    <3> QED
      BY <3>1, <3>2
  <2>6. j \in S /\ \A k \in S : j <= k
    <3>1. S \subseteq Nat
      BY <1>1, <2>4
    <3> HIDE DEF S
    <3> QED
      BY <2>5, <3>1, MinFact
  <2>7. j = l
    <3>1. j \in i..Len(html) /\ html[j] \in Closing /\ j <= l
      BY <2>5, <2>6
    <3> HIDE DEF j
    <3>2. j # i
      BY <1>4, <3>1, TagTokenFacts
    <3>3. j \notin (i + 1)..(l - 1)
      BY <2>3, <3>1 DEF Around, TagTokens
    <3> QED
      BY <1>1, <2>3, <2>4, <3>1, <3>2, <3>3
  <2> HIDE DEF S, j
  <2>8. /\ content \in Html /\ Len(content) = (l - 1) + 1 - (i + 1)
        /\ \A k \in 1..((l - 1) + 1 - (i + 1)) : content[k] = html[(i + 1) + k - 1]
    <3> DEFINE a == i + 1
               b == l - 1
    <3>1. a \in Nat /\ b \in Nat /\ 1 <= a /\ a <= b + 1 /\ b <= Len(html)
      BY <1>1, <2>3, <2>4
    <3> HIDE DEF a, b
    <3>2. /\ SubSeq(html, a, b) \in Html /\ Len(SubSeq(html, a, b)) = b + 1 - a
          /\ \A k \in 1..(b + 1 - a) : SubSeq(html, a, b)[k] = html[a + k - 1]
      BY <1>0, <3>1, SubSeqFacts DEF Html
    <3> QED
      BY <2>7, <3>2 DEF a, b
  <2> HIDE DEF content
  <2>9. content # <<>>
    <3>1. Len(content) > 0
      BY <2>3, <2>4, <2>8
    <3> QED
      BY <2>8, <3>1, HtmlFacts
  <2>10. \A e \in ToSet(content) : \E k \in (i + 1)..(l - 1) : e = html[k]
    <3>1. \A k \in DOMAIN content : (i + 1) + k - 1 \in (i + 1)..(l - 1) /\ content[k] = html[(i + 1) + k - 1]
      <4>1. DOMAIN content = 1..Len(content)
        BY <2>8, HtmlFacts
      <4>2. \A k \in 1..((l - 1) + 1 - (i + 1)) : (i + 1) + k - 1 \in (i + 1)..(l - 1)
        BY <2>4
      <4> QED
        BY <2>8, <4>1, <4>2
    <3> QED
      BY <3>1 DEF ToSet
  <2>11. Newline \notin ToSet(content)
    BY <2>3, <2>10 DEF Around
  <2>12. TagOf(html[j]) = tag
    BY <2>3, <2>7, TagOfFacts DEF Around
  <2>13. tag = "i" => /\ "_" \notin ToSet(content)
                      /\ i > 1 => html[i - 1] # "_"
                      /\ j < Len(html) => html[j + 1] # "_"
    BY <2>3, <2>7, <2>10 DEF Around, Free
  <2> QED
    BY <2>2, <2>9, <2>11, <2>12, <2>13 DEF j, S, content
<1>5. TagsStayInTheirLine(html)
  BY <1>4 DEF TagsStayInTheirLine
<1> QED
  BY <1>3, <1>5

-----------------------------------------------------------------------------
LEMMA EqualSeqs ==
  ASSUME NEW S, NEW s \in Seq(S), NEW t \in Seq(S), Len(s) = Len(t), \A i \in 1..Len(s) : s[i] = t[i]
  PROVE  s = t
  OBVIOUS

LEMMA SubSeqOfConcat ==
  ASSUME NEW a \in Html, NEW b \in Html, NEW x \in Nat, NEW y \in Nat, 1 <= x, x <= y
  PROVE  /\ y <= Len(a) => SubSeq(a \o b, x, y) = SubSeq(a, x, y)
         /\ x > Len(a) /\ y <= Len(a) + Len(b) => SubSeq(a \o b, x, y) = SubSeq(b, x - Len(a), y - Len(a))
<1> DEFINE c == a \o b
           m == Len(a)
           n == Len(b)
<1>1. /\ c \in Html /\ Len(c) = m + n /\ m \in Nat /\ n \in Nat
      /\ \A i \in 1..m : c[i] = a[i]
      /\ \A i \in 1..n : c[m + i] = b[i]
  BY ConcatFacts DEF Html
<1> HIDE DEF c, m, n
<1>2. ASSUME y <= m PROVE SubSeq(c, x, y) = SubSeq(a, x, y)
  <2> DEFINE s == SubSeq(c, x, y)
             t == SubSeq(a, x, y)
  <2>1. x <= y + 1 /\ y <= Len(c) /\ y <= Len(a)
    BY <1>1, <1>2 DEF m
  <2>2. s \in Html /\ Len(s) = y + 1 - x /\ \A k \in 1..(y + 1 - x) : s[k] = c[x + k - 1]
    BY <1>1, <2>1, SubSeqFacts DEF Html
  <2>3. t \in Html /\ Len(t) = y + 1 - x /\ \A k \in 1..(y + 1 - x) : t[k] = a[x + k - 1]
    BY <2>1, SubSeqFacts DEF Html
  <2> HIDE DEF s, t
  <2>4. \A k \in 1..(y + 1 - x) : x + k - 1 \in 1..m
    BY <1>1, <1>2
  <2>5. \A k \in 1..Len(s) : s[k] = t[k]
    BY <1>1, <2>2, <2>3, <2>4
  <2>6. s = t
    BY <2>2, <2>3, <2>5, EqualSeqs DEF Html
  <2> QED
    BY <2>6 DEF s, t
<1>3. ASSUME x > m, y <= m + n PROVE SubSeq(c, x, y) = SubSeq(b, x - m, y - m)
  <2> DEFINE u == x - m
             v == y - m
             s == SubSeq(c, x, y)
             t == SubSeq(b, u, v)
  <2>1. /\ x <= y + 1 /\ y <= Len(c) /\ u \in Nat /\ v \in Nat /\ 1 <= u /\ u <= v + 1 /\ v <= n
        /\ v + 1 - u = y + 1 - x
    BY <1>1, <1>3
  <2>2. s \in Html /\ Len(s) = y + 1 - x /\ \A k \in 1..(y + 1 - x) : s[k] = c[x + k - 1]
    BY <1>1, <2>1, SubSeqFacts DEF Html
  <2> HIDE DEF u, v
  <2>3. t \in Html /\ Len(t) = v + 1 - u /\ \A k \in 1..(v + 1 - u) : t[k] = b[u + k - 1]
    BY <2>1, SubSeqFacts DEF Html, n
  <2> HIDE DEF s, t
  <2>4. \A k \in 1..(y + 1 - x) : u + k - 1 \in 1..n /\ x + k - 1 = m + (u + k - 1)
    BY <1>1, <1>3, <2>1 DEF u
  <2>5. \A k \in 1..Len(s) : s[k] = t[k]
    BY <1>1, <2>1, <2>2, <2>3, <2>4
  <2>6. s = t
    BY <2>1, <2>2, <2>3, <2>5, EqualSeqs DEF Html
  <2> QED
    BY <2>6 DEF s, t, u, v
<1> QED
  BY <1>2, <1>3 DEF c, m, n

-----------------------------------------------------------------------------
(* Two HTMLs, one behind the other.                                         *)

(* c is a and, behind it, b, of the lengths m and n.                        *)
Glued(a, m, b, n, c) ==
  /\ Len(a) = m /\ Len(b) = n /\ Len(c) = m + n
  /\ \A i \in 1..m : c[i] = a[i]
  /\ \A i \in 1..n : c[m + i] = b[i]

(* Two HTMLs that may be put together: a tag closes the first or opens the  *)
(* second, and no underscore comes next to italics.                         *)
Touch(last, first) ==
  /\ last \in Closing \/ first \in Opening
  /\ last = Close("i") => first # "_"
  /\ first = Open("i") => last # "_"

Meet(a, b) == a # <<>> /\ b # <<>> => Touch(a[Len(a)], b[1])

LEMMA GluedFacts ==
  ASSUME NEW a \in Html, NEW b \in Html
  PROVE  Glued(a, Len(a), b, Len(b), a \o b)
  BY ConcatFacts DEF Html, Glued

(* A stretch of both that ends in the first is one of the first.            *)
LEMMA StretchLeft ==
  ASSUME NEW m \in Nat, NEW n \in Nat, NEW a, NEW b, NEW c, Glued(a, m, b, n, c),
         NEW x \in Nat, NEW y \in Nat, y <= m, Stretch(c, x, y)
  PROVE  Stretch(a, x, y) /\ (x = 1 \/ c[x - 1] = a[x - 1])
<1>1. 1 <= x /\ x <= y
  BY DEF Stretch, Glued
<1>2. x \in 1..m /\ y \in 1..m /\ (y < m => y + 1 \in 1..m /\ y < m + n)
  BY <1>1
<1>3. x > 1 => x - 1 \in 1..m
  BY <1>1
<1>4. \A i \in x..y : i \in 1..m
  BY <1>1
<1>5. y < m => c[y + 1] = a[y + 1]
  BY <1>2 DEF Glued
<1>6. x > 1 => c[x - 1] = a[x - 1]
  BY <1>3 DEF Glued
<1>7. \A i \in x..y : c[i] = a[i]
  BY <1>4 DEF Glued
<1>8. Len(a) = m /\ Len(c) = m + n
  BY DEF Glued
<1>9. y < m => a[y + 1] \in TagTokens
  BY <1>2, <1>5, <1>8 DEF Stretch
<1>10. x > 1 => a[x - 1] \in TagTokens
  BY <1>6 DEF Stretch
<1>11. \A i \in x..y : a[i] \notin TagTokens
  BY <1>7 DEF Stretch
<1>12. Stretch(a, x, y)
  BY <1>1, <1>2, <1>8, <1>9, <1>10, <1>11 DEF Stretch
<1>13. x = 1 \/ x > 1
  BY <1>1
<1> QED
  BY <1>6, <1>12, <1>13

(* A stretch of both that begins in the second is one of the second.        *)
LEMMA StretchRight ==
  ASSUME NEW m \in Nat, NEW n \in Nat, NEW a, NEW b, NEW c, Glued(a, m, b, n, c),
         NEW u \in Nat, NEW v \in Nat, 1 <= u, Stretch(c, m + u, m + v)
  PROVE  Stretch(b, u, v) /\ (u = 1 \/ c[m + u - 1] = b[u - 1])
<1>1. u <= v /\ m + v <= m + n
  BY DEF Stretch, Glued
<1>2. u \in 1..n /\ v \in 1..n
  BY <1>1
<1>3. u > 1 => u - 1 \in 1..n /\ m + (u - 1) = m + u - 1 /\ m + u > 1
  BY <1>1
<1>4. \A i \in u..v : i \in 1..n /\ m + i \in (m + u)..(m + v)
  BY <1>1
<1>5. v < n => v + 1 \in 1..n /\ m + (v + 1) = m + v + 1 /\ m + v < m + n
  BY <1>1
<1>6. u > 1 => c[m + u - 1] = b[u - 1]
  BY <1>3 DEF Glued
<1>7. \A i \in u..v : c[m + i] = b[i]
  BY <1>4 DEF Glued
<1>8. v < n => c[m + v + 1] = b[v + 1]
  BY <1>5 DEF Glued
<1>9. Len(b) = n /\ Len(c) = m + n
  BY DEF Glued
<1>10. u > 1 => b[u - 1] \in TagTokens
  BY <1>3, <1>6 DEF Stretch
<1>11. \A i \in u..v : b[i] \notin TagTokens
  BY <1>4, <1>7 DEF Stretch
<1>12. v < n => b[v + 1] \in TagTokens
  BY <1>5, <1>8, <1>9 DEF Stretch
<1>13. Stretch(b, u, v)
  BY <1>1, <1>2, <1>9, <1>10, <1>11, <1>12 DEF Stretch
<1>14. u = 1 \/ u > 1
  OBVIOUS
<1> QED
  BY <1>6, <1>13, <1>14

(* A stretch lies on one side of a tag.                                     *)
LEMMA StretchSides ==
  ASSUME NEW m \in Nat, NEW n \in Nat, NEW a, NEW b, NEW c, Glued(a, m, b, n, c),
         m > 0 /\ n > 0 => a[m] \in TagTokens \/ b[1] \in TagTokens,
         NEW x \in Nat, NEW y \in Nat, Stretch(c, x, y)
  PROVE  y <= m \/ \E u, v \in Nat : 1 <= u /\ x = m + u /\ y = m + v
<1>1. 1 <= x /\ x <= y /\ y <= m + n
  BY DEF Stretch, Glued
<1>2. ~(x <= m /\ m < y)
  <2> SUFFICES ASSUME x <= m, m < y PROVE FALSE
    OBVIOUS
  <2>1. m \in x..y /\ m + 1 \in x..y /\ m \in 1..m /\ 1 \in 1..n /\ m > 0 /\ n > 0
    BY <1>1
  <2>2. c[m] = a[m] /\ c[m + 1] = b[1]
    BY <2>1 DEF Glued
  <2>3. c[m] \in TagTokens \/ c[m + 1] \in TagTokens
    BY <2>1, <2>2
  <2> QED
    BY <2>1, <2>3 DEF Stretch
<1>3. ASSUME ~(y <= m) PROVE \E u, v \in Nat : 1 <= u /\ x = m + u /\ y = m + v
  <2>1. x - m \in Nat /\ y - m \in Nat /\ 1 <= x - m /\ x = m + (x - m) /\ y = m + (y - m)
    BY <1>1, <1>2, <1>3
  <2> QED
    BY <2>1
<1> QED
  BY <1>3

(* Put together at a tag, two rendered HTMLs are rendered.                  *)
LEMMA JoinRendered ==
  ASSUME NEW a \in Html, NEW b \in Html, Rendered(a), Rendered(b), Meet(a, b)
  PROVE  Rendered(a \o b)
<1> DEFINE c == a \o b
           m == Len(a)
           n == Len(b)
<1>1. m \in Nat /\ n \in Nat /\ Len(c) = m + n /\ Glued(a, m, b, n, c)
  <2>1. Glued(a, m, b, n, c)
    BY GluedFacts
  <2> QED
    BY <2>1, HtmlFacts DEF Glued
<1>2. m > 0 /\ n > 0 => a[m] \in TagTokens \/ b[1] \in TagTokens
  <2>1. m > 0 /\ n > 0 => a # <<>> /\ b # <<>>
    BY HtmlFacts
  <2> QED
    BY <2>1 DEF Meet, Touch, TagTokens
<1> SUFFICES ASSUME NEW x \in 1..Len(c), NEW y \in 1..Len(c), Stretch(c, x, y), x = 1 \/ c[x - 1] \in Closing
             PROVE  Clear(Source(SubSeq(c, x, y)))
  BY DEF Rendered
<1> HIDE DEF c, m, n
<1>4. x \in Nat /\ y \in Nat /\ 1 <= x /\ y <= m + n
  BY <1>1
<1>5. x <= y
  BY DEF Stretch
<1>6. CASE y <= m
  <2>1. Stretch(a, x, y) /\ (x = 1 \/ c[x - 1] = a[x - 1])
    BY <1>1, <1>4, <1>6, StretchLeft
  <2>2. x = 1 \/ a[x - 1] \in Closing
    BY <2>1
  <2>3. x \in 1..Len(a) /\ y \in 1..Len(a)
    BY <2>1 DEF Stretch
  <2>4. SubSeq(c, x, y) = SubSeq(a, x, y)
    <3>1. y <= Len(a)
      BY <1>1, <1>4, <1>6 DEF m
    <3> QED
      BY <1>4, <1>5, <3>1, SubSeqOfConcat DEF c
  <2> QED
    BY <2>1, <2>2, <2>3, <2>4 DEF Rendered
<1>7. CASE \E u, v \in Nat : 1 <= u /\ x = m + u /\ y = m + v
  <2>1. PICK u \in Nat, v \in Nat : 1 <= u /\ x = m + u /\ y = m + v
    BY <1>7
  <2>2. Stretch(b, u, v) /\ (u = 1 \/ c[m + u - 1] = b[u - 1])
    BY <1>1, <2>1, StretchRight
  <2>3. u \in 1..Len(b) /\ v \in 1..Len(b)
    BY <2>2 DEF Stretch
  <2>4. SubSeq(c, x, y) = SubSeq(b, u, v)
    <3>1. x > m /\ x - m = u /\ y - m = v /\ y <= m + n
      BY <1>1, <1>4, <2>1
    <3>2. x > Len(a) /\ y <= Len(a) + Len(b) => SubSeq(c, x, y) = SubSeq(b, x - Len(a), y - Len(a))
      BY <1>4, <1>5, SubSeqOfConcat DEF c
    <3> QED
      BY <3>1, <3>2 DEF m, n
  <2>5. u = 1 \/ b[u - 1] \in Closing
    <3> SUFFICES ASSUME u # 1 PROVE b[u - 1] \in Closing
      OBVIOUS
    <3>1. c[x - 1] = b[u - 1]
      <4>1. c[m + u - 1] = b[u - 1]
        BY <2>2
      <4>2. m + u - 1 = x - 1
        BY <1>1, <2>1
      <4> QED
        BY <4>1, <4>2
    <3>2. x # 1
      BY <1>1, <2>1
    <3> QED
      BY <3>1, <3>2
  <2> QED
    BY <2>2, <2>3, <2>4, <2>5 DEF Rendered
<1> QED
  BY <1>1, <1>2, <1>4, <1>6, <1>7, StretchSides

-----------------------------------------------------------------------------
(* A tag of the first is one of both.                                       *)
LEMMA AroundLeft ==
  ASSUME NEW m \in Nat, NEW n \in Nat, NEW a, NEW b, NEW c, Glued(a, m, b, n, c),
         NEW tag, NEW i \in 1..m, NEW j \in (i + 2)..m, Around(a, tag, i, j),
         j = m /\ n > 0 => Free(tag, b[1])
  PROVE  Around(c, tag, i, j)
<1>1. \A k \in (i + 1)..(j - 1) : k \in 1..m
  OBVIOUS
<1>2. j \in 1..m /\ (i > 1 => i - 1 \in 1..m) /\ (j < m => j + 1 \in 1..m)
  OBVIOUS
<1>3. j = m /\ j < m + n => n > 0 /\ 1 \in 1..n /\ j + 1 = m + 1
  OBVIOUS
<1>4. j < m \/ j = m
  OBVIOUS
<1>5. c[j] = a[j] /\ (i > 1 => c[i - 1] = a[i - 1]) /\ (j < m => c[j + 1] = a[j + 1])
  BY <1>2 DEF Glued
<1>6. j = m /\ j < m + n => c[j + 1] = b[1]
  BY <1>3 DEF Glued
<1>7. \A k \in (i + 1)..(j - 1) : c[k] = a[k]
  BY <1>1 DEF Glued
<1>8. Len(a) = m /\ Len(c) = m + n
  BY DEF Glued
<1>9. j < m => Free(tag, c[j + 1])
  BY <1>5, <1>8 DEF Around
<1>10. j = m /\ j < m + n => Free(tag, c[j + 1])
  BY <1>3, <1>6
<1>11. c[j] = Close(tag)
  BY <1>5 DEF Around
<1>12. \A k \in (i + 1)..(j - 1) : c[k] \notin TagTokens /\ c[k] # Newline /\ Free(tag, c[k])
  BY <1>7 DEF Around
<1>13. i > 1 => Free(tag, c[i - 1])
  BY <1>5 DEF Around
<1>14. j < Len(c) => Free(tag, c[j + 1])
  BY <1>4, <1>8, <1>9, <1>10
<1> QED
  BY <1>11, <1>12, <1>13, <1>14 DEF Around

(* A tag of the second is one of both.                                      *)
LEMMA AroundRight ==
  ASSUME NEW m \in Nat, NEW n \in Nat, NEW a, NEW b, NEW c, Glued(a, m, b, n, c),
         NEW tag, NEW u \in 1..n, NEW v \in (u + 2)..n, Around(b, tag, u, v),
         u = 1 /\ m > 0 => Free(tag, a[m])
  PROVE  Around(c, tag, m + u, m + v)
<1>1. \A k \in (m + u + 1)..(m + v - 1) : k - m \in (u + 1)..(v - 1) /\ k - m \in 1..n /\ m + (k - m) = k
  OBVIOUS
<1>2. /\ v \in 1..n /\ (u > 1 => u - 1 \in 1..n /\ m + (u - 1) = m + u - 1)
      /\ (m + v < m + n => v < n /\ v + 1 \in 1..n /\ m + (v + 1) = m + v + 1)
  OBVIOUS
<1>3. u = 1 /\ m + u > 1 => m > 0 /\ m \in 1..m /\ m + u - 1 = m
  OBVIOUS
<1>4. u = 1 \/ u > 1
  OBVIOUS
<1>5. c[m + v] = b[v] /\ (u > 1 => c[m + u - 1] = b[u - 1]) /\ (m + v < m + n => c[m + v + 1] = b[v + 1])
  BY <1>2 DEF Glued
<1>6. u = 1 /\ m + u > 1 => c[m + u - 1] = a[m]
  BY <1>3 DEF Glued
<1>7. \A k \in (m + u + 1)..(m + v - 1) : c[k] = b[k - m]
  BY <1>1 DEF Glued
<1>8. Len(b) = n /\ Len(c) = m + n
  BY DEF Glued
<1>9. m + v < Len(c) => Free(tag, c[m + v + 1])
  BY <1>2, <1>5, <1>8 DEF Around
<1>10. u = 1 /\ m + u > 1 => Free(tag, c[m + u - 1])
  BY <1>3, <1>6
<1>11. u > 1 => Free(tag, c[m + u - 1])
  BY <1>5 DEF Around
<1>12. c[m + v] = Close(tag)
  BY <1>5 DEF Around
<1>13. \A k \in (m + u + 1)..(m + v - 1) : c[k] \notin TagTokens /\ c[k] # Newline /\ Free(tag, c[k])
  BY <1>1, <1>7 DEF Around
<1>14. m + u > 1 => Free(tag, c[m + u - 1])
  BY <1>4, <1>10, <1>11
<1> QED
  BY <1>9, <1>12, <1>13, <1>14 DEF Around

(* Put together at a tag, the tags of two HTMLs stay closed.                *)
LEMMA JoinPaired ==
  ASSUME NEW a \in Html, NEW b \in Html, Paired(a), Paired(b), Meet(a, b)
  PROVE  Paired(a \o b)
<1> DEFINE c == a \o b
           m == Len(a)
           n == Len(b)
<1>1. m \in Nat /\ n \in Nat /\ Glued(a, m, b, n, c) /\ Len(c) = m + n
  <2>1. Glued(a, m, b, n, c)
    BY GluedFacts
  <2> QED
    BY <2>1, HtmlFacts DEF Glued
<1>2. m > 0 /\ n > 0 => Touch(a[m], b[1])
  <2>1. m > 0 /\ n > 0 => a # <<>> /\ b # <<>>
    BY HtmlFacts
  <2> QED
    BY <2>1 DEF Meet
<1>3. ASSUME NEW t \in Tags, m > 0, n > 0, a[m] = Close(t) PROVE Free(t, b[1])
  BY <1>2, <1>3 DEF Touch, Free
<1>4. ASSUME NEW t \in Tags, m > 0, n > 0, b[1] = Open(t) PROVE Free(t, a[m])
  BY <1>2, <1>4 DEF Touch, Free
<1> SUFFICES ASSUME NEW i \in 1..Len(c), NEW tag \in Tags, c[i] = Open(tag), tag # "pre"
             PROVE  \E j \in (i + 2)..Len(c) : Around(c, tag, i, j)
  BY DEF Paired
<1>6. \A k \in 1..m, t \in Tags : a[k] = Open(t) /\ t # "pre" => \E j \in (k + 2)..m : Around(a, t, k, j)
  BY DEF Paired
<1>7. \A k \in 1..n, t \in Tags : b[k] = Open(t) /\ t # "pre" => \E j \in (k + 2)..n : Around(b, t, k, j)
  BY DEF Paired
<1> HIDE DEF c, m, n
<1>8. CASE i \in 1..m
  <2>1. a[i] = Open(tag)
    BY <1>8, <1>1 DEF Glued
  <2>2. PICK j \in (i + 2)..m : Around(a, tag, i, j)
    BY <1>6, <1>8, <2>1
  <2>3. j = m /\ n > 0 => Free(tag, b[1])
    <3>1. j = m => m > 0
      BY <1>1, <1>8, <2>2
    <3> QED
      BY <1>3, <2>2, <3>1 DEF Around
  <2>4. Around(c, tag, i, j)
    BY <1>1, <1>8, <2>2, <2>3, AroundLeft
  <2>5. j \in (i + 2)..Len(c)
    BY <1>1, <1>8
  <2> QED
    BY <2>4, <2>5
<1>9. CASE \E u \in 1..n : i = m + u
  <2>1. PICK u \in 1..n : i = m + u
    BY <1>9
  <2>2. b[u] = Open(tag)
    BY <1>1, <2>1 DEF Glued
  <2>3. PICK v \in (u + 2)..n : Around(b, tag, u, v)
    BY <1>7, <2>2
  <2>4. Around(c, tag, m + u, m + v)
    <3>1. u = 1 /\ m > 0 => Free(tag, a[m])
      <4>1. n > 0
        BY <1>1
      <4> QED
        BY <1>4, <2>2, <4>1
    <3> QED
      BY <1>1, <2>3, <3>1, AroundRight
  <2>5. m + v \in (i + 2)..Len(c)
    BY <1>1, <2>1
  <2> QED
    BY <2>1, <2>4, <2>5
<1>10. i \in 1..m \/ \E u \in 1..n : i = m + u
  <2>1. ~(i \in 1..m) => i - m \in 1..n /\ i = m + (i - m)
    BY <1>1
  <2> QED
    BY <2>1
<1> QED
  BY <1>8, <1>9, <1>10

(* Put together at a tag, two well-formed HTMLs are well-formed.            *)
LEMMA Joining ==
  ASSUME NEW a, NEW b, WellFormed(a), WellFormed(b), Meet(a, b)
  PROVE  WellFormed(a \o b)
<1>1. a \in Html /\ b \in Html /\ Headed(a) /\ Headed(b)
  BY DEF WellFormed
<1>2. a \o b \in Html
  BY <1>1, ConcatFacts DEF Html
<1>3. Headed(a \o b)
  BY <1>1, HeadedConcat
<1>4. Rendered(a \o b)
  BY <1>1, JoinRendered DEF WellFormed
<1>5. Paired(a \o b)
  BY <1>1, JoinPaired DEF WellFormed
<1> QED
  BY <1>2, <1>3, <1>4, <1>5 DEF WellFormed

-----------------------------------------------------------------------------
(* What a tag may be put around.                                            *)
Fits(tag, content) ==
  tag # "pre" => /\ content # <<>> /\ Newline \notin ToSet(content)
                 /\ \A e \in ToSet(content) : Free(tag, e)

Wraps(h, o, e, c) ==
  /\ h \in Html /\ Len(h) = Len(e) + 2 /\ h[1] = o /\ h[Len(e) + 2] = c
  /\ \A k \in 2..(Len(e) + 1) : h[k] = e[k - 1]

LEMMA WrapAt ==
  ASSUME NEW o \in Tokens, NEW e \in Html, NEW c \in Tokens
  PROVE  Wraps(<<o>> \o e \o <<c>>, o, e, c)
<1> DEFINE n == Len(e)
           a == <<o>> \o e
           w == a \o <<c>>
<1>1. n \in Nat
  BY HtmlFacts
<1>2. <<o>> \in Html /\ Len(<<o>>) = 1 /\ <<o>>[1] = o /\ <<c>> \in Html /\ Len(<<c>>) = 1 /\ <<c>>[1] = c
  BY OneFacts DEF Html
<1>3. /\ a \in Html /\ Len(a) = 1 + n
      /\ \A i \in 1..1 : a[i] = <<o>>[i]
      /\ \A i \in 1..n : a[1 + i] = e[i]
  BY <1>2, ConcatFacts DEF Html
<1> HIDE DEF a
<1>4. /\ w \in Html /\ Len(w) = Len(a) + 1
      /\ \A i \in 1..Len(a) : w[i] = a[i]
      /\ \A i \in 1..1 : w[Len(a) + i] = <<c>>[i]
  BY <1>2, <1>3, ConcatFacts DEF Html
<1> HIDE DEF w, n
<1>5. a[1] = o
  BY <1>2, <1>3
<1>6. w[Len(a) + 1] = c
  BY <1>2, <1>4
<1>7. Len(w) = n + 2 /\ w[n + 2] = c
  BY <1>1, <1>3, <1>4, <1>6
<1>8. w[1] = o
  BY <1>1, <1>3, <1>4, <1>5
<1>9. ASSUME NEW k \in 2..(n + 1) PROVE w[k] = e[k - 1]
  <2>1. k \in 1..(1 + n) /\ k - 1 \in 1..n /\ 1 + (k - 1) = k
    BY <1>1
  <2>2. w[k] = a[k]
    BY <1>3, <1>4, <2>1
  <2> QED
    BY <1>3, <2>1, <2>2
<1> QED
  BY <1>4, <1>7, <1>8, <1>9 DEF w, a, n, Wraps

LEMMA EscapedOnly ==
  ASSUME NEW w \in Written
  PROVE  /\ EscapeHtml(w) \in Seq(Escaped) /\ EscapeHtml(w) \in Html
         /\ \A i \in 1..Len(EscapeHtml(w)) :
              /\ EscapeHtml(w)[i] \notin TagTokens
              /\ EscapeHtml(w)[i] \in ToSet(w) \cup {"&"} \cup Entities
         /\ w # <<>> => Len(EscapeHtml(w)) >= 1
<1> DEFINE e == EscapeHtml(w)
<1>1. e \in Seq(Escaped)
  BY EscapeFacts
<1>2. ToSet(e) \subseteq ToSet(w) \cup {"&"} \cup Entities /\ (e = <<>> <=> w = <<>>)
  BY EscapeReads
<1> HIDE DEF e
<1>3. e \in Html
  BY <1>1 DEF Html, Tokens
<1>4. \A i \in 1..Len(e) : e[i] \in Escaped /\ e[i] \in ToSet(e)
  BY <1>1 DEF ToSet
<1>5. \A i \in 1..Len(e) : e[i] \notin TagTokens
  BY <1>4, TagTokenFacts
<1>6. w # <<>> => Len(e) >= 1
  <2>1. w # <<>> => e # <<>>
    BY <1>2
  <2>2. Len(e) \in Nat /\ (e = <<>> <=> Len(e) = 0)
    BY <1>3, HtmlFacts
  <2>3. w # <<>> => Len(e) # 0
    BY <2>1, <2>2
  <2>4. Len(e) # 0 => Len(e) >= 1
    BY <2>2
  <2> QED
    BY <2>3, <2>4
<1> QED
  BY <1>1, <1>2, <1>3, <1>4, <1>5, <1>6 DEF e

(* A tag around a content that fits is well-formed.                         *)
LEMMA WrapIsWellFormed ==
  ASSUME NEW tag \in Tags, NEW w \in Written, Fits(tag, w)
  PROVE  /\ WellFormed(Wrap(tag, w)) /\ Wrap(tag, w) # <<>>
         /\ Wrap(tag, w)[1] = Open(tag) /\ Wrap(tag, w)[Len(Wrap(tag, w))] = Close(tag)
<1> DEFINE e == EscapeHtml(w)
           n == Len(e)
           h == Wrap(tag, w)
<1>1. e \in Html /\ n \in Nat
  BY EscapedOnly, HtmlFacts
<1>2. Open(tag) \in Tokens /\ Close(tag) \in Tokens /\ Open(tag) \in TagTokens /\ Close(tag) \in TagTokens
  BY TokenFacts DEF Tokens, TagTokens
<1>3. /\ h \in Html /\ Len(h) = n + 2 /\ h[1] = Open(tag) /\ h[n + 2] = Close(tag)
      /\ \A k \in 2..(n + 1) : h[k] = e[k - 1]
  <2>1. h = <<Open(tag)>> \o e \o <<Close(tag)>> /\ n = Len(e)
    BY DEF Wrap
  <2>2. Wraps(<<Open(tag)>> \o e \o <<Close(tag)>>, Open(tag), e, Close(tag))
    <3> HIDE DEF e
    <3>1. e \in Html
      BY <1>1
    <3> QED
      BY <1>2, <3>1, WrapAt, Zenon
  <2> HIDE DEF h, n, e
  <2>3. Wraps(h, Open(tag), e, Close(tag))
    BY <2>1, <2>2
  <2> QED
    BY <2>1, <2>3 DEF Wraps
<1>4. \A k \in 2..(n + 1) : h[k] \notin TagTokens
  <2>1. \A k \in 2..(n + 1) : k - 1 \in 1..n
    BY <1>1
  <2>2. \A k \in 1..n : e[k] \notin TagTokens
    BY EscapedOnly
  <2> QED
    BY <1>3, <2>1, <2>2
<1>5. tag # "pre" => n >= 1
  BY EscapedOnly DEF Fits
<1>6. tag # "pre" => \A k \in 2..(n + 1) : h[k] # Newline /\ Free(tag, h[k])
  <2> SUFFICES ASSUME tag # "pre", NEW k \in 2..(n + 1) PROVE h[k] # Newline /\ Free(tag, h[k])
    OBVIOUS
  <2>1. k - 1 \in 1..n
    BY <1>1
  <2>2. h[k] \in ToSet(w) \cup {"&"} \cup Entities
    BY <1>3, <2>1, EscapedOnly
  <2>3. Newline \notin ToSet(w) /\ \A x \in ToSet(w) : Free(tag, x)
    BY DEF Fits
  <2>4. \A x \in {"&"} \cup Entities : x # Newline /\ Free(tag, x)
    BY DEF Entities, Newline, Free
  <2> QED
    BY <2>2, <2>3, <2>4
<1> HIDE DEF h, n, e
<1>7. h # <<>>
  BY <1>1, <1>3, HtmlFacts
<1>8. Headed(h)
  <2>1. Open(tag) \notin Entities
    BY TokenFacts DEF Entities
  <2> QED
    BY <1>3, <2>1 DEF Headed
<1>9. ASSUME NEW x \in 1..Len(h), NEW y \in 1..Len(h), Stretch(h, x, y), x = 1 \/ h[x - 1] \in Closing
      PROVE  FALSE
  <2>1. x \in x..y
    BY <1>9 DEF Stretch
  <2>2. h[x] \notin TagTokens
    BY <1>9, <2>1 DEF Stretch
  <2>3. x # 1 /\ x # n + 2
    BY <1>2, <1>3, <2>2
  <2>4. x \in Nat /\ 1 <= x /\ x <= n + 2
    BY <1>1, <1>3
  <2>5. h[x - 1] \in Closing
    BY <1>9, <2>3
  <2>6. x # 2
    <3>1. h[1] \notin Closing
      BY <1>3, TokenFacts, TagTokenFacts
    <3>2. x = 2 => x - 1 = 1
      OBVIOUS
    <3> QED
      BY <2>5, <3>1, <3>2
  <2>7. x - 1 \in 2..(n + 1)
    BY <1>1, <2>3, <2>4, <2>6
  <2> QED
    BY <1>4, <2>5, <2>7 DEF TagTokens
<1>10. Rendered(h)
  BY <1>9 DEF Rendered
<1>11. ASSUME NEW i \in 1..Len(h), NEW t \in Tags, h[i] = Open(t), t # "pre"
       PROVE  \E j \in (i + 2)..Len(h) : Around(h, t, i, j)
  <2>1. i \in Nat /\ 1 <= i /\ i <= n + 2
    BY <1>1, <1>3
  <2>2. i \notin 2..(n + 1)
    BY <1>4, <1>11, TokenFacts DEF TagTokens
  <2>3. i # n + 2
    BY <1>3, <1>11, TagTokenFacts
  <2>4. i = 1
    BY <1>1, <2>1, <2>2, <2>3
  <2>5. t = tag
    BY <1>3, <1>11, <2>4, TagTokenFacts
  <2>6. n >= 1 /\ \A k \in 2..(n + 1) : h[k] # Newline /\ Free(tag, h[k])
    BY <1>5, <1>6, <1>11, <2>5
  <2>7. n + 2 \in (1 + 2)..(n + 2) /\ ~(1 > 1) /\ ~(n + 2 < n + 2) /\ 1 + 1 = 2 /\ (n + 2) - 1 = n + 1
    BY <1>1, <2>6
  <2>8. Around(h, tag, 1, n + 2)
    BY <1>3, <1>4, <2>6, <2>7 DEF Around
  <2> QED
    BY <1>3, <2>4, <2>5, <2>7, <2>8
<1>12. Paired(h)
  BY <1>11 DEF Paired
<1>13. h[Len(h)] = Close(tag)
  BY <1>3
<1> QED
  BY <1>3, <1>7, <1>8, <1>10, <1>12, <1>13 DEF WellFormed, h

(* A text without markup.                                                   *)
LEMMA EscapeIsWellFormed ==
  ASSUME NEW w \in Written, Clear(w)
  PROVE  WellFormed(EscapeHtml(w))
<1> DEFINE e == EscapeHtml(w)
           n == Len(e)
<1>1. e \in Html /\ n \in Nat /\ \A i \in 1..n : e[i] \notin TagTokens
  BY EscapedOnly, HtmlFacts
<1>2. Headed(e) /\ Source(e) = w
  BY EscapeReads
<1> HIDE DEF e
<1>3. ASSUME NEW x \in 1..n, NEW y \in 1..n, Stretch(e, x, y) PROVE SubSeq(e, x, y) = e
  <2>1. x > 1 => x - 1 \in 1..n
    BY <1>1
  <2>2. ~(x > 1)
    BY <1>1, <1>3, <2>1 DEF Stretch
  <2>3. y < n => y + 1 \in 1..n
    BY <1>1
  <2>4. ~(y < n)
    BY <1>1, <1>3, <2>3 DEF Stretch
  <2>5. x = 1 /\ y = n
    BY <1>1, <2>2, <2>4
  <2> QED
    BY <1>1, <2>5 DEF Html
<1>4. Rendered(e)
  BY <1>2, <1>3 DEF Rendered
<1>5. Paired(e)
  BY <1>1, TokenFacts DEF Paired, TagTokens
<1> QED
  BY <1>1, <1>2, <1>4, <1>5 DEF WellFormed, e

-----------------------------------------------------------------------------
(* The loops make well-formed HTML of well-formed parts.                                  *)

StartsFreely(tag, c, html) == c # 1 /\ html # <<>> => Free(tag, html[1])
EndsFreely(tag, html) == html # <<>> => Free(tag, html[Len(html)])

(* What a loop has done when it is at c.                                    *)
Done(tag, c, html) == WellFormed(html) /\ (html # <<>> => c # 1 /\ html[Len(html)] = Close(tag))

LEMMA LastOfConcat ==
  ASSUME NEW a \in Html, NEW b \in Html
  PROVE  /\ b = <<>> => a \o b = a
         /\ b # <<>> => a \o b # <<>> /\ (a \o b)[Len(a \o b)] = b[Len(b)]
<1> DEFINE c == a \o b
           n == Len(b)
<1>1. /\ c \in Html /\ Len(c) = Len(a) + n /\ Len(a) \in Nat /\ n \in Nat
      /\ \A i \in 1..n : c[Len(a) + i] = b[i]
      /\ a \o <<>> = a
  BY ConcatFacts DEF Html
<1>2. b # <<>> => n # 0
  BY HtmlFacts
<1> HIDE DEF c, n
<1>3. ASSUME n # 0 PROVE c # <<>> /\ c[Len(c)] = b[n]
  <2>1. n \in 1..n /\ Len(c) # 0
    BY <1>1, <1>3
  <2>2. c[Len(c)] = b[n]
    BY <1>1, <2>1
  <2>3. c # <<>>
    BY <1>1, <2>1, HtmlFacts
  <2> QED
    BY <2>2, <2>3
<1> QED
  BY <1>1, <1>2, <1>3 DEF c, n

(* What lies between two matches, behind a loop that is well-formed so far. *)
LEMMA GapIsWellFormed ==
  ASSUME NEW tag \in Tags, NEW c, NEW h, NEW g, Done(tag, c, h), WellFormed(g), StartsFreely(tag, c, g)
  PROVE  WellFormed(h \o g) /\ (EndsFreely(tag, g) => EndsFreely(tag, h \o g))
<1>1. h \in Html /\ g \in Html /\ WellFormed(h)
  BY DEF WellFormed, Done
<1>2. Meet(h, g)
  <2> SUFFICES ASSUME h # <<>>, g # <<>> PROVE Touch(h[Len(h)], g[1])
    BY DEF Meet
  <2> DEFINE last == h[Len(h)]
             first == g[1]
  <2>1. c # 1 /\ last = Close(tag)
    BY DEF Done
  <2>2. Free(tag, first)
    BY <2>1 DEF StartsFreely
  <2> HIDE DEF last, first
  <2>3. last \in Closing /\ "i" \in Tags
    BY <2>1, TokenFacts DEF Tags
  <2>4. last = Close("i") => tag = "i"
    BY <2>1, <2>3, TagTokenFacts
  <2>5. last # "_"
    BY <2>3, TagTokenFacts DEF TagTokens
  <2>6. Touch(last, first)
    BY <2>2, <2>3, <2>4, <2>5 DEF Touch, Free
  <2> QED
    BY <2>6 DEF last, first
<1>3. WellFormed(h \o g)
  BY <1>1, <1>2, Joining
<1>4. ASSUME EndsFreely(tag, g) PROVE EndsFreely(tag, h \o g)
  <2>1. CASE g # <<>>
    <3>1. (h \o g)[Len(h \o g)] = g[Len(g)]
      BY <1>1, <2>1, LastOfConcat
    <3>2. Free(tag, g[Len(g)])
      BY <1>4, <2>1 DEF EndsFreely
    <3> QED
      BY <3>1, <3>2 DEF EndsFreely
  <2>2. CASE g = <<>>
    <3>1. h \o g = h
      BY <1>1, <2>2, LastOfConcat
    <3>2. Close(tag) # "_"
      BY TokenFacts, TagTokenFacts DEF TagTokens
    <3>3. EndsFreely(tag, h)
      BY <3>2 DEF EndsFreely, Done, Free
    <3> QED
      BY <3>1, <3>3
  <2> QED
    BY <2>1, <2>2
<1> QED
  BY <1>3, <1>4

(* A tag behind what is well-formed.                                        *)
LEMMA TagIsWellFormed ==
  ASSUME NEW tag \in Tags, NEW p, WellFormed(p), EndsFreely(tag, p), NEW w \in Written, Fits(tag, w)
  PROVE  LET h == p \o Wrap(tag, w)
         IN WellFormed(h) /\ h # <<>> /\ h[Len(h)] = Close(tag)
<1> DEFINE e == Wrap(tag, w)
           h == p \o e
<1>1. WellFormed(e) /\ e # <<>> /\ e[1] = Open(tag) /\ e[Len(e)] = Close(tag)
  BY WrapIsWellFormed
<1> HIDE DEF e
<1>2. p \in Html /\ e \in Html
  BY <1>1 DEF WellFormed
<1>3. Meet(p, e)
  <2> SUFFICES ASSUME p # <<>> PROVE Touch(p[Len(p)], Open(tag))
    BY <1>1 DEF Meet
  <2>1. Free(tag, p[Len(p)])
    BY DEF EndsFreely
  <2> DEFINE last == p[Len(p)]
             first == Open(tag)
  <2>2. first \in Opening /\ first # "_" /\ "i" \in Tags
    BY TokenFacts, TagTokenFacts DEF TagTokens, Tags
  <2>3. first = Open("i") => tag = "i"
    BY <2>2, TagTokenFacts
  <2> HIDE DEF last, first
  <2>4. Touch(last, first)
    BY <2>1, <2>2, <2>3 DEF Touch, Free, last
  <2> QED
    BY <2>4 DEF last, first
<1>4. WellFormed(h)
  BY <1>1, <1>3, Joining
<1>5. h # <<>> /\ h[Len(h)] = e[Len(e)]
  BY <1>1, <1>2, LastOfConcat
<1> QED
  BY <1>1, <1>4, <1>5 DEF e

(* What a loop needs wherever it may be.                                    *)
Proceeds(text, rule, next, C, c) ==
  LET m == Find(text, rule, c)
      rest == next[From(text, c)]
      gap == next[SubSeq(text, c, m.start - 1)]
  IN /\ m.start = 0 => WellFormed(rest) /\ StartsFreely(rule.tag, c, rest)
     /\ m.start # 0 => /\ m.end \in C
                       /\ WellFormed(gap) /\ StartsFreely(rule.tag, c, gap) /\ EndsFreely(rule.tag, gap)
                       /\ Fits(rule.tag, SubSeq(text, m.content_start, m.content_end - 1))

LEMMA EmptyIsWellFormed == WellFormed(<<>>)
<1>1. <<>> \in Html /\ Headed(<<>>) /\ Len(<<>>) = 0
  BY DEF Html, Headed
<1>2. 1..Len(<<>>) = {}
  BY <1>1
<1> QED
  BY <1>1, <1>2 DEF WellFormed, Rendered, Paired

(* A loop that can go on wherever it may be makes a well-formed HTML.       *)
LEMMA LoopIsWellFormed ==
  ASSUME NEW text \in Written, NEW rule, rule.tag \in Tags, Forward(text, rule),
         NEW next \in [Written -> Html], NEW C, 1 \in C, C \subseteq 1..(Len(text) + 1),
         \A c \in C : Proceeds(text, rule, next, C, c)
  PROVE  WellFormed(Formatted(text, rule, next))
<1> DEFINE tag == rule.tag
           S == {at \in Ats(text) : at.cursor \in C /\ Done(tag, at.cursor, at.formatted)}
<1>0. Len(text) \in Nat
  BY DEF Written
<1>1. Start \in S
  <2>1. 1 \in 1..(Len(text) + 1) /\ <<>> \in Html
    BY <1>0 DEF Html
  <2>2. Start \in Ats(text)
    BY <2>1 DEF Start, Ats
  <2>3. Start.cursor = 1 /\ Start.formatted = <<>>
    BY DEF Start
  <2>4. Done(tag, 1, <<>>)
    BY EmptyIsWellFormed DEF Done
  <2> QED
    BY <2>2, <2>3, <2>4
<1>2. Kept(S, text, rule, next)
  <2> SUFFICES ASSUME NEW at \in Ats(text), at \in S, Find(text, rule, at.cursor).start # 0
               PROVE  Round(text, Find(text, rule, at.cursor), rule.tag, next, at) \in S
    BY DEF Kept
  <2> DEFINE c == at.cursor
             m == Find(text, rule, c)
             h == at.formatted
             gap == next[SubSeq(text, c, m.start - 1)]
             w == SubSeq(text, m.content_start, m.content_end - 1)
             after == Round(text, m, tag, next, at)
  <2>1. c \in 1..(Len(text) + 1) /\ h \in Html /\ c \in C /\ Done(tag, c, h)
    BY DEF Ats
  <2>2. Within(text, c, m)
    BY <2>1 DEF Forward
  <2>3. w \in Written
    BY <2>1, <2>2, PartsOfText
  <2>4. after \in Ats(text)
    BY <2>2, RoundType
  <2>5. after.formatted = h \o gap \o Wrap(tag, w) /\ after.cursor = m.end
    BY DEF Round
  <2>6. m.end \in C /\ WellFormed(gap) /\ StartsFreely(tag, c, gap) /\ EndsFreely(tag, gap) /\ Fits(tag, w)
    BY <2>1 DEF Proceeds
  <2>7. m.end # 1
    <3>1. c <= m.start /\ m.start < m.content_start /\ m.content_start <= m.content_end /\ m.content_end < m.end
      BY <2>2 DEF Within
    <3>2. m.start \in Nat /\ m.content_start \in Nat /\ m.content_end \in Nat /\ m.end \in Nat /\ c \in Nat /\ 1 <= c
      BY <1>0, <2>1, <2>2 DEF Within
    <3> HIDE DEF m, c
    <3> DEFINE s == m.start
               x == m.content_start
               y == m.content_end
               z == m.end
    <3>3. s \in Nat /\ x \in Nat /\ y \in Nat /\ z \in Nat /\ c <= s /\ s < x /\ x <= y /\ y < z
      BY <3>1, <3>2
    <3> HIDE DEF s, x, y, z
    <3>4. z # 1
      BY <3>2, <3>3
    <3> QED
      BY <3>4 DEF z
  <2> HIDE DEF m, gap, w, h, c
  <2>8. WellFormed(h \o gap) /\ EndsFreely(tag, h \o gap)
    BY <2>1, <2>6, GapIsWellFormed
  <2> DEFINE p == h \o gap
  <2> HIDE DEF p
  <2>9. WellFormed(p \o Wrap(tag, w)) /\ (p \o Wrap(tag, w)) # <<>> /\ (p \o Wrap(tag, w))[Len(p \o Wrap(tag, w))] = Close(tag)
    BY <2>3, <2>6, <2>8, TagIsWellFormed DEF p
  <2>10. after.formatted = p \o Wrap(tag, w)
    BY <2>5 DEF p
  <2> HIDE DEF after
  <2>11. Done(tag, after.cursor, after.formatted)
    BY <2>5, <2>7, <2>9, <2>10 DEF Done
  <2>12. after \in S
    BY <2>4, <2>5, <2>6, <2>11
  <2> QED
    BY <2>12 DEF after, m, c
<1>3. PICK at \in Ats(text) : /\ at \in S /\ Find(text, rule, at.cursor).start = 0
                              /\ Formatted(text, rule, next) = at.formatted \o next[From(text, at.cursor)]
  <2> HIDE DEF S
  <2> QED
    BY <1>1, <1>2, LoopInduction
<1>4. at.cursor \in C /\ Done(tag, at.cursor, at.formatted)
  BY <1>3
<1> DEFINE rest == next[From(text, at.cursor)]
<1>5. WellFormed(rest) /\ StartsFreely(tag, at.cursor, rest)
  BY <1>3, <1>4 DEF Proceeds
<1>6. WellFormed(at.formatted \o rest)
  <2> HIDE DEF rest
  <2> QED
    BY <1>4, <1>5, GapIsWellFormed
<1> QED
  BY <1>3, <1>6

-----------------------------------------------------------------------------
(* A part of a text: what matches in it matches in the whole.               *)

(* s stands behind the first o characters of a text.                        *)
Part(text, s, o) ==
  /\ o \in Nat /\ o + Len(s) <= Len(text)
  /\ \A k \in 1..Len(s) : s[k] = text[o + k]

LEMMA PartIs ==
  ASSUME NEW text \in Written, NEW a \in Nat, NEW b \in Nat, 1 <= a, a <= b + 1, b <= Len(text)
  PROVE  /\ SubSeq(text, a, b) \in Written /\ Len(SubSeq(text, a, b)) = b + 1 - a
         /\ Part(text, SubSeq(text, a, b), a - 1)
<1> DEFINE s == SubSeq(text, a, b)
<1>1. s \in Written /\ Len(s) = b + 1 - a /\ \A k \in 1..(b + 1 - a) : s[k] = text[a + k - 1]
  BY SubSeqFacts DEF Written
<1> HIDE DEF s
<1>2. a - 1 \in Nat /\ (a - 1) + (b + 1 - a) <= Len(text)
  <2>1. Len(text) \in Nat
    BY DEF Written
  <2> QED
    BY <2>1
<1>3. \A k \in 1..(b + 1 - a) : (a - 1) + k = a + k - 1
  OBVIOUS
<1>4. Part(text, s, a - 1)
  BY <1>1, <1>2, <1>3 DEF Part
<1> QED
  BY <1>1, <1>4 DEF s

LEMMA WrittenFacts ==
  ASSUME NEW text \in Written
  PROVE  /\ Len(text) \in Nat /\ DOMAIN text = 1..Len(text) /\ (text = <<>> <=> Len(text) = 0)
         /\ text \in Seq(Characters) /\ \A i \in 1..Len(text) : text[i] \in Characters
  BY DEF Written

LEMMA StartsWithIs ==
  ASSUME NEW text \in Written, NEW i \in Nat, 1 <= i, NEW p \in Written
  PROVE  StartsWith(text, i, p) <=> /\ i + Len(p) - 1 <= Len(text)
                                    /\ \A k \in 1..Len(p) : text[i + k - 1] = p[k]
<1> DEFINE n == Len(p)
           b == i + n - 1
           s == SubSeq(text, i, b)
<1>1. n \in Nat /\ Len(text) \in Nat
  BY WrittenFacts
<1>2. b \in Nat /\ i <= b + 1 /\ b + 1 - i = n
  BY <1>1
<1>3. StartsWith(text, i, p) <=> b <= Len(text) /\ s = p
  BY DEF StartsWith
<1> HIDE DEF b, n
<1>4. ASSUME b <= Len(text) PROVE s \in Written /\ Len(s) = n /\ \A k \in 1..n : s[k] = text[i + k - 1]
  <2>1. s \in Written /\ Len(s) = b + 1 - i /\ \A k \in 1..(b + 1 - i) : s[k] = text[i + k - 1]
    BY <1>1, <1>2, <1>4, SubSeqFacts DEF Written
  <2> QED
    BY <1>2, <2>1
<1> HIDE DEF s
<1>5. ASSUME b <= Len(text), s = p PROVE \A k \in 1..n : text[i + k - 1] = p[k]
  BY <1>4, <1>5
<1>6. ASSUME b <= Len(text), \A k \in 1..n : text[i + k - 1] = p[k] PROVE s = p
  <2>1. Len(s) = Len(p) /\ \A k \in 1..Len(s) : s[k] = p[k]
    BY <1>4, <1>6 DEF n
  <2>2. s \in Seq(Characters) /\ p \in Seq(Characters)
    BY <1>4, <1>6 DEF Written
  <2> QED
    BY <2>1, <2>2, EqualSeqs
<1> QED
  BY <1>3, <1>5, <1>6 DEF b, n

(* A prefix that fits in a part is one of the text.                         *)
LEMMA StartsLocal ==
  ASSUME NEW text \in Written, NEW s \in Written, NEW o \in Nat, Part(text, s, o), NEW i \in Nat, 1 <= i,
         NEW p \in Written
  PROVE  /\ StartsWith(s, i, p) => StartsWith(text, o + i, p) /\ i + Len(p) - 1 <= Len(s)
         /\ StartsWith(text, o + i, p) /\ i + Len(p) - 1 <= Len(s) => StartsWith(s, i, p)
<1> DEFINE n == Len(p)
           m == Len(s)
<1>1. n \in Nat /\ m \in Nat /\ Len(text) \in Nat /\ o \in Nat /\ o + m <= Len(text)
  BY WrittenFacts DEF Part
<1>2. \A k \in 1..m : s[k] = text[o + k]
  BY DEF Part
<1>3. StartsWith(s, i, p) <=> i + n - 1 <= m /\ \A k \in 1..n : s[i + k - 1] = p[k]
  BY StartsWithIs
<1>4. StartsWith(text, o + i, p) <=> o + i + n - 1 <= Len(text) /\ \A k \in 1..n : text[o + i + k - 1] = p[k]
  <2>1. o + i \in Nat /\ 1 <= o + i
    BY <1>1
  <2> QED
    BY <2>1, StartsWithIs
<1> HIDE DEF n, m
<1>5. ASSUME i + n - 1 <= m PROVE \A k \in 1..n : s[i + k - 1] = text[o + i + k - 1]
  <2>1. \A k \in 1..n : i + k - 1 \in 1..m /\ o + (i + k - 1) = o + i + k - 1
    BY <1>1, <1>5
  <2> QED
    BY <1>2, <2>1
<1>6. i + n - 1 <= m => o + i + n - 1 <= Len(text)
  BY <1>1
<1> QED
  BY <1>3, <1>4, <1>5, <1>6 DEF n, m

(* A content that fits in a part, with its delimiter, is one of the text.   *)
LEMMA InsideLocal ==
  ASSUME NEW text \in Written, NEW s \in Written, NEW o \in Nat, Part(text, s, o), NEW rule, ProperRule(rule),
         NEW i \in Nat, 1 <= i, NEW j \in Nat, i < j
  PROVE  /\ Inside(s, rule, i, j) => Inside(text, rule, o + i, o + j) /\ j + Len(rule.delimiter) - 1 <= Len(s)
         /\ Inside(text, rule, o + i, o + j) /\ j + Len(rule.delimiter) - 1 <= Len(s) => Inside(s, rule, i, j)
<1> DEFINE p == rule.delimiter
           m == Len(s)
           d == Len(p)
           Stop == {rule.forbidden, Newline}
<1>1. p \in Written /\ d \in 1..2
  BY DEF ProperRule
<1> HIDE DEF Stop, p
<1>2. ASSUME NEW t, NEW x, NEW y
      PROVE  Inside(t, rule, x, y) <=> StartsWith(t, y, p) /\ \A k \in x..(y - 1) : t[k] \notin Stop
  BY DEF Inside, p, Stop
<1>3. Inside(text, rule, o + i, o + j) <=> StartsWith(text, o + j, p) /\ \A k \in (o + i)..(o + j - 1) : text[k] \notin Stop
  BY <1>2
<1>4. /\ StartsWith(s, j, p) => StartsWith(text, o + j, p) /\ j + d - 1 <= m
      /\ StartsWith(text, o + j, p) /\ j + d - 1 <= m => StartsWith(s, j, p)
  <2>1. 1 <= j
    OBVIOUS
  <2> QED
    BY <1>1, <2>1, StartsLocal
<1>5. m \in Nat /\ o \in Nat /\ \A k \in 1..m : s[k] = text[o + k]
  BY WrittenFacts DEF Part
<1> HIDE DEF m, d
<1>6. ASSUME j + d - 1 <= m
      PROVE  (\A k \in i..(j - 1) : s[k] \notin Stop) <=> (\A k \in (o + i)..(o + j - 1) : text[k] \notin Stop)
  <2>1. \A k \in i..(j - 1) : k \in 1..m /\ o + k \in (o + i)..(o + j - 1)
    BY <1>1, <1>5, <1>6
  <2>2. \A k \in (o + i)..(o + j - 1) : k - o \in i..(j - 1) /\ k - o \in 1..m /\ o + (k - o) = k
    BY <1>1, <1>5, <1>6
  <2>3. \A k \in i..(j - 1) : s[k] = text[o + k]
    BY <1>5, <2>1
  <2>4. \A k \in (o + i)..(o + j - 1) : text[k] = s[k - o]
    BY <1>5, <2>2
  <2> QED
    BY <2>1, <2>2, <2>3, <2>4
<1> QED
  BY <1>2, <1>3, <1>4, <1>6 DEF p, m, d

(* scan_content finds the same end in the whole text.                       *)
LEMMA ScanLocal ==
  ASSUME NEW text \in Written, NEW s \in Written, NEW o \in Nat, Part(text, s, o), NEW rule, ProperRule(rule),
         NEW i \in Nat, 1 <= i, ScanContent(s, rule, i) # 0
  PROVE  ScanContent(text, rule, o + i) = o + ScanContent(s, rule, i)
<1> DEFINE j == ScanContent(s, rule, i)
           J == ScanContent(text, rule, o + i)
           d == Len(rule.delimiter)
           m == Len(s)
           n == Len(text)
<1>1. d \in 1..2 /\ m \in Nat /\ n \in Nat /\ o \in Nat /\ o + m <= n
  BY WrittenFacts DEF ProperRule, Part
<1>2. j \in (i + 1)..m /\ Inside(s, rule, i, j) /\ \A k \in (i + 1)..m : Inside(s, rule, i, k) => j <= k
  BY ScanFacts
<1>3. J # 0 => J \in (o + i + 1)..n /\ Inside(text, rule, o + i, J)
  <2>1. o + i \in Nat
    BY <1>1
  <2> QED
    BY <2>1, ScanFacts
<1>4. \A k \in (o + i + 1)..n : Inside(text, rule, o + i, k) => J # 0 /\ J <= k
  <2>1. o + i \in Nat
    BY <1>1
  <2> QED
    BY <2>1, ScanFacts
<1> HIDE DEF j, J, m, n, d
<1>5. j \in Nat /\ i < j /\ o + j \in (o + i + 1)..n
  BY <1>1, <1>2
<1>6. Inside(text, rule, o + i, o + j) /\ j + d - 1 <= m
  BY <1>2, <1>5, InsideLocal DEF d, m
<1>7. J # 0 /\ J <= o + j
  BY <1>4, <1>5, <1>6
<1>8. J \in (o + i + 1)..n /\ Inside(text, rule, o + i, J)
  BY <1>3, <1>7
<1> DEFINE k == J - o
<1>9. k \in Nat /\ i < k /\ o + k = J /\ k + d - 1 <= m /\ k \in (i + 1)..m /\ k <= j
  BY <1>1, <1>2, <1>5, <1>6, <1>7, <1>8
<1> HIDE DEF k
<1>10. Inside(s, rule, i, k)
  BY <1>8, <1>9, InsideLocal DEF d, m
<1>11. j <= k
  BY <1>2, <1>9, <1>10
<1>12. J = o + j
  BY <1>5, <1>9, <1>11
<1> QED
  BY <1>12 DEF J, j

Low(character) == character = "_"
LowAt(text, i) == StartsWith(text, i, <<"_">>)

LEMMA UnderscoreAt ==
  ASSUME NEW text \in Written, NEW i \in Nat, 1 <= i
  PROVE  LowAt(text, i) <=> i <= Len(text) /\ Low(text[i])
<1>1. <<"_">> \in Written
  BY TokenFacts, SmallText
<1>2. Len(<<"_">>) = 1 /\ <<"_">>[1] = "_"
  BY OneFacts
<1> DEFINE p == <<"_">>
<1>3. StartsWith(text, i, p) <=> i + Len(p) - 1 <= Len(text) /\ \A k \in 1..Len(p) : text[i + k - 1] = p[k]
  <2> HIDE DEF p
  <2> QED
    BY <1>1, StartsWithIs DEF p
<1>4. 1..1 = {1} /\ i + 1 - 1 = i
  OBVIOUS
<1>5. Len(p) = 1 /\ p[1] = "_"
  BY <1>2
<1> HIDE DEF p
<1>6. StartsWith(text, i, p) <=> i <= Len(text) /\ \A k \in {1} : text[i + k - 1] = p[k]
  BY <1>3, <1>4, <1>5
<1>7. StartsWith(text, i, p) <=> i <= Len(text) /\ text[i] = p[1]
  BY <1>4, <1>6
<1>8. StartsWith(text, i, p) <=> i <= Len(text) /\ text[i] = "_"
  BY <1>5, <1>7
<1> QED
  BY <1>8 DEF p, Low, LowAt

(* No underscore inside a part touches one outside.                         *)
Edges(text, s, o) ==
  /\ o = 0 \/ s = <<>> \/ ~Low(s[1])
  /\ o + Len(s) = Len(text) \/ s = <<>> \/ ~Low(s[Len(s)])

-----------------------------------------------------------------------------
(* Underscores that are alone in a part are alone in the text.              *)
LEMMA LoneLocal ==
  ASSUME NEW text \in Written, NEW s \in Written, NEW o \in Nat, Part(text, s, o), Edges(text, s, o),
         NEW i \in 1..Len(s), Low(s[i]), ~(i > 1 /\ Low(s[i - 1])),
         NEW e \in 1..Len(s), Low(s[e]), ~LowAt(s, e + 1)
  PROVE  ~(o + i > 1 /\ Low(text[o + i - 1])) /\ ~LowAt(text, o + e + 1)
<1> DEFINE m == Len(s)
           n == Len(text)
<1>1. m \in Nat /\ n \in Nat /\ o + m <= n /\ \A k \in 1..m : s[k] = text[o + k]
  BY WrittenFacts DEF Part
<1>2. m # 0 => s # <<>>
  BY WrittenFacts
<1>3. m # 0 => (o = 0 \/ ~Low(s[1])) /\ (o + m = n \/ ~Low(s[m]))
  BY <1>2 DEF Edges
<1>4. ~(e + 1 <= m /\ Low(s[e + 1]))
  <2>1. e + 1 \in Nat /\ 1 <= e + 1
    BY <1>1
  <2> QED
    BY <2>1, UnderscoreAt
<1>5. LowAt(text, o + e + 1) <=> o + e + 1 <= n /\ Low(text[o + e + 1])
  <2>1. o + e + 1 \in Nat /\ 1 <= o + e + 1
    BY <1>1
  <2> QED
    BY <2>1, UnderscoreAt
<1> HIDE DEF m, n
<1>6. i \in 1..m /\ e \in 1..m
  BY DEF m
<1>7. m # 0 /\ i \in Nat /\ e \in Nat
  BY <1>1, <1>6
<1>8. ~(o + i > 1 /\ Low(text[o + i - 1]))
  <2>1. CASE i > 1
    <3>1. i - 1 \in 1..m /\ o + (i - 1) = o + i - 1
      BY <1>1, <1>6, <2>1
    <3>2. text[o + i - 1] = s[i - 1]
      BY <1>1, <3>1
    <3> QED
      BY <2>1, <3>2
  <2>2. CASE i = 1
    <3>1. o = 0
      BY <1>3, <1>7, <2>2
    <3>2. ~(o + i > 1)
      BY <2>2, <3>1
    <3> QED
      BY <3>2
  <2>3. i > 1 \/ i = 1
    BY <1>6
  <2> QED
    BY <2>1, <2>2, <2>3
<1>9. ~(o + e + 1 <= n /\ Low(text[o + e + 1]))
  <2>1. CASE e < m
    <3>1. e + 1 \in 1..m /\ o + (e + 1) = o + e + 1 /\ e + 1 <= m
      BY <1>1, <1>6, <2>1
    <3>2. text[o + e + 1] = s[e + 1]
      BY <1>1, <3>1
    <3> QED
      BY <1>4, <3>1, <3>2
  <2>2. CASE e = m
    <3>1. o + m = n
      BY <1>3, <1>7, <2>2
    <3>2. ~(o + e + 1 <= n)
      BY <1>1, <2>2, <3>1
    <3> QED
      BY <3>2
  <2>3. e < m \/ e = m
    BY <1>1, <1>6
  <2> QED
    BY <2>1, <2>2, <2>3
<1> QED
  BY <1>5, <1>8, <1>9

(* What matches in a part matches in the whole text, at its place.          *)
LEMMA MatchesLocal ==
  ASSUME NEW text \in Written, NEW s \in Written, NEW o \in Nat, Part(text, s, o),
         NEW rule, ProperRule(rule), rule.no_adjacent_underscore => Edges(text, s, o),
         NEW i \in 1..Len(s), Matches(s, rule, i)
  PROVE  Matches(text, rule, o + i)
<1> DEFINE p == rule.delimiter
           d == Len(p)
           c == i + d
           j == ScanContent(s, rule, c)
           lone == rule.no_adjacent_underscore
           m == Len(s)
<1>1. p \in Written /\ d \in 1..2 /\ m \in Nat
  BY WrittenFacts DEF ProperRule
<1>0. ASSUME NEW t, NEW x
      PROVE  Matches(t, rule, x) <=>
               /\ StartsWith(t, x, p) /\ ~(lone /\ x > 1 /\ Low(t[x - 1])) /\ ScanContent(t, rule, x + d) # 0
               /\ ~(lone /\ LowAt(t, ScanContent(t, rule, x + d) + d))
  BY DEF Matches, Low, LowAt
<1>2. /\ StartsWith(s, i, p) /\ ~(lone /\ i > 1 /\ Low(s[i - 1])) /\ j # 0
      /\ ~(lone /\ LowAt(s, j + d))
  BY <1>0
<1>3. i \in Nat /\ 1 <= i /\ c \in Nat /\ 1 <= c
  BY <1>1
<1>4. StartsWith(text, o + i, p) /\ i + d - 1 <= m
  BY <1>1, <1>2, <1>3, StartsLocal
<1>5. ScanContent(text, rule, o + c) = o + j
  BY <1>2, <1>3, ScanLocal
<1>6. j \in (c + 1)..m /\ Inside(s, rule, c, j)
  BY <1>2, <1>3, ScanFacts
<1>7. StartsWith(s, j, p)
  BY <1>6 DEF Inside
<1> HIDE DEF j, c, m, d
<1>8. j \in Nat /\ 1 <= j
  BY <1>1, <1>3, <1>6
<1>9. ASSUME lone PROVE ~(o + i > 1 /\ Low(text[o + i - 1])) /\ ~LowAt(text, o + j + d)
  <2>1. p = <<"_", "_">>
    BY <1>9 DEF ProperRule
  <2>2. p[1] = "_" /\ p[2] = "_"
    BY <2>1, PairFacts
  <2>12. d = 2
    BY <2>1, PairFacts DEF d
  <2>3. \A k \in 1..d : s[i + k - 1] = p[k]
    BY <1>1, <1>2, <1>3, StartsWithIs DEF d
  <2>13. j + d - 1 <= m
    BY <1>1, <1>7, <1>8, StartsWithIs DEF d, m
  <2>4. \A k \in 1..d : s[j + k - 1] = p[k]
    BY <1>1, <1>7, <1>8, StartsWithIs DEF d, m
  <2> HIDE DEF p
  <2> DEFINE e == j + 1
  <2>5. 1 \in 1..d /\ 2 \in 1..d /\ i + 1 - 1 = i /\ j + 2 - 1 = e /\ e \in 1..m /\ e + 1 = j + d /\ i \in 1..m
    BY <1>1, <1>3, <1>4, <1>8, <2>12, <2>13
  <2> HIDE DEF e
  <2>6. Low(s[i])
    <3>1. s[i] = p[1]
      BY <2>3, <2>5
    <3> QED
      BY <2>2, <3>1 DEF Low
  <2>7. Low(s[e])
    <3>1. s[e] = p[2]
      BY <2>4, <2>5
    <3> QED
      BY <2>2, <3>1 DEF Low
  <2>8. ~LowAt(s, e + 1) /\ ~(i > 1 /\ Low(s[i - 1]))
    BY <1>2, <1>9, <2>5
  <2>9. Edges(text, s, o)
    BY <1>9
  <2>10. ~(o + i > 1 /\ Low(text[o + i - 1])) /\ ~LowAt(text, o + e + 1)
    BY <2>5, <2>6, <2>7, <2>8, <2>9, LoneLocal DEF m
  <2>11. o + e + 1 = o + j + d
    BY <1>8, <2>12 DEF e
  <2> QED
    BY <2>10, <2>11
<1>10. o + i + d = o + c /\ o + j # 0
  BY <1>1, <1>3, <1>8 DEF c
<1>11. Matches(text, rule, o + i) <=>
         /\ StartsWith(text, o + i, p) /\ ~(lone /\ o + i > 1 /\ Low(text[o + i - 1]))
         /\ ScanContent(text, rule, o + i + d) # 0 /\ ~(lone /\ LowAt(text, ScanContent(text, rule, o + i + d) + d))
  BY <1>0
<1> HIDE DEF p, lone
<1> QED
  BY <1>4, <1>5, <1>9, <1>10, <1>11

-----------------------------------------------------------------------------
(* The rules, one after the other.                                          *)

Unmatched(text, rule) == \A i \in 1..Len(text) : ~Matches(text, rule, i)

(* So a rule that matches nowhere in the text matches nowhere in a part.    *)
LEMMA PartUnmatched ==
  ASSUME NEW text \in Written, NEW s \in Written, NEW o \in Nat, Part(text, s, o),
         NEW rule, ProperRule(rule), rule.no_adjacent_underscore => Edges(text, s, o),
         \A k \in (o + 1)..(o + Len(s)) : ~Matches(text, rule, k)
  PROVE  Unmatched(s, rule)
<1> SUFFICES ASSUME NEW i \in 1..Len(s), Matches(s, rule, i) PROVE FALSE
  BY DEF Unmatched
<1>1. Matches(text, rule, o + i)
  BY MatchesLocal
<1>2. o + i \in (o + 1)..(o + Len(s))
  <2>1. Len(s) \in Nat
    BY WrittenFacts
  <2> QED
    BY <2>1
<1> QED
  BY <1>1, <1>2

LEMMA FreeIs ==
  ASSUME NEW rule, ProperRule(rule), NEW e, rule.no_adjacent_underscore => ~Low(e)
  PROVE  Free(rule.tag, e)
  BY DEF ProperRule, Free, Low

(* A content that a rule accepts is one its tag fits around.                *)
LEMMA InsideFits ==
  ASSUME NEW text \in Written, NEW rule, ProperRule(rule), NEW x \in Nat, NEW y \in Nat,
         1 <= x, x < y, y <= Len(text) + 1, Inside(text, rule, x, y)
  PROVE  Fits(rule.tag, SubSeq(text, x, y - 1))
<1> DEFINE w == SubSeq(text, x, y - 1)
           b == y - 1
<1>1. b \in Nat /\ x <= b + 1 /\ b <= Len(text) /\ b + 1 - x # 0
  BY WrittenFacts
<1>2. /\ SubSeq(text, x, b) \in Written /\ Len(SubSeq(text, x, b)) = b + 1 - x
      /\ \A k \in 1..(b + 1 - x) : SubSeq(text, x, b)[k] = text[x + k - 1]
  <2> HIDE DEF b
  <2> QED
    BY <1>1, SubSeqFacts DEF Written
<1> HIDE DEF w
<1>3. w \in Written /\ Len(w) = b + 1 - x /\ \A k \in 1..(b + 1 - x) : w[k] = text[x + k - 1]
  BY <1>2 DEF w
<1>4. w # <<>>
  BY <1>1, <1>3, WrittenFacts
<1>5. \A e \in ToSet(w) : \E k \in x..(y - 1) : e = text[k]
  <2>1. \A k \in 1..Len(w) : x + k - 1 \in x..(y - 1) /\ w[k] = text[x + k - 1]
    <3>1. \A k \in 1..(b + 1 - x) : x + k - 1 \in x..(y - 1)
      BY <1>1
    <3> QED
      BY <1>3, <3>1
  <2>2. DOMAIN w = 1..Len(w)
    BY <1>3, WrittenFacts
  <2> QED
    BY <2>1, <2>2 DEF ToSet
<1>6. \A k \in x..(y - 1) : text[k] # rule.forbidden /\ text[k] # Newline
  BY DEF Inside
<1>7. \A e \in ToSet(w) : e # rule.forbidden /\ e # Newline
  BY <1>5, <1>6
<1>8. \A e \in ToSet(w) : Free(rule.tag, e)
  BY <1>7 DEF Free, ProperRule
<1>9. Fits(rule.tag, w)
  BY <1>4, <1>7, <1>8 DEF Fits
<1> QED
  BY <1>9 DEF w

(* Next to the italics there is no underscore.                              *)
LEMMA AroundMatch ==
  ASSUME NEW text \in Written, NEW rule, ProperRule(rule), rule.no_adjacent_underscore,
         NEW c \in 1..(Len(text) + 1), Find(text, rule, c).start # 0
  PROVE  LET m == Find(text, rule, c)
         IN /\ m.start > 1 => ~Low(text[m.start - 1])
            /\ m.end <= Len(text) => ~Low(text[m.end])
<1> DEFINE m == Find(text, rule, c)
           d == Len(rule.delimiter)
           x == m.start
           y == m.content_start
           j == m.content_end
           z == m.end
<1>1. /\ Within(text, c, m) /\ Matches(text, rule, x)
      /\ y = x + d /\ z = j + d /\ j = ScanContent(text, rule, y)
  BY FindMatchFacts
<1>2. z \in Nat /\ j \in Nat /\ x \in Nat /\ y \in Nat
  BY <1>1 DEF Within
<1> HIDE DEF m, x, y, z, j
<1>3. ~(x > 1 /\ Low(text[x - 1])) /\ ~LowAt(text, ScanContent(text, rule, x + d) + d)
  BY <1>1 DEF Matches, Low, LowAt
<1>4. ~LowAt(text, z)
  BY <1>1, <1>3
<1>5. 1 <= z
  <2>1. d \in 1..2
    BY DEF ProperRule
  <2> HIDE DEF d
  <2> QED
    BY <1>1, <1>2, <2>1
<1>6. z <= Len(text) => ~Low(text[z])
  BY <1>2, <1>4, <1>5, UnderscoreAt
<1> QED
  BY <1>3, <1>6 DEF x, z, m

(* What is left between two matches, or behind the last one.                *)
LEMMA LoneEdges ==
  ASSUME NEW text \in Written, NEW c \in Nat, NEW b \in Nat, 1 <= c, c <= b + 1, b <= Len(text),
         c # 1 /\ c <= Len(text) => ~Low(text[c]),
         b # 0 /\ b # Len(text) => ~Low(text[b])
  PROVE  LET s == SubSeq(text, c, b)
         IN /\ Edges(text, s, c - 1)
            /\ c # 1 /\ s # <<>> => ~Low(s[1])
            /\ b # Len(text) /\ s # <<>> => ~Low(s[Len(s)])
<1> DEFINE s == SubSeq(text, c, b)
           n == Len(text)
           l == Len(s)
<1>1. s \in Written /\ l = b + 1 - c /\ \A k \in 1..(b + 1 - c) : s[k] = text[c + k - 1]
  BY SubSeqFacts DEF Written
<1>2. n \in Nat /\ l \in Nat /\ (s # <<>> => l # 0)
  BY <1>1, WrittenFacts
<1>3. (c # 1 /\ c <= n => ~Low(text[c])) /\ (b # 0 /\ b # n => ~Low(text[b])) /\ b <= n
  OBVIOUS
<1> HIDE DEF s, n, l
<1>4. ASSUME l # 0 PROVE s[1] = text[c] /\ s[l] = text[b] /\ c <= n /\ b # 0
  <2>1. 1 \in 1..(b + 1 - c) /\ l \in 1..(b + 1 - c) /\ c + 1 - 1 = c /\ c + l - 1 = b
    BY <1>1, <1>2, <1>4
  <2>2. s[1] = text[c + 1 - 1] /\ s[l] = text[c + l - 1]
    BY <1>1, <2>1
  <2>3. c <= n /\ b # 0
    BY <1>1, <1>2, <1>3, <1>4
  <2> QED
    BY <2>1, <2>2, <2>3
<1>5. c # 1 /\ s # <<>> => ~Low(s[1])
  BY <1>2, <1>3, <1>4
<1>6. b # n /\ s # <<>> => ~Low(s[l])
  BY <1>2, <1>3, <1>4
<1>7. c - 1 = 0 <=> c = 1
  OBVIOUS
<1>8. s # <<>> => (c - 1 + l = n <=> b = n)
  BY <1>1, <1>2
<1>9. Edges(text, s, c - 1)
  BY <1>5, <1>6, <1>7, <1>8 DEF Edges, l, n
<1> QED
  BY <1>5, <1>6, <1>9 DEF s, l, n

(* Escaping brings no underscore to the edges of a text.                    *)
LEMMA EscapeEdges ==
  ASSUME NEW s \in Written
  PROVE  /\ (s # <<>> => ~Low(s[1])) => (EscapeHtml(s) # <<>> => ~Low(EscapeHtml(s)[1]))
         /\ (s # <<>> => ~Low(s[Len(s)])) => (EscapeHtml(s) # <<>> => ~Low(EscapeHtml(s)[Len(EscapeHtml(s))]))
<1>1. ~Low("&") /\ \A e \in Entities : ~Low(e)
  BY DEF Low, Entities
<1> QED
  BY <1>1, EscapeReads

-----------------------------------------------------------------------------
(* The last n rules make well-formed HTML of what no other rule matches in. *)
Level(n) ==
  \A s \in Written : (\A r \in 1..(5 - n) : Unmatched(s, INLINE_RULES[r])) => WellFormed(ApplyRules[n][s])

(* What a level makes of a part of a text that no rule before it and, in    *)
(* the part, not its own rule matches.                                      *)
LEMMA PieceIsWellFormed ==
  ASSUME NEW n \in 1..5, Level(n - 1), NEW text \in Written,
         \A r \in 1..(5 - n) : Unmatched(text, INLINE_RULES[r]),
         NEW c \in Nat, NEW b \in Nat, 1 <= c, c <= b + 1, b <= Len(text),
         \A k \in c..b : ~Matches(text, INLINE_RULES[6 - n], k),
         INLINE_RULES[6 - n].no_adjacent_underscore => Edges(text, SubSeq(text, c, b), c - 1)
  PROVE  WellFormed(ApplyRules[n - 1][SubSeq(text, c, b)])
<1> DEFINE s == SubSeq(text, c, b)
           o == c - 1
<1>1. s \in Written /\ Len(s) = b + 1 - c /\ Part(text, s, o) /\ o \in Nat
  BY PartIs
<1>2. o + 1 = c /\ o + Len(s) = b
  BY <1>1
<1>3. Len(text) \in Nat
  BY WrittenFacts
<1> HIDE DEF s, o
<1>4. ASSUME NEW r \in 1..(5 - n) PROVE Unmatched(s, INLINE_RULES[r])
  <2>1. r \in 1..4 /\ r \in 1..5
    OBVIOUS
  <2> DEFINE rule == INLINE_RULES[r]
  <2>2. ProperRule(rule) /\ rule.tag # "i"
    BY <2>1, RuleFacts
  <2>3. ~rule.no_adjacent_underscore
    BY <2>2 DEF ProperRule
  <2>4. Unmatched(text, rule)
    BY <1>4
  <2> HIDE DEF rule
  <2>5. \A k \in (o + 1)..(o + Len(s)) : k \in 1..Len(text)
    BY <1>2, <1>3
  <2>6. \A k \in (o + 1)..(o + Len(s)) : ~Matches(text, rule, k)
    BY <2>4, <2>5 DEF Unmatched
  <2>7. Unmatched(s, rule)
    BY <1>1, <2>2, <2>3, <2>6, PartUnmatched
  <2> QED
    BY <2>7 DEF rule
<1>5. Unmatched(s, INLINE_RULES[6 - n])
  <2> DEFINE rule == INLINE_RULES[6 - n]
  <2>1. 6 - n \in 1..5
    OBVIOUS
  <2>2. ProperRule(rule)
    BY <2>1, RuleFacts
  <2>3. rule.no_adjacent_underscore => Edges(text, s, o)
    BY DEF s, o
  <2>4. \A k \in c..b : ~Matches(text, rule, k)
    OBVIOUS
  <2> HIDE DEF rule
  <2>5. \A k \in (o + 1)..(o + Len(s)) : ~Matches(text, rule, k)
    BY <1>2, <2>4
  <2>6. Unmatched(s, rule)
    BY <1>1, <2>2, <2>3, <2>5, PartUnmatched
  <2> QED
    BY <2>6 DEF rule
<1>6. \A r \in 1..(5 - (n - 1)) : r \in 1..(5 - n) \/ r = 6 - n
  OBVIOUS
<1>7. \A r \in 1..(5 - (n - 1)) : Unmatched(s, INLINE_RULES[r])
  BY <1>4, <1>5, <1>6
<1>8. WellFormed(ApplyRules[n - 1][s])
  BY <1>1, <1>7 DEF Level
<1> QED
  BY <1>8 DEF s

(* What is left of a text by the last rule is only escaped.                 *)
LEMMA LastLevel ==
  ASSUME NEW n \in 1..5, INLINE_RULES[6 - n].no_adjacent_underscore
  PROVE  \A s \in Written : ApplyRules[n - 1][s] = EscapeHtml(s)
<1>1. 6 - n \in 1..5
  OBVIOUS
<1> DEFINE r == 6 - n
<1>2. r \in 1..4 => ~INLINE_RULES[r].no_adjacent_underscore
  <2>1. r \in 1..5 /\ (r \in 1..4 => INLINE_RULES[r].tag # "i")
    BY <1>1, RuleFacts
  <2>2. ProperRule(INLINE_RULES[r])
    BY <2>1, RuleFacts
  <2> QED
    BY <2>1, <2>2 DEF ProperRule
<1>3. r \notin 1..4
  BY <1>2
<1> HIDE DEF r
<1>4. n - 1 = 0
  BY <1>3 DEF r
<1> QED
  BY <1>4, LevelFacts

(* Where the loop of a level may be: where italics end, no underscore is.   *)
Cursors(text, rule) ==
  { c \in 1..(Len(text) + 1) : rule.no_adjacent_underscore /\ c # 1 /\ c <= Len(text) => ~Low(text[c]) }

(* The loop of a level can go on wherever it may be.                        *)
LEMMA LevelProceeds ==
  ASSUME NEW n \in 1..5, Level(n - 1), NEW text \in Written,
         \A r \in 1..(5 - n) : Unmatched(text, INLINE_RULES[r]),
         NEW c \in Cursors(text, INLINE_RULES[6 - n])
  PROVE  Proceeds(text, INLINE_RULES[6 - n], ApplyRules[n - 1], Cursors(text, INLINE_RULES[6 - n]), c)
<1> DEFINE rule == INLINE_RULES[6 - n]
           next == ApplyRules[n - 1]
           C == Cursors(text, rule)
           m == Find(text, rule, c)
           N == Len(text)
           lone == rule.no_adjacent_underscore
<1>1. ProperRule(rule)
  <2>1. 6 - n \in 1..5
    OBVIOUS
  <2> QED
    BY <2>1, RuleFacts
<1>2. N \in Nat /\ c \in 1..(N + 1) /\ c \in Nat /\ 1 <= c
  BY WrittenFacts DEF Cursors
<1>3. lone => (c # 1 /\ c <= N => ~Low(text[c]))
  BY DEF Cursors
<1>4. lone => \A s \in Written : next[s] = EscapeHtml(s)
  BY LastLevel
<1>5. ASSUME NEW b \in Nat, c <= b + 1, b <= N, \A k \in c..b : ~Matches(text, rule, k),
             lone => (b # 0 /\ b # N => ~Low(text[b]))
      PROVE  /\ WellFormed(next[SubSeq(text, c, b)]) /\ StartsFreely(rule.tag, c, next[SubSeq(text, c, b)])
             /\ b # N => EndsFreely(rule.tag, next[SubSeq(text, c, b)])
  <2> DEFINE s == SubSeq(text, c, b)
             h == next[s]
  <2>1. s \in Written
    BY <1>2, <1>5, PartIs
  <2>2. lone => /\ Edges(text, s, c - 1)
                /\ c # 1 /\ s # <<>> => ~Low(s[1])
                /\ b # N /\ s # <<>> => ~Low(s[Len(s)])
    BY <1>2, <1>3, <1>5, LoneEdges
  <2>3. WellFormed(h)
    BY <1>2, <1>5, <2>2, PieceIsWellFormed
  <2> HIDE DEF s
  <2>4. lone => h = EscapeHtml(s)
    BY <1>4, <2>1
  <2> HIDE DEF h
  <2>5. lone => (c # 1 /\ h # <<>> => ~Low(h[1]))
    BY <2>1, <2>2, <2>4, EscapeEdges
  <2>6. lone => (b # N /\ h # <<>> => ~Low(h[Len(h)]))
    BY <2>1, <2>2, <2>4, EscapeEdges
  <2> HIDE DEF lone, rule
  <2>7. StartsFreely(rule.tag, c, h)
    BY <1>1, <2>5, FreeIs DEF StartsFreely, lone
  <2>8. b # N => EndsFreely(rule.tag, h)
    BY <1>1, <2>6, FreeIs DEF EndsFreely, lone
  <2> QED
    BY <2>3, <2>7, <2>8 DEF h, s
<1> HIDE DEF rule, next, C, N, lone
<1>6. ASSUME m.start = 0
      PROVE  WellFormed(next[From(text, c)]) /\ StartsFreely(rule.tag, c, next[From(text, c)])
  <2>1. \A k \in c..N : ~Matches(text, rule, k)
    BY <1>1, <1>2, <1>6, FindMatchFacts DEF N
  <2>2. c <= N + 1
    BY <1>2
  <2>3. From(text, c) = SubSeq(text, c, N)
    BY DEF From, N
  <2> QED
    BY <1>2, <1>5, <2>1, <2>2, <2>3
<1>7. ASSUME m.start # 0
      PROVE  /\ m.end \in C
             /\ WellFormed(next[SubSeq(text, c, m.start - 1)])
             /\ StartsFreely(rule.tag, c, next[SubSeq(text, c, m.start - 1)])
             /\ EndsFreely(rule.tag, next[SubSeq(text, c, m.start - 1)])
             /\ Fits(rule.tag, SubSeq(text, m.content_start, m.content_end - 1))
  <2> DEFINE x == m.start
             y == m.content_start
             j == m.content_end
             z == m.end
             b == x - 1
  <2>1. /\ Within(text, c, m) /\ y < j /\ Inside(text, rule, y, j)
        /\ \A k \in c..(x - 1) : ~Matches(text, rule, k)
    BY <1>1, <1>2, <1>7, FindMatchFacts DEF N
  <2>2. /\ x \in Nat /\ y \in Nat /\ j \in Nat /\ z \in Nat /\ c <= x /\ x < y /\ y <= j
        /\ j < z /\ z <= N + 1
    BY <2>1 DEF Within, N
  <2>3. lone => (x > 1 => ~Low(text[x - 1])) /\ (z <= N => ~Low(text[z]))
    BY <1>1, <1>2, <1>7, AroundMatch DEF lone, N
  <2> HIDE DEF m, x, y, z, j
  <2>4. z \in 1..(N + 1)
    BY <1>2, <2>2
  <2>5. z \in C
    BY <2>3, <2>4 DEF C, Cursors, N, lone
  <2>6. b \in Nat /\ c <= b + 1 /\ b <= N /\ b # N /\ (b # 0 => x > 1)
    BY <1>2, <2>2
  <2>7. Fits(rule.tag, SubSeq(text, y, j - 1))
    <3>1. 1 <= y /\ j <= N + 1
      BY <1>2, <2>2
    <3> QED
      BY <1>1, <2>1, <2>2, <3>1, InsideFits DEF N
  <2>8. lone => (b # 0 /\ b # N => ~Low(text[b]))
    BY <2>3, <2>6
  <2>9. \A k \in c..b : ~Matches(text, rule, k)
    BY <2>1
  <2> HIDE DEF b
  <2>10. /\ WellFormed(next[SubSeq(text, c, b)]) /\ StartsFreely(rule.tag, c, next[SubSeq(text, c, b)])
         /\ EndsFreely(rule.tag, next[SubSeq(text, c, b)])
    BY <1>5, <2>6, <2>8, <2>9
  <2> QED
    BY <2>5, <2>7, <2>10 DEF b, x, y, j, z
<1>8. Proceeds(text, rule, next, C, c)
  BY <1>6, <1>7 DEF Proceeds
<1> QED
  BY <1>8 DEF rule, next, C

(* With one rule more, the next level.                                      *)
LEMMA LevelStep ==
  ASSUME NEW n \in 1..5, Level(n - 1)
  PROVE  Level(n)
<1> SUFFICES ASSUME NEW text \in Written, \A r \in 1..(5 - n) : Unmatched(text, INLINE_RULES[r])
             PROVE  WellFormed(ApplyRules[n][text])
  BY DEF Level
<1> DEFINE rule == INLINE_RULES[6 - n]
           next == ApplyRules[n - 1]
           C == Cursors(text, rule)
<1>1. ProperRule(rule)
  <2>1. 6 - n \in 1..5
    OBVIOUS
  <2> QED
    BY <2>1, RuleFacts
<1>2. next \in [Written -> Html]
  <2>1. n - 1 \in 0..5
    OBVIOUS
  <2> QED
    BY <2>1, LevelFacts
<1>3. \A c \in C : Proceeds(text, rule, next, C, c)
  BY LevelProceeds
<1>4. ApplyRules[n][text] = Formatted(text, rule, next)
  BY LevelFacts
<1> HIDE DEF rule, next
<1>5. rule.tag \in Tags /\ Forward(text, rule)
  BY <1>1, InlineForward DEF ProperRule
<1>6. 1 \in C /\ C \subseteq 1..(Len(text) + 1)
  <2>1. 1 \in 1..(Len(text) + 1)
    <3>1. Len(text) \in Nat
      BY WrittenFacts
    <3> QED
      BY <3>1
  <2> QED
    BY <2>1 DEF Cursors
<1> HIDE DEF C
<1>7. WellFormed(Formatted(text, rule, next))
  BY <1>2, <1>3, <1>5, <1>6, LoopIsWellFormed
<1> QED
  BY <1>4, <1>7

(* All the rules together make well-formed HTML of any text.                *)
LEMMA Levels == Level(5)
<1>1. Level(0)
  <2> SUFFICES ASSUME NEW s \in Written, \A r \in 1..(5 - 0) : Unmatched(s, INLINE_RULES[r])
               PROVE  WellFormed(ApplyRules[0][s])
    BY DEF Level
  <2>1. \A r \in 1..5 : Unmatched(s, INLINE_RULES[r])
    OBVIOUS
  <2>2. Clear(s)
    BY <2>1, RuleFacts, WrittenFacts DEF Clear, Unmatched
  <2>3. ApplyRules[0][s] = EscapeHtml(s)
    BY LevelFacts
  <2> QED
    BY <2>2, <2>3, EscapeIsWellFormed
<1>2. \A n \in 1..5 : Level(n - 1) => Level(n)
  BY LevelStep
<1>3. 1 - 1 = 0 /\ 2 - 1 = 1 /\ 3 - 1 = 2 /\ 4 - 1 = 3 /\ 5 - 1 = 4
  OBVIOUS
<1>4. 1 \in 1..5 /\ 2 \in 1..5 /\ 3 \in 1..5 /\ 4 \in 1..5 /\ 5 \in 1..5
  OBVIOUS
<1>5. Level(1)
  BY <1>1, <1>2, <1>3, <1>4
<1>6. Level(2)
  BY <1>2, <1>3, <1>4, <1>5
<1>7. Level(3)
  BY <1>2, <1>3, <1>4, <1>6
<1>8. Level(4)
  BY <1>2, <1>3, <1>4, <1>7
<1> QED
  BY <1>2, <1>3, <1>4, <1>8

(* So does format_for_telegram, with its blocks in between.                 *)
LEMMA FormatIsWellFormed ==
  ASSUME NEW text \in Written
  PROVE  WellFormed(FormatForTelegram(text))
<1> DEFINE next == ApplyRules[5]
           C == 1..(Len(text) + 1)
<1>1. next \in [Written -> Html]
  <2>1. 5 \in 0..5
    OBVIOUS
  <2> QED
    BY <2>1, LevelFacts
<1>2. \A s \in Written : WellFormed(next[s])
  <2>1. 1..(5 - 5) = {}
    OBVIOUS
  <2> QED
    BY <2>1, Levels DEF Level
<1>3. FormatForTelegram(text) = Formatted(text, CODE_BLOCK, next)
  BY RuleFacts DEF FormatForTelegram
<1>4. CODE_BLOCK.tag \in Tags /\ Forward(text, CODE_BLOCK) /\ CODE_BLOCK.tag = "pre"
  BY FenceFacts, BlockForward DEF Tags
<1>5. \A e : Free("pre", e)
  BY DEF Free
<1>6. \A c, h : StartsFreely("pre", c, h) /\ EndsFreely("pre", h) /\ Fits("pre", h)
  BY <1>5 DEF StartsFreely, EndsFreely, Fits
<1> HIDE DEF next
<1>7. ASSUME NEW c \in C PROVE Proceeds(text, CODE_BLOCK, next, C, c)
  <2> DEFINE m == Find(text, CODE_BLOCK, c)
  <2>1. From(text, c) \in Written
    BY RestOfText
  <2>2. m.start # 0 => /\ m.end \in C /\ SubSeq(text, c, m.start - 1) \in Written
    <3>1. m.start # 0 => Within(text, c, m)
      BY <1>4 DEF Forward
    <3> HIDE DEF m
    <3> QED
      BY <3>1, PartsOfText
  <2> HIDE DEF m, C
  <2> QED
    BY <1>2, <1>4, <1>6, <2>1, <2>2 DEF Proceeds, m
<1>8. 1 \in C
  <2>1. Len(text) \in Nat
    BY WrittenFacts
  <2> QED
    BY <2>1
<1> HIDE DEF C
<1>9. C \subseteq 1..(Len(text) + 1)
  BY DEF C
<1>10. WellFormed(Formatted(text, CODE_BLOCK, next))
  BY <1>1, <1>4, <1>7, <1>8, <1>9, LoopIsWellFormed
<1> QED
  BY <1>3, <1>10

(* The HTML of any text has its markup rendered and its tags in their       *)
(* lines.                                                                   *)
LEMMA FormatRenders ==
  ASSUME NEW text \in Written
  PROVE  NothingLeftUnrendered(FormatForTelegram(text)) /\ TagsStayInTheirLine(FormatForTelegram(text))
  BY FormatIsWellFormed, WellFormedMeans
=============================================================================
