--------------------------- MODULE AlgorithmsProofs ---------------------------
(***************************************************************************)
(* Theorems about Algorithms.                                              *)
(***************************************************************************)
EXTENDS Algorithms, FormattingProofs

(* What trim and the filter of blanks return.                               *)
LEMMA BlankToNoneType ==
  ASSUME NEW t \in Text \cup {None}
  PROVE  BlankToNone(t) \in Words \cup {None}
  BY TrimmedAssumption DEF BlankToNone, Words, Text

LEMMA WordsAreKept ==
  ASSUME NEW t \in Words \cup {None}
  PROVE  BlankToNone(t) = t
  BY TrimmedAssumption DEF BlankToNone, Words, Text

LEMMA PushNewType ==
  ASSUME NEW kept \in Distinct(Words), NEW w \in Words \cup {None}
  PROVE  PushNew(kept, w) \in Distinct(Words)
<1>1. CASE w = None \/ Contains(kept, w)
  BY <1>1 DEF PushNew
<1>2. CASE ~(w = None \/ Contains(kept, w))
  <2>1. Append(kept, w) \in Seq(Words) /\ IsInjective(Append(kept, w))
    BY <1>2, AppendNew DEF Distinct
  <2> QED
    BY <1>2, <2>1 DEF PushNew, Distinct
<1> QED
  BY <1>1, <1>2

(* The steps of normalize_strings.                                          *)
LEMMA NormalizeSteps ==
  ASSUME NEW values \in Seq(Text \cup {None})
  PROVE  \E kept \in [0..Len(values) -> Distinct(Words)] :
           /\ kept[0] = <<>>
           /\ \A i \in 1..Len(values) : kept[i] = PushNew(kept[i - 1], BlankToNone(values[i]))
           /\ NormalizeStrings(values) = kept[Len(values)]
<1> DEFINE n == Len(values)
           D == Distinct(Words)
           step == [x \in (1..n) \X D |-> PushNew(x[2], BlankToNone(values[x[1]]))]
           Is(f) == f = [i \in 0..n |-> IF i = 0 THEN <<>> ELSE PushNew(f[i - 1], BlankToNone(values[i]))]
           kept == CHOOSE f : Is(f)
<1>1. n \in Nat /\ <<>> \in D
  BY DEF Distinct, IsInjective
<1>2. step \in [(1..n) \X D -> D]
  <2>1. ASSUME NEW x \in (1..n) \X D PROVE PushNew(x[2], BlankToNone(values[x[1]])) \in D
    BY BlankToNoneType, PushNewType
  <2> QED
    BY <2>1
<1>3. Recursions(n, D, <<>>, step) # {}
  <2> HIDE DEF step, n, D
  <2> QED
    BY <1>1, <1>2, RecursionExists
<1>4. PICK f : Is(f)
  <2>1. PICK f \in [0..n -> D] : f[0] = <<>> /\ \A i \in 1..n : f[i] = step[<<i, f[i - 1]>>]
    <3> HIDE DEF step, D
    <3> QED
      BY <1>3 DEF Recursions
  <2>2. ASSUME NEW i \in 1..n
        PROVE  step[<<i, f[i - 1]>>] = PushNew(f[i - 1], BlankToNone(values[i]))
    <3>1. f[i - 1] \in D
      BY <1>1
    <3> HIDE DEF D
    <3> QED
      BY <3>1
  <2>3. ASSUME NEW i \in 0..n
        PROVE  f[i] = IF i = 0 THEN <<>> ELSE PushNew(f[i - 1], BlankToNone(values[i]))
    <3> HIDE DEF step, n, D
    <3>1. i = 0 \/ i \in 1..n
      BY <1>1
    <3> QED
      BY <2>1, <2>2, <3>1
  <2>4. Is(f)
    <3> HIDE DEF step, n, D
    <3> QED
      BY <2>1, <2>3
  <2> QED
    BY <2>4
<1>5. NormalizeStrings(values) = kept[n]
  BY DEF NormalizeStrings
<1>6. Is(kept)
  <2> HIDE DEF Is
  <2> QED
    BY <1>4
<1>7. /\ kept[0] = <<>>
      /\ \A i \in 1..n : kept[i] = PushNew(kept[i - 1], BlankToNone(values[i]))
  <2> HIDE DEF kept
  <2> QED
    BY <1>1, <1>6
<1> HIDE DEF kept
<1>8. \A i \in 0..n : kept[i] \in D
  <2> DEFINE S == {i \in 0..n : kept[i] \in D}
  <2>1. ASSUME NEW i \in 1..n, kept[i - 1] \in D PROVE kept[i] \in D
    BY <1>7, <2>1, BlankToNoneType, PushNewType
  <2>2. 0 \in S /\ \A i \in 1..n : i - 1 \in S => i \in S
    BY <1>1, <1>7, <2>1
  <2>3. 0..n \subseteq S
    <3> HIDE DEF S, n
    <3> QED
      BY <1>1, <2>2, UpToInduction
  <2> QED
    BY <2>3
<1>9. kept \in [0..n -> D]
  <2> HIDE DEF D
  <2> QED
    BY <1>6, <1>8
<1> QED
  BY <1>5, <1>7, <1>9

LEMMA WordTypes ==
  /\ Words \subseteq Text /\ Words \subseteq Text \cup {None}
  /\ None \notin Words /\ "" \notin Words /\ None \notin Text
  BY TrimmedAssumption DEF Words

LEMMA WordsAreTexts ==
  ASSUME NEW s \in Seq(Words)
  PROVE  s \in Seq(Text \cup {None})
  BY WordTypes, LargerElements

(* Texts that are distinct words already are left as they are.              *)
LEMMA NormalizeIdentity ==
  ASSUME NEW words \in Distinct(Words)
  PROVE  NormalizeStrings(words) = words
<1> DEFINE n == Len(words)
<1>1. words \in Seq(Words) /\ words \in Seq(Text \cup {None}) /\ n \in Nat
  BY WordsAreTexts DEF Distinct
<1>2. PICK kept \in [0..n -> Distinct(Words)] :
        /\ kept[0] = <<>>
        /\ \A i \in 1..n : kept[i] = PushNew(kept[i - 1], BlankToNone(words[i]))
        /\ NormalizeStrings(words) = kept[n]
  BY <1>1, NormalizeSteps
<1> DEFINE S == {i \in 0..n : kept[i] = SubSeq(words, 1, i)}
<1>3. 0 \in S
  <2>1. SubSeq(words, 1, 0) = <<>>
    BY <1>1
  <2>2. kept[0] = SubSeq(words, 1, 0) /\ 0 \in 0..n
    BY <1>1, <1>2, <2>1
  <2> QED
    BY <2>2
<1>4. ASSUME NEW i \in 1..n, i - 1 \in S PROVE i \in S
  <2> DEFINE k == SubSeq(words, 1, i - 1)
  <2>1. words[i] \in Words /\ words[i] # None
    <3>1. words[i] \in Words
      BY <1>1
    <3> QED
      BY <3>1, WordTypes
  <2>2. BlankToNone(words[i]) = words[i]
    BY <2>1, WordsAreKept
  <2>3. /\ Append(k, words[i]) = SubSeq(words, 1, i) /\ Len(k) = i - 1
        /\ \A j \in 1..(i - 1) : k[j] = words[j]
    BY <1>1, PrefixGrows
  <2>4. ~Contains(k, words[i])
    <3>1. ASSUME NEW j \in 1..(i - 1) PROVE words[j] # words[i]
      <4>1. j \in DOMAIN words /\ i \in DOMAIN words /\ j # i
        BY <1>1
      <4> QED
        BY <4>1 DEF Distinct, IsInjective
    <3> QED
      BY <2>3, <3>1 DEF Contains
  <2>5. kept[i] = PushNew(k, words[i])
    BY <1>2, <1>4, <2>2
  <2> HIDE DEF k
  <2> QED
    BY <2>1, <2>3, <2>4, <2>5 DEF PushNew
<1> HIDE DEF S
<1>5. 0..n \subseteq S
  <2> HIDE DEF n
  <2> QED
    BY <1>1, <1>3, <1>4, UpToInduction
<1>6. n \in S
  BY <1>1, <1>5
<1>7. SubSeq(words, 1, n) = words
  BY <1>1, WholePrefix
<1> HIDE DEF n
<1> QED
  BY <1>1, <1>2, <1>6, <1>7 DEF S

(* Normalizing words loses none of them.                                    *)
LEMMA NormalizeKeepsAll ==
  ASSUME NEW words \in Seq(Words)
  PROVE  /\ NormalizeStrings(words) \in Distinct(Words)
         /\ ToSet(NormalizeStrings(words)) = ToSet(words)
<1> DEFINE n == Len(words)
<1>1. words \in Seq(Text \cup {None}) /\ n \in Nat
  BY WordsAreTexts
<1>2. PICK kept \in [0..n -> Distinct(Words)] :
        /\ kept[0] = <<>>
        /\ \A i \in 1..n : kept[i] = PushNew(kept[i - 1], BlankToNone(words[i]))
        /\ NormalizeStrings(words) = kept[n]
  BY <1>1, NormalizeSteps
<1> DEFINE S == {i \in 0..n : ToSet(kept[i]) = ToSet(SubSeq(words, 1, i))}
<1>3. 0 \in S
  <2>1. SubSeq(words, 1, 0) = <<>>
    BY <1>1
  <2>2. kept[0] = SubSeq(words, 1, 0) /\ 0 \in 0..n
    BY <1>1, <1>2, <2>1
  <2> QED
    BY <2>2
<1>4. ASSUME NEW i \in 1..n, i - 1 \in S PROVE i \in S
  <2> DEFINE k == kept[i - 1]
             p == SubSeq(words, 1, i - 1)
  <2>1. words[i] \in Words /\ words[i] # None
    <3>1. words[i] \in Words
      BY <1>1
    <3> QED
      BY <3>1, WordTypes
  <2>2. BlankToNone(words[i]) = words[i]
    BY <2>1, WordsAreKept
  <2>3. k \in Seq(Words)
    BY <1>1, <1>2 DEF Distinct
  <2>4. Append(p, words[i]) = SubSeq(words, 1, i) /\ p \in Seq(Words)
    BY <1>1, PrefixGrows
  <2>5. kept[i] = PushNew(k, words[i])
    BY <1>2, <2>2
  <2>6. ToSet(k) = ToSet(p)
    BY <1>4
  <2> HIDE DEF k, p
  <2>7. ToSet(PushNew(k, words[i])) = ToSet(k) \cup {words[i]}
    <3>1. CASE Contains(k, words[i])
      BY <2>1, <2>3, <3>1 DEF PushNew, ToSet, Contains
    <3>2. CASE ~Contains(k, words[i])
      BY <2>1, <2>3, <3>2, ToSetOfAppend DEF PushNew
    <3> QED
      BY <3>1, <3>2
  <2>8. ToSet(SubSeq(words, 1, i)) = ToSet(p) \cup {words[i]}
    BY <2>1, <2>4, ToSetOfAppend
  <2>9. ToSet(kept[i]) = ToSet(SubSeq(words, 1, i))
    BY <2>5, <2>6, <2>7, <2>8
  <2> QED
    BY <2>9
<1> HIDE DEF S
<1>5. 0..n \subseteq S
  <2> HIDE DEF n
  <2> QED
    BY <1>1, <1>3, <1>4, UpToInduction
<1>6. n \in S
  BY <1>1, <1>5
<1>7. SubSeq(words, 1, n) = words
  BY <1>1, WholePrefix
<1> HIDE DEF n
<1> QED
  BY <1>1, <1>2, <1>6, <1>7 DEF S

-----------------------------------------------------------------------------
(* Sorting by message id and update id.                                     *)

Numbered(S) == \A x \in S : x.message_id \in Int /\ x.update_id \in Int

Before(items, i, j) ==
  \/ Earlier(items[i], items[j])
  \/ ~Earlier(items[j], items[i]) /\ i < j

Sorts(p, items) ==
  /\ p \in Bijection(DOMAIN items, DOMAIN items)
  /\ \A i, j \in DOMAIN items : i < j => Before(items, p[i], p[j])

(* What sort_by does is well defined: it permutes the items.                *)
LEMMA SortByIdFacts ==
  ASSUME NEW S, Numbered(S), NEW items \in Seq(S)
  PROVE  \E p : Sorts(p, items) /\ SortById(items) = [i \in DOMAIN items |-> items[p[i]]]
<1> DEFINE n == Len(items)
           R == {q \in (1..n) \X (1..n) : Before(items, q[1], q[2])}
           order == CHOOSE p \in Bijection(DOMAIN items, DOMAIN items) :
                      \A i, j \in DOMAIN items : i < j => Before(items, p[i], p[j])
<1>1. n \in Nat /\ DOMAIN items = 1..n /\ \A i \in 1..n : items[i] \in S
  OBVIOUS
<1> HIDE DEF n
<1>2. \A i \in 1..n : items[i].message_id \in Int /\ items[i].update_id \in Int
  BY <1>1 DEF Numbered
<1>3. \A x \in 1..n : <<x, x>> \notin R
  BY <1>2 DEF Before, Earlier
<1>4. ASSUME NEW x \in 1..n, NEW y \in 1..n, NEW z \in 1..n, Before(items, x, y), Before(items, y, z)
      PROVE  Before(items, x, z)
  BY <1>2, <1>4 DEF Before, Earlier
<1>5. ASSUME NEW x \in 1..n, NEW y \in 1..n PROVE x = y \/ Before(items, x, y) \/ Before(items, y, x)
  BY <1>2 DEF Before, Earlier
<1>6. PICK p \in Bijection(1..n, 1..n) : Increasing(p, R)
  <2>1. \A x, y, z \in 1..n : <<x, y>> \in R /\ <<y, z>> \in R => <<x, z>> \in R
    BY <1>4
  <2>2. \A x, y \in 1..n : x = y \/ <<x, y>> \in R \/ <<y, x>> \in R
    BY <1>5
  <2> HIDE DEF R
  <2> QED
    BY <1>1, <1>3, <2>1, <2>2, SortingExists
<1>7. p \in [1..n -> 1..n]
  BY <1>6 DEF Bijection, Injection
<1>8. ASSUME NEW i \in 1..n, NEW j \in 1..n, i < j PROVE Before(items, p[i], p[j])
  <2>1. <<p[i], p[j]>> \in R
    BY <1>6, <1>7, <1>8 DEF Increasing
  <2> QED
    BY <2>1
<1>9. Sorts(order, items)
  <2>1. \E q \in Bijection(DOMAIN items, DOMAIN items) :
          \A i, j \in DOMAIN items : i < j => Before(items, q[i], q[j])
    BY <1>1, <1>6, <1>8
  <2> QED
    BY <2>1 DEF Sorts
<1>10. SortById(items) = [i \in DOMAIN items |-> items[order[i]]]
  BY DEF SortById, Before
<1> QED
  BY <1>9, <1>10

(* Items that are in order stay where they are.                             *)
LEMMA SortedStays ==
  ASSUME NEW S, Numbered(S), NEW items \in Seq(S), InOrder(items)
  PROVE  SortById(items) = items
<1> DEFINE n == Len(items)
           id == [i \in 1..n |-> i]
           R == {q \in (1..n) \X (1..n) : q[1] < q[2]}
<1>1. n \in Nat /\ DOMAIN items = 1..n /\ items = [i \in 1..n |-> items[i]]
  OBVIOUS
<1>2. PICK p : Sorts(p, items) /\ SortById(items) = [i \in DOMAIN items |-> items[p[i]]]
  BY SortByIdFacts
<1> HIDE DEF n
<1>3. p \in [1..n -> 1..n] /\ \A i, j \in 1..n : p[i] = p[j] => i = j
  BY <1>1, <1>2 DEF Sorts, Bijection, Injection, IsInjective
<1>4. ASSUME NEW i \in 1..n, NEW j \in 1..n, i < j PROVE p[i] < p[j]
  <2>1. Before(items, p[i], p[j]) /\ p[i] # p[j] /\ p[i] \in 1..n /\ p[j] \in 1..n
    BY <1>1, <1>2, <1>3, <1>4 DEF Sorts
  <2>2. p[j] < p[i] => ~Earlier(items[p[i]], items[p[j]])
    BY <1>1, <2>1 DEF InOrder
  <2> QED
    BY <1>1, <2>1, <2>2 DEF Before
<1>5. p \in Seq(1..n) /\ id \in Seq(1..n)
  BY <1>1, <1>3, FunctionIsSeq
<1>6. Increasing(p, R) /\ Increasing(id, R)
  BY <1>1, <1>3, <1>4 DEF Increasing
<1>7. ToSet(p) = 1..n
  <2>1. \A y \in 1..n : \E x \in 1..n : p[x] = y
    BY <1>1, <1>2 DEF Sorts, Bijection, Surjection
  <2>2. DOMAIN p = 1..n /\ \A x \in 1..n : p[x] \in 1..n
    BY <1>3
  <2> QED
    BY <2>1, <2>2 DEF ToSet
<1>8. ToSet(id) = 1..n
  BY DEF ToSet
<1>9. p = id
  <2>1. \A a, b \in 1..n : ~(<<a, b>> \in R /\ <<b, a>> \in R)
    BY <1>1
  <2> HIDE DEF R, id
  <2> QED
    BY <1>5, <1>6, <1>7, <1>8, <2>1, SortedUnique
<1> QED
  BY <1>1, <1>2, <1>9

-----------------------------------------------------------------------------
(* InboundMessage::new, and the message as JSON.                            *)

RawMessage ==
  [ chat_id : Text, user_id : Text, message_id : Int, update_id : Int,
    text : Text \cup {None}, media_group_id : Text \cup {None},
    image_file_ids : Seq(Words), reply_to_text : Text \cup {None},
    reply_to_image_file_ids : Seq(Words), processing_updates : Seq(UpdateRef) ]

Refs(m) ==
  SortById(IF m.processing_updates = <<>>
           THEN <<[update_id |-> m.update_id, message_id |-> m.message_id]>>
           ELSE m.processing_updates)

LEMMA NewFields ==
  ASSUME NEW m \in RawMessage
  PROVE  New(m) = [ chat_id |-> m.chat_id, user_id |-> m.user_id,
                    message_id |-> m.message_id, update_id |-> m.update_id,
                    text |-> BlankToNone(m.text), media_group_id |-> BlankToNone(m.media_group_id),
                    image_file_ids |-> NormalizeStrings(m.image_file_ids),
                    reply_to_text |-> BlankToNone(m.reply_to_text),
                    reply_to_image_file_ids |-> NormalizeStrings(m.reply_to_image_file_ids),
                    processing_updates |-> Refs(m) ]
<1>1. /\ DOMAIN New(m) = {"chat_id", "user_id", "message_id", "update_id", "text", "media_group_id",
           "image_file_ids", "reply_to_text", "reply_to_image_file_ids", "processing_updates"}
      /\ New(m) = [x \in DOMAIN New(m) |-> New(m)[x]]
  BY DEF New, RawMessage
<1>2. /\ New(m).chat_id = m.chat_id /\ New(m).user_id = m.user_id
      /\ New(m).message_id = m.message_id /\ New(m).update_id = m.update_id
  BY DEF New, RawMessage
<1>3. /\ New(m).text = BlankToNone(m.text) /\ New(m).media_group_id = BlankToNone(m.media_group_id)
      /\ New(m).image_file_ids = NormalizeStrings(m.image_file_ids)
  BY DEF New, RawMessage
<1>4. /\ New(m).reply_to_text = BlankToNone(m.reply_to_text)
      /\ New(m).reply_to_image_file_ids = NormalizeStrings(m.reply_to_image_file_ids)
      /\ New(m).processing_updates = Refs(m)
  BY DEF New, RawMessage, Refs
<1> QED
  BY <1>1, <1>2, <1>3, <1>4

LEMMA RefsAreNumbered == Numbered(UpdateRef)
  BY DEF Numbered, UpdateRef

LEMMA InboundFields ==
  ASSUME NEW m \in InboundMessage
  PROVE  /\ m \in RawMessage
         /\ m = [ chat_id |-> m.chat_id, user_id |-> m.user_id,
                  message_id |-> m.message_id, update_id |-> m.update_id,
                  text |-> m.text, media_group_id |-> m.media_group_id,
                  image_file_ids |-> m.image_file_ids, reply_to_text |-> m.reply_to_text,
                  reply_to_image_file_ids |-> m.reply_to_image_file_ids,
                  processing_updates |-> m.processing_updates ]
<1>1. \A d \in Distinct(Words) : d \in Seq(Words)
  BY DEF Distinct
<1> QED
  BY <1>1, WordTypes DEF InboundMessage, RawMessage

(* A message in its normal form is left as it is.                           *)
LEMMA NewOfInbound ==
  ASSUME NEW m \in InboundMessage
  PROVE  New(m) = m
<1>1. /\ m.text \in Words \cup {None} /\ m.media_group_id \in Words \cup {None}
      /\ m.reply_to_text \in Words \cup {None}
      /\ m.image_file_ids \in Distinct(Words) /\ m.reply_to_image_file_ids \in Distinct(Words)
      /\ m.processing_updates \in Seq(UpdateRef) /\ m.processing_updates # <<>>
      /\ InOrder(m.processing_updates)
  BY DEF InboundMessage
<1>2. /\ BlankToNone(m.text) = m.text /\ BlankToNone(m.media_group_id) = m.media_group_id
      /\ BlankToNone(m.reply_to_text) = m.reply_to_text
  BY <1>1, WordsAreKept
<1>3. /\ NormalizeStrings(m.image_file_ids) = m.image_file_ids
      /\ NormalizeStrings(m.reply_to_image_file_ids) = m.reply_to_image_file_ids
  BY <1>1, NormalizeIdentity
<1>4. Refs(m) = m.processing_updates
  BY <1>1, SortedStays, RefsAreNumbered DEF Refs
<1> QED
  BY <1>2, <1>3, <1>4, NewFields, InboundFields

(* The references of a message are read back from its JSON.                 *)
LEMMA RefsSurvive ==
  ASSUME NEW json, DOMAIN json = {"chatId", "userId", "messageId", "updateId", "text", "mediaGroupId",
           "imageFileIds", "replyToText", "replyToImageFileIds", "processingUpdates"},
         json.processingUpdates \in Seq(UpdateRef)
  PROVE  ProcessingUpdates(json) = json.processingUpdates
<1> DEFINE updates == json.processingUpdates
<1>1. Field(json, "processingUpdates", <<>>) = updates
  BY DEF Field
<1>2. /\ updates = [i \in DOMAIN updates |-> updates[i]]
      /\ \A i \in DOMAIN updates : updates[i] \in UpdateRef
  OBVIOUS
<1>3. ASSUME NEW i \in DOMAIN updates
      PROVE  updates[i] = [update_id |-> Field(updates[i], "update_id", 0),
                           message_id |-> Field(updates[i], "message_id", 0)]
  <2>1. updates[i] \in UpdateRef
    BY <1>2
  <2> QED
    BY <2>1 DEF UpdateRef, Field
<1> QED
  BY <1>1, <1>2, <1>3 DEF ProcessingUpdates

(* A message that is stored as JSON is read back as it was.                 *)
LEMMA JsonSurvives ==
  ASSUME NEW m \in InboundMessage
  PROVE  FromJson(ToJson(m)) = m
<1> DEFINE json == ToJson(m)
<1>1. /\ DOMAIN json = {"chatId", "userId", "messageId", "updateId", "text", "mediaGroupId",
           "imageFileIds", "replyToText", "replyToImageFileIds", "processingUpdates"}
      /\ json.processingUpdates = m.processing_updates /\ json.text = m.text
      /\ json.chatId = m.chat_id /\ json.userId = m.user_id
      /\ json.messageId = m.message_id /\ json.updateId = m.update_id
      /\ json.mediaGroupId = m.media_group_id /\ json.imageFileIds = m.image_file_ids
      /\ json.replyToText = m.reply_to_text /\ json.replyToImageFileIds = m.reply_to_image_file_ids
  BY DEF ToJson
<1> HIDE DEF json
<1>2. m.processing_updates \in Seq(UpdateRef)
  BY DEF InboundMessage
<1>3. ProcessingUpdates(json) = m.processing_updates
  BY <1>1, <1>2, RefsSurvive
<1>4. FromJson(json) = New(m)
  BY <1>1, <1>3, InboundFields DEF FromJson, Field
<1> QED
  BY <1>4, NewOfInbound DEF json

-----------------------------------------------------------------------------
(* The parser.                                                              *)

Words0 == Words \cup {None}

LEMMA OrElseType ==
  ASSUME NEW a \in Words0, NEW b \in Words0
  PROVE  OrElse(a, b) \in Words0 /\ (a # None \/ b # None => OrElse(a, b) # None)
  BY DEF OrElse, Words0

(* The photo that is taken is one of those sent.                            *)
LEMMA LargestIsSent ==
  ASSUME NEW photos \in Seq(PhotoSize), photos # <<>>
  PROVE  Largest(photos) \in ToSet(photos)
<1> DEFINE n == Len(photos)
           size == [i \in 1..n |-> SizeOf(photos[i])]
           S == { i \in DOMAIN photos : \A q \in ToSet(photos) : SizeOf(q) <= SizeOf(photos[i]) }
<1>1. n \in Nat \ {0} /\ DOMAIN photos = 1..n /\ \A i \in 1..n : photos[i] \in PhotoSize
  OBVIOUS
<1> HIDE DEF n
<1>2. ASSUME NEW i \in 1..n PROVE SizeOf(photos[i]) \in Nat
  BY <1>1 DEF SizeOf, OrElse, PhotoSize
<1>3. size \in [1..n -> Nat]
  BY <1>2
<1>4. PICK i \in 1..n : \A j \in 1..n : size[j] <= size[i]
  <2> HIDE DEF size
  <2> QED
    BY <1>1, <1>3, LargestExists
<1>5. i \in S
  <2>1. ASSUME NEW q \in ToSet(photos) PROVE SizeOf(q) <= SizeOf(photos[i])
    <3>1. PICK j \in 1..n : q = photos[j]
      BY <1>1 DEF ToSet
    <3> QED
      BY <1>4, <3>1
  <2> QED
    BY <1>1, <2>1
<1>6. S \subseteq Nat /\ S # {}
  BY <1>1, <1>5
<1> HIDE DEF S
<1>7. Min(S) \in S
  BY <1>6, MinFact
<1> QED
  BY <1>7 DEF Largest, S, ToSet

LEMMA FileIdType ==
  ASSUME NEW file, file.file_id \in FileIds
  PROVE  FileId(file) \in Words0
  BY DEF FileId, FileIds, Words, Words0

LEMMA PhotoFileIdFacts ==
  ASSUME NEW Q, NEW message \in TelegramMessage(Q)
  PROVE  /\ PhotoFileId(message) \in Words0
         /\ PhotoFileId(message) # None => HasPhoto(message)
         /\ HasPhoto(message) /\ (\A p \in ToSet(message.photo) : FileId(p) # None)
              => PhotoFileId(message) # None
<1>1. CASE HasPhoto(message)
  <2>1. message.photo \in Seq(PhotoSize) /\ message.photo # <<>>
    BY <1>1 DEF HasPhoto, TelegramMessage
  <2>2. Largest(message.photo) \in ToSet(message.photo)
    BY <2>1, LargestIsSent
  <2>3. Largest(message.photo) \in PhotoSize
    BY <2>1, <2>2 DEF ToSet
  <2>4. FileId(Largest(message.photo)) \in Words0
    BY <2>3, FileIdType DEF PhotoSize
  <2> QED
    BY <1>1, <2>2, <2>4 DEF PhotoFileId
<1>2. CASE ~HasPhoto(message)
  BY <1>2 DEF PhotoFileId, Words0
<1> QED
  BY <1>1, <1>2

LEMMA DocumentFileIdType ==
  ASSUME NEW Q, NEW message \in TelegramMessage(Q)
  PROVE  ImageDocumentFileId(message) \in Words0
<1>1. CASE message.document # None
  <2>1. message.document \in Document
    BY <1>1 DEF TelegramMessage
  <2> QED
    BY <2>1, FileIdType DEF Document, ImageDocumentFileId, Words0
<1>2. CASE message.document = None
  BY <1>2 DEF ImageDocumentFileId, Words0
<1> QED
  BY <1>1, <1>2

LEMMA ImageFileIdsFacts ==
  ASSUME NEW Q, NEW message \in TelegramMessage(Q)
  PROVE  /\ ImageFileIds(message) \in Distinct(Words)
         /\ ImageFileIds(message) # <<>> <=> (PhotoFileId(message) # None \/ ImageDocumentFileId(message) # None)
<1> DEFINE id == OrElse(ImageDocumentFileId(message), PhotoFileId(message))
<1>1. id \in Words0 /\ (id # None <=> PhotoFileId(message) # None \/ ImageDocumentFileId(message) # None)
  BY PhotoFileIdFacts, DocumentFileIdType DEF OrElse, Words0
<1> HIDE DEF id
<1>2. ImageFileIds(message) = IF id = None THEN <<>> ELSE <<id>>
  BY DEF ImageFileIds, id
<1>3. <<>> \in Distinct(Words)
  BY DEF Distinct, IsInjective
<1>4. id # None => <<id>> \in Distinct(Words)
  BY <1>1 DEF Distinct, IsInjective, Words0
<1> QED
  BY <1>1, <1>2, <1>3, <1>4

LEMMA TextOfType ==
  ASSUME NEW Q, NEW message \in TelegramMessage(Q)
  PROVE  /\ TextOf(message) \in Words0
         /\ BlankToNone(message.text) # None => TextOf(message) # None
<1>1. BlankToNone(message.text) \in Words0 /\ BlankToNone(message.caption) \in Words0
  BY BlankToNoneType DEF TelegramMessage, Words0
<1> QED
  BY <1>1, OrElseType DEF TextOf

Quotable == TelegramMessage({None}) \cup {None}

LEMMA ReplyToTextFacts ==
  ASSUME NEW message \in TelegramMessage(Quotable)
  PROVE  /\ ReplyToText(message) \in Words0
         /\ message.reply_to_message # None /\ ImageFileIds(message.reply_to_message) # <<>>
              => ReplyToText(message) # None
<1> DEFINE reply == message.reply_to_message
           kind == IF HasPhoto(reply) THEN "REPLY_TO_IMAGE"
                   ELSE IF ImageDocumentFileId(reply) # None THEN "REPLY_TO_IMAGE_DOCUMENT" ELSE None
<1>1. CASE reply # None
  <2>1. reply \in TelegramMessage({None})
    BY <1>1 DEF TelegramMessage, Quotable
  <2>2. TextOf(reply) \in Words0
    BY <2>1, TextOfType
  <2>3. kind \in Words0
    BY TrimmedAssumption DEF Words0
  <2>4. ImageFileIds(reply) # <<>> => kind # None
    <3>1. {"REPLY_TO_IMAGE", "REPLY_TO_IMAGE_DOCUMENT"} \subseteq Words
      BY TrimmedAssumption
    <3>2. None \notin Words
      BY WordTypes
    <3> QED
      BY <2>1, <3>1, <3>2, ImageFileIdsFacts, PhotoFileIdFacts
  <2>5. ReplyToText(message) = OrElse(TextOf(reply), kind)
    BY <1>1 DEF ReplyToText
  <2> HIDE DEF kind, reply
  <2> QED
    BY <2>2, <2>3, <2>4, <2>5, OrElseType DEF reply
<1>2. CASE reply = None
  BY <1>2 DEF ReplyToText, Words0
<1> QED
  BY <1>1, <1>2

(* What the parser makes of an update that it accepts: every text and every *)
(* list is in its normal form already.                                      *)
LEMMA ParseFields ==
  ASSUME NEW u \in Update, Complete(u), Supported(u.message)
  PROVE  /\ Parse(u) \in InboundMessage
         /\ Parse(u).chat_id = u.message.chat
         /\ Parse(u).text = TextOf(u.message)
         /\ Parse(u).image_file_ids = ImageFileIds(u.message)
         /\ Parse(u).reply_to_text = ReplyToText(u.message)
         /\ Parse(u).reply_to_image_file_ids # <<>>
              => u.message.reply_to_message # None /\ ImageFileIds(u.message.reply_to_message) # <<>>
<1> DEFINE message == u.message
           reply == message.reply_to_message
           quoted == IF reply = None THEN <<>> ELSE ImageFileIds(reply)
           raw == [ chat_id |-> message.chat, user_id |-> message.from,
                    message_id |-> message.message_id, update_id |-> u.update_id,
                    text |-> TextOf(message), media_group_id |-> BlankToNone(message.media_group_id),
                    image_file_ids |-> ImageFileIds(message),
                    reply_to_text |-> ReplyToText(message),
                    reply_to_image_file_ids |-> quoted,
                    processing_updates |-> <<>> ]
           ref == [update_id |-> u.update_id, message_id |-> message.message_id]
<1>1. Parse(u) = New(raw)
  BY DEF Parse
<1>2. message \in TelegramMessage(Quotable)
  BY DEF Complete, Update, Quotable
<1>3. /\ message.chat \in Text /\ message.from \in Text /\ message.message_id \in Int
      /\ u.update_id \in Int /\ message.media_group_id \in Text \cup {None}
  BY <1>2 DEF Complete, Update, TelegramMessage
<1>4. /\ TextOf(message) \in Words0 /\ BlankToNone(message.media_group_id) \in Words0
      /\ ReplyToText(message) \in Words0
  BY <1>2, <1>3, TextOfType, ReplyToTextFacts, BlankToNoneType DEF Words0
<1>5. ImageFileIds(message) \in Distinct(Words)
  BY <1>2, ImageFileIdsFacts
<1>6. quoted \in Distinct(Words)
  <2>1. CASE reply = None
    BY <2>1 DEF Distinct, IsInjective
  <2>2. CASE reply # None
    <3>1. reply \in TelegramMessage({None})
      BY <1>2, <2>2 DEF TelegramMessage, Quotable
    <3> QED
      BY <2>2, <3>1, ImageFileIdsFacts
  <2> QED
    BY <2>1, <2>2
<1> HIDE DEF message, reply, quoted
<1>7. raw \in RawMessage
  <2>1. \A w \in Words0 : w \in Text \cup {None}
    BY WordTypes DEF Words0
  <2>2. ImageFileIds(message) \in Seq(Words) /\ quoted \in Seq(Words)
    BY <1>5, <1>6 DEF Distinct
  <2> QED
    BY <1>3, <1>4, <2>1, <2>2 DEF RawMessage
<1>8. Refs(raw) = <<ref>> /\ <<ref>> \in Seq(UpdateRef) /\ InOrder(<<ref>>)
  <2>1. ref \in UpdateRef
    BY <1>3 DEF UpdateRef
  <2> HIDE DEF ref
  <2>2. <<ref>> \in Seq(UpdateRef) /\ DOMAIN <<ref>> = 1..1
    BY <2>1
  <2>3. InOrder(<<ref>>)
    BY <2>2 DEF InOrder
  <2>4. SortById(<<ref>>) = <<ref>>
    BY <2>2, <2>3, SortedStays, RefsAreNumbered
  <2> QED
    BY <2>2, <2>3, <2>4 DEF Refs, ref
<1>9. New(raw) = [ raw EXCEPT !.processing_updates = <<ref>> ]
  <2>1. /\ BlankToNone(raw.text) = raw.text /\ BlankToNone(raw.media_group_id) = raw.media_group_id
        /\ BlankToNone(raw.reply_to_text) = raw.reply_to_text
    BY <1>4, WordsAreKept DEF Words0
  <2>2. /\ NormalizeStrings(raw.image_file_ids) = raw.image_file_ids
        /\ NormalizeStrings(raw.reply_to_image_file_ids) = raw.reply_to_image_file_ids
    BY <1>5, <1>6, NormalizeIdentity
  <2> HIDE DEF ref
  <2> QED
    BY <1>7, <1>8, <2>1, <2>2, NewFields
<1>10. New(raw) \in InboundMessage
  <2> DEFINE refs == <<ref>>
  <2>1. refs \in { rs \in Seq(UpdateRef) : rs # <<>> /\ InOrder(rs) }
    BY <1>8
  <2>2. New(raw) = [ raw EXCEPT !.processing_updates = refs ]
    BY <1>9
  <2> HIDE DEF ref, refs
  <2> QED
    BY <1>3, <1>4, <1>5, <1>6, <2>1, <2>2 DEF InboundMessage, Words0
<1> QED
  BY <1>1, <1>9, <1>10 DEF message, reply, quoted

LEMMA ParseType ==
  ASSUME NEW u \in Update
  PROVE  Parse(u) \in InboundMessage \cup {None}
  BY ParseFields DEF Parse

LEMMA MessagesAreNotNone ==
  ASSUME NEW u \in Update, Complete(u), Supported(u.message)
  PROVE  Parse(u) # None
  BY ParseFields, AlgorithmsAssumption

LEMMA NobodyIsIgnoredHolds ==
  ASSUME NEW u \in Update
  PROVE  NobodyIsIgnored(u, Handle(Parse(u), u))
<1> DEFINE message == u.message
           parsed == Parse(u)
           handled == Handle(parsed, u)
<1>1. CASE Complete(u) /\ Supported(message)
  <2>1. parsed # None /\ parsed.chat_id = message.chat /\ message.chat # None
    BY <1>1, ParseFields, MessagesAreNotNone DEF Complete
  <2>2. handled.outcome # "dropped"
    BY <2>1 DEF Handle
  <2>3. ASSUME \/ BlankToNone(message.text) # None
               \/ HasPhoto(message) /\ \A p \in ToSet(message.photo) : FileId(p) # None
        PROVE  handled.outcome = "goes on"
    <3>1. message \in TelegramMessage(Quotable)
      BY <1>1 DEF Complete, Update, Quotable
    <3>2. TextOf(message) # None \/ ImageFileIds(message) # <<>>
      BY <2>3, <3>1, TextOfType, PhotoFileIdFacts, ImageFileIdsFacts
    <3>3. ~Unsupported(parsed)
      BY <1>1, <3>2, ParseFields DEF Unsupported
    <3> QED
      BY <2>1, <3>3 DEF Handle
  <2> QED
    BY <2>2, <2>3 DEF NobodyIsIgnored
<1>2. CASE ~(Complete(u) /\ Supported(message))
  <2>1. parsed = None
    BY <1>2 DEF Parse
  <2>2. message # None /\ message.chat # None => handled.outcome # "dropped"
    BY <2>1 DEF Handle
  <2>3. ASSUME Complete(u),
               \/ BlankToNone(message.text) # None
               \/ HasPhoto(message) /\ \A p \in ToSet(message.photo) : FileId(p) # None
        PROVE  FALSE
    BY <1>2, <2>3 DEF Supported, BlankToNone
  <2> QED
    BY <2>2, <2>3 DEF NobodyIsIgnored
<1> QED
  BY <1>1, <1>2

LEMMA QuotedImagesAreExplainedHolds ==
  ASSUME NEW u \in Update
  PROVE  QuotedImagesAreExplained(Parse(u))
<1>1. CASE Parse(u) # None
  <2>1. Complete(u) /\ Supported(u.message)
    BY <1>1 DEF Parse
  <2>2. u.message \in TelegramMessage(Quotable)
    BY <2>1 DEF Complete, Update, Quotable
  <2> QED
    BY <2>1, <2>2, ParseFields, ReplyToTextFacts DEF QuotedImagesAreExplained
<1>2. CASE Parse(u) = None
  BY <1>2 DEF QuotedImagesAreExplained
<1> QED
  BY <1>1, <1>2

-----------------------------------------------------------------------------
(* The merge of an album.                                                   *)

Ascending(s) == \A i, j \in DOMAIN s : i < j => s[i].message_id < s[j].message_id

LEMMA MessagesAreNumbered == Numbered(InboundMessage)
  BY DEF Numbered, InboundMessage

(* The photos of an album in the order they were sent.                      *)
LEMMA SortedAlbum ==
  ASSUME NEW photos \in Album
  PROVE  /\ SortById(photos) \in Seq(InboundMessage) /\ Len(SortById(photos)) = Len(photos)
         /\ ToSet(SortById(photos)) = ToSet(photos)
         /\ Ascending(SortById(photos))
<1> DEFINE n == Len(photos)
<1>1. photos \in Seq(InboundMessage)
  BY DEF Album
<1>2. n \in Nat /\ DOMAIN photos = 1..n /\ \A i \in 1..n : photos[i] \in InboundMessage
  BY <1>1
<1>3. PICK p : Sorts(p, photos) /\ SortById(photos) = [i \in DOMAIN photos |-> photos[p[i]]]
  BY <1>1, SortByIdFacts, MessagesAreNumbered
<1> DEFINE s == [i \in 1..n |-> photos[p[i]]]
<1> HIDE DEF n
<1>4. p \in [1..n -> 1..n] /\ (\A i, j \in 1..n : p[i] = p[j] => i = j) /\ \A y \in 1..n : \E x \in 1..n : p[x] = y
  BY <1>2, <1>3 DEF Sorts, Bijection, Injection, Surjection, IsInjective
<1>5. s \in [1..n -> InboundMessage]
  BY <1>2, <1>4
<1>6. \A i \in 1..n : s[i] = photos[p[i]] /\ p[i] \in 1..n
  BY <1>4
<1>7. s \in Seq(InboundMessage) /\ Len(s) = n /\ DOMAIN s = 1..n
  <2> HIDE DEF s
  <2> QED
    BY <1>2, <1>5, FunctionIsSeq
<1>8. SortById(photos) = s
  BY <1>2, <1>3
<1> HIDE DEF s
<1>9. ToSet(s) = ToSet(photos)
  <2>1. ToSet(s) \subseteq ToSet(photos)
    BY <1>2, <1>6, <1>7 DEF ToSet
  <2>2. ASSUME NEW y \in 1..n PROVE photos[y] \in ToSet(s)
    <3>1. PICK x \in 1..n : p[x] = y
      BY <1>4
    <3> QED
      BY <1>6, <1>7, <3>1 DEF ToSet
  <2> QED
    BY <1>2, <2>1, <2>2 DEF ToSet
<1>10. ASSUME NEW i \in 1..n, NEW j \in 1..n, i < j PROVE s[i].message_id < s[j].message_id
  <2>1. p[i] \in 1..n /\ p[j] \in 1..n /\ p[i] # p[j]
    <3>1. i # j
      BY <1>2, <1>10
    <3> QED
      BY <1>4, <3>1
  <2>2. photos[p[i]].message_id # photos[p[j]].message_id
    BY <1>2, <2>1 DEF Album
  <2>3. Before(photos, p[i], p[j])
    BY <1>2, <1>3, <1>10 DEF Sorts
  <2>4. photos[p[i]].message_id \in Int /\ photos[p[j]].message_id \in Int
    BY <1>2, <2>1, MessagesAreNumbered DEF Numbered
  <2>5. photos[p[i]].message_id < photos[p[j]].message_id
    BY <2>2, <2>3, <2>4 DEF Before, Earlier
  <2> QED
    BY <1>6, <2>5
<1>11. Ascending(s)
  BY <1>7, <1>10 DEF Ascending
<1> QED
  BY <1>7, <1>8, <1>9, <1>11 DEF n

(* There is one order in which they were sent, and merging in it is merging *)
(* in any.                                                                  *)
LEMMA MergeIgnoresArrivalHolds ==
  ASSUME NEW photos \in Album
  PROVE  MergeIgnoresArrival(photos, Merge(photos))
<1> DEFINE n == Len(photos)
           s == SortById(photos)
           S == ToSet(photos)
           sent == CHOOSE q \in SetToSeqs(S) : \A i, j \in DOMAIN q : i < j => q[i].message_id < q[j].message_id
           R == {q \in InboundMessage \X InboundMessage : q[1].message_id < q[2].message_id}
<1>1. n \in Nat /\ S \subseteq InboundMessage
  <2>1. photos \in Seq(InboundMessage)
    BY DEF Album
  <2> QED
    BY <2>1 DEF ToSet
<1>2. s \in Seq(InboundMessage) /\ Len(s) = n /\ ToSet(s) = S /\ Ascending(s)
  BY SortedAlbum
<1>3. \A m \in InboundMessage : m.message_id \in Int
  BY MessagesAreNumbered DEF Numbered
<1> HIDE DEF n, s, S
<1>4. DOMAIN s = 1..n /\ s \in [1..n -> S]
  <2>1. DOMAIN s = 1..n /\ s = [i \in 1..n |-> s[i]]
    BY <1>2
  <2> QED
    BY <1>2, <2>1 DEF ToSet
<1>5. \A i, j \in 1..n : i # j => s[i] # s[j]
  <2>1. ASSUME NEW i \in 1..n, NEW j \in 1..n, i < j PROVE s[i] # s[j]
    <3>1. s[i].message_id < s[j].message_id /\ s[i].message_id \in Int
      BY <1>1, <1>3, <1>4, <1>2, <2>1 DEF Ascending
    <3> QED
      BY <3>1
  <2> QED
    BY <1>1, <2>1
<1>6. IsFiniteSet(S) /\ Cardinality(S) = n
  <2>1. s \in Bijection(1..n, S)
    <3>1. s \in Injection(1..n, S)
      BY <1>4, <1>5 DEF Injection, IsInjective
    <3>2. s \in Surjection(1..n, S)
      BY <1>2, <1>4 DEF Surjection, ToSet
    <3> QED
      BY <3>1, <3>2 DEF Bijection
  <2>2. ExistsBijection(1..n, S)
    BY <2>1 DEF ExistsBijection
  <2>3. IsFiniteSet(1..n) /\ Cardinality(1..n) = n
    BY <1>1, FS_Interval
  <2> QED
    BY <2>2, <2>3, FS_Bijection
<1>7. s \in SetToSeqs(S)
  BY <1>4, <1>5, <1>6 DEF SetToSeqs
<1>8. sent \in SetToSeqs(S) /\ Ascending(sent)
  <2>1. \A i, j \in DOMAIN s : i < j => s[i].message_id < s[j].message_id
    BY <1>2 DEF Ascending
  <2> QED
    BY <1>7, <2>1 DEF Ascending
<1>9. MergeIgnoresArrival(photos, Merge(photos)) <=> Merge(photos) = Merge(sent)
  BY DEF MergeIgnoresArrival, S
<1> HIDE DEF sent
<1>10. sent \in [1..n -> S] /\ \A i, j \in 1..n : sent[i] = sent[j] => i = j
  BY <1>6, <1>8 DEF SetToSeqs
<1>11. sent \in Seq(InboundMessage) /\ DOMAIN sent = 1..n
  <2>1. sent \in [1..n -> InboundMessage]
    BY <1>1, <1>10
  <2> QED
    BY <1>1, <2>1, FunctionIsSeq
<1>12. ToSet(sent) = S
  <2>1. sent \in Injection(1..n, S)
    BY <1>10, <1>11 DEF Injection, IsInjective
  <2>2. Cardinality(1..n) = n
    BY <1>1, FS_Interval
  <2>3. sent \in Surjection(1..n, S)
    BY <1>6, <2>1, <2>2, FS_Injection
  <2> QED
    BY <1>10, <2>3 DEF Surjection, ToSet
<1>13. Increasing(s, R) /\ Increasing(sent, R)
  <2>1. \A i \in 1..n : s[i] \in InboundMessage /\ sent[i] \in InboundMessage
    BY <1>1, <1>4, <1>10
  <2> QED
    BY <1>2, <1>4, <1>8, <1>11, <2>1 DEF Increasing, Ascending
<1>14. \A a, b \in InboundMessage : ~(<<a, b>> \in R /\ <<b, a>> \in R)
  BY <1>3
<1>15. s = sent
  <2> HIDE DEF R
  <2> QED
    BY <1>2, <1>11, <1>12, <1>13, <1>14, SortedUnique
<1>16. InOrder(sent)
  <2>1. ASSUME NEW i \in 1..n, NEW j \in 1..n, i < j PROVE ~Earlier(sent[j], sent[i])
    <3>1. sent[i].message_id < sent[j].message_id
      BY <1>8, <1>11, <2>1 DEF Ascending
    <3>2. sent[i].message_id \in Int /\ sent[j].message_id \in Int
      BY <1>1, <1>3, <1>10
    <3> QED
      BY <3>1, <3>2 DEF Earlier
  <2> QED
    BY <1>11, <2>1 DEF InOrder
<1>17. SortById(sent) = sent
  BY <1>11, <1>16, SortedStays, MessagesAreNumbered
<1> QED
  BY <1>9, <1>15, <1>17 DEF Merge, s

(* The merged message is in its normal form, claims the updates of all its  *)
(* photos, its own first, and shows every image once.                       *)
LEMMA MergeFields ==
  ASSUME NEW photos \in Album
  PROVE  Merge(photos) \in InboundMessage /\ MergeCoversAlbum(photos, Merge(photos))
<1> DEFINE n == Len(photos)
           s == SortById(photos)
           worded == { i \in DOMAIN s : s[i].text # None }
           text == IF worded = {} THEN None ELSE s[Min(worded)].text
           images == FlattenSeq([i \in DOMAIN s |-> s[i].image_file_ids])
           ref == [i \in 1..n |-> [update_id |-> s[i].update_id, message_id |-> s[i].message_id]]
           raw == [ chat_id |-> s[1].chat_id, user_id |-> s[1].user_id,
                    message_id |-> s[1].message_id, update_id |-> s[1].update_id,
                    text |-> text, media_group_id |-> s[1].media_group_id,
                    image_file_ids |-> images, reply_to_text |-> None,
                    reply_to_image_file_ids |-> <<>>, processing_updates |-> ref ]
           merged == [ chat_id |-> s[1].chat_id, user_id |-> s[1].user_id,
                       message_id |-> s[1].message_id, update_id |-> s[1].update_id,
                       text |-> text, media_group_id |-> s[1].media_group_id,
                       image_file_ids |-> NormalizeStrings(images), reply_to_text |-> None,
                       reply_to_image_file_ids |-> <<>>, processing_updates |-> ref ]
<1>1. photos \in Seq(InboundMessage) /\ photos # <<>>
  BY DEF Album
<1>2. s \in Seq(InboundMessage) /\ Len(s) = n /\ ToSet(s) = ToSet(photos) /\ Ascending(s)
  BY SortedAlbum
<1>3. n \in Nat \ {0}
  BY <1>1
<1> HIDE DEF n, s
<1>4. DOMAIN s = 1..n /\ 1 \in 1..n /\ \A i \in 1..n : s[i] \in InboundMessage
  BY <1>2, <1>3
<1>5. Merge(photos) = New(raw)
  <2>1. [s[1] EXCEPT !.text = text, !.image_file_ids = images, !.reply_to_text = None,
                     !.reply_to_image_file_ids = <<>>, !.processing_updates = ref] = raw
    <3>1. s[1] = [ chat_id |-> s[1].chat_id, user_id |-> s[1].user_id,
                   message_id |-> s[1].message_id, update_id |-> s[1].update_id,
                   text |-> s[1].text, media_group_id |-> s[1].media_group_id,
                   image_file_ids |-> s[1].image_file_ids, reply_to_text |-> s[1].reply_to_text,
                   reply_to_image_file_ids |-> s[1].reply_to_image_file_ids,
                   processing_updates |-> s[1].processing_updates ]
      BY <1>4, InboundFields
    <3> DEFINE e == [s[1] EXCEPT !.text = text, !.image_file_ids = images, !.reply_to_text = None,
                                 !.reply_to_image_file_ids = <<>>, !.processing_updates = ref]
    <3> HIDE DEF text, images, ref
    <3>2. /\ DOMAIN e = DOMAIN s[1] /\ e = [x \in DOMAIN e |-> e[x]]
          /\ DOMAIN s[1] = {"chat_id", "user_id", "message_id", "update_id", "text", "media_group_id",
               "image_file_ids", "reply_to_text", "reply_to_image_file_ids", "processing_updates"}
      BY <3>1
    <3>3. /\ e.chat_id = s[1].chat_id /\ e.user_id = s[1].user_id /\ e.message_id = s[1].message_id
          /\ e.update_id = s[1].update_id /\ e.media_group_id = s[1].media_group_id
      BY <3>1
    <3>4. /\ e.text = text /\ e.image_file_ids = images /\ e.reply_to_text = None
          /\ e.reply_to_image_file_ids = <<>> /\ e.processing_updates = ref
      BY <3>1
    <3> HIDE DEF e
    <3>5. e = raw
      BY <3>2, <3>3, <3>4
    <3> QED
      BY <3>5 DEF e
  <2> QED
    BY <1>4, <2>1 DEF Merge, s
<1>6. text \in Words0
  <2>1. CASE worded = {}
    BY <2>1 DEF Words0
  <2>2. CASE worded # {}
    <3>1. worded \subseteq Nat
      BY <1>3, <1>4
    <3>2. Min(worded) \in worded
      <4> HIDE DEF worded
      <4> QED
        BY <2>2, <3>1, MinFact
    <3>3. s[Min(worded)] \in InboundMessage
      BY <1>4, <3>2
    <3> QED
      BY <2>2, <3>3 DEF InboundMessage, Words0
  <2> QED
    BY <2>1, <2>2
<1>7. images \in Seq(Words) /\ ToSet(images) = UNION {ToSet(p.image_file_ids) : p \in ToSet(photos)}
  <2> DEFINE lists == [i \in DOMAIN s |-> s[i].image_file_ids]
  <2>1. ASSUME NEW i \in 1..n PROVE s[i].image_file_ids \in Seq(Words)
    <3>1. s[i].image_file_ids \in Distinct(Words)
      BY <1>4 DEF InboundMessage
    <3> QED
      BY <3>1 DEF Distinct
  <2>2. lists \in [1..n -> Seq(Words)] /\ \A i \in 1..n : lists[i] = s[i].image_file_ids
    BY <1>4, <2>1
  <2> HIDE DEF lists
  <2>3. lists \in Seq(Seq(Words)) /\ DOMAIN lists = 1..n
    BY <1>3, <2>2, FunctionIsSeq
  <2>4. FlattenSeq(lists) \in Seq(Words) /\ ToSet(FlattenSeq(lists)) = UNION {ToSet(lists[i]) : i \in DOMAIN lists}
    BY <2>3, ToSetOfFlatten
  <2>5. {ToSet(lists[i]) : i \in DOMAIN lists} = {ToSet(p.image_file_ids) : p \in ToSet(s)}
    <3>1. \A p : p \in ToSet(s) <=> \E i \in 1..n : p = s[i]
      BY <1>4 DEF ToSet
    <3>2. \A x : x \in {ToSet(lists[i]) : i \in DOMAIN lists} <=> \E i \in 1..n : x = ToSet(s[i].image_file_ids)
      BY <2>2, <2>3
    <3>3. \A x : x \in {ToSet(p.image_file_ids) : p \in ToSet(s)} <=> \E i \in 1..n : x = ToSet(s[i].image_file_ids)
      BY <3>1
    <3> QED
      BY <3>2, <3>3
  <2> QED
    BY <1>2, <2>4, <2>5 DEF lists
<1> HIDE DEF text, images
<1>8. ref \in Seq(UpdateRef) /\ Len(ref) = n /\ DOMAIN ref = 1..n
  <2>1. ASSUME NEW i \in 1..n PROVE [update_id |-> s[i].update_id, message_id |-> s[i].message_id] \in UpdateRef
    BY <1>4, MessagesAreNumbered DEF Numbered, UpdateRef
  <2>2. ref \in [1..n -> UpdateRef]
    BY <2>1
  <2> HIDE DEF ref
  <2> QED
    BY <1>3, <2>2, FunctionIsSeq
<1>9. \A i \in 1..n : ref[i].message_id = s[i].message_id /\ ref[i].update_id = s[i].update_id
  OBVIOUS
<1>10. ref[1] = [update_id |-> s[1].update_id, message_id |-> s[1].message_id]
  BY <1>4
<1> HIDE DEF ref
<1>11. InOrder(ref) /\ ref # <<>>
  <2>1. ASSUME NEW i \in 1..n, NEW j \in 1..n, i < j PROVE ~Earlier(ref[j], ref[i])
    <3>1. s[i].message_id < s[j].message_id
      BY <1>2, <1>4, <2>1 DEF Ascending
    <3>2. s[i].message_id \in Int /\ s[j].message_id \in Int
      BY <1>4, MessagesAreNumbered DEF Numbered
    <3> QED
      BY <1>9, <3>1, <3>2 DEF Earlier
  <2>2. ref # <<>>
    BY <1>3, <1>8
  <2> QED
    BY <1>8, <2>1, <2>2 DEF InOrder
<1>12. /\ s[1].chat_id \in Text /\ s[1].user_id \in Text /\ s[1].message_id \in Int
       /\ s[1].update_id \in Int /\ s[1].media_group_id \in Words0
  <2>1. s[1] \in InboundMessage
    BY <1>4
  <2> QED
    BY <2>1 DEF InboundMessage, Words0
<1>13. New(raw) = merged
  <2>1. raw \in RawMessage
    <3>1. \A w \in Words0 : w \in Text \cup {None}
      BY WordTypes DEF Words0
    <3>2. <<>> \in Seq(Words)
      OBVIOUS
    <3> QED
      BY <1>6, <1>7, <1>8, <1>12, <3>1, <3>2 DEF RawMessage, Words0
  <2>2. /\ BlankToNone(text) = text /\ BlankToNone(s[1].media_group_id) = s[1].media_group_id
        /\ BlankToNone(None) = None
    BY <1>6, <1>12, WordsAreKept DEF Words0
  <2>3. NormalizeStrings(<<>>) = <<>>
    <3>1. <<>> \in Distinct(Words)
      BY DEF Distinct, IsInjective
    <3> QED
      BY <3>1, NormalizeIdentity
  <2>4. Refs(raw) = ref
    BY <1>8, <1>11, SortedStays, RefsAreNumbered DEF Refs
  <2> QED
    BY <2>1, <2>2, <2>3, <2>4, NewFields
<1>14. NormalizeStrings(images) \in Distinct(Words) /\ ToSet(NormalizeStrings(images)) = ToSet(images)
  BY <1>7, NormalizeKeepsAll
<1>15. merged \in InboundMessage
  <2>1. <<>> \in Distinct(Words)
    BY DEF Distinct, IsInjective
  <2>2. ref \in { refs \in Seq(UpdateRef) : refs # <<>> /\ InOrder(refs) }
    BY <1>8, <1>11
  <2> QED
    BY <1>6, <1>12, <1>14, <2>1, <2>2 DEF InboundMessage, Words0
<1>16. MergeCoversAlbum(photos, merged)
  <2>1. merged.processing_updates[1] = [update_id |-> merged.update_id, message_id |-> merged.message_id]
    BY <1>10
  <2>2. Len(merged.processing_updates) = Len(photos)
    BY <1>8 DEF n
  <2>3. {u.update_id : u \in ToSet(ref)} = {p.update_id : p \in ToSet(s)}
    BY <1>4, <1>8, <1>9 DEF ToSet
  <2>4. IsInjective(merged.image_file_ids)
    BY <1>14 DEF Distinct
  <2> QED
    BY <1>2, <1>7, <1>14, <2>1, <2>2, <2>3, <2>4 DEF MergeCoversAlbum
<1> QED
  BY <1>5, <1>13, <1>15, <1>16

-----------------------------------------------------------------------------
(* The transcript.                                                          *)

MAX == MAX_TRANSCRIPT_MESSAGES

LEMMA WindowSize == MAX \in Nat /\ MAX >= 2 /\ MAX % 2 = 0
  BY WindowHoldsTurns DEF MAX

WholeEntry == [role : {"user", "assistant"}, content : Seq(Words \cup Sentences) \ {<<>>}]

(* The last entries, as many as there is room for.                          *)
LEMMA FromMessagesFacts ==
  ASSUME NEW S, NEW s \in Seq(S)
  PROVE  /\ FromMessages(s) \in Seq(S)
         /\ Len(s) <= MAX => FromMessages(s) = s
         /\ Len(s) > MAX => /\ Len(FromMessages(s)) = MAX
                            /\ \A i \in 1..MAX : FromMessages(s)[i] = s[Len(s) - MAX + i]
<1>1. CASE Len(s) <= MAX
  <2>1. Len(s) \in Nat /\ MAX \in Nat
    BY WindowSize
  <2>2. FromMessages(s) = s
    BY <1>1 DEF FromMessages, MAX
  <2>3. ~(Len(s) > MAX)
    BY <1>1, <2>1
  <2> QED
    BY <2>2, <2>3
<1>2. CASE ~(Len(s) <= MAX)
  <2>1. Len(s) \in Nat /\ MAX \in Nat /\ Len(s) - MAX + 1 \in 1..(Len(s) + 1)
    BY <1>2, WindowSize
  <2> DEFINE k == Len(s) - MAX + 1
             n == Len(s)
  <2>2. FromMessages(s) = SubSeq(s, k, n)
    BY <1>2 DEF FromMessages, Window, MAX
  <2>3. k \in 1..(n + 1) /\ n \in Nat /\ n = Len(s)
    BY <2>1
  <2>4. (n - k) + 1 = MAX /\ \A i \in 1..MAX : (k + i) - 1 = n - MAX + i
    BY <2>1
  <2> HIDE DEF k, n
  <2>5. /\ SubSeq(s, k, n) \in Seq(S) /\ Len(SubSeq(s, k, n)) = (n - k) + 1
        /\ \A i \in 1..((n - k) + 1) : SubSeq(s, k, n)[i] = s[(k + i) - 1]
    BY <2>3
  <2> QED
    BY <1>2, <2>2, <2>3, <2>4, <2>5
<1> QED
  BY <1>1, <1>2

(* Entries that have fallen out make no difference to what is kept later.   *)
LEMMA WindowOfWindow ==
  ASSUME NEW S, NEW s \in Seq(S), NEW e \in S
  PROVE  FromMessages(Append(FromMessages(s), e)) = FromMessages(Append(s, e))
<1> DEFINE n == Len(s)
           w == FromMessages(s)
           a == Append(w, e)
           b == Append(s, e)
<1>1. CASE n <= MAX
  BY <1>1, FromMessagesFacts
<1>2. CASE ~(n <= MAX)
  <2>1. n \in Nat /\ n > MAX /\ MAX \in Nat /\ MAX >= 2
    BY <1>2, WindowSize
  <2>2. w \in Seq(S) /\ Len(w) = MAX /\ \A i \in 1..MAX : w[i] = s[n - MAX + i]
    BY <2>1, FromMessagesFacts
  <2> HIDE DEF w
  <2>3. a \in Seq(S) /\ Len(a) = MAX + 1 /\ (\A i \in 1..MAX : a[i] = w[i]) /\ a[MAX + 1] = e
    BY <2>1, <2>2
  <2>4. b \in Seq(S) /\ Len(b) = n + 1 /\ (\A i \in 1..n : b[i] = s[i]) /\ b[n + 1] = e
    BY <2>1
  <2> HIDE DEF a, b, n
  <2>5. /\ FromMessages(a) \in Seq(S) /\ Len(FromMessages(a)) = MAX
        /\ \A i \in 1..MAX : FromMessages(a)[i] = a[(MAX + 1) - MAX + i]
    BY <2>1, <2>3, FromMessagesFacts
  <2>6. /\ FromMessages(b) \in Seq(S) /\ Len(FromMessages(b)) = MAX
        /\ \A i \in 1..MAX : FromMessages(b)[i] = b[(n + 1) - MAX + i]
    <3>1. Len(b) > MAX
      BY <2>1, <2>4
    <3>2. b \in Seq(S) /\ Len(b) = n + 1
      BY <2>4
    <3>3. /\ FromMessages(b) \in Seq(S) /\ Len(FromMessages(b)) = MAX
          /\ \A i \in 1..MAX : FromMessages(b)[i] = b[Len(b) - MAX + i]
      BY <3>1, <3>2, FromMessagesFacts
    <3> QED
      BY <3>2, <3>3
  <2>7. ASSUME NEW i \in 1..MAX PROVE a[(MAX + 1) - MAX + i] = b[(n + 1) - MAX + i]
    <3>1. (MAX + 1) - MAX + i = i + 1 /\ (n + 1) - MAX + i = (n - MAX) + (i + 1)
      BY <2>1
    <3>2. CASE i = MAX
      <4>1. i + 1 = MAX + 1 /\ (n - MAX) + (i + 1) = n + 1
        BY <2>1, <3>2
      <4> QED
        BY <2>3, <2>4, <3>1, <4>1
    <3>3. CASE i # MAX
      <4>1. i + 1 \in 1..MAX /\ (n - MAX) + (i + 1) \in 1..n /\ n - MAX + (i + 1) = (n - MAX) + (i + 1)
        BY <2>1, <3>3
      <4>2. a[i + 1] = s[n - MAX + (i + 1)]
        BY <2>2, <2>3, <4>1
      <4>3. b[(n - MAX) + (i + 1)] = s[(n - MAX) + (i + 1)]
        BY <2>4, <4>1
      <4> QED
        BY <3>1, <4>1, <4>2, <4>3
    <3> QED
      BY <3>2, <3>3
  <2>8. \A i \in 1..MAX : FromMessages(a)[i] = FromMessages(b)[i]
    BY <2>5, <2>6, <2>7
  <2>9. FromMessages(a) = FromMessages(b)
    BY <2>1, <2>5, <2>6, <2>8
  <2> QED
    BY <2>9 DEF a, b, w
<1> QED
  BY <1>1, <1>2

(* A stored transcript is read back as it was.                              *)
LEMMA ReadBack ==
  ASSUME NEW stored \in Seq(WholeEntry), stored # None, Len(stored) <= MAX
  PROVE  FromConversationState(stored) = stored
<1> DEFINE n == Len(stored)
           Is(f) == f = [i \in 0..n |-> IF i = 0 THEN <<>>
                                        ELSE IF Whole(stored[i]) THEN Append(f[i - 1], stored[i]) ELSE f[i - 1]]
           kept == CHOOSE f : Is(f)
           g == [i \in 0..n |-> SubSeq(stored, 1, i)]
<1>1. n \in Nat
  OBVIOUS
<1>2. ASSUME NEW i \in 1..n PROVE Whole(stored[i])
  <2>1. stored[i] \in WholeEntry
    OBVIOUS
  <2> QED
    BY <2>1 DEF WholeEntry, Whole
<1>3. Is(g)
  <2>1. SubSeq(stored, 1, 0) = <<>>
    OBVIOUS
  <2>2. ASSUME NEW i \in 1..n PROVE g[i] = Append(g[i - 1], stored[i])
    <3>1. Append(SubSeq(stored, 1, i - 1), stored[i]) = SubSeq(stored, 1, i)
      BY PrefixGrows
    <3> QED
      BY <1>1, <3>1
  <2>3. ASSUME NEW i \in 0..n
        PROVE  g[i] = IF i = 0 THEN <<>> ELSE IF Whole(stored[i]) THEN Append(g[i - 1], stored[i]) ELSE g[i - 1]
    <3>1. i = 0 \/ i \in 1..n
      BY <1>1
    <3>2. g[0] = <<>>
      BY <1>1, <2>1
    <3> HIDE DEF g, n
    <3> QED
      BY <1>2, <2>2, <3>1, <3>2
  <2> QED
    BY <2>3
<1>4. Is(kept)
  <2> HIDE DEF Is
  <2> QED
    BY <1>3
<1>5. FromConversationState(stored) = FromMessages(kept[n])
  BY DEF FromConversationState
<1> HIDE DEF kept
<1>6. kept[0] = <<>>
  <2>1. 0 \in 0..n
    BY <1>1
  <2> HIDE DEF n
  <2> QED
    BY <1>4, <2>1
<1>7. ASSUME NEW i \in 1..n PROVE kept[i] = Append(kept[i - 1], stored[i])
  <2>1. i \in 0..n /\ i # 0
    BY <1>1
  <2> HIDE DEF n
  <2> QED
    BY <1>2, <1>4, <2>1
<1> DEFINE S == {i \in 0..n : kept[i] = SubSeq(stored, 1, i)}
<1>8. 0 \in S
  <2>1. SubSeq(stored, 1, 0) = <<>> /\ 0 \in 0..n
    BY <1>1
  <2> QED
    BY <1>6, <2>1
<1>9. ASSUME NEW i \in 1..n, i - 1 \in S PROVE i \in S
  <2>1. kept[i] = Append(SubSeq(stored, 1, i - 1), stored[i])
    BY <1>7, <1>9
  <2>2. Append(SubSeq(stored, 1, i - 1), stored[i]) = SubSeq(stored, 1, i)
    BY PrefixGrows
  <2> QED
    BY <2>1, <2>2
<1>10. 0..n \subseteq S
  <2> HIDE DEF S, n
  <2> QED
    BY <1>1, <1>8, <1>9, UpToInduction
<1>11. kept[n] = stored
  <2>1. n \in S
    BY <1>1, <1>10
  <2>2. SubSeq(stored, 1, n) = stored
    OBVIOUS
  <2> QED
    BY <2>1, <2>2
<1>12. FromMessages(stored) = stored
  BY FromMessagesFacts
<1> QED
  BY <1>5, <1>11, <1>12

-----------------------------------------------------------------------------
Content == Seq(Words \cup Sentences) \ {<<>>}

(* Whatever goes on to Codex is an entry that is read back, with the        *)
(* message's own words and those it quotes.                                 *)
LEMMA UserMessageFacts ==
  ASSUME NEW m \in InboundMessage, ~Unsupported(m)
  PROVE  /\ UserMessage(m) \in Content
         /\ {m.text, m.reply_to_text} \ {None} \subseteq ToSet(UserMessage(m))
<1> DEFINE images == Len(EffectiveImageFileIds(m))
           base == NormalizeUserText(m.text, images)
           quoted == <<"REPLYING_TO", m.reply_to_text>>
<1>1. m.text \in Words \cup {None} /\ m.reply_to_text \in Words \cup {None}
  BY DEF InboundMessage
<1>2. images \in Nat /\ (m.text = None => images # 0)
  <2>1. m.image_file_ids \in Seq(Words) /\ m.reply_to_image_file_ids \in Seq(Words)
    BY DEF InboundMessage, Distinct
  <2>2. m.text = None => m.image_file_ids # <<>>
    BY DEF Unsupported
  <2> QED
    BY <2>1, <2>2 DEF EffectiveImageFileIds
<1> HIDE DEF images
<1>3. base \in Content /\ (m.text # None => base = <<m.text>>)
  BY <1>1, <1>2 DEF NormalizeUserText, Content, Sentences
<1>4. m.text # None => m.text \in ToSet(base)
  BY <1>3 DEF ToSet
<1> HIDE DEF base
<1>5. UserMessage(m) = IF m.reply_to_text = None THEN base ELSE quoted \o base
  BY <1>3 DEF UserMessage, BuildUserMessage, base, images, Content
<1>6. CASE m.reply_to_text = None
  BY <1>3, <1>4, <1>5, <1>6
<1>7. CASE m.reply_to_text # None
  <2>1. quoted \in Seq(Words \cup Sentences) /\ Len(quoted) = 2
    BY <1>1, <1>7 DEF Sentences
  <2>2. m.reply_to_text \in ToSet(quoted)
    BY DEF ToSet
  <2>3. base \in Seq(Words \cup Sentences)
    BY <1>3 DEF Content
  <2> HIDE DEF quoted
  <2>4. quoted \o base \in Seq(Words \cup Sentences) /\ ToSet(quoted \o base) = ToSet(quoted) \cup ToSet(base)
    BY <2>1, <2>3, ToSetOfConcat
  <2>5. quoted \o base # <<>>
    BY <2>1, <2>3
  <2> QED
    BY <1>4, <1>5, <1>7, <2>2, <2>4, <2>5 DEF Content
<1> QED
  BY <1>6, <1>7

(* A transcript of whole turns.                                             *)
Turned(s) == Len(s) % 2 = 0 /\ \A i \in 1..Len(s) : s[i].role = "user" <=> i % 2 = 1

LEMMA TurnedGrows ==
  ASSUME NEW s \in Seq(WholeEntry), Turned(s), NEW q \in WholeEntry, NEW a \in WholeEntry,
         q.role = "user", a.role = "assistant"
  PROVE  Turned(s \o <<q, a>>)
<1> DEFINE n == Len(s)
           t == s \o <<q, a>>
<1>1. n \in Nat /\ Len(t) = n + 2 /\ (\A i \in 1..n : t[i] = s[i]) /\ t[n + 1] = q /\ t[n + 2] = a
  OBVIOUS
<1>2. n % 2 = 0 /\ \A i \in 1..n : s[i].role = "user" <=> i % 2 = 1
  BY DEF Turned
<1> HIDE DEF n, t
<1>3. (n + 2) % 2 = 0 /\ (n + 1) % 2 = 1
  BY <1>1, <1>2
<1>4. ASSUME NEW i \in 1..(n + 2) PROVE t[i].role = "user" <=> i % 2 = 1
  <2>1. i \in 1..n \/ i = n + 1 \/ i = n + 2
    BY <1>1
  <2> QED
    BY <1>1, <1>2, <1>3, <2>1
<1> QED
  BY <1>1, <1>3, <1>4 DEF Turned, t

LEMMA TurnedWindow ==
  ASSUME NEW s \in Seq(WholeEntry), Turned(s)
  PROVE  Turned(FromMessages(s))
<1> DEFINE n == Len(s)
<1>1. n \in Nat
  OBVIOUS
<1>2. n % 2 = 0 /\ \A i \in 1..n : s[i].role = "user" <=> i % 2 = 1
  BY DEF Turned
<1>3. CASE n <= MAX
  BY <1>3, FromMessagesFacts
<1>4. CASE n > MAX
  <2> DEFINE w == FromMessages(s)
  <2>1. w \in Seq(WholeEntry) /\ Len(w) = MAX /\ \A i \in 1..MAX : w[i] = s[n - MAX + i]
    BY <1>4, FromMessagesFacts
  <2> HIDE DEF n, w
  <2>2. ASSUME NEW i \in 1..MAX PROVE w[i].role = "user" <=> i % 2 = 1
    <3>1. n - MAX + i \in 1..n /\ ((n - MAX + i) % 2 = 1 <=> i % 2 = 1)
      BY <1>1, <1>2, <1>4, WindowSize
    <3> QED
      BY <1>2, <2>1, <3>1
  <2> QED
    BY <2>1, <2>2, WindowSize DEF Turned, w
<1> QED
  BY <1>1, <1>3, <1>4, WindowSize

(* The state that goes with all that was said.                              *)
Settled(stored, said) ==
  \/ stored = None /\ said = <<>>
  \/ stored \in Seq(WholeEntry) /\ stored = FromMessages(said)

LEMMA StoredIsNotNone ==
  ASSUME NEW s \in Seq(WholeEntry)
  PROVE  s # None
<1>1. WholeEntry \subseteq TranscriptEntry
  BY DEF WholeEntry, TranscriptEntry
<1>2. s \in Seq(TranscriptEntry)
  BY <1>1, LargerElements
<1> QED
  BY <1>2, AlgorithmsAssumption

(* One more turn: nothing that was said before it is lost but what falls    *)
(* out of the window.                                                       *)
LEMMA TurnIsStored ==
  ASSUME NEW said \in Seq(WholeEntry), NEW stored, Settled(stored, said),
         NEW q \in WholeEntry, NEW a \in WholeEntry
  PROVE  FromMessages(Append(FromMessages(Append(FromConversationState(stored), q)), a))
           = FromMessages(said \o <<q, a>>)
<1>1. FromConversationState(stored) = FromMessages(said)
  <2>1. CASE stored = None /\ said = <<>>
    <3>1. FromConversationState(None) = <<>>
      BY DEF FromConversationState
    <3>2. FromMessages(<<>>) = <<>>
      BY WindowSize DEF FromMessages, MAX
    <3> QED
      BY <2>1, <3>1, <3>2
  <2>2. CASE stored \in Seq(WholeEntry) /\ stored = FromMessages(said)
    <3>1. Len(stored) <= MAX
      BY <2>2, FromMessagesFacts, WindowSize
    <3> QED
      BY <2>2, <3>1, StoredIsNotNone, ReadBack
  <2> QED
    BY <2>1, <2>2 DEF Settled
<1>2. FromMessages(Append(FromMessages(said), q)) = FromMessages(Append(said, q))
  BY WindowOfWindow
<1>3. Append(said, q) \in Seq(WholeEntry)
  OBVIOUS
<1>4. FromMessages(Append(FromMessages(Append(said, q)), a)) = FromMessages(Append(Append(said, q), a))
  BY <1>3, WindowOfWindow
<1>5. Append(Append(said, q), a) = said \o <<q, a>>
  OBVIOUS
<1> QED
  BY <1>1, <1>2, <1>4, <1>5
(* What is stored is the end of what was said.                              *)
LEMMA WindowIsSuffix ==
  ASSUME NEW S, NEW s \in Seq(S)
  PROVE  IsSuffix(FromMessages(s), s)
<1> DEFINE n == Len(s)
           w == FromMessages(s)
           k == Len(w)
           rs == Reverse(s)
           rw == Reverse(w)
<1>1. n \in Nat /\ w \in Seq(S) /\ k \in Nat /\ k <= n /\ \A i \in 1..k : w[i] = s[n - k + i]
  <2>1. MAX \in Nat /\ n \in Nat
    BY WindowSize
  <2>2. CASE n <= MAX
    BY <2>1, <2>2, FromMessagesFacts
  <2>3. CASE n > MAX
    BY <2>1, <2>3, FromMessagesFacts
  <2> QED
    BY <2>1, <2>2, <2>3
<1>2. rs \in Seq(S) /\ Len(rs) = n /\ \A i \in 1..n : rs[i] = s[(n - i) + 1]
  BY DEF Reverse
<1> HIDE DEF w, n
<1>3. rw \in Seq(S) /\ Len(rw) = k /\ \A i \in 1..k : rw[i] = w[(k - i) + 1]
  BY <1>1 DEF Reverse
<1> HIDE DEF rs, rw, k
<1>4. ASSUME NEW i \in 1..k PROVE rw[i] = rs[i]
  <2>1. (k - i) + 1 \in 1..k /\ n - k + ((k - i) + 1) = (n - i) + 1 /\ i \in 1..n
    BY <1>1
  <2> DEFINE j == (k - i) + 1
  <2>2. rw[i] = w[j] /\ rs[i] = s[(n - i) + 1]
    BY <1>2, <1>3, <2>1
  <2>3. w[j] = s[n - k + j]
    <3>1. j \in 1..k
      BY <2>1
    <3> HIDE DEF j
    <3> QED
      BY <1>1, <3>1
  <2> QED
    BY <2>1, <2>2, <2>3
<1>5. SubSeq(rw, 1, k) = SubSeq(rs, 1, k)
  <2>1. SubSeq(rw, 1, k) \in Seq(S) /\ Len(SubSeq(rw, 1, k)) = k /\ \A i \in 1..k : SubSeq(rw, 1, k)[i] = rw[i]
    BY <1>1, <1>3
  <2>2. SubSeq(rs, 1, k) \in Seq(S) /\ Len(SubSeq(rs, 1, k)) = k /\ \A i \in 1..k : SubSeq(rs, 1, k)[i] = rs[i]
    BY <1>1, <1>2
  <2> QED
    BY <1>1, <1>4, <2>1, <2>2
<1>6. IsPrefix(rw, rs)
  BY <1>1, <1>2, <1>3, <1>5 DEF IsPrefix
<1> QED
  BY <1>6 DEF IsSuffix, rw, rs, w

LEMMA BaselineIsWhole ==
  /\ CompactBaseline(<<"summary">>) \in Seq(WholeEntry)
  /\ Turned(CompactBaseline(<<"summary">>))
  /\ FromMessages(CompactBaseline(<<"summary">>)) = CompactBaseline(<<"summary">>)
<1> DEFINE q == Entry("user", <<"COMPACT_BASELINE">>)
           a == Entry("assistant", <<"summary">>)
<1>1. q \in WholeEntry /\ a \in WholeEntry /\ q.role = "user" /\ a.role = "assistant"
  BY DEF Entry, WholeEntry, Sentences
<1>2. CompactBaseline(<<"summary">>) = FromMessages(Append(FromMessages(Append(<<>>, q)), a))
  BY DEF CompactBaseline, AppendEntry
<1> HIDE DEF q, a
<1>3. Append(<<>>, q) \in Seq(WholeEntry) /\ Len(Append(<<>>, q)) = 1
  BY <1>1
<1>4. Append(Append(<<>>, q), a) = <<q, a>> /\ <<q, a>> \in Seq(WholeEntry) /\ Len(<<q, a>>) = 2
  <2>1. <<q, a>> \in Seq(WholeEntry) /\ Len(<<q, a>>) = 2
    BY <1>1
  <2>2. Append(Append(<<>>, q), a) = <<q, a>>
    <3> DEFINE s == Append(<<>>, q)
               t == Append(s, a)
               u == <<q, a>>
    <3>1. s \in Seq(WholeEntry) /\ Len(s) = 1 /\ s[1] = q
      BY <1>1
    <3>2. u \in Seq(WholeEntry) /\ Len(u) = 2 /\ u[1] = q /\ u[2] = a
      BY <2>1
    <3> HIDE DEF s, u
    <3>3. t \in Seq(WholeEntry) /\ Len(t) = 2 /\ t[1] = q /\ t[2] = a
      <4>1. /\ t \in Seq(WholeEntry) /\ Len(t) = Len(s) + 1
            /\ (\A i \in 1..Len(s) : t[i] = s[i]) /\ t[Len(s) + 1] = a
        BY <1>1, <3>1, AppendFacts
      <4>2. Len(s) = 1 /\ s[1] = q /\ 1 \in 1..1 /\ 1 + 1 = 2
        BY <3>1
      <4> HIDE DEF t
      <4> QED
        BY <4>1, <4>2
    <3> HIDE DEF t
    <3>4. \A i \in 1..2 : t[i] = u[i]
      BY <3>2, <3>3
    <3>5. t = u
      BY <3>2, <3>3, <3>4
    <3> QED
      BY <3>5 DEF s, t, u
  <2> QED
    BY <2>1, <2>2
<1>5. FromMessages(Append(<<>>, q)) = Append(<<>>, q) /\ FromMessages(<<q, a>>) = <<q, a>>
  <2> DEFINE s == Append(<<>>, q)
             t == <<q, a>>
  <2>1. s \in Seq(WholeEntry) /\ Len(s) <= MAX /\ t \in Seq(WholeEntry) /\ Len(t) <= MAX
    BY <1>3, <1>4, WindowSize
  <2> HIDE DEF s, t
  <2>2. FromMessages(s) = s /\ FromMessages(t) = t
    BY <2>1, FromMessagesFacts
  <2> QED
    BY <2>2 DEF s, t
<1>6. Turned(<<q, a>>)
  <2>1. <<>> \in Seq(WholeEntry) /\ Turned(<<>>)
    BY DEF Turned
  <2>2. Turned(<<>> \o <<q, a>>)
    BY <1>1, <2>1, TurnedGrows
  <2>3. <<>> \o <<q, a>> = <<q, a>>
    BY <1>4
  <2> QED
    BY <2>2, <2>3
<1> QED
  BY <1>2, <1>4, <1>5, <1>6

(* What every conversation leaves is the window of all that was said.       *)
LEMMA TurnsStayWholeHolds ==
  ASSUME NEW start \in {None, CompactBaseline(<<"summary">>)},
         NEW messages \in Seq({ m \in InboundMessage : ~Unsupported(m) }), messages # <<>>
  PROVE  TurnsStayWhole(start, messages, <<"answer">>, AfterReplies(start, messages, <<"answer">>))
<1> DEFINE n == Len(messages)
           Turn(m) == <<Entry("user", UserMessage(m)), Entry("assistant", <<"answer">>)>>
           turns == [i \in DOMAIN messages |-> Turn(messages[i])]
           base == IF start = None THEN <<>> ELSE start
           Is(f) == f = [i \in 0..n |-> IF i = 0 THEN start
                                        ELSE GenerateReply(f[i - 1], messages[i], <<"answer">>)]
           stored == CHOOSE f : Is(f)
<1>1. n \in Nat /\ n # 0 /\ DOMAIN messages = 1..n
      /\ \A i \in 1..n : messages[i] \in InboundMessage /\ ~Unsupported(messages[i])
  OBVIOUS
<1>2. ASSUME NEW i \in 1..n
      PROVE  /\ Entry("user", UserMessage(messages[i])) \in WholeEntry
             /\ Entry("assistant", <<"answer">>) \in WholeEntry
  <2>1. UserMessage(messages[i]) \in Content
    BY <1>1, UserMessageFacts
  <2>2. <<"answer">> \in Content
    BY DEF Content, Sentences
  <2> QED
    BY <2>1, <2>2 DEF Content, WholeEntry, Entry
<1>3. turns \in Seq(Seq(WholeEntry)) /\ Len(turns) = n /\ \A i \in 1..n : turns[i] = Turn(messages[i])
  <2>1. turns \in [1..n -> Seq(WholeEntry)]
    BY <1>1, <1>2
  <2> HIDE DEF turns
  <2>2. turns \in Seq(Seq(WholeEntry)) /\ Len(turns) = n
    BY <1>1, <2>1, FunctionIsSeq
  <2> QED
    BY <1>1, <2>2 DEF turns
<1>4. base \in Seq(WholeEntry) /\ Turned(base) /\ Settled(start, base)
  <2>1. CASE start = None
    BY <2>1 DEF Turned, Settled
  <2>2. CASE start # None
    BY <2>2, BaselineIsWhole DEF Settled
  <2> QED
    BY <2>1, <2>2
<1> HIDE DEF base, turns
<1>5. PICK flat \in [0..n -> Seq(WholeEntry)] :
        /\ flat[0] = <<>>
        /\ \A i \in 1..n : flat[i] = flat[i - 1] \o turns[i]
        /\ FlattenSeq(turns) = flat[n]
  <2>1. turns \in Seq(Seq(WholeEntry)) /\ Len(turns) = n
    BY <1>3
  <2> HIDE DEF n
  <2> QED
    BY <2>1, FlattenSteps
<1> DEFINE said(i) == base \o flat[i]
           Good(x, i) == Settled(x, said(i)) /\ (i # 0 => x = FromMessages(said(i)))
<1>6. said(0) = base /\ \A i \in 0..n : said(i) \in Seq(WholeEntry)
  <2> HIDE DEF n
  <2>1. base \o <<>> = base
    BY <1>4
  <2>2. ASSUME NEW i \in 0..n PROVE said(i) \in Seq(WholeEntry)
    <3>1. flat[i] \in Seq(WholeEntry)
      BY <1>5
    <3> QED
      BY <1>4, <3>1
  <2> QED
    BY <1>5, <2>1, <2>2
<1>7. ASSUME NEW i \in 1..n PROVE said(i) = said(i - 1) \o Turn(messages[i])
  <2>1. i - 1 \in 0..n
    BY <1>1
  <2>2. turns[i] = Turn(messages[i]) /\ turns[i] \in Seq(WholeEntry)
    BY <1>2, <1>3
  <2> HIDE DEF n, Turn
  <2>3. flat[i] = flat[i - 1] \o turns[i] /\ flat[i - 1] \in Seq(WholeEntry)
    BY <1>5, <2>1
  <2>4. base \o (flat[i - 1] \o turns[i]) = (base \o flat[i - 1]) \o turns[i]
    <3> DEFINE x == flat[i - 1]
               y == turns[i]
    <3>1. x \in Seq(WholeEntry) /\ y \in Seq(WholeEntry)
      BY <2>2, <2>3
    <3> HIDE DEF x, y
    <3>2. base \o (x \o y) = (base \o x) \o y
      BY <1>4, <3>1
    <3> QED
      BY <3>2 DEF x, y
  <2> QED
    BY <2>2, <2>3, <2>4
<1>8. ASSUME NEW i \in 1..n, NEW x, Good(x, i - 1)
      PROVE  Good(GenerateReply(x, messages[i], <<"answer">>), i)
  <2> DEFINE q == Entry("user", UserMessage(messages[i]))
             a == Entry("assistant", <<"answer">>)
  <2>1. i - 1 \in 0..n /\ i # 0
    BY <1>1
  <2>2. said(i - 1) \in Seq(WholeEntry) /\ said(i) \in Seq(WholeEntry) /\ said(i) = said(i - 1) \o <<q, a>>
    <3>1. i \in 0..n
      BY <1>1
    <3> HIDE DEF said, n
    <3> QED
      BY <1>6, <1>7, <2>1, <3>1
  <2>3. q \in WholeEntry /\ a \in WholeEntry
    BY <1>2
  <2>4. GenerateReply(x, messages[i], <<"answer">>)
          = FromMessages(Append(FromMessages(Append(FromConversationState(x), q)), a))
    BY DEF GenerateReply, AppendEntry
  <2>5. Settled(x, said(i - 1))
    BY <1>8
  <2> HIDE DEF said, q, a
  <2>6. GenerateReply(x, messages[i], <<"answer">>) = FromMessages(said(i))
    BY <2>2, <2>3, <2>4, <2>5, TurnIsStored
  <2>7. FromMessages(said(i)) \in Seq(WholeEntry)
    BY <2>2, FromMessagesFacts
  <2> QED
    BY <2>6, <2>7 DEF Settled
<1>9. Turned(said(n))
  <2> DEFINE S == {i \in 0..n : Turned(said(i))}
  <2>1. 0 \in S
    <3>1. 0 \in 0..n
      BY <1>1
    <3> HIDE DEF said, n
    <3> QED
      BY <1>4, <1>6, <3>1
  <2>2. ASSUME NEW i \in 1..n, i - 1 \in S PROVE i \in S
    <3>1. said(i - 1) \in Seq(WholeEntry) /\ Turned(said(i - 1))
      BY <1>6, <2>2
    <3>2. Entry("user", UserMessage(messages[i])).role = "user" /\ Entry("assistant", <<"answer">>).role = "assistant"
      BY DEF Entry
    <3> HIDE DEF said
    <3>3. Turned(said(i - 1) \o Turn(messages[i]))
      BY <1>2, <3>1, <3>2, TurnedGrows
    <3>4. i \in 0..n
      BY <1>1
    <3> HIDE DEF n, Turn
    <3>5. Turned(said(i))
      BY <1>7, <3>3
    <3> QED
      BY <3>4, <3>5
  <2> HIDE DEF S, n
  <2>3. 0..n \subseteq S
    BY <1>1, <2>1, <2>2, UpToInduction
  <2>4. n \in S
    BY <1>1, <2>3
  <2> QED
    BY <2>4 DEF S
<1> DEFINE w == [i \in 0..n |-> IF i = 0 THEN start ELSE FromMessages(said(i))]
<1>10. ASSUME NEW i \in 0..n PROVE Good(w[i], i)
  <2>1. CASE i = 0
    <3>1. w[i] = start /\ said(i) = base
      BY <1>6, <2>1
    <3> HIDE DEF w, said
    <3> QED
      BY <1>4, <2>1, <3>1
  <2>2. CASE i # 0
    <3>1. w[i] = FromMessages(said(i)) /\ said(i) \in Seq(WholeEntry)
      BY <1>6, <2>2
    <3>2. FromMessages(said(i)) \in Seq(WholeEntry)
      <4> HIDE DEF said
      <4> QED
        BY <3>1, FromMessagesFacts
    <3> HIDE DEF w, said
    <3> QED
      BY <3>1, <3>2 DEF Settled
  <2> QED
    BY <2>1, <2>2
<1>11. Is(w)
  <2>1. ASSUME NEW i \in 0..n
        PROVE  w[i] = IF i = 0 THEN start ELSE GenerateReply(w[i - 1], messages[i], <<"answer">>)
    <3>1. CASE i = 0
      BY <3>1
    <3>2. CASE i # 0
      <4>1. i \in 1..n /\ i - 1 \in 0..n
        BY <1>1, <3>2
      <4>2. Good(w[i - 1], i - 1)
        BY <1>10, <4>1
      <4>3. w[i] = FromMessages(said(i))
        BY <3>2
      <4> HIDE DEF w, said, Is, n
      <4>4. GenerateReply(w[i - 1], messages[i], <<"answer">>) = FromMessages(said(i))
        BY <1>8, <3>2, <4>1, <4>2
      <4> QED
        BY <3>2, <4>3, <4>4
    <3> QED
      BY <3>1, <3>2
  <2>2. w = [i \in 0..n |-> w[i]]
    OBVIOUS
  <2> HIDE DEF w
  <2> QED
    BY <2>1, <2>2
<1>12. Is(stored)
  <2> HIDE DEF Is, w
  <2> QED
    BY <1>11
<1>13. AfterReplies(start, messages, <<"answer">>) = stored[n]
  BY DEF AfterReplies
<1> HIDE DEF stored, w
<1>14. stored[0] = start /\ \A i \in 1..n : stored[i] = GenerateReply(stored[i - 1], messages[i], <<"answer">>)
  <2>1. 0 \in 0..n /\ \A i \in 1..n : i \in 0..n /\ i # 0
    BY <1>1
  <2> HIDE DEF n
  <2> QED
    BY <1>12, <2>1
<1> HIDE DEF Is
<1>15. Good(stored[n], n)
  <2> DEFINE S == {i \in 0..n : Good(stored[i], i)}
  <2>1. 0 \in S
    <3>1. 0 \in 0..n
      BY <1>1
    <3> HIDE DEF said
    <3> QED
      BY <1>4, <1>6, <1>14, <3>1
  <2>2. ASSUME NEW i \in 1..n, i - 1 \in S PROVE i \in S
    <3>1. Good(stored[i - 1], i - 1) /\ i \in 0..n
      BY <1>1, <2>2
    <3> HIDE DEF Good
    <3> QED
      BY <1>8, <1>14, <3>1
  <2> HIDE DEF S, n
  <2>3. 0..n \subseteq S
    BY <1>1, <2>1, <2>2, UpToInduction
  <2>4. n \in S
    BY <1>1, <2>3
  <2> QED
    BY <2>4 DEF S
<1> DEFINE all == said(n)
           end == stored[n]
<1>16. end = FromMessages(all)
  BY <1>1, <1>15
<1>17. all \in Seq(WholeEntry) /\ Turned(all)
  BY <1>1, <1>6, <1>9
<1>18. all = base \o FlattenSeq(turns)
  BY <1>5
<1> HIDE DEF all, end
<1>19. end \in Seq(WholeEntry) /\ Len(end) = IF Len(all) < MAX THEN Len(all) ELSE MAX
  <2>1. Len(all) \in Nat /\ MAX \in Nat
    BY <1>17, WindowSize
  <2>2. CASE Len(all) <= MAX
    BY <1>16, <1>17, <2>1, <2>2, FromMessagesFacts
  <2>3. CASE Len(all) > MAX
    BY <1>16, <1>17, <2>1, <2>3, FromMessagesFacts
  <2> QED
    BY <2>1, <2>2, <2>3
<1>20. IsSuffix(end, all)
  BY <1>16, <1>17, WindowIsSuffix
<1>21. \A i \in DOMAIN end : end[i].role = "user" <=> i % 2 = 1
  <2>1. DOMAIN end = 1..Len(end)
    BY <1>19
  <2> QED
    BY <1>16, <1>17, <2>1, TurnedWindow DEF Turned
<1>22. FromConversationState(end) = end
  <2>1. Len(end) <= MAX
    BY <1>17, <1>19, WindowSize
  <2> QED
    BY <1>19, <2>1, StoredIsNotNone, ReadBack
<1>23. \A m \in ToSet(messages) : {m.text, m.reply_to_text} \ {None} \subseteq ToSet(UserMessage(m))
  <2>1. ASSUME NEW m \in ToSet(messages) PROVE m \in InboundMessage /\ ~Unsupported(m)
    BY <1>1 DEF ToSet
  <2> QED
    BY <2>1, UserMessageFacts
<1>24. TurnsStayWhole(start, messages, <<"answer">>, end)
  BY <1>18, <1>19, <1>20, <1>21, <1>22, <1>23 DEF TurnsStayWhole, base, turns, MAX
<1> QED
  BY <1>13, <1>24 DEF end

-----------------------------------------------------------------------------
(* Suggested replies.                                                       *)

(* One step of Sanitize and of CleanReplies.                                *)
Sanitized(kept, r) ==
  IF Len(kept) = MAX_SUGGESTED_REPLIES \/ r = Absent \/ r = <<>> \/ Contains(kept, r)
  THEN kept ELSE Append(kept, Truncated(r))

Cleaned(kept, r) ==
  IF Len(kept) = MAX_SUGGESTED_REPLIES \/ Blank(r) \/ Contains(kept, r)
  THEN kept ELSE Append(kept, r)

(* What the replies that are not blank are shortened to.                    *)
Buttons(replies) == { Truncated(r) : r \in ToSet(replies) \ {Absent, <<>>} }

(* Three replies are kept, step by step, or the fallback is taken.          *)
LEMMA SanitizeSteps ==
  ASSUME NEW S, NEW replies \in Seq(S)
  PROVE  \E cleaned \in [0..Len(replies) -> Seq(Buttons(replies))] :
           /\ cleaned[0] = <<>>
           /\ \A i \in 1..Len(replies) : cleaned[i] = Sanitized(cleaned[i - 1], replies[i])
           /\ \A i \in 1..Len(replies) : Len(cleaned[i]) <= Len(cleaned[i - 1]) + 1
           /\ \A i \in 0..Len(replies) : Len(cleaned[i]) <= i /\ Len(cleaned[i]) <= MAX_SUGGESTED_REPLIES
           /\ \A fallback : Sanitize(replies, fallback) =
                IF Len(cleaned[Len(replies)]) < MAX_SUGGESTED_REPLIES THEN fallback ELSE cleaned[Len(replies)]
<1> DEFINE n == Len(replies)
           B == Buttons(replies)
           D == Seq(B)
           step == [x \in (1..n) \X D |-> Sanitized(x[2], replies[x[1]])]
           Is(f) == f = [i \in 0..n |-> IF i = 0 THEN <<>> ELSE Sanitized(f[i - 1], replies[i])]
           cleaned == CHOOSE f : Is(f)
<1>1. n \in Nat /\ <<>> \in D
  OBVIOUS
<1>2. ASSUME NEW i \in 1..n, NEW kept \in D
      PROVE  /\ Sanitized(kept, replies[i]) \in D
             /\ Len(Sanitized(kept, replies[i])) <= Len(kept) + 1
             /\ Len(kept) <= MAX_SUGGESTED_REPLIES =>
                  Len(Sanitized(kept, replies[i])) <= MAX_SUGGESTED_REPLIES
  <2> DEFINE r == replies[i]
             t == Truncated(r)
  <2>1. r \in ToSet(replies)
    BY DEF ToSet
  <2>2. r \in {Absent, <<>>} \/ t \in B
    BY <2>1 DEF Buttons
  <2> HIDE DEF r, B
  <2> SUFFICES /\ Sanitized(kept, r) \in D
               /\ Len(Sanitized(kept, r)) <= Len(kept) + 1
               /\ Len(kept) <= MAX_SUGGESTED_REPLIES => Len(Sanitized(kept, r)) <= MAX_SUGGESTED_REPLIES
    BY DEF r
  <2>3. Len(kept) \in Nat
    OBVIOUS
  <2> HIDE DEF D
  <2>4. CASE Sanitized(kept, r) = kept
    BY <2>4, <2>3
  <2>5. CASE Len(kept) # MAX_SUGGESTED_REPLIES /\ t \in B /\ Sanitized(kept, r) = Append(kept, t)
    <3> HIDE DEF t
    <3>1. Append(kept, t) \in D /\ Len(Append(kept, t)) = Len(kept) + 1
      BY <2>5, AppendFacts DEF D
    <3> DEFINE s == Sanitized(kept, r)
    <3>2. s \in D /\ Len(s) = Len(kept) + 1 /\ Len(kept) # 3
      BY <2>5, <3>1 DEF MAX_SUGGESTED_REPLIES
    <3> HIDE DEF s
    <3>3. Len(s) <= Len(kept) + 1 /\ (Len(kept) <= 3 => Len(s) <= 3)
      <4>1. \A k \in Nat : k # 3 => k + 1 <= k + 1 /\ (k <= 3 => k + 1 <= 3)
        OBVIOUS
      <4> QED
        BY <2>3, <3>2, <4>1
    <3> QED
      BY <3>2, <3>3 DEF s, MAX_SUGGESTED_REPLIES
  <2> QED
    BY <2>2, <2>4, <2>5 DEF Sanitized
<1>3. step \in [(1..n) \X D -> D]
  <2> HIDE DEF n, D
  <2> QED
    BY <1>2
<1>4. PICK g \in [0..n -> D] : g[0] = <<>> /\ \A i \in 1..n : g[i] = step[<<i, g[i - 1]>>]
  <2>1. Recursions(n, D, <<>>, step) # {}
    <3> HIDE DEF n, D, step
    <3> QED
      BY <1>1, <1>3, RecursionExists
  <2> QED
    BY <2>1 DEF Recursions
<1>5. ASSUME NEW i \in 1..n PROVE g[i] = Sanitized(g[i - 1], replies[i])
  <2>1. i - 1 \in 0..n
    BY <1>1
  <2>2. <<i, g[i - 1]>> \in (1..n) \X D
    BY <2>1
  <2> HIDE DEF n, D
  <2> QED
    BY <1>4, <2>2
<1>6. Is(g)
  <2>1. ASSUME NEW i \in 0..n PROVE g[i] = IF i = 0 THEN <<>> ELSE Sanitized(g[i - 1], replies[i])
    <3>1. i = 0 \/ i \in 1..n
      BY <1>1
    <3> HIDE DEF n, D
    <3> QED
      BY <1>4, <1>5, <3>1
  <2>2. g = [i \in 0..n |-> g[i]]
    OBVIOUS
  <2> HIDE DEF n, D
  <2> QED
    BY <2>1, <2>2
<1>7. Is(cleaned)
  <2> HIDE DEF Is
  <2> QED
    BY <1>6
<1>8. \A fallback : Sanitize(replies, fallback) =
        IF Len(cleaned[n]) < MAX_SUGGESTED_REPLIES THEN fallback ELSE cleaned[n]
  BY DEF Sanitize, Sanitized
<1> HIDE DEF cleaned
<1>9. cleaned[0] = <<>> /\ \A i \in 1..n : cleaned[i] = Sanitized(cleaned[i - 1], replies[i])
  <2>1. 0 \in 0..n /\ \A i \in 1..n : i \in 0..n /\ i # 0
    BY <1>1
  <2> HIDE DEF n
  <2> QED
    BY <1>7, <2>1
<1> DEFINE T == {i \in 0..n : cleaned[i] \in D /\ Len(cleaned[i]) <= i /\ Len(cleaned[i]) <= MAX_SUGGESTED_REPLIES}
<1>10. 0 \in T
  <2>1. Len(<<>>) = 0 /\ 0 \in 0..n
    BY <1>1
  <2> HIDE DEF D
  <2> QED
    BY <1>1, <1>9, <2>1 DEF MAX_SUGGESTED_REPLIES
<1>11. ASSUME NEW i \in 1..n, i - 1 \in T PROVE i \in T
  <2>1. /\ cleaned[i - 1] \in D /\ Len(cleaned[i - 1]) <= i - 1
        /\ Len(cleaned[i - 1]) <= MAX_SUGGESTED_REPLIES
    BY <1>11
  <2> HIDE DEF D
  <2>2. /\ cleaned[i] \in D /\ Len(cleaned[i]) <= Len(cleaned[i - 1]) + 1
        /\ Len(cleaned[i]) <= MAX_SUGGESTED_REPLIES
    BY <1>2, <1>9, <2>1
  <2>3. Len(cleaned[i]) \in Nat /\ Len(cleaned[i - 1]) \in Nat /\ i \in 0..n
    BY <1>1, <2>1, <2>2 DEF D
  <2> QED
    BY <2>1, <2>2, <2>3
<1>12. 0..n \subseteq T
  <2> HIDE DEF T, n
  <2> QED
    BY <1>1, <1>10, <1>11, UpToInduction
<1>13. cleaned \in [0..n -> D]
  <2>1. cleaned = [i \in 0..n |-> cleaned[i]]
    BY <1>7
  <2>2. \A i \in 0..n : cleaned[i] \in D
    BY <1>12
  <2> HIDE DEF n, D
  <2> QED
    BY <2>1, <2>2
<1> HIDE DEF Is
<1>14. ASSUME NEW i \in 1..n PROVE Len(cleaned[i]) <= Len(cleaned[i - 1]) + 1
  <2>1. i - 1 \in 0..n
    BY <1>1
  <2>2. cleaned[i - 1] \in D
    BY <1>13, <2>1
  <2> HIDE DEF D, n
  <2> QED
    BY <1>2, <1>9, <2>2
<1> QED
  BY <1>8, <1>9, <1>12, <1>13, <1>14
LEMMA CleanedStep ==
  ASSUME NEW B, NEW kept \in Seq(B), IsInjective(kept), Len(kept) <= 3, NEW r \in B, r # <<>>
  PROVE  /\ Cleaned(kept, r) \in Seq(B) /\ IsInjective(Cleaned(kept, r))
         /\ Len(Cleaned(kept, r)) <= 3 /\ Len(Cleaned(kept, r)) \in 1..3
<1>1. Len(kept) \in Nat
  OBVIOUS
<1>2. \A k \in Nat : (k <= 3 /\ k # 0 => k \in 1..3) /\ (k <= 3 /\ k # 3 => k + 1 \in 1..3 /\ k + 1 <= 3)
  OBVIOUS
<1>3. CASE Len(kept) = 3 \/ Contains(kept, r)
  <2>1. Cleaned(kept, r) = kept
    BY <1>3 DEF Cleaned, MAX_SUGGESTED_REPLIES
  <2>2. Len(kept) # 0
    <3>1. CASE Len(kept) = 3
      BY <3>1
    <3>2. CASE Contains(kept, r)
      <4>1. PICK j \in 1..Len(kept) : kept[j] = r
        BY <3>2 DEF Contains
      <4> QED
        BY <1>1, <4>1
    <3> QED
      BY <1>3, <3>1, <3>2
  <2> QED
    BY <1>1, <1>2, <2>1, <2>2
<1>4. CASE ~(Len(kept) = 3 \/ Contains(kept, r))
  <2>1. Cleaned(kept, r) = Append(kept, r)
    BY <1>4 DEF Cleaned, Blank, MAX_SUGGESTED_REPLIES
  <2>2. /\ Append(kept, r) \in Seq(B) /\ IsInjective(Append(kept, r))
        /\ Len(Append(kept, r)) = Len(kept) + 1
    BY <1>4, AppendNew, AppendFacts
  <2> QED
    BY <1>1, <1>2, <1>4, <2>1, <2>2
<1> QED
  BY <1>3, <1>4

(* Of replies that are not blank some are kept, at most three, each once.   *)
LEMMA CleanRepliesFacts ==
  ASSUME NEW B, NEW replies \in Seq(B), replies # <<>>, <<>> \notin B
  PROVE  /\ CleanReplies(replies) \in Seq(B)
         /\ Len(CleanReplies(replies)) \in 1..MAX_SUGGESTED_REPLIES
         /\ IsInjective(CleanReplies(replies))
<1> DEFINE n == Len(replies)
           D == {s \in Seq(B) : IsInjective(s) /\ Len(s) <= 3}
           step == [x \in (1..n) \X D |-> Cleaned(x[2], replies[x[1]])]
           Is(f) == f = [i \in 0..n |-> IF i = 0 THEN <<>> ELSE Cleaned(f[i - 1], replies[i])]
           cleaned == CHOOSE f : Is(f)
<1>1. n \in Nat /\ n # 0 /\ \A i \in 1..n : replies[i] \in B
  OBVIOUS
<1>2. <<>> \in D /\ Len(<<>>) = 0
  BY DEF IsInjective
<1>3. ASSUME NEW i \in 1..n, NEW kept \in D
      PROVE  Cleaned(kept, replies[i]) \in D /\ Len(Cleaned(kept, replies[i])) \in 1..3
  <2>1. replies[i] \in B /\ replies[i] # <<>>
    BY <1>1
  <2>2. kept \in Seq(B) /\ IsInjective(kept) /\ Len(kept) <= 3
    OBVIOUS
  <2> DEFINE c == Cleaned(kept, replies[i])
  <2>3. c \in Seq(B) /\ IsInjective(c) /\ Len(c) <= 3 /\ Len(c) \in 1..3
    BY <2>1, <2>2, CleanedStep
  <2> HIDE DEF c
  <2>4. c \in D
    BY <2>3
  <2> QED
    BY <2>3, <2>4 DEF c
<1>4. step \in [(1..n) \X D -> D]
  <2> HIDE DEF n, D
  <2> QED
    BY <1>3
<1>5. PICK g \in [0..n -> D] : g[0] = <<>> /\ \A i \in 1..n : g[i] = step[<<i, g[i - 1]>>]
  <2>1. Recursions(n, D, <<>>, step) # {}
    <3> HIDE DEF n, D, step
    <3> QED
      BY <1>1, <1>2, <1>4, RecursionExists
  <2> QED
    BY <2>1 DEF Recursions
<1>6. ASSUME NEW i \in 1..n PROVE g[i] = Cleaned(g[i - 1], replies[i])
  <2>1. i - 1 \in 0..n
    BY <1>1
  <2>2. <<i, g[i - 1]>> \in (1..n) \X D
    BY <2>1
  <2> HIDE DEF n, D
  <2> QED
    BY <1>5, <2>2
<1>7. Is(g)
  <2>1. ASSUME NEW i \in 0..n PROVE g[i] = IF i = 0 THEN <<>> ELSE Cleaned(g[i - 1], replies[i])
    <3>1. i = 0 \/ i \in 1..n
      BY <1>1
    <3> HIDE DEF n, D
    <3> QED
      BY <1>5, <1>6, <3>1
  <2>2. g = [i \in 0..n |-> g[i]]
    OBVIOUS
  <2> HIDE DEF n, D
  <2> QED
    BY <2>1, <2>2
<1>8. Is(cleaned)
  <2> HIDE DEF Is
  <2> QED
    BY <1>7
<1>9. CleanReplies(replies) = cleaned[n]
  BY DEF CleanReplies, Cleaned
<1> HIDE DEF cleaned
<1>10. cleaned[0] = <<>> /\ \A i \in 1..n : cleaned[i] = Cleaned(cleaned[i - 1], replies[i])
  <2>1. 0 \in 0..n /\ \A i \in 1..n : i \in 0..n /\ i # 0
    BY <1>1
  <2> HIDE DEF n
  <2> QED
    BY <1>8, <2>1
<1> DEFINE T == {i \in 0..n : cleaned[i] \in D /\ (i # 0 => Len(cleaned[i]) \in 1..3)}
<1>11. 0 \in T
  <2>1. 0 \in 0..n
    BY <1>1
  <2> HIDE DEF D
  <2> QED
    BY <1>2, <1>10, <2>1
<1>12. ASSUME NEW i \in 1..n, i - 1 \in T PROVE i \in T
  <2>1. cleaned[i - 1] \in D /\ i \in 0..n
    BY <1>1, <1>12
  <2> HIDE DEF D, n
  <2> QED
    BY <1>3, <1>10, <2>1
<1>13. 0..n \subseteq T
  <2> HIDE DEF T, n
  <2> QED
    BY <1>1, <1>11, <1>12, UpToInduction
<1>14. n \in T
  BY <1>1, <1>13
<1> QED
  BY <1>1, <1>9, <1>14 DEF MAX_SUGGESTED_REPLIES
-----------------------------------------------------------------------------
(* Texts and payloads.                                                      *)

LEMMA UnwrappedFacts ==
  ASSUME NEW S, NEW raw \in Seq(S)
  PROVE  /\ Unwrapped(raw) \in Seq(S)
         /\ \E d \in 0..1 :
              /\ \A k \in 1..Len(Unwrapped(raw)) :
                   k + d \in 1..Len(raw) /\ Unwrapped(raw)[k] = raw[k + d]
              /\ \A i \in 1..Len(raw) : raw[i] # Fence => i - d \in 1..Len(Unwrapped(raw))
<1> DEFINE n == Len(raw)
           tail == IF raw # <<>> /\ raw[1] = Fence THEN Tail(raw) ELSE raw
           u == IF tail # <<>> /\ Last(tail) = Fence THEN Front(tail) ELSE tail
           d == IF raw # <<>> /\ raw[1] = Fence THEN 1 ELSE 0
<1>1. n \in Nat /\ d \in 0..1 /\ Unwrapped(raw) = u
  BY DEF Unwrapped
<1>2. /\ tail \in Seq(S) /\ Len(tail) = n - d /\ n - d \in Nat
      /\ \A k \in 1..(n - d) : tail[k] = raw[k + d]
      /\ \A i \in 1..n : raw[i] # Fence => i - d \in 1..(n - d)
  <2>1. CASE raw # <<>> /\ raw[1] = Fence
    <3>1. tail = Tail(raw) /\ d = 1 /\ n # 0
      BY <2>1
    <3>2. /\ Tail(raw) \in Seq(S) /\ Len(Tail(raw)) = n - 1
          /\ \A k \in 1..(n - 1) : Tail(raw)[k] = raw[k + 1]
      BY <2>1
    <3>3. \A i \in 1..n : raw[i] # Fence => i - 1 \in 1..(n - 1)
      BY <1>1, <2>1
    <3>4. n - 1 \in Nat
      BY <1>1, <3>1
    <3> HIDE DEF tail, d, n
    <3> QED
      BY <3>1, <3>2, <3>3, <3>4
  <2>2. CASE ~(raw # <<>> /\ raw[1] = Fence)
    <3>1. tail = raw /\ d = 0
      BY <2>2
    <3> QED
      BY <1>1, <3>1
  <2> QED
    BY <2>1, <2>2
<1> DEFINE m == n - d
<1> HIDE DEF tail, d, n
<1>3. /\ u \in Seq(S) /\ Len(u) \in Nat /\ Len(u) <= m /\ (\A k \in 1..Len(u) : u[k] = tail[k])
      /\ \A j \in 1..m : tail[j] # Fence => j \in 1..Len(u)
  <2>1. m \in Nat /\ Len(tail) = m
    BY <1>2
  <2> HIDE DEF m
  <2>2. CASE tail # <<>> /\ Last(tail) = Fence
    <3>1. u = SubSeq(tail, 1, m - 1) /\ tail[m] = Fence /\ m # 0
      BY <1>2, <2>1, <2>2 DEF Front, Last
    <3>2. m - 1 \in Nat /\ m - 1 <= Len(tail)
      BY <2>1, <3>1
    <3>3. u \in Seq(S) /\ Len(u) = m - 1 /\ \A k \in 1..(m - 1) : u[k] = tail[k]
      BY <1>2, <2>1, <3>1, <3>2
    <3> HIDE DEF u
    <3>4. \A j \in 1..m : tail[j] # Fence => j \in 1..(m - 1)
      BY <2>1, <3>1
    <3> QED
      BY <2>1, <3>2, <3>3, <3>4
  <2>3. CASE ~(tail # <<>> /\ Last(tail) = Fence)
    <3>1. u = tail
      BY <2>3
    <3> QED
      BY <1>2, <2>1, <3>1
  <2> QED
    BY <2>2, <2>3
<1> HIDE DEF u
<1>4. ASSUME NEW k \in 1..Len(u) PROVE k + d \in 1..n /\ u[k] = raw[k + d]
  BY <1>1, <1>2, <1>3
<1>5. ASSUME NEW i \in 1..n, raw[i] # Fence PROVE i - d \in 1..Len(u)
  <2>1. i - d \in 1..m /\ (i - d) + d = i
    BY <1>1, <1>2, <1>5
  <2>2. tail[i - d] = raw[(i - d) + d]
    BY <1>2, <2>1
  <2> QED
    BY <1>3, <1>5, <2>1, <2>2
<1> QED
  BY <1>1, <1>3, <1>4, <1>5 DEF n

(* Strings drops what is absent, and nothing else.                          *)
LEMMA StringsFacts ==
  ASSUME NEW E, NEW elements \in Seq(E)
  PROVE  /\ Strings(elements) \in Seq(ToSet(elements) \ {Absent})
         /\ Absent \notin ToSet(elements) => Strings(elements) = elements
<1> DEFINE n == Len(elements)
           D == Seq(ToSet(elements) \ {Absent})
           Push(kept, e) == IF e = Absent THEN kept ELSE Append(kept, e)
           step == [x \in (1..n) \X D |-> Push(x[2], elements[x[1]])]
           Is(f) == f = [i \in 0..n |-> IF i = 0 THEN <<>>
                                        ELSE IF elements[i] = Absent THEN f[i - 1]
                                        ELSE Append(f[i - 1], elements[i])]
           found == CHOOSE f : Is(f)
<1>1. n \in Nat /\ <<>> \in D
  OBVIOUS
<1>2. ASSUME NEW i \in 1..n, NEW kept \in D PROVE Push(kept, elements[i]) \in D
  <2>1. elements[i] \in ToSet(elements)
    BY DEF ToSet
  <2> QED
    BY <2>1
<1>3. step \in [(1..n) \X D -> D]
  <2> HIDE DEF n, D, Push
  <2> QED
    BY <1>2
<1>4. PICK g \in [0..n -> D] : g[0] = <<>> /\ \A i \in 1..n : g[i] = step[<<i, g[i - 1]>>]
  <2>1. Recursions(n, D, <<>>, step) # {}
    <3> HIDE DEF n, D, step
    <3> QED
      BY <1>1, <1>3, RecursionExists
  <2> QED
    BY <2>1 DEF Recursions
<1>5. ASSUME NEW i \in 1..n PROVE g[i] = Push(g[i - 1], elements[i])
  <2>1. i - 1 \in 0..n
    BY <1>1
  <2>2. <<i, g[i - 1]>> \in (1..n) \X D
    BY <2>1
  <2> HIDE DEF n, D, Push
  <2> QED
    BY <1>4, <2>2
<1>6. Is(g)
  <2>1. ASSUME NEW i \in 0..n
        PROVE  g[i] = IF i = 0 THEN <<>> ELSE IF elements[i] = Absent THEN g[i - 1] ELSE Append(g[i - 1], elements[i])
    <3>1. i = 0 \/ i \in 1..n
      BY <1>1
    <3> HIDE DEF n, D
    <3> QED
      BY <1>4, <1>5, <3>1
  <2>2. g = [i \in 0..n |-> g[i]]
    OBVIOUS
  <2> HIDE DEF n, D
  <2> QED
    BY <2>1, <2>2
<1>7. Is(found)
  <2> HIDE DEF Is
  <2> QED
    BY <1>6
<1>8. Strings(elements) = found[n]
  BY DEF Strings
<1> HIDE DEF found
<1>9. found[0] = <<>> /\ \A i \in 1..n : found[i] = Push(found[i - 1], elements[i])
  <2>1. 0 \in 0..n /\ \A i \in 1..n : i \in 0..n /\ i # 0
    BY <1>1
  <2> HIDE DEF n
  <2> QED
    BY <1>7, <2>1
<1> HIDE DEF Is
<1>10. found[n] \in D
  <2> DEFINE T == {i \in 0..n : found[i] \in D}
  <2>1. 0 \in T
    <3>1. 0 \in 0..n
      BY <1>1
    <3> HIDE DEF D, n
    <3> QED
      BY <1>1, <1>9, <3>1
  <2>2. ASSUME NEW i \in 1..n, i - 1 \in T PROVE i \in T
    <3>1. found[i - 1] \in D /\ i \in 0..n
      BY <1>1, <2>2
    <3> HIDE DEF D, n, Push
    <3> QED
      BY <1>2, <1>9, <3>1
  <2> HIDE DEF T, n
  <2>3. 0..n \subseteq T
    BY <1>1, <2>1, <2>2, UpToInduction
  <2> QED
    BY <1>1, <2>3 DEF T
<1>11. ASSUME Absent \notin ToSet(elements) PROVE found[n] = elements
  <2> DEFINE T == {i \in 0..n : found[i] = SubSeq(elements, 1, i)}
  <2>1. 0 \in T
    <3>1. SubSeq(elements, 1, 0) = <<>> /\ 0 \in 0..n
      BY <1>1
    <3> QED
      BY <1>9, <3>1
  <2>2. ASSUME NEW i \in 1..n, i - 1 \in T PROVE i \in T
    <3>1. found[i - 1] = SubSeq(elements, 1, i - 1) /\ i \in 0..n
      BY <1>1, <2>2
    <3>2. elements[i] # Absent
      BY <1>11 DEF ToSet
    <3>3. Append(SubSeq(elements, 1, i - 1), elements[i]) = SubSeq(elements, 1, i)
      BY PrefixGrows
    <3> HIDE DEF n
    <3>4. found[i] = Append(found[i - 1], elements[i])
      BY <1>9, <3>2
    <3> QED
      BY <3>1, <3>3, <3>4
  <2> HIDE DEF T, n
  <2>3. 0..n \subseteq T
    BY <1>1, <2>1, <2>2, UpToInduction
  <2>4. found[n] = SubSeq(elements, 1, n)
    BY <1>1, <2>3 DEF T
  <2>5. SubSeq(elements, 1, n) = elements
    BY WholePrefix DEF n
  <2> QED
    BY <2>4, <2>5
<1> QED
  BY <1>8, <1>10, <1>11
PayloadType(p) ==
  \/ p = Absent
  \/ /\ p.kind = "object" =>
          /\ p.text \in PieceText \cup {Absent}
          /\ p.replies = Absent \/ (p.replies \in Elements /\ Shortened(p.replies))
          /\ p.others \in Seq(PieceText)
     /\ p.kind = "array" => p.elements \in Elements /\ Shortened(p.elements)
     /\ p.kind = "quoted" => p.inner \in PieceText

LEMMA PieceIsPayload ==
  ASSUME NEW p \in Pieces
  PROVE  PayloadType(p)
<1>1. PieceType(p)
  BY AlgorithmsAssumption
<1> QED
  BY <1>1 DEF PieceType, PayloadType

LEMMA WhereFacts ==
  ASSUME NEW text \in PieceText
  PROVE  /\ DOMAIN text = 1..Len(text) /\ Len(text) \in Nat
         /\ \A i \in DOMAIN text : text[i] \in Pieces
         /\ DOMAIN text \subseteq Nat /\ DOMAIN text \subseteq 0..Len(text)
  BY DEF PieceText

LEMMA ExtractedType ==
  ASSUME NEW text \in PieceText
  PROVE  Extracted(text) \in PieceText \cup {Absent}
<1> DEFINE opening == Where(text, Opens)
           closing == Where(text, Closes)
           first == Min(opening)
           last == Max(closing)
           Cut(i) == IF text[i].kind = "quoted" THEN Shred[1] ELSE text[i]
           middle == SubSeq(text, first + 1, last - 1)
<1>1. opening \subseteq DOMAIN text /\ closing \subseteq DOMAIN text
  BY DEF Where
<1>2. CASE opening = {} \/ closing = {} \/ first > last
  BY <1>2 DEF Extracted
<1>3. CASE ~(opening = {} \/ closing = {} \/ first > last)
  <2> HIDE DEF opening, closing
  <2>1. opening \subseteq Nat /\ closing \subseteq 0..Len(text) /\ Len(text) \in Nat
    BY <1>1, WhereFacts
  <2>2. first \in opening /\ last \in closing
    <3>1. first \in opening
      BY <1>3, <2>1, MinFact
    <3>2. last \in closing
      BY <1>3, <2>1, MaxFact
    <3> QED
      BY <3>1, <3>2
  <2>3. first \in DOMAIN text /\ last \in DOMAIN text
    BY <1>1, <2>2
  <2>4. text[first] \in Pieces /\ text[last] \in Pieces
    BY <2>3, WhereFacts
  <2>5. Cut(first) \in Pieces /\ Cut(last) \in Pieces
    BY <2>4, AlgorithmsAssumption
  <2>6. Extracted(text) = IF first = last THEN <<Cut(first)>> ELSE <<Cut(first)>> \o middle \o <<Cut(last)>>
    BY <1>3 DEF Extracted, opening, closing
  <2>7. middle \in Seq(Pieces)
    <3>1. first \in 1..Len(text) /\ last \in 1..Len(text)
      BY <2>3, WhereFacts
    <3> HIDE DEF first, last
    <3> QED
      BY <3>1 DEF PieceText
  <2> HIDE DEF first, last, middle, Cut
  <2>8. <<Cut(first)>> \in Seq(Pieces) /\ <<Cut(last)>> \in Seq(Pieces)
    BY <2>5
  <2>9. <<Cut(first)>> \o middle \in Seq(Pieces)
    BY <2>7, <2>8
  <2>10. (<<Cut(first)>> \o middle) \o <<Cut(last)>> \in Seq(Pieces)
    BY <2>8, <2>9
  <2> QED
    BY <2>6, <2>8, <2>10 DEF PieceText
<1> QED
  BY <1>2, <1>3

RelaxedObject(text) ==
  [kind |-> "object", text |-> RelaxedText(text), replies |-> RelaxedReplies(text), others |-> <<>>]

LEMMA RelaxedFacts ==
  ASSUME NEW text \in PieceText
  PROVE  /\ RelaxedText(text) \in PieceText
         /\ RelaxedReplies(text) \in Seq(PieceText) /\ Shortened(RelaxedReplies(text))
         /\ Relaxed(text) \in {<<>>, <<RelaxedObject(text)>>}
<1> DEFINE texts == Where(text, HasText)
           whole == {i \in texts : HasReplies(text[i])}
           arrays == Where(text, HasReplies)
<1>1. texts \subseteq DOMAIN text /\ arrays \subseteq DOMAIN text /\ whole \subseteq texts
  BY DEF Where
<1>2. whole \subseteq Nat /\ arrays \subseteq Nat
  BY <1>1, WhereFacts
<1>3. RelaxedText(text) \in PieceText
  <2>1. <<>> \in PieceText /\ Shred \in PieceText
    <3>1. Shred = <<Shred[1]>> /\ Shred[1] \in Pieces
      BY AlgorithmsAssumption DEF Shred
    <3> DEFINE p == Shred[1]
    <3> HIDE DEF p
    <3>2. Shred = <<p>> /\ p \in Pieces
      BY <3>1 DEF p
    <3>3. <<p>> \in Seq(Pieces) /\ <<>> \in Seq(Pieces)
      BY <3>2
    <3> QED
      BY <3>2, <3>3 DEF PieceText
  <2>2. CASE whole # {}
    <3> DEFINE i == Min(whole)
    <3>1. i \in whole
      <4> HIDE DEF whole
      <4> QED
        BY <1>2, <2>2, MinFact
    <3>2. i \in DOMAIN text /\ HasText(text[i])
      BY <3>1 DEF Where
    <3>3. text[i] \in Pieces
      BY <3>2, WhereFacts
    <3>4. PieceType(text[i])
      BY <3>3, AlgorithmsAssumption
    <3> HIDE DEF i
    <3>5. text[i].text \in PieceText
      BY <3>2, <3>4 DEF HasText, PieceType
    <3> QED
      BY <2>1, <2>2, <3>5 DEF RelaxedText, i
  <2>3. CASE whole = {}
    BY <2>1, <2>3 DEF RelaxedText
  <2> QED
    BY <2>2, <2>3
<1>4. RelaxedReplies(text) \in Seq(PieceText) /\ Shortened(RelaxedReplies(text))
  <2>1. CASE arrays = {}
    BY <2>1 DEF RelaxedReplies, Shortened, ToSet
  <2>2. CASE arrays # {}
    <3> DEFINE i == Min(arrays)
    <3>1. i \in arrays
      <4> HIDE DEF arrays
      <4> QED
        BY <1>2, <2>2, MinFact
    <3>2. i \in DOMAIN text /\ HasReplies(text[i])
      BY <3>1 DEF Where
    <3>3. text[i] \in Pieces
      BY <3>2, WhereFacts
    <3>4. PieceType(text[i])
      BY <3>3, AlgorithmsAssumption
    <3>5. RelaxedReplies(text) = Strings(text[i].replies)
      BY <2>2 DEF RelaxedReplies
    <3> HIDE DEF i
    <3> DEFINE r == text[i].replies
    <3>6. r \in Elements /\ Shortened(r)
      BY <3>2, <3>4 DEF HasReplies, PieceType
    <3> HIDE DEF r
    <3>7. r \in Seq(PieceText \cup {Absent})
      BY <3>6 DEF Elements
    <3>8. Strings(r) \in Seq(ToSet(r) \ {Absent})
      BY <3>7, StringsFacts
    <3>9. ToSet(r) \ {Absent} \subseteq PieceText
      BY <3>7 DEF ToSet
    <3>10. Strings(r) \in Seq(PieceText)
      BY <3>8, <3>9, LargerElements
    <3>11. ToSet(Strings(r)) \subseteq ToSet(r)
      <4> DEFINE s == Strings(r)
      <4> HIDE DEF s
      <4>1. s \in Seq(ToSet(r) \ {Absent})
        BY <3>8 DEF s
      <4>2. \A k \in DOMAIN s : s[k] \in ToSet(r)
        BY <4>1
      <4> QED
        BY <4>2 DEF s, ToSet
    <3> QED
      BY <3>5, <3>6, <3>10, <3>11 DEF Shortened, r
  <2> QED
    BY <2>1, <2>2
<1> QED
  BY <1>3, <1>4 DEF Relaxed, RelaxedObject
LEMMA PayloadOfText ==
  ASSUME NEW text \in PieceText
  PROVE  PayloadType(Payload(text))
<1>1. ASSUME NEW t \in PieceText, IsJson(t) PROVE t[1] \in Pieces
  <2>1. 1 \in DOMAIN t
    BY <1>1, WhereFacts DEF IsJson
  <2> QED
    BY <2>1, WhereFacts
<1>2. CASE ~IsJson(text)
  BY <1>2 DEF Payload, PayloadType
<1>3. CASE IsJson(text) /\ text[1].kind # "quoted"
  BY <1>1, <1>3, PieceIsPayload DEF Payload
<1>4. CASE IsJson(text) /\ text[1].kind = "quoted"
  <2> DEFINE inner == text[1].inner
  <2>1. PieceType(text[1])
    BY <1>1, <1>4, AlgorithmsAssumption
  <2>2. inner \in PieceText
    BY <1>4, <2>1 DEF PieceType
  <2>3. Payload(text) = IF IsJson(inner) THEN inner[1] ELSE Absent
    BY <1>4 DEF Payload
  <2> HIDE DEF inner
  <2>4. CASE IsJson(inner)
    BY <1>1, <2>2, <2>3, <2>4, PieceIsPayload
  <2>5. CASE ~IsJson(inner)
    BY <2>3, <2>5 DEF PayloadType
  <2> QED
    BY <2>4, <2>5
<1> QED
  BY <1>2, <1>3, <1>4

LEMMA PayloadOfRelaxed ==
  ASSUME NEW text \in PieceText
  PROVE  /\ PayloadType(Payload(Relaxed(text)))
         /\ Relaxed(text) = <<>> => Payload(Relaxed(text)) = Absent
         /\ Relaxed(text) # <<>> => Payload(Relaxed(text)) = RelaxedObject(text)
         /\ RelaxedObject(text) # Absent
<1> DEFINE o == RelaxedObject(text)
<1>1. /\ RelaxedText(text) \in PieceText
      /\ RelaxedReplies(text) \in Seq(PieceText) /\ Shortened(RelaxedReplies(text))
  BY RelaxedFacts
<1>2. o.kind = "object" /\ o.text = RelaxedText(text) /\ o.replies = RelaxedReplies(text) /\ o.others = <<>>
  BY DEF RelaxedObject
<1>3. RelaxedReplies(text) \in Elements
  BY <1>1, LargerElements DEF Elements
<1>4. o # Absent
  <2>1. o \in [kind : {"object"}, text : PieceText, replies : Elements, others : {<<>>}]
    BY <1>1, <1>3 DEF RelaxedObject
  <2> QED
    BY <2>1, AlgorithmsAssumption
<1> HIDE DEF o
<1>5. PayloadType(o)
  <2>1. <<>> \in Seq(PieceText)
    OBVIOUS
  <2> QED
    BY <1>1, <1>2, <1>3, <2>1 DEF PayloadType
<1>6. Payload(<<>>) = Absent
  BY DEF Payload, IsJson
<1>7. Payload(<<o>>) = o
  <2>1. Len(<<o>>) = 1 /\ <<o>>[1] = o
    OBVIOUS
  <2> QED
    BY <1>2, <2>1 DEF Payload, IsJson
<1>8. Relaxed(text) = <<>> \/ Relaxed(text) = <<o>>
  BY RelaxedFacts DEF o
<1>9. PayloadType(Absent) /\ <<o>> # <<>>
  BY DEF PayloadType
<1> QED
  BY <1>4, <1>5, <1>6, <1>7, <1>8, <1>9 DEF o

LEMMA CandidatesFacts ==
  ASSUME NEW raw \in PieceText
  PROVE  /\ Candidates(raw)[1] = raw /\ Candidates(raw)[2] = Unwrapped(raw)
         /\ Unwrapped(raw) \in PieceText
         /\ Extracted(Unwrapped(raw)) = Absent =>
              Candidates(raw)[3] = <<>> /\ Candidates(raw)[4] = Relaxed(Unwrapped(raw))
         /\ Extracted(Unwrapped(raw)) # Absent =>
              /\ Candidates(raw)[3] = Extracted(Unwrapped(raw))
              /\ Candidates(raw)[4] = Relaxed(Extracted(Unwrapped(raw)))
              /\ Extracted(Unwrapped(raw)) \in PieceText
<1>1. Unwrapped(raw) \in PieceText
  BY UnwrappedFacts DEF PieceText
<1>2. Extracted(Unwrapped(raw)) \in PieceText \cup {Absent}
  BY <1>1, ExtractedType
<1> QED
  BY <1>1, <1>2 DEF Candidates

IsRead(value) == value # Absent /\ value.kind # "null"

(* The first candidate that can be read is taken.                           *)
LEMMA ParsePayloadFacts ==
  ASSUME NEW raw
  PROVE  \/ /\ ParsePayload(raw) = Absent
            /\ \A i \in 1..4 : ~IsRead(Payload(Candidates(raw)[i]))
         \/ \E i \in 1..4 : /\ ParsePayload(raw) = Payload(Candidates(raw)[i])
                            /\ IsRead(Payload(Candidates(raw)[i]))
                            /\ \A j \in 1..4 : j < i => ~IsRead(Payload(Candidates(raw)[j]))
<1> DEFINE values == [i \in 1..4 |-> Payload(Candidates(raw)[i])]
           read == {i \in 1..4 : values[i] # Absent /\ values[i].kind # "null"}
<1>1. ParsePayload(raw) = IF read = {} THEN Absent ELSE values[Min(read)]
  BY DEF ParsePayload
<1>2. /\ read \subseteq 1..4
      /\ \A i \in 1..4 : values[i] = Payload(Candidates(raw)[i]) /\ (i \in read <=> IsRead(values[i]))
  BY DEF IsRead
<1> HIDE DEF values, read
<1>3. CASE read = {}
  BY <1>1, <1>2, <1>3
<1>4. CASE read # {}
  <2> DEFINE i == Min(read)
  <2>1. i \in read /\ \A j \in read : i <= j
    <3>1. read \subseteq Nat
      BY <1>2
    <3> QED
      BY <1>4, <3>1, MinFact
  <2> HIDE DEF i
  <2>2. i \in 1..4 /\ \A j \in 1..4 : j < i => j \notin read
    BY <1>2, <2>1
  <2> QED
    BY <1>1, <1>2, <1>4, <2>1, <2>2 DEF i
<1> QED
  BY <1>3, <1>4

LEMMA ParsePayloadType ==
  ASSUME NEW raw \in PieceText
  PROVE  PayloadType(ParsePayload(raw))
<1>1. ASSUME NEW i \in 1..4 PROVE PayloadType(Payload(Candidates(raw)[i]))
  <2> DEFINE u == Unwrapped(raw)
             e == Extracted(u)
  <2>1. <<>> \in PieceText
    BY DEF PieceText
  <2>2. u \in PieceText
    BY CandidatesFacts
  <2>3. i = 1 \/ i = 2 \/ i = 3 \/ i = 4
    OBVIOUS
  <2> HIDE DEF u, e
  <2>4. \/ Candidates(raw)[i] \in PieceText
        \/ \E t \in PieceText : Candidates(raw)[i] = Relaxed(t)
    <3>1. CASE e = Absent
      BY <2>1, <2>2, <2>3, <3>1, CandidatesFacts DEF u, e
    <3>2. CASE e # Absent
      BY <2>1, <2>2, <2>3, <3>2, CandidatesFacts DEF u, e
    <3> QED
      BY <3>1, <3>2
  <2> QED
    BY <2>4, PayloadOfText, PayloadOfRelaxed
<1>2. PayloadType(Absent)
  BY DEF PayloadType
<1> QED
  BY <1>1, <1>2, ParsePayloadFacts

LEMMA ReplyTextFacts ==
  ASSUME NEW payload, PayloadType(payload), NEW raw \in PieceText
  PROVE  ReplyText(payload, raw) \in PieceText /\ (raw # <<>> => ReplyText(payload, raw) # <<>>)
<1>1. CASE payload = Absent
  BY <1>1 DEF ReplyText
<1>2. CASE payload # Absent /\ payload.kind = "object"
  <2> DEFINE others == payload.others
             strings == {i \in DOMAIN others : ~Blank(others[i])}
  <2>1. payload.text \in PieceText \cup {Absent} /\ others \in Seq(PieceText)
    BY <1>2 DEF PayloadType
  <2>2. CASE payload.text # Absent /\ ~Blank(payload.text)
    BY <1>2, <2>1, <2>2 DEF ReplyText, Blank
  <2>3. CASE ~(payload.text # Absent /\ ~Blank(payload.text))
    <3>1. ReplyText(payload, raw) = IF strings # {} THEN others[Max(strings)] ELSE raw
      BY <1>2, <2>3 DEF ReplyText
    <3> HIDE DEF others
    <3>2. CASE strings # {}
      <4> DEFINE k == Max(strings)
      <4>1. k \in strings
        <5>1. strings \subseteq 0..Len(others) /\ Len(others) \in Nat
          BY <2>1
        <5> HIDE DEF strings
        <5> QED
          BY <3>2, <5>1, MaxFact
      <4>2. k \in DOMAIN others /\ others[k] # <<>>
        BY <4>1 DEF Blank
      <4> HIDE DEF k
      <4>3. others[k] \in PieceText
        BY <2>1, <4>2
      <4> QED
        BY <3>1, <3>2, <4>2, <4>3 DEF k
    <3>3. CASE strings = {}
      BY <3>1, <3>3
    <3> QED
      BY <3>2, <3>3
  <2> QED
    BY <2>2, <2>3
<1>3. CASE payload # Absent /\ payload.kind # "object"
  BY <1>3 DEF ReplyText, PayloadType, Blank
<1> QED
  BY <1>1, <1>2, <1>3
-----------------------------------------------------------------------------
(* The keyboard and the text that are sent.                                 *)

Usable(B) == \A b \in B : b # <<>> /\ Truncated(b) = b

LEMMA SuggestedFacts ==
  ASSUME NEW payload, PayloadType(payload), NEW raw \in PieceText
  PROVE  \E B : Usable(B) /\ SuggestedReplies(payload, raw) \in Seq(B)
                /\ Len(SuggestedReplies(payload, raw)) = MAX_SUGGESTED_REPLIES
<1> DEFINE Good(s) == \E B : Usable(B) /\ s \in Seq(B) /\ Len(s) = MAX_SUGGESTED_REPLIES
<1>1. Good(DefaultReplies)
  <2> DEFINE a == Word("default 1")
             b == Word("default 2")
             c == Word("default 3")
  <2>1. DefaultReplies = <<a, b, c>>
    BY DEF DefaultReplies
  <2>2. a # <<>> /\ b # <<>> /\ c # <<>>
    BY DEF Word
  <2> HIDE DEF a, b, c
  <2>3. DOMAIN DefaultReplies = 1..3 /\ DefaultReplies[1] = a /\ DefaultReplies[2] = b /\ DefaultReplies[3] = c
    BY <2>1
  <2>4. Truncated(a) = a /\ Truncated(b) = b /\ Truncated(c) = c
    BY <2>3, AlgorithmsAssumption
  <2>5. Usable({a, b, c})
    BY <2>2, <2>4 DEF Usable
  <2>6. DefaultReplies \in Seq({a, b, c}) /\ Len(DefaultReplies) = 3
    BY <2>1
  <2> QED
    BY <2>5, <2>6 DEF MAX_SUGGESTED_REPLIES
<1>2. ASSUME NEW replies \in Elements, Shortened(replies) PROVE Good(Sanitize(replies, DefaultReplies))
  <2> DEFINE n == Len(replies)
             B == Buttons(replies)
  <2>1. replies \in Seq(PieceText \cup {Absent}) /\ n \in Nat
    BY DEF Elements
  <2>2. PICK cleaned \in [0..n -> Seq(B)] :
          /\ Len(cleaned[n]) <= MAX_SUGGESTED_REPLIES
          /\ Sanitize(replies, DefaultReplies) =
               IF Len(cleaned[n]) < MAX_SUGGESTED_REPLIES THEN DefaultReplies ELSE cleaned[n]
    <3>1. n \in 0..n
      BY <2>1
    <3> QED
      BY <2>1, <3>1, SanitizeSteps
  <2>3. Usable(B)
    BY <1>2 DEF Usable, Buttons, Shortened, Shortens
  <2> HIDE DEF B, n
  <2>4. cleaned[n] \in Seq(B)
    BY <2>1, <2>2
  <2>5. CASE Len(cleaned[n]) < MAX_SUGGESTED_REPLIES
    BY <1>1, <2>2, <2>5
  <2>6. CASE ~(Len(cleaned[n]) < MAX_SUGGESTED_REPLIES)
    <3>1. Len(cleaned[n]) = MAX_SUGGESTED_REPLIES
      <4>1. \A k \in Nat : k <= 3 /\ ~(k < 3) => k = 3
        OBVIOUS
      <4>2. Len(cleaned[n]) \in Nat
        BY <2>4
      <4> QED
        BY <2>2, <2>6, <4>1, <4>2 DEF MAX_SUGGESTED_REPLIES
    <3> QED
      BY <2>2, <2>3, <2>4, <2>6, <3>1
  <2> QED
    BY <2>5, <2>6
<1>3. Sanitize(<<raw>>, DefaultReplies) = DefaultReplies
  <2> DEFINE replies == <<raw>>
  <2>1. replies \in Seq({raw}) /\ Len(replies) = 1
    OBVIOUS
  <2> HIDE DEF replies
  <2>2. PICK cleaned \in [0..Len(replies) -> Seq(Buttons(replies))] :
          /\ \A i \in 0..Len(replies) : Len(cleaned[i]) <= i
          /\ Sanitize(replies, DefaultReplies) =
               IF Len(cleaned[Len(replies)]) < MAX_SUGGESTED_REPLIES THEN DefaultReplies ELSE cleaned[Len(replies)]
    BY <2>1, SanitizeSteps
  <2>3. Len(cleaned[1]) \in Nat /\ Len(cleaned[1]) <= 1
    BY <2>1, <2>2
  <2>4. \A k \in Nat : k <= 1 => k < 3
    OBVIOUS
  <2>5. Len(cleaned[1]) < MAX_SUGGESTED_REPLIES
    BY <2>3, <2>4 DEF MAX_SUGGESTED_REPLIES
  <2> QED
    BY <2>1, <2>2, <2>5 DEF replies
<1>4. \/ \E replies \in Elements : Shortened(replies) /\ SuggestedReplies(payload, raw) = Sanitize(replies, DefaultReplies)
      \/ SuggestedReplies(payload, raw) = Sanitize(<<raw>>, DefaultReplies)
  BY DEF SuggestedReplies, PayloadType
<1>5. Good(SuggestedReplies(payload, raw))
  BY <1>1, <1>2, <1>3, <1>4
<1> QED
  BY <1>5

(* What send_message makes of a reply that was parsed.                      *)
LEMMA SendFacts ==
  ASSUME NEW text, NEW suggested, suggested # <<>>
  PROVE  /\ SendMessage(text, suggested).suggested_replies = CleanReplies(suggested)
         /\ SendMessage(text, suggested).ok = ~Blank(ReplyText(ParsePayload(text), text))
         /\ SendMessage(text, suggested).text = ReplyText(ParsePayload(text), text)
  BY DEF SendMessage, NormalizeReply, ParseReply

LEMMA ParsedFacts ==
  ASSUME NEW raw \in PieceText, ParseReply(raw).ok
  PROVE  /\ ParseReply(raw).text \in PieceText /\ ParseReply(raw).text # <<>>
         /\ ParseReply(raw).suggested_replies # <<>>
         /\ \E B : Usable(B) /\ ParseReply(raw).suggested_replies \in Seq(B)
<1> DEFINE p == ParsePayload(raw)
<1>1. PayloadType(p)
  BY ParsePayloadType
<1>2. /\ ParseReply(raw).ok = ~Blank(ReplyText(p, raw))
      /\ ParseReply(raw).text = ReplyText(p, raw)
      /\ ParseReply(raw).suggested_replies = SuggestedReplies(p, raw)
  BY DEF ParseReply
<1> HIDE DEF p
<1>3. ReplyText(p, raw) \in PieceText
  BY <1>1, ReplyTextFacts
<1>4. PICK B : Usable(B) /\ SuggestedReplies(p, raw) \in Seq(B)
               /\ Len(SuggestedReplies(p, raw)) = MAX_SUGGESTED_REPLIES
  BY <1>1, SuggestedFacts
<1>5. SuggestedReplies(p, raw) # <<>>
  BY <1>4 DEF MAX_SUGGESTED_REPLIES
<1> QED
  BY <1>2, <1>3, <1>4, <1>5 DEF Blank

LEMMA KeyboardIsUsableHolds ==
  ASSUME NEW raw \in PieceText, ParseReply(raw).ok
  PROVE  KeyboardIsUsable(SendMessage(ParseReply(raw).text, ParseReply(raw).suggested_replies))
<1> DEFINE suggested == ParseReply(raw).suggested_replies
           kept == CleanReplies(suggested)
<1>1. PICK B : Usable(B) /\ suggested \in Seq(B)
  BY ParsedFacts
<1>2. suggested # <<>> /\ <<>> \notin B
  BY <1>1, ParsedFacts DEF Usable
<1> HIDE DEF suggested
<1>3. kept \in Seq(B) /\ Len(kept) \in 1..MAX_SUGGESTED_REPLIES /\ IsInjective(kept)
  BY <1>1, <1>2, CleanRepliesFacts
<1> HIDE DEF kept
<1>4. \A b \in ToSet(kept) : ~Blank(b) /\ Truncated(b) = b
  BY <1>1, <1>3 DEF ToSet, Usable, Blank
<1>5. SendMessage(ParseReply(raw).text, suggested).suggested_replies = kept
  BY <1>2, SendFacts DEF kept
<1> QED
  BY <1>3, <1>4, <1>5 DEF KeyboardIsUsable, suggested

(* What has neither an object nor a string in it is taken as it is.         *)
LEMMA PlainTextIsKept ==
  ASSUME NEW text \in PieceText, \A p \in ToSet(text) : p.kind \notin {"object", "broken", "quoted"}
  PROVE  ReplyText(ParsePayload(text), text) = text
<1> DEFINE Plain(t) == t \in PieceText /\ \A i \in DOMAIN t : t[i].kind \notin {"object", "broken", "quoted"}
<1>1. Plain(text)
  BY DEF ToSet
<1>2. ASSUME NEW t, Plain(t) PROVE ~IsRead(Payload(t)) \/ Payload(t).kind = "array"
  <2>1. IsJson(t) => t[1].kind \in {"array", "null"}
    <3>1. IsJson(t) => 1 \in DOMAIN t
      BY <1>2, WhereFacts DEF IsJson
    <3> QED
      BY <1>2, <3>1 DEF IsJson
  <2> QED
    BY <2>1 DEF IsRead, Payload
<1> DEFINE u == Unwrapped(text)
<1>3. Plain(u)
  <2>1. u \in PieceText
    BY CandidatesFacts
  <2> DEFINE S == {p \in Pieces : p.kind \notin {"object", "broken", "quoted"}}
  <2>2. text \in Seq(S)
    BY <1>1, WhereFacts DEF PieceText
  <2>3. u \in Seq(S)
    BY <2>2, UnwrappedFacts
  <2> HIDE DEF u
  <2> QED
    BY <2>1, <2>3
<1> HIDE DEF u
<1>4. Extracted(u) = Absent
  <2>1. \A i \in DOMAIN u : ~Opens(u[i])
    <3>1. \A i \in DOMAIN u : u[i] \in Pieces
      BY <1>3, WhereFacts
    <3> QED
      BY <1>3, <3>1, BracesAssumption
  <2>2. Where(u, Opens) = {}
    BY <2>1 DEF Where
  <2> QED
    BY <2>2 DEF Extracted
<1>5. Relaxed(u) = <<>>
  <2>1. Where(u, HasText) = {} /\ Where(u, HasReplies) = {}
    BY <1>3 DEF Where, HasText, HasReplies
  <2> QED
    BY <2>1 DEF Relaxed, RelaxedText, RelaxedReplies, Blank
<1>6. Plain(<<>>)
  BY DEF PieceText
<1>7. ASSUME NEW i \in 1..4 PROVE Plain(Candidates(text)[i])
  <2>1. i = 1 \/ i = 2 \/ i = 3 \/ i = 4
    OBVIOUS
  <2> HIDE DEF Plain
  <2> QED
    BY <1>1, <1>3, <1>4, <1>5, <1>6, <2>1, CandidatesFacts DEF u
<1>8. ParsePayload(text) = Absent \/ ParsePayload(text).kind = "array"
  <2> HIDE DEF Plain
  <2> QED
    BY <1>2, <1>7, ParsePayloadFacts
<1> QED
  BY <1>8 DEF ReplyText

LEMMA SentAsParsedHolds ==
  ASSUME NEW raw \in PieceText, ParseReply(raw).ok
  PROVE  SentAsParsed(ParseReply(raw), SendMessage(ParseReply(raw).text, ParseReply(raw).suggested_replies))
<1> DEFINE text == ParseReply(raw).text
           sent == SendMessage(text, ParseReply(raw).suggested_replies)
<1>1. text \in PieceText /\ text # <<>> /\ ParseReply(raw).suggested_replies # <<>>
  BY ParsedFacts
<1>2. sent.ok = ~Blank(ReplyText(ParsePayload(text), text)) /\ sent.text = ReplyText(ParsePayload(text), text)
  BY <1>1, SendFacts
<1> HIDE DEF sent, text
<1>3. sent.ok
  BY <1>1, <1>2, ParsePayloadType, ReplyTextFacts DEF Blank
<1> QED
  BY <1>1, <1>2, <1>3, PlainTextIsKept DEF SentAsParsed, sent, text
-----------------------------------------------------------------------------
(* Answers of the form the prompt asks for.                                 *)

(* The replies of an answer need nothing done to them.                      *)
LEMMA AnswerFacts ==
  ASSUME NEW p \in Pieces, IsAnswer(p)
  PROVE  /\ p.kind \in {"object", "broken"}
         /\ p.text # Absent /\ p.text # <<>> /\ p.replies # Absent /\ p.replies # <<>>
         /\ Strings(p.replies) = p.replies
         /\ Sanitize(p.replies, DefaultReplies) = p.replies
<1> DEFINE r == p.replies
<1>1. /\ p.kind \in {"object", "broken"} /\ p.text # Absent /\ p.text # <<>> /\ r # Absent
      /\ Len(r) = 3 /\ Sanitize(r, <<>>) = r
  BY DEF IsAnswer, HasText, HasReplies, Blank, MAX_SUGGESTED_REPLIES
<1>2. r \in Seq(PieceText \cup {Absent})
  <2>1. PieceType(p)
    BY AlgorithmsAssumption
  <2> QED
    BY <1>1, <2>1 DEF PieceType, Elements
<1> HIDE DEF r
<1>3. PICK cleaned \in [0..Len(r) -> Seq(Buttons(r))] :
        /\ cleaned[0] = <<>>
        /\ \A i \in 1..Len(r) : cleaned[i] = Sanitized(cleaned[i - 1], r[i])
        /\ \A i \in 1..Len(r) : Len(cleaned[i]) <= Len(cleaned[i - 1]) + 1
        /\ \A fallback : Sanitize(r, fallback) =
             IF Len(cleaned[Len(r)]) < MAX_SUGGESTED_REPLIES THEN fallback ELSE cleaned[Len(r)]
  BY <1>2, SanitizeSteps
<1>4. r # <<>>
  <2>1. Len(<<>>) # 3
    OBVIOUS
  <2> QED
    BY <1>1, <2>1
<1>5. ~(Len(cleaned[3]) < MAX_SUGGESTED_REPLIES) /\ cleaned[3] = r
  BY <1>1, <1>3, <1>4
<1>6. Sanitize(r, DefaultReplies) = r
  BY <1>1, <1>3, <1>5
<1>7. Absent \notin ToSet(r)
  <2> DEFINE L(i) == Len(cleaned[i])
  <2>1. L(0) = 0 /\ L(0) \in Nat /\ L(1) \in Nat /\ L(2) \in Nat /\ L(3) = 3
    BY <1>1, <1>3, <1>5
  <2>2. ASSUME NEW i \in 1..3 PROVE L(i) <= L(i - 1) + 1 /\ (r[i] = Absent => L(i) = L(i - 1))
    BY <1>1, <1>3 DEF Sanitized
  <2>3. 1 - 1 = 0 /\ 2 - 1 = 1 /\ 3 - 1 = 2
    OBVIOUS
  <2>4. L(1) <= L(0) + 1 /\ L(2) <= L(1) + 1 /\ L(3) <= L(2) + 1
    BY <2>2, <2>3
  <2>5. (r[1] = Absent => L(1) = L(0)) /\ (r[2] = Absent => L(2) = L(1)) /\ (r[3] = Absent => L(3) = L(2))
    BY <2>2, <2>3
  <2> HIDE DEF L
  <2>6. L(1) # L(0) /\ L(2) # L(1) /\ L(3) # L(2)
    BY <2>1, <2>4
  <2>7. r[1] # Absent /\ r[2] # Absent /\ r[3] # Absent
    BY <2>5, <2>6
  <2>8. DOMAIN r = 1..3
    BY <1>1, <1>2
  <2>9. \A i \in 1..3 : r[i] # Absent
    BY <2>7
  <2> QED
    BY <2>8, <2>9 DEF ToSet
<1>8. Strings(r) = r
  BY <1>2, <1>7, StringsFacts
<1> QED
  BY <1>1, <1>4, <1>6, <1>8 DEF r

(* A payload that has the answer is taken as it is.                         *)
LEMMA AnswerTaken ==
  ASSUME NEW raw, NEW p \in Pieces, IsAnswer(p),
         ParsePayload(raw) # Absent, ParsePayload(raw).kind = "object",
         ParsePayload(raw).text = p.text, ParsePayload(raw).replies = p.replies
  PROVE  ParseReply(raw) = [ok |-> TRUE, text |-> p.text, suggested_replies |-> p.replies]
<1> DEFINE payload == ParsePayload(raw)
<1>1. /\ p.text # Absent /\ p.text # <<>> /\ p.replies # Absent
      /\ Sanitize(p.replies, DefaultReplies) = p.replies
  BY AnswerFacts
<1>2. ReplyText(payload, raw) = p.text
  BY <1>1 DEF ReplyText, Blank
<1>3. SuggestedReplies(payload, raw) = p.replies
  BY <1>1 DEF SuggestedReplies
<1>4. ~Blank(p.text) = TRUE
  BY <1>1 DEF Blank
<1> HIDE DEF payload
<1> QED
  BY <1>2, <1>3, <1>4 DEF ParseReply, payload

(* An answer with nothing but words and fences around it.                   *)
Alone(t, a) ==
  /\ t \in PieceText
  /\ \E j \in DOMAIN t : t[j] = a /\ \A k \in DOMAIN t \ {j} : t[k].kind \in {"fence", "prose"}

LEMMA AlonePayload ==
  ASSUME NEW t, NEW a \in Pieces, Alone(t, a), IsAnswer(a)
  PROVE  Payload(t) = Absent \/ (Payload(t) = a /\ a.kind = "object")
<1>1. PICK j \in DOMAIN t : t[j] = a
  BY DEF Alone
<1>2. a.kind \in {"object", "broken"}
  BY AnswerFacts
<1>3. IsJson(t) => t[1] = a
  BY <1>1, WhereFacts DEF Alone, IsJson
<1> QED
  BY <1>2, <1>3 DEF Payload, IsJson

LEMMA AloneUnwrapped ==
  ASSUME NEW t, NEW a \in Pieces, Alone(t, a), IsAnswer(a)
  PROVE  Alone(Unwrapped(t), a)
<1> DEFINE u == Unwrapped(t)
<1>1. t \in PieceText /\ t \in Seq(Pieces) /\ u \in PieceText
  BY CandidatesFacts DEF Alone, PieceText
<1>2. PICK d \in 0..1 :
        /\ \A k \in 1..Len(u) : k + d \in 1..Len(t) /\ u[k] = t[k + d]
        /\ \A i \in 1..Len(t) : t[i] # Fence => i - d \in 1..Len(u)
  BY <1>1, UnwrappedFacts
<1> HIDE DEF u
<1>3. DOMAIN t = 1..Len(t) /\ DOMAIN u = 1..Len(u) /\ Len(u) \in Nat /\ Len(t) \in Nat
  BY <1>1, WhereFacts
<1>4. PICK j \in 1..Len(t) : t[j] = a /\ \A k \in 1..Len(t) : k # j => t[k].kind \in {"fence", "prose"}
  BY <1>3 DEF Alone
<1>5. a # Fence
  <2>1. a.kind # "fence" /\ Fence.kind = "fence"
    BY AnswerFacts DEF Fence
  <2> QED
    BY <2>1
<1>6. j - d \in 1..Len(u) /\ (j - d) + d = j
  BY <1>2, <1>3, <1>4, <1>5
<1>7. u[j - d] = a
  BY <1>2, <1>4, <1>6
<1>8. ASSUME NEW k \in 1..Len(u), k # j - d PROVE u[k].kind \in {"fence", "prose"}
  <2>1. k + d # j
    BY <1>3, <1>4, <1>8
  <2> QED
    BY <1>2, <1>4, <2>1
<1> QED
  BY <1>1, <1>3, <1>6, <1>7, <1>8 DEF Alone, u

LEMMA AloneByItself ==
  ASSUME NEW a \in Pieces
  PROVE  Alone(<<a>>, a)
<1> DEFINE t == <<a>>
<1>1. t \in PieceText /\ DOMAIN t = {1} /\ t[1] = a
  BY DEF PieceText
<1> HIDE DEF t
<1>2. Alone(t, a)
  BY <1>1 DEF Alone
<1> QED
  BY <1>2 DEF t

LEMMA AloneExtracted ==
  ASSUME NEW t, NEW a \in Pieces, Alone(t, a), IsAnswer(a)
  PROVE  Extracted(t) = Absent \/ Extracted(t) = <<a>>
<1> DEFINE opening == Where(t, Opens)
           closing == Where(t, Closes)
<1>1. PICK j \in DOMAIN t : t[j] = a /\ \A k \in DOMAIN t \ {j} : t[k].kind \in {"fence", "prose"}
  BY DEF Alone
<1>2. DOMAIN t \subseteq Nat /\ Len(t) \in Nat /\ DOMAIN t \subseteq 0..Len(t) /\ \A k \in DOMAIN t : t[k] \in Pieces
  BY WhereFacts DEF Alone
<1>3. a.kind \in {"object", "broken"}
  BY AnswerFacts
<1>4. \A k \in DOMAIN t \ {j} : ~Opens(t[k]) /\ ~Closes(t[k])
  <2>1. ASSUME NEW k \in DOMAIN t \ {j} PROVE ~Opens(t[k]) /\ ~Closes(t[k])
    <3>1. t[k] \in Pieces /\ t[k].kind \notin {"object", "broken", "quoted"}
      BY <1>1, <1>2
    <3> QED
      BY <3>1, BracesAssumption
  <2> QED
    BY <2>1
<1>5. Opens(a)
  BY <1>3, BracesAssumption
<1>6. opening = {j} /\ closing \in {{}, {j}}
  BY <1>1, <1>4, <1>5 DEF Where
<1> HIDE DEF opening, closing
<1>7. CASE closing = {}
  BY <1>7 DEF Extracted, closing
<1>8. CASE closing = {j}
  <2>1. Min(opening) = j
    <3>1. {j} \subseteq Nat
      BY <1>2
    <3>2. Min({j}) \in {j}
      BY <3>1, MinFact
    <3> QED
      BY <1>6, <3>2
  <2>2. Max(closing) = j
    <3>1. {j} \subseteq 0..Len(t)
      BY <1>2
    <3>2. Max({j}) \in {j}
      BY <1>2, <3>1, MaxFact
    <3> QED
      BY <1>8, <3>2
  <2>3. ~(j > j)
    BY <1>2
  <2>4. opening # {} /\ closing # {}
    BY <1>6, <1>8
  <2>5. Extracted(t) = <<IF t[j].kind = "quoted" THEN Shred[1] ELSE t[j]>>
    BY <2>1, <2>2, <2>3, <2>4 DEF Extracted, opening, closing
  <2> QED
    BY <1>1, <1>3, <2>5
<1> QED
  BY <1>6, <1>7, <1>8

LEMMA AloneRelaxed ==
  ASSUME NEW t, NEW a \in Pieces, Alone(t, a), IsAnswer(a)
  PROVE  LET o == Payload(Relaxed(t))
         IN o # Absent /\ o.kind = "object" /\ o.text = a.text /\ o.replies = a.replies
<1>1. PICK j \in DOMAIN t : t[j] = a /\ \A k \in DOMAIN t \ {j} : t[k].kind \in {"fence", "prose"}
  BY DEF Alone
<1>2. t \in PieceText /\ DOMAIN t \subseteq Nat
  BY WhereFacts DEF Alone
<1>3. HasText(a) /\ HasReplies(a)
  BY DEF IsAnswer
<1>4. Where(t, HasText) = {j} /\ Where(t, HasReplies) = {j}
  BY <1>1, <1>3 DEF Where, HasText, HasReplies
<1>5. {i \in {j} : HasReplies(t[i])} = {j}
  BY <1>1, <1>3
<1>6. Min({j}) = j
  <2>1. {j} \subseteq Nat
    BY <1>2
  <2>2. Min({j}) \in {j}
    BY <2>1, MinFact
  <2> QED
    BY <2>2
<1>7. RelaxedText(t) = a.text
  BY <1>1, <1>4, <1>5, <1>6 DEF RelaxedText
<1>8. RelaxedReplies(t) = a.replies /\ a.replies # <<>>
  BY <1>1, <1>4, <1>6, AnswerFacts DEF RelaxedReplies
<1>9. Relaxed(t) # <<>>
  BY <1>8 DEF Relaxed
<1>10. Payload(Relaxed(t)) = RelaxedObject(t) /\ RelaxedObject(t) # Absent
  BY <1>2, <1>9, PayloadOfRelaxed
<1> QED
  BY <1>7, <1>8, <1>10 DEF RelaxedObject
LEMMA AnswerIsFoundHolds ==
  ASSUME NEW raw \in PieceText
  PROVE  AnswerIsFound(raw, ParseReply(raw))
<1> DEFINE Taken(p) == ParseReply(raw) = [ok |-> TRUE, text |-> p.text, suggested_replies |-> p.replies]
<1>1. ASSUME NEW i \in DOMAIN raw, IsAnswer(raw[i]),
             \A j \in DOMAIN raw \ {i} : raw[j].kind \in {"fence", "prose"}
      PROVE  Taken(raw[i])
  <2> DEFINE a == raw[i]
             u == Unwrapped(raw)
             e == Extracted(u)
             Has(v) == v = Absent \/ (v.kind = "object" /\ v.text = a.text /\ v.replies = a.replies)
             V(k) == Payload(Candidates(raw)[k])
  <2>1. a \in Pieces /\ Alone(raw, a) /\ IsAnswer(a)
    BY <1>1, WhereFacts DEF Alone
  <2> HIDE DEF a
  <2>2. Alone(u, a)
    BY <2>1, AloneUnwrapped
  <2>3. e = Absent \/ (e # Absent /\ Alone(e, a))
    <3>1. e = Absent \/ e = <<a>>
      BY <2>1, <2>2, AloneExtracted
    <3>2. Alone(<<a>>, a)
      BY <2>1, AloneByItself
    <3> QED
      BY <3>1, <3>2
  <2> HIDE DEF u, e
  <2>4. Has(V(1)) /\ Has(V(2)) /\ Has(V(3)) /\ Has(V(4)) /\ V(4) # Absent
    <3>1. \A t : Alone(t, a) => Has(Payload(t))
      BY <2>1, AlonePayload
    <3>2. \A t : Alone(t, a) => Has(Payload(Relaxed(t))) /\ Payload(Relaxed(t)) # Absent
      BY <2>1, AloneRelaxed
    <3>3. Has(Payload(<<>>))
      BY DEF Payload, IsJson
    <3> HIDE DEF Has
    <3>4. Candidates(raw)[1] = raw /\ Candidates(raw)[2] = u
      BY CandidatesFacts DEF u
    <3>5. CASE e = Absent
      <4>1. Candidates(raw)[3] = <<>> /\ Candidates(raw)[4] = Relaxed(u)
        BY <3>5, CandidatesFacts DEF u, e
      <4> QED
        BY <2>1, <2>2, <3>1, <3>2, <3>3, <3>4, <4>1
    <3>6. CASE e # Absent
      <4>1. Candidates(raw)[3] = e /\ Candidates(raw)[4] = Relaxed(e)
        BY <3>6, CandidatesFacts DEF u, e
      <4> QED
        BY <2>1, <2>2, <2>3, <3>1, <3>2, <3>4, <3>6, <4>1
    <3> QED
      BY <3>5, <3>6
  <2>5. IsRead(V(4))
    BY <2>4 DEF IsRead
  <2>6. PICK k \in 1..4 : ParsePayload(raw) = V(k) /\ V(k) # Absent
    BY <2>5, ParsePayloadFacts DEF IsRead
  <2>7. Has(V(k))
    <3>1. k = 1 \/ k = 2 \/ k = 3 \/ k = 4
      OBVIOUS
    <3> HIDE DEF Has, V
    <3> QED
      BY <2>4, <3>1
  <2> HIDE DEF V
  <2>8. Taken(a)
    BY <2>1, <2>6, <2>7, AnswerTaken
  <2> QED
    BY <2>8 DEF a
<1>2. ASSUME NEW i \in DOMAIN raw, raw[i].kind = "quoted", raw \in {<<raw[i]>>, <<Fence, raw[i], Fence>>},
             Len(raw[i].inner) = 1, raw[i].inner[1].kind = "object", IsAnswer(raw[i].inner[1])
      PROVE  Taken(raw[i].inner[1])
  <2> DEFINE q == raw[i]
             inner == q.inner
             p == inner[1]
             V(k) == Payload(Candidates(raw)[k])
  <2>1. q \in Pieces /\ q.kind = "quoted" /\ raw \in {<<q>>, <<Fence, q, Fence>>}
    BY <1>2, WhereFacts
  <2>2. PieceType(q) /\ Len(inner) = 1 /\ p.kind = "object" /\ IsAnswer(p)
    BY <1>2, <2>1, AlgorithmsAssumption
  <2> HIDE DEF q
  <2>3. inner \in PieceText
    BY <2>1, <2>2 DEF PieceType
  <2>4. p \in Pieces
    <3>1. 1 \in DOMAIN inner
      BY <2>2, <2>3, WhereFacts
    <3> QED
      BY <2>3, <3>1, WhereFacts
  <2>5. p # Absent
    BY <2>4, AlgorithmsAssumption
  <2>6. Payload(<<q>>) = p
    <3>1. IsJson(<<q>>) /\ <<q>>[1] = q /\ IsJson(inner)
      BY <2>1, <2>2 DEF IsJson
    <3> QED
      BY <2>1, <3>1 DEF Payload
  <2> HIDE DEF p, inner
  <2>7. ParsePayload(raw) = p
    <3>1. CASE raw = <<q>>
      <4>1. IsRead(V(1)) /\ V(1) = p
        BY <2>2, <2>5, <2>6, <3>1, CandidatesFacts DEF IsRead
      <4>2. PICK k \in 1..4 : ParsePayload(raw) = V(k) /\ \A j \in 1..4 : j < k => ~IsRead(V(j))
        BY <4>1, ParsePayloadFacts
      <4>3. k = 1
        BY <4>1, <4>2
      <4> QED
        BY <4>1, <4>2, <4>3
    <3>2. CASE raw = <<Fence, q, Fence>>
      <4>1. Unwrapped(raw) = <<q>>
        <5>1. raw # <<>> /\ raw[1] = Fence /\ Tail(raw) = <<q, Fence>>
          BY <3>2
        <5>2. <<q, Fence>> # <<>> /\ Last(<<q, Fence>>) = Fence /\ Front(<<q, Fence>>) = <<q>>
          <6> DEFINE f == Fence
                     s == <<q, f>>
                     t == SubSeq(s, 1, 1)
          <6> HIDE DEF f
          <6>1. s \in Seq({q, f}) /\ Len(s) = 2 /\ s[1] = q /\ s[2] = f
            OBVIOUS
          <6> HIDE DEF s
          <6>2. t \in Seq({q, f}) /\ Len(t) = 1 /\ t[1] = s[1]
            BY <6>1
          <6> HIDE DEF t
          <6>3. t = <<q>>
            BY <6>1, <6>2
          <6>4. s # <<>> /\ Last(s) = f
            BY <6>1 DEF Last
          <6>5. Front(s) = t
            BY <6>1 DEF Front, t
          <6> QED
            BY <6>3, <6>4, <6>5 DEF s, f
        <5> QED
          BY <5>1, <5>2 DEF Unwrapped
      <4>2. ~IsRead(V(1))
        <5>1. Len(raw) # 1
          BY <3>2
        <5> QED
          BY <5>1, CandidatesFacts DEF IsRead, Payload, IsJson
      <4>3. IsRead(V(2)) /\ V(2) = p
        BY <2>2, <2>5, <2>6, <4>1, CandidatesFacts DEF IsRead
      <4>4. PICK k \in 1..4 : /\ ParsePayload(raw) = V(k) /\ IsRead(V(k))
                              /\ \A j \in 1..4 : j < k => ~IsRead(V(j))
        BY <4>3, ParsePayloadFacts
      <4>5. k = 2
        BY <4>2, <4>3, <4>4
      <4> QED
        BY <4>3, <4>4, <4>5
    <3> QED
      BY <2>1, <3>1, <3>2
  <2>8. Taken(p)
    BY <2>2, <2>4, <2>5, <2>7, AnswerTaken
  <2> QED
    BY <2>8 DEF p, inner, q
<1> QED
  BY <1>1, <1>2 DEF AnswerIsFound
-----------------------------------------------------------------------------
(* Nothing but the five steps changes the state, and they start from        *)
(* nothing: the result always is what the code makes of the input.          *)

Updated ==
  \E u \in Update : /\ input = [of |-> "update", update |-> u]
                    /\ result = [message |-> Parse(u), handled |-> Handle(Parse(u), u)]

Merged ==
  \E photos \in Album : /\ input = [of |-> "album", photos |-> photos]
                        /\ result = [message |-> Merge(photos)]

Conversed ==
  \E start \in {None, CompactBaseline(<<"summary">>)},
     messages \in Seq({ m \in InboundMessage : ~Unsupported(m) }) \ {<<>>} :
    /\ input = [of |-> "messages", start |-> start, messages |-> messages]
    /\ result = [stored |-> AfterReplies(start, messages, <<"answer">>)]

ReplyRead ==
  \E raw \in PieceText :
    /\ input = [of |-> "reply", raw |-> raw]
    /\ result = [parsed |-> ParseReply(raw),
                 sent |-> IF ParseReply(raw).ok
                          THEN SendMessage(ParseReply(raw).text, ParseReply(raw).suggested_replies)
                          ELSE ParseReply(raw)]

TextFormatted ==
  \E written \in Written : /\ input = [of |-> "text", text |-> written]
                          /\ result = [html |-> FormatForTelegram(written)]

Computed == input = Nothing \/ Updated \/ Merged \/ Conversed \/ ReplyRead \/ TextFormatted

LEMMA AlwaysComputed == Spec => []Computed
<1>1. Init => Computed
  BY DEF Init, Computed
<1>2. Computed /\ [Next]_vars => Computed'
  <2> SUFFICES ASSUME Computed, [Next]_vars PROVE Computed'
    OBVIOUS
  <2>1. CASE ParseUpdate
    <3>1. Updated'
      BY <2>1, AlgorithmsAssumption DEF ParseUpdate, Updated
    <3> QED
      BY <3>1 DEF Computed
  <2>2. CASE MergeAlbum
    <3>1. Merged'
      BY <2>2, AlgorithmsAssumption DEF MergeAlbum, Merged
    <3> QED
      BY <3>1 DEF Computed
  <2>3. CASE Converse
    <3>1. Conversed'
      BY <2>3, AlgorithmsAssumption DEF Converse, Conversed
    <3> QED
      BY <3>1 DEF Computed
  <2>4. CASE ReadReply
    <3>1. ReplyRead'
      BY <2>4, AlgorithmsAssumption DEF ReadReply, ReplyRead
    <3> QED
      BY <3>1 DEF Computed
  <2>5. CASE FormatText
    <3>1. TextFormatted'
      BY <2>5, AlgorithmsAssumption DEF FormatText, TextFormatted
    <3> QED
      BY <3>1 DEF Computed
  <2>6. CASE UNCHANGED vars
    BY <2>6 DEF vars, Computed, Updated, Merged, Conversed, ReplyRead, TextFormatted
  <2> QED
    BY <2>1, <2>2, <2>3, <2>4, <2>5, <2>6 DEF Next
<1> QED
  BY <1>1, <1>2, PTL DEF Spec

(* Which of the five it is shows in the input.                              *)
LEMMA InputTells ==
  ASSUME Computed
  PROVE  /\ input.of = "update" => Updated
         /\ input.of = "album" => Merged
         /\ input.of = "messages" => Conversed
         /\ input.of = "reply" => ReplyRead
         /\ input.of = "text" => TextFormatted
<1>1. input = Nothing => input.of = "nothing"
  BY DEF Nothing
<1>2. /\ Updated => input.of = "update"
      /\ Merged => input.of = "album"
      /\ Conversed => input.of = "messages"
      /\ ReplyRead => input.of = "reply"
      /\ TextFormatted => input.of = "text"
  <2>1. Updated => input.of = "update"
    BY DEF Updated
  <2>2. Merged => input.of = "album"
    BY DEF Merged
  <2>3. ASSUME Conversed PROVE input.of = "messages"
    <3>1. PICK start, messages : input = [of |-> "messages", start |-> start, messages |-> messages]
      BY <2>3 DEF Conversed
    <3> QED
      BY <3>1
  <2>4. ReplyRead => input.of = "reply"
    BY DEF ReplyRead
  <2>5. TextFormatted => input.of = "text"
    BY DEF TextFormatted
  <2> QED
    BY <2>1, <2>2, <2>3, <2>4, <2>5
<1> QED
  BY <1>1, <1>2 DEF Computed

-----------------------------------------------------------------------------
(* However incomplete an update is, a chat it names is answered, and words  *)
(* and photos are never refused.                                            *)
THEOREM EveryChatIsAnswered == Spec => []ChatsAreAnswered
<1>1. Computed => ChatsAreAnswered
  BY InputTells, NobodyIsIgnoredHolds DEF ChatsAreAnswered, Updated
<1> QED
  BY <1>1, AlwaysComputed, PTL

(* Images of a quoted message never go to Codex without a text that says    *)
(* where they come from.                                                    *)
THEOREM EveryQuoteIsExplained == Spec => []QuotesAreExplained
<1>1. Computed => QuotesAreExplained
  BY InputTells, QuotedImagesAreExplainedHolds DEF QuotesAreExplained, Updated
<1> QED
  BY <1>1, AlwaysComputed, PTL

(* A parsed or merged message that is stored as JSON is read back as it     *)
(* was, with the updates it answers for.                                    *)
THEOREM EveryMessageSurvivesStorage == Spec => []MessagesSurviveStorage
<1>1. ASSUME Computed, input.of = "update" PROVE SurvivesStorage(result.message)
  <2>1. PICK u \in Update : result.message = Parse(u)
    BY <1>1, InputTells DEF Updated
  <2> QED
    BY <2>1, ParseType, JsonSurvives DEF SurvivesStorage
<1>2. ASSUME Computed, input.of = "album" PROVE SurvivesStorage(result.message)
  <2>1. PICK photos \in Album : result.message = Merge(photos)
    BY <1>2, InputTells DEF Merged
  <2> QED
    BY <2>1, MergeFields, JsonSurvives DEF SurvivesStorage
<1>3. Computed => MessagesSurviveStorage
  BY <1>1, <1>2 DEF MessagesSurviveStorage
<1> QED
  BY <1>3, AlwaysComputed, PTL

(* The photos of an album, of any number and in any order of arrival, make  *)
(* one message, which answers for the updates of all of them.               *)
THEOREM EveryAlbumMerges == Spec => []AlbumsMerge
<1>1. ASSUME Computed, input.of = "album"
      PROVE  MergeIgnoresArrival(input.photos, result.message) /\ MergeCoversAlbum(input.photos, result.message)
  <2>1. PICK photos \in Album : input.photos = photos /\ result.message = Merge(photos)
    BY <1>1, InputTells DEF Merged
  <2> QED
    BY <2>1, MergeIgnoresArrivalHolds, MergeFields
<1>2. Computed => AlbumsMerge
  BY <1>1 DEF AlbumsMerge
<1> QED
  BY <1>2, AlwaysComputed, PTL

(* However long a conversation goes on, the stored transcript is the end of *)
(* all that was said, in whole turns, and is read back as it was.           *)
THEOREM EveryTranscriptIsWhole == Spec => []TranscriptsAreWhole
<1>1. ASSUME Computed, input.of = "messages"
      PROVE  TurnsStayWhole(input.start, input.messages, <<"answer">>, result.stored)
  <2>1. Conversed
    BY <1>1, InputTells
  <2>2. PICK start \in {None, CompactBaseline(<<"summary">>)},
             messages \in Seq({ m \in InboundMessage : ~Unsupported(m) }) \ {<<>>} :
          /\ input = [of |-> "messages", start |-> start, messages |-> messages]
          /\ result = [stored |-> AfterReplies(start, messages, <<"answer">>)]
    BY <2>1 DEF Conversed
  <2>3. /\ input.start = start /\ input.messages = messages
        /\ result.stored = AfterReplies(start, messages, <<"answer">>)
    BY <2>2
  <2>4. messages \in Seq({ m \in InboundMessage : ~Unsupported(m) }) /\ messages # <<>>
    BY <2>2
  <2> QED
    BY <2>3, <2>4, TurnsStayWholeHolds
<1>2. Computed => TranscriptsAreWhole
  BY <1>1 DEF TranscriptsAreWhole
<1> QED
  BY <1>2, AlwaysComputed, PTL

LEMMA ReplyIsRead ==
  ASSUME Computed, input.of = "reply"
  PROVE  /\ input.raw \in PieceText /\ result.parsed = ParseReply(input.raw)
         /\ result.sent = IF ParseReply(input.raw).ok
                          THEN SendMessage(ParseReply(input.raw).text, ParseReply(input.raw).suggested_replies)
                          ELSE ParseReply(input.raw)
<1>1. ReplyRead
  BY InputTells
<1> QED
  BY <1>1 DEF ReplyRead

(* Whatever words and fences Codex puts around an answer, and also when its *)
(* JSON is broken or was encoded twice, the answer is taken as it is.       *)
THEOREM EveryAnswerIsFound == Spec => []AnswersAreFound
<1>1. Computed => AnswersAreFound
  BY ReplyIsRead, AnswerIsFoundHolds DEF AnswersAreFound
<1> QED
  BY <1>1, AlwaysComputed, PTL

(* A reply goes out with one to three buttons, no two alike, none blank and *)
(* none too long.                                                           *)
THEOREM EveryKeyboardIsUsable == Spec => []KeyboardsAreUsable
<1>1. ASSUME Computed, input.of = "reply" PROVE KeyboardIsUsable(result.sent)
  <2>1. CASE ParseReply(input.raw).ok
    BY <1>1, <2>1, ReplyIsRead, KeyboardIsUsableHolds
  <2>2. CASE ~ParseReply(input.raw).ok
    BY <1>1, <2>2, ReplyIsRead DEF KeyboardIsUsable
  <2> QED
    BY <2>1, <2>2
<1>2. Computed => KeyboardsAreUsable
  BY <1>1 DEF KeyboardsAreUsable
<1> QED
  BY <1>2, AlwaysComputed, PTL

(* What was parsed, and is kept in the transcript, is what is sent, unless  *)
(* there is an object or a quoted string in it.                             *)
THEOREM EveryReplyIsSentAsParsed == Spec => []RepliesAreSentAsParsed
<1>1. ASSUME Computed, input.of = "reply" PROVE SentAsParsed(result.parsed, result.sent)
  <2>1. CASE ParseReply(input.raw).ok
    BY <1>1, <2>1, ReplyIsRead, SentAsParsedHolds
  <2>2. CASE ~ParseReply(input.raw).ok
    BY <1>1, <2>2, ReplyIsRead DEF SentAsParsed
  <2> QED
    BY <2>1, <2>2
<1>2. Computed => RepliesAreSentAsParsed
  BY <1>1 DEF RepliesAreSentAsParsed
<1> QED
  BY <1>2, AlwaysComputed, PTL

LEMMA TextIsFormatted ==
  ASSUME Computed, input.of = "text"
  PROVE  input.text \in Written /\ result.html = FormatForTelegram(input.text)
<1>1. TextFormatted
  BY InputTells
<1> QED
  BY <1>1 DEF TextFormatted

(* The HTML of a text of any length, read back, is what was written,        *)
(* character by character, escaped once; of a fenced block only a language  *)
(* and line ends right behind its opening fence are gone.                   *)
THEOREM EveryTextIsShown == Spec => []TextIsShown
<1>1. Computed => TextIsShown
  BY TextIsFormatted, FormatShows DEF TextIsShown
<1> QED
  BY <1>1, AlwaysComputed, PTL

(* A text of any length comes out with its markup rendered: outside the     *)
(* tags, no rule finds anything that another round would still have taken.  *)
THEOREM EveryMarkupIsRendered == Spec => []MarkupIsRendered
<1>1. Computed => MarkupIsRendered
  BY TextIsFormatted, FormatRenders DEF MarkupIsRendered
<1> QED
  BY <1>1, AlwaysComputed, PTL

(* In a text of any length, what opens in a line of the HTML closes in that *)
(* line.                                                                    *)
THEOREM EveryTagIsLocal == Spec => []TagsAreLocal
<1>1. Computed => TagsAreLocal
  BY TextIsFormatted, FormatRenders DEF TagsAreLocal
<1> QED
  BY <1>1, AlwaysComputed, PTL
=============================================================================
