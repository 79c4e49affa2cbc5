---------------------------- MODULE MCAlgorithms ----------------------------
(***************************************************************************)
(* Inputs for Algorithms, bounded.                                         *)
(***************************************************************************)
EXTENDS Algorithms

(* Updates: every combination of the parts of a message, of the parts of   *)
(* a quoted message, and of a part of an update that is missing.           *)

MCTrimmed ==
    [ t \in {"", " ", "a", " a", "b", "f", "g", "chat", "user", "album", "REPLY_TO_IMAGE", "REPLY_TO_IMAGE_DOCUMENT"} |->
      IF t = " " THEN "" ELSE IF t = " a" THEN "a" ELSE t ]

Photos ==
    { None, <<>>, <<[file_id |-> "f", file_size |-> None]>>,
      <<[file_id |-> "f", file_size |-> 1], [file_id |-> "g", file_size |-> 2]>>,
      <<[file_id |-> "f", file_size |-> 2], [file_id |-> "g", file_size |-> 2]>>,
      <<[file_id |-> "f", file_size |-> 1], [file_id |-> "", file_size |-> 2]>> }

Documents ==
    { None, [file_id |-> "g", mime_type |-> "image", file_name |-> None],
      [file_id |-> "g", mime_type |-> None, file_name |-> "image"],
      [file_id |-> "", mime_type |-> "image", file_name |-> None],
      [file_id |-> "g", mime_type |-> "other", file_name |-> "other"] }

Message(text, caption, photo, document, group, reply) ==
    [ message_id |-> 1, from |-> "user", chat |-> "chat", text |-> text, caption |-> caption,
      photo |-> photo, document |-> document, media_group_id |-> group, reply_to_message |-> reply ]

Quoted ==
    {None} \cup { Message(t, None, p, d, None, None) : t \in {None, " ", "b"}, p \in Photos, d \in Documents }

Messages ==
    { Message(t, c, p, d, g, None) :
        t \in {None, " ", " a"}, c \in {None, "", "b"}, p \in Photos, d \in Documents, g \in {None, " ", "album"} }
    \cup { Message(t, None, p, None, None, r) : t \in {None, "a"}, p \in {None, <<[file_id |-> "f", file_size |-> 1]>>}, r \in Quoted }

MCUpdates ==
    LET whole == { [update_id |-> 7, message |-> m] : m \in Messages }
        some == { Message(t, None, p, None, None, None) : t \in {None, "a"}, p \in Photos }
    IN whole \cup { [update_id |-> None, message |-> m] : m \in some }
             \cup { [update_id |-> 7, message |-> [m EXCEPT !.message_id = None]] : m \in some }
             \cup { [update_id |-> 7, message |-> [m EXCEPT !.from = None]] : m \in some }
             \cup { [update_id |-> 7, message |-> [m EXCEPT !.chat = None]] : m \in some }
             \cup {[update_id |-> 7, message |-> None]}

-----------------------------------------------------------------------------
(* Albums: up to three photos in any order, whose update ids need not be   *)
(* in the order of their message ids.                                      *)

Photo(m, u, text, file) ==
    New([ chat_id |-> "chat", user_id |-> "user", message_id |-> m, update_id |-> u, text |-> text,
          media_group_id |-> "album", image_file_ids |-> <<file>>, reply_to_text |-> None,
          reply_to_image_file_ids |-> <<>>, processing_updates |-> <<>> ])

MCAlbums ==
    UNION { { [i \in 1..n |-> Photo(ms[i], us[i], ts[i], fs[i])] :
                ms \in Injection(1..n, 1..n), us \in Injection(1..n, 11..10 + n),
                ts \in [1..n -> {None, "a", "b"}], fs \in [1..n -> {"f", "g"}] } : n \in 1..3 }

-----------------------------------------------------------------------------
(* Conversations of up to three messages, photos and albums without words  *)
(* and quotes of every kind among them.                                    *)

Told ==
    LET photo == <<[file_id |-> "f", file_size |-> 1]>>
        quotes == {None} \cup { Message(t, None, p, None, None, None) : t \in {None, "b"}, p \in {None, photo} }
        parsed == { Parse([update_id |-> 7, message |-> Message(t, None, p, None, None, r)]) :
                      t \in {None, "a"}, p \in {None, photo}, r \in quotes }
    IN { m \in parsed : m # None /\ ~Unsupported(m) }
       \cup { Merge(<<Photo(1, 11, None, "f"), Photo(2, 12, t, "g")>>) : t \in {None, "b"} }

MCDialogues == UNION { [1..n -> Told] : n \in 1..3 }

-----------------------------------------------------------------------------
(* Replies of up to four pieces. "long" is what is left of two texts that  *)
(* begin alike.                                                            *)

MCTruncated(text) == IF text \in {Word("long 1"), Word("long 2")} THEN Word("long") ELSE text

Three == <<Word("a"), Word("b"), Word("c")>>

Object(text, replies, others) == [kind |-> "object", text |-> text, replies |-> replies, others |-> others]

Broken(text, replies, closed) ==
    [kind |-> "broken", text |-> text, replies |-> replies, others |-> <<>>, closed |-> closed]

RECURSIVE MCOpens(_)
MCOpens(p) ==
    \/ p.kind \in {"object", "broken"}
    \/ p.kind = "quoted" /\ \E i \in DOMAIN p.inner : MCOpens(p.inner[i])

RECURSIVE MCCloses(_)
MCCloses(p) ==
    \/ p.kind = "object"
    \/ p.kind = "broken" /\ p.closed
    \/ p.kind = "quoted" /\ \E i \in DOMAIN p.inner : MCCloses(p.inner[i])

Offered ==
    { Word("words")[1], Fence, [kind |-> "null"], [kind |-> "array", elements |-> Three],
      Object(Word("answer"), Three, <<>>),
      Object(Word("answer"), <<Word("long 1"), Absent, Word("long 2"), Word("a"), Word("a")>>, <<>>),
      Object(<<>>, Absent, <<Word("m"), Word("note"), <<>>>>),
      Object(<<Word("see")[1], Fence, Object(Absent, Absent, <<Word("value")>>), Fence>>, Three, <<>>),
      Broken(Word("answer"), Three, TRUE), Broken(Word("answer"), Three, FALSE), Broken(Word("half"), Absent, FALSE),
      [kind |-> "quoted", inner |-> <<Object(Word("answer"), Three, <<>>)>>],
      [kind |-> "quoted", inner |-> Word("words")] }

MCReplies == UNION { [1..n -> Offered] : n \in 0..4 }

(* The pieces of texts inside a piece, too. *)
MCPieces ==
    Offered \cup {Shred[1], Object(Absent, Absent, <<Word("value")>>)}
    \cup { Word(w)[1] : w \in {"a", "b", "c", "answer", "half", "long", "long 1", "long 2", "m", "note", "see", "value"} }

-----------------------------------------------------------------------------
(* Texts: short ones over many characters, longer ones over few, and texts *)
(* with one fenced block or two.                                           *)

Runs(S, lengths) == UNION { [1..n -> S] : n \in lengths }

TextPieces ==
    {FENCE, <<" ">>, <<".">>, <<",">>, <<Newline>>, <<Return, Newline>>, <<"x">>, <<"*", "*">>}

MCTexts ==
    Runs({Tick, "*", "_", "x", "<"}, 0..5)
    \cup Runs({Tick, "*", "x"}, 6..7)
    \cup Runs({Tick, "x", Newline}, 4..8)
    \cup Runs({"|", "~", "&", Newline}, 1..6)
    \cup Runs({"_", "x"}, 6..9)
    \cup { FENCE \o FlattenSeq(t) \o FENCE : t \in Runs(TextPieces, 0..4) }
    \cup { FlattenSeq(t) : t \in Runs({FENCE, <<" ">>, <<Newline>>, <<"x">>, <<",">>}, 5..6) }
=============================================================================
