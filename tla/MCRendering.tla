------------------------------ MODULE MCRendering ------------------------------
(***************************************************************************)
(* Every description of one block, and every pair of blocks from a smaller *)
(* choice: paragraphs with nested, unknown and attributed tags, an         *)
(* ordered list after another, text outside the blocks, characters to      *)
(* escape.  One stray character in any place, then a cut at any place.     *)
(***************************************************************************)
EXTENDS Markup

Span(tags, word) == [tags |-> tags, word |-> word]
Item1 == <<Span(<<>>, "x")>>
Item2 == <<Span(<<>>, "&"), Span(<<"i", "strong">>, "y")>>
Item3 == <<Span(<<"a">>, "x"), Span(<<>>, SPACE), Span(<<"code", "a">>, "\""), Span(<<>>, "y")>>
Item4 == <<Span(<<"em">>, GT), Span(<<"b">>, SLASH), Span(<<>>, SPACE)>>

Block(tag, items) == [tag |-> tag, items |-> items]

Paragraphs == {Block("p", <<i>>) : i \in {Item1, Item2, Item3, Item4}}
Lists == {Block(t, items) : t \in {"ul", "ol"}, items \in {<<Item1, Item4>>, <<Item2>>}}
Loose == {Block("", <<Item1>>)}

Blocks == Paragraphs \cup Lists \cup Loose

MCDescriptions ==
  {<<b>> : b \in Blocks}
    \cup {<<b, c>> : b \in {Block("ol", <<Item1, Item1>>), Block("ul", <<Item1>>),
                            Block("p", <<Item4>>)} \cup Loose,
                     c \in {Block("ol", <<Item1>>), Block("p", <<Item1>>)}}

MCWords == {"x", "y", "href", "p", "ul", "ol", "li", "a", "i", "em", "strong", "b", "code",
            "seventeen-letters", "a-word-of-thirty-three-characters"}

MCStrays == {LT, GT, SLASH, "\"", "seventeen-letters",
             "a-word-of-thirty-three-characters"}

\* The numbers of items read as TLC writes them, across a change of width.
ASSUME NumeralsRead ==
  \A n \in 1 .. 1001 : FoldLeft(LAMBDA text, d : text \o d, "", Numeral(n)) = ToString(n)
===============================================================================
