-------------------------------- MODULE Markup --------------------------------
(***************************************************************************)
(* gs-modulix-markup.c: an AppStream HTML description turned into Pango    *)
(* markup.  The text is a sequence of tokens: the characters the scanner   *)
(* looks at, and words, which stand for any run of other characters (a tag *)
(* name in any case among them).                                           *)
(*                                                                         *)
(* The machine starts from a description and spoils it: the daemon's text  *)
(* may be cut anywhere and hold stray characters.  `pango` is what         *)
(* gs_modulix_html_to_pango() makes of each version.                       *)
(***************************************************************************)
EXTENDS Integers, FiniteSets, SequencesExt

CONSTANTS Words,         \* the words of the text
          Descriptions,  \* the descriptions looked at: sequences of blocks
          Strays,        \* tokens that may turn up anywhere
          MAX_STRAYS     \* how many of them

VARIABLES doc,           \* the description, as its author meant it
          html,          \* its text, as the daemon delivers it
          pango,         \* the markup given to gs_app_set_description()
          strays,        \* stray tokens inserted
          cut            \* whether the end is missing

LT == "<"
GT == ">"
SLASH == "/"
SPACE == " "
NEWLINE == "\n"
BULLET == "*"

\* What `%u` makes of a positive guint: its decimal digits, at most ten.
Digit == <<"0", "1", "2", "3", "4", "5", "6", "7", "8", "9">>
Power == <<1000000000, 100000000, 10000000, 1000000, 100000, 10000, 1000, 100, 10, 1>>
Numeral(n) ==
  SubSeq([i \in 1 .. 10 |-> Digit[((n \div Power[i]) % 10) + 1]],
         Cardinality({i \in 1 .. 10 : n < Power[i]}) + 1, 10)

Token == Words \cup {LT, GT, SLASH, SPACE, "&", "\""}
Text == Seq(Token)

\* The elements of Pango's markup that are used here.
StartOf == [i |-> "<i>", b |-> "<b>", tt |-> "<tt>"]
EndOf == [i |-> "</i>", b |-> "</b>", tt |-> "</tt>"]
PangoElements == DOMAIN StartOf
Starts == {StartOf[e] : e \in PangoElements}
Ends == {EndOf[e] : e \in PangoElements}

\* What the inline markup is made of: what stands in a text, escaped, and
\* elements.
Entities == {"&amp;", "&lt;", "&gt;", "&quot;"}
Marked == Words \cup {SLASH, SPACE} \cup Entities \cup Starts \cup Ends

\* Sizes of the two name buffers, and the words too long for them.
BLOCK_BUF == 16
INLINE_BUF == 32
WordLength(w) == CASE w = "seventeen-letters" -> 17
                   [] w = "a-word-of-thirty-three-characters" -> 33
                   [] OTHER -> 1
NameLength(name) == FoldLeft(LAMBDA n, w : n + WordLength(w), 0, name)

-------------------------------------------------------------------------------
(***************************************************************************)
(* The scanner.                                                            *)
(***************************************************************************)
\* Position of the first t of s at or after i; 0 when there is none.
NextOf(s, t, i) ==
  LET at == {n \in i .. Len(s) : s[n] = t}
  IN  IF at = {} THEN 0 ELSE CHOOSE n \in at : \A k \in at : n <= k

\* extract_tag_name(): up to a space or a slash; nothing if it does not fit.
ExtractTagName(span, size) ==
  LET stops == {n \in 1 .. Len(span) : span[n] \in {SPACE, SLASH}}
      name == IF stops = {} THEN span
              ELSE SubSeq(span, 1, (CHOOSE n \in stops : \A k \in stops : n <= k) - 1)
  IN  IF NameLength(name) < size THEN name ELSE <<>>

\* A `<` that no `>` follows, or no `<` at all: the scanner takes a character.
NoTagAt(s) == Head(s) # LT \/ NextOf(s, GT, 2) = 0

\* The tag s begins with, and what follows it.
TagAt(s, size) ==
  LET end == NextOf(s, GT, 2)
      closing == s[2] = SLASH
  IN  [name |-> ExtractTagName(SubSeq(s, IF closing THEN 3 ELSE 2, end - 1), size),
       closing |-> closing,
       rest |-> SubSeq(s, end + 1, Len(s))]

Escaped(t) ==
  CASE t = "&" -> "&amp;" [] t = LT -> "&lt;" [] t = GT -> "&gt;"
    [] t = "\"" -> "&quot;" [] OTHER -> t

\* The Pango element of an inline tag; "" when it has none.
PangoTag(name) ==
  CASE name \in {<<"em">>, <<"i">>} -> "i"
    [] name \in {<<"strong">>, <<"b">>} -> "b"
    [] name = <<"code">> -> "tt"
    [] OTHER -> ""

Opening(tag) == IF tag = "" THEN <<>> ELSE <<StartOf[tag]>>
Closing(tag) == IF tag = "" THEN <<>> ELSE <<EndOf[tag]>>

\* Mutant: the wrapper is closed only when the closing tag was met.
WrappedIfClosed(tag, inner) ==
  Opening(tag) \o inner.out \o (IF inner.text = <<>> THEN <<>> ELSE Closing(tag))

\* What a known inline tag puts around its content.
Wrapped(tag, inner) == Opening(tag) \o inner.out \o Closing(tag)

\* Mutant: an element that is never closed is dropped.
EndOfInputDrops(out) == <<>>

\* The input ended before the closing tag: what was converted stays.
EndOfInput(out) == out

\* Where format_inline() is: the text still to read, the element whose closing
\* tag ends it, the markup so far.
InlineAt == [text : Text, enclosing : Text, out : Seq(Marked)]

\* Where format_inline(), called at c, returns.
FormatInline[c \in InlineAt] ==
  IF c.text = <<>> THEN [c EXCEPT !.out = EndOfInput(@)]
  ELSE IF NoTagAt(c.text)
  THEN FormatInline[[c EXCEPT !.text = Tail(@), !.out = Append(@, Escaped(Head(c.text)))]]
  ELSE LET tag == TagAt(c.text, INLINE_BUF)
           past == [c EXCEPT !.text = tag.rest]
       IN  IF tag.name = <<>> \/ (tag.closing /\ tag.name # c.enclosing)
           THEN FormatInline[past]
           ELSE IF tag.closing
           THEN past
           ELSE LET inner == FormatInline[[text |-> tag.rest, enclosing |-> tag.name, out |-> <<>>]]
                IN  FormatInline[[c EXCEPT !.text = inner.text,
                                           !.out = @ \o Wrapped(PangoTag(tag.name), inner)]]

NoList == [in_list |-> FALSE, ordered |-> FALSE, counter |-> 0]

\* Mutant: a list goes on with the numbers of the one before.
ListTagKeepsCounter(tag, list) ==
  IF tag.closing THEN [list EXCEPT !.in_list = FALSE]
  ELSE [in_list |-> TRUE, ordered |-> tag.name = <<"ol">>, counter |-> list.counter]

\* <ul> and <ol> start a list afresh; the closing tag of either ends it.
ListTag(tag, list) ==
  IF tag.closing THEN [list EXCEPT !.in_list = FALSE]
  ELSE [in_list |-> TRUE, ordered |-> tag.name = <<"ol">>, counter |-> 0]

\* What an item begins with.
ItemMark(list) ==
  IF list.ordered THEN Numeral(list.counter + 1) \o <<".", SPACE>> ELSE <<BULLET, SPACE>>

\* A block's line, after the ones already there.
OnNewLine(empty, line) == (IF empty THEN <<>> ELSE <<NEWLINE>>) \o line

\* Where the loop of gs_modulix_html_to_pango() is, and whether its output is
\* still empty.
ListState == [in_list : BOOLEAN, ordered : BOOLEAN, counter : Nat]
BlocksAt == [text : Text, list : ListState, empty : BOOLEAN]

\* What the loop appends from there on.
FormatBlocks[c \in BlocksAt] ==
  IF c.text = <<>> THEN <<>>
  ELSE IF NoTagAt(c.text) THEN FormatBlocks[[c EXCEPT !.text = Tail(@)]]
  ELSE LET tag == TagAt(c.text, BLOCK_BUF)
           past == [c EXCEPT !.text = tag.rest]
           inline == FormatInline[[text |-> tag.rest, enclosing |-> tag.name, out |-> <<>>]]
       IN  IF tag.name = <<"p">> /\ ~tag.closing
           THEN OnNewLine(c.empty, inline.out)
                  \o FormatBlocks[[c EXCEPT !.text = inline.text, !.empty = @ /\ inline.out = <<>>]]
           ELSE IF tag.name \in {<<"ul">>, <<"ol">>}
           THEN FormatBlocks[[past EXCEPT !.list = ListTag(tag, @)]]
           ELSE IF tag.name = <<"li">> /\ ~tag.closing /\ c.list.in_list
           THEN OnNewLine(c.empty, ItemMark(c.list) \o inline.out)
                  \o FormatBlocks[[text |-> inline.text, empty |-> FALSE,
                                   list |-> [c.list EXCEPT !.counter = IF c.list.ordered THEN @ + 1 ELSE @]]]
           ELSE FormatBlocks[past]

\* g_strstrip().
Stripped(s) ==
  LET kept == {n \in 1 .. Len(s) : s[n] \notin {SPACE, NEWLINE}}
  IN  IF kept = {} THEN <<>>
      ELSE SubSeq(s, CHOOSE n \in kept : \A k \in kept : n <= k,
                     CHOOSE n \in kept : \A k \in kept : k <= n)

HtmlToPango(s) == Stripped(FormatBlocks[[text |-> s, list |-> NoList, empty |-> TRUE]])

-------------------------------------------------------------------------------
(***************************************************************************)
(* What an author means.  A block is a paragraph, a list or text outside   *)
(* any block; its items are sequences of spans, each a word, a space or a  *)
(* sign under any number of inline tags, outermost first.                  *)
(***************************************************************************)
StartTag(t) == IF t = "a" THEN <<LT, t, SPACE, "href", GT>> ELSE <<LT, t, GT>>
EndTag(t) == <<LT, SLASH, t, GT>>

Around(tags, content, Before(_), After(_)) ==
  FoldRight(LAMBDA t, inner : Before(t) \o inner \o After(t), tags, content)

SpansAs(spans, AsText(_)) == FlattenSeq([n \in DOMAIN spans |-> AsText(spans[n])])

\* The text of the description, as a well-behaved generator writes it.
SpanHtml(span) == Around(span.tags, <<span.word>>, StartTag, EndTag)
ItemHtml(item) == StartTag("li") \o SpansAs(item, SpanHtml) \o EndTag("li")
BlockHtml(b) ==
  CASE b.tag = "" -> SpansAs(b.items[1], SpanHtml)
    [] b.tag = "p" -> StartTag("p") \o SpansAs(b.items[1], SpanHtml) \o EndTag("p")
    [] OTHER -> StartTag(b.tag) \o FlattenSeq([n \in DOMAIN b.items |-> ItemHtml(b.items[n])])
                  \o EndTag(b.tag)
Html(d) == FlattenSeq([n \in DOMAIN d |-> BlockHtml(d[n])])

\* What its reader should see: the words under their styles, a line for each
\* paragraph and each item, items of an ordered list numbered from 1, and no
\* blank before or after the whole.
Style == [i |-> "i", em |-> "i", strong |-> "b", b |-> "b", code |-> "tt", a |-> ""]
Entity == [w \in {"&", "\"", GT} |-> CASE w = "&" -> "&amp;" [] w = GT -> "&gt;"
                                       [] OTHER -> "&quot;"]
StyleOn(t) == Opening(Style[t])
StyleOff(t) == Closing(Style[t])
SpanShown(span) ==
  Around(span.tags, <<IF span.word \in DOMAIN Entity THEN Entity[span.word] ELSE span.word>>,
         StyleOn, StyleOff)
Lines(b) ==
  CASE b.tag = "" -> <<>>
    [] b.tag = "p" -> <<SpansAs(b.items[1], SpanShown)>>
    [] b.tag = "ul" -> [n \in DOMAIN b.items |-> <<BULLET, SPACE>> \o SpansAs(b.items[n], SpanShown)]
    [] OTHER -> [n \in DOMAIN b.items |->
                   Numeral(n) \o <<".", SPACE>> \o SpansAs(b.items[n], SpanShown)]
Shown(d) ==
  LET lines == FlattenSeq([n \in DOMAIN d |-> Lines(d[n])])
  IN  Stripped(FlattenSeq([n \in DOMAIN lines |->
                             IF n = 1 THEN lines[n] ELSE <<NEWLINE>> \o lines[n]]))

-------------------------------------------------------------------------------
vars == <<doc, html, pango, strays, cut>>

Deliver(d) ==
  /\ doc' = d /\ html' = Html(d) /\ pango' = HtmlToPango(Html(d))
  /\ strays' = 0 /\ cut' = FALSE

\* A description as it may be written: a `<` of the text is written `&lt;`, an
\* item is never empty, and a paragraph or a text outside the blocks has one.
BlockTags == {"p", "ul", "ol", "li"}
Spans == [tags : Seq(DOMAIN Style), word : Token \ {LT}]
Written == {b \in [tag : {"", "p", "ul", "ol"}, items : Seq(Seq(Spans) \ {<<>>})] :
              b.tag \in {"", "p"} => b.items # <<>>}

ASSUME MarkupAssumption ==
  /\ Words \cap (Starts \cup Ends \cup {LT, GT, SLASH, SPACE, "&", "\""}) = {}
  /\ DOMAIN Style \cup BlockTags \cup {"href"} \subseteq Words
  /\ Descriptions \subseteq Seq(Written)
  /\ \A t \in Strays : <<t>> \in Text
  /\ MAX_STRAYS \in Nat

MarkupInit ==
  /\ doc \in Descriptions
  /\ html = Html(doc) /\ pango = HtmlToPango(html)
  /\ strays = 0 /\ cut = FALSE

\* A character that means something to the scanner stands in the text.
Stray(i, t) ==
  /\ ~cut /\ strays < MAX_STRAYS
  /\ html' = SubSeq(html, 1, i) \o <<t>> \o SubSeq(html, i + 1, Len(html))
  /\ pango' = HtmlToPango(html')
  /\ strays' = strays + 1
  /\ UNCHANGED <<doc, cut>>

\* Only the first n tokens arrive.
Cut(n) ==
  /\ ~cut
  /\ html' = SubSeq(html, 1, n)
  /\ pango' = HtmlToPango(html')
  /\ cut' = TRUE
  /\ UNCHANGED <<doc, strays>>

MarkupNext ==
  \/ \E i \in 0 .. Len(html), t \in Strays : Stray(i, t)
  \/ \E n \in 0 .. Len(html) - 1 : Cut(n)
  \/ Deliver(doc)

MarkupSpec == MarkupInit /\ [][MarkupNext]_vars

-------------------------------------------------------------------------------
\* The elements open after one token more: Misnested once one is closed that is
\* not the last opened.
Misnested == <<"misnested">>
Opened(t) == CHOOSE e \in PangoElements : StartOf[e] = t
Nest(open, t) ==
  CASE open = Misnested -> open
    [] open # Misnested /\ t \in Starts -> Append(open, Opened(t))
    [] open # Misnested /\ t \in Ends ->
         IF open # <<>> /\ t = EndOf[Last(open)] THEN Front(open) ELSE Misnested
    [] OTHER -> open

\* ... and after all of s, where those of o were open.
OpenFrom(o, s) ==
  LET open[n \in 0 .. Len(s)] == IF n = 0 THEN o ELSE Nest(open[n - 1], s[n])
  IN  open[Len(s)]
OpenAfter(s) == OpenFrom(<<>>, s)

\* Pango is given well-nested markup whatever the daemon sends, and no character
\* of the text that means something to it: a label with malformed markup would
\* show nothing at all.
PangoAccepts ==
  /\ OpenAfter(pango) = <<>>
  /\ \A n \in DOMAIN pango : pango[n] \notin {LT, GT, "&", "\""}

\* A description that arrives as it was written is shown as it was meant:
\* every word of every block in order and under its style, items numbered from
\* 1 in each list, unknown tags transparent, text outside the blocks left out.
RendersDescription == (strays = 0 /\ ~cut) => pango = Shown(doc)

\* s without its elements.
TextOf(s) == FlattenSeq([n \in DOMAIN s |-> IF s[n] \in Starts \cup Ends THEN <<>> ELSE <<s[n]>>])

\* No `<` of s waits for its `>`.
TagsWhole(s) ==
  \A n \in DOMAIN s : s[n] = LT => \E k \in n .. Len(s) : s[k] = GT

\* Nothing but closing tags.
OnlyEndTags(s) ==
  /\ Len(s) % 4 = 0
  /\ \A n \in 0 .. Len(s) \div 4 - 1 : \E t \in Words : SubSeq(s, 4*n + 1, 4*n + 4) = EndTag(t)

\* A description cut between two tags shows the beginning of what it would
\* have shown whole, and nothing else; and when only closing tags are missing
\* it shows all of it, under its styles: what was converted is kept although
\* its element is never closed.
CutShowsBeginning ==
  [][(cut' /\ ~cut /\ TagsWhole(html')) =>
       /\ IsPrefix(TextOf(pango'), TextOf(pango))
       /\ OnlyEndTags(SubSeq(html, Len(html') + 1, Len(html))) => pango' = pango]_vars
===============================================================================
