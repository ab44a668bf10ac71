----------------------------- MODULE MarkupProofs -----------------------------
(***************************************************************************)
(* Pango accepts what gs_modulix_html_to_pango() makes of any text, what   *)
(* it makes of a description is what its author meant, and a description   *)
(* that is cut shows the beginning of what it would have shown whole.      *)
(***************************************************************************)
EXTENDS Markup, SequenceTheorems, FiniteSetTheorems, TLAPS

Order == INSTANCE WellFoundedInduction

Elements == Starts \cup Ends
\* What means something to Pango.
Special == {LT, GT, "&", "\""}

-------------------------------------------------------------------------------
LEMMA LeastNatural ==
  ASSUME NEW S \in SUBSET Nat, S # {}
  PROVE  \E n \in S : \A m \in S : n <= m
<1>1. PICK n \in S : \A m \in S : <<m, n>> \notin Order!OpToRel(<, Nat)
  <2> DEFINE R == Order!OpToRel(<, Nat)
  <2>1. Order!IsWellFoundedOn(R, Nat)
    BY Order!NatLessThanWellFounded
  <2> HIDE DEF R
  <2>2. \E n \in S : \A m \in S : <<m, n>> \notin R
    BY <2>1, Order!WFMin
  <2> QED
    BY <2>2 DEF R
<1>2. \A m \in S : ~ (m < n)
  BY <1>1 DEF Order!OpToRel
<1> QED
  BY <1>2

LEMMA Literals ==
  /\ PangoElements = {"i", "b", "tt"}
  /\ Starts = {"<i>", "<b>", "<tt>"} /\ Ends = {"</i>", "</b>", "</tt>"}
  /\ StartOf["i"] = "<i>" /\ StartOf["b"] = "<b>" /\ StartOf["tt"] = "<tt>"
  /\ EndOf["i"] = "</i>" /\ EndOf["b"] = "</b>" /\ EndOf["tt"] = "</tt>"
<1>1. PangoElements = {"i", "b", "tt"}
  BY DEF PangoElements, StartOf
<1>2. /\ StartOf["i"] = "<i>" /\ StartOf["b"] = "<b>" /\ StartOf["tt"] = "<tt>"
      /\ EndOf["i"] = "</i>" /\ EndOf["b"] = "</b>" /\ EndOf["tt"] = "</tt>"
  BY DEF StartOf, EndOf
<1> QED
  BY <1>1, <1>2 DEF Starts, Ends

-------------------------------------------------------------------------------
(***************************************************************************)
(* Which elements are open after a run of tokens.  Markup is balanced when *)
(* it leaves them as they were, whatever they were.                        *)
(***************************************************************************)
Stacks == Seq(PangoElements)
Balanced(s) == \A o \in Stacks : OpenFrom(o, s) = o

\* f[i] is what is open after i tokens of s, where those of o were.
RunUpTo(f, o, s, n) == f = [i \in 0 .. n |-> IF i = 0 THEN o ELSE Nest(f[i - 1], s[i])]

LEMMA OneToken == ASSUME NEW S, NEW t \in S PROVE <<t>> \in Seq(S)
OBVIOUS

LEMMA RunExists ==
  ASSUME NEW o, NEW s, NEW n \in Nat
  PROVE  \E f : RunUpTo(f, o, s, n)
<1> DEFINE none == {i \in Nat : ~ \E f : RunUpTo(f, o, s, i)}
<1> SUFFICES ASSUME none # {} PROVE FALSE
  OBVIOUS
<1>1. PICK m \in none : \A i \in none : m <= i
  <2>1. none \in SUBSET Nat
    OBVIOUS
  <2> HIDE DEF none
  <2> QED
    BY <2>1, LeastNatural
<1>2. m \in Nat /\ ~ \E f : RunUpTo(f, o, s, m)
  OBVIOUS
<1>3. CASE m = 0
  <2> DEFINE f == [i \in 0 .. 0 |-> o]
  <2>1. RunUpTo(f, o, s, 0)
    BY DEF RunUpTo
  <2> QED
    BY <1>2, <1>3, <2>1
<1>4. CASE m # 0
  <2>1. m - 1 \in Nat /\ m - 1 \notin none
    BY <1>1, <1>2, <1>4
  <2>2. PICK g : RunUpTo(g, o, s, m - 1)
    BY <2>1
  <2> DEFINE f == [i \in 0 .. m |-> IF i = 0 THEN o ELSE Nest(g[i - 1], s[i])]
  <2>3. \A i \in 0 .. m - 1 : f[i] = g[i]
    BY <1>2, <2>2 DEF RunUpTo
  <2>4. \A i \in 0 .. m : f[i] = IF i = 0 THEN o ELSE Nest(f[i - 1], s[i])
    <3>1. \A i \in 0 .. m : i # 0 => i - 1 \in 0 .. m - 1
      BY <1>2
    <3> QED
      BY <2>3, <3>1
  <2>5. f = [i \in 0 .. m |-> f[i]]
    OBVIOUS
  <2> HIDE DEF f
  <2>6. f = [i \in 0 .. m |-> IF i = 0 THEN o ELSE Nest(f[i - 1], s[i])]
    BY <2>4, <2>5
  <2> QED
    BY <1>2, <2>6 DEF RunUpTo
<1> QED
  BY <1>3, <1>4

LEMMA RunUnique ==
  ASSUME NEW o, NEW s, NEW n \in Nat, NEW f, NEW g, RunUpTo(f, o, s, n), RunUpTo(g, o, s, n)
  PROVE  \A i \in 0 .. n : f[i] = g[i]
<1> DEFINE apart == {i \in 0 .. n : f[i] # g[i]}
<1> SUFFICES ASSUME apart # {} PROVE FALSE
  OBVIOUS
<1>1. PICK j \in apart : \A i \in apart : j <= i
  <2>1. apart \in SUBSET Nat
    OBVIOUS
  <2> HIDE DEF apart
  <2> QED
    BY <2>1, LeastNatural
<1>2. j \in 0 .. n /\ f[j] # g[j]
  OBVIOUS
<1>3. j # 0
  BY <1>2 DEF RunUpTo
<1>4. j - 1 \in 0 .. n /\ j - 1 \notin apart
  BY <1>1, <1>2, <1>3
<1>5. f[j - 1] = g[j - 1]
  BY <1>4
<1>6. f[j] = Nest(f[j - 1], s[j]) /\ g[j] = Nest(g[j - 1], s[j])
  BY <1>2, <1>3 DEF RunUpTo
<1> QED
  BY <1>2, <1>5, <1>6

\* OpenFrom is the last of any run.
LEMMA OpenFromIs ==
  ASSUME NEW o, NEW S, NEW s \in Seq(S), NEW n, n = Len(s), NEW f, RunUpTo(f, o, s, n)
  PROVE  OpenFrom(o, s) = f[n]
<1> DEFINE g == CHOOSE g : RunUpTo(g, o, s, n)
<1>1. n \in Nat
  BY LenProperties
<1>2. RunUpTo(g, o, s, n)
  BY <1>1, RunExists
<1>3. OpenFrom(o, s) = g[n]
  BY DEF OpenFrom, RunUpTo
<1> HIDE DEF g
<1>4. \A i \in 0 .. n : f[i] = g[i]
  BY <1>1, <1>2, RunUnique
<1> QED
  BY <1>1, <1>3, <1>4

LEMMA OpenConcat ==
  ASSUME NEW o, NEW S, NEW s \in Seq(S), NEW t \in Seq(S)
  PROVE  OpenFrom(o, s \o t) = OpenFrom(OpenFrom(o, s), t)
<1> DEFINE m == Len(s)
           n == Len(t)
           both == s \o t
           k == Len(both)
<1>1. /\ both \in Seq(S) /\ m \in Nat /\ n \in Nat /\ k \in Nat /\ k = m + n
      /\ \A i \in 1 .. m : s[i] = both[i]
      /\ \A i \in 1 .. n : t[i] = both[m + i]
  BY ConcatProperties, LenProperties
<1>2. PICK h : RunUpTo(h, o, both, k)
  BY <1>1, RunExists
<1>0. k = Len(both) /\ both \in Seq(S)
  BY <1>1
<1> HIDE DEF m, n, both, k
<1>3. OpenFrom(o, both) = h[k]
  BY <1>0, <1>2, OpenFromIs
<1>4. h[0] = o /\ \A i \in 1 .. k : h[i] = Nest(h[i - 1], both[i])
  BY <1>1, <1>2 DEF RunUpTo
<1> DEFINE f == [i \in 0 .. m |-> h[i]]
           g == [i \in 0 .. n |-> h[m + i]]
<1>5. RunUpTo(f, o, s, m)
  <2>1. \A i \in 0 .. m : h[i] = IF i = 0 THEN o ELSE Nest(f[i - 1], s[i])
    <3>1. ASSUME NEW i \in 1 .. m PROVE h[i] = Nest(f[i - 1], s[i])
      <4>1. i \in 1 .. k /\ i - 1 \in 0 .. m
        BY <1>1
      <4> QED
        BY <1>1, <1>4, <4>1
    <3> QED
      BY <1>1, <1>4, <3>1
  <2>2. f = [i \in 0 .. m |-> IF i = 0 THEN o ELSE Nest(f[i - 1], s[i])]
    BY <2>1
  <2> QED
    BY <2>2 DEF RunUpTo
<1>6. RunUpTo(g, h[m], t, n)
  <2>1. ASSUME NEW i \in 1 .. n PROVE h[m + i] = Nest(g[i - 1], t[i])
    <3> DEFINE j == m + i
    <3>1. j \in 1 .. k /\ i - 1 \in 0 .. n /\ j - 1 = m + (i - 1)
      BY <1>1
    <3>2. g[i - 1] = h[m + (i - 1)]
      BY <3>1
    <3>3. t[i] = both[j]
      BY <1>1
    <3> HIDE DEF j, g
    <3>4. h[j] = Nest(h[j - 1], both[j])
      BY <1>4, <3>1
    <3>5. h[j] = Nest(g[i - 1], t[i])
      BY <3>1, <3>2, <3>3, <3>4
    <3> QED
      BY <3>5 DEF j
  <2>2. h[m + 0] = h[m]
    BY <1>1
  <2>3. ASSUME NEW i \in 0 .. n
        PROVE  h[m + i] = IF i = 0 THEN h[m] ELSE Nest(g[i - 1], t[i])
    <3> HIDE DEF g
    <3>1. i # 0 => i \in 1 .. n
      BY <1>1
    <3> QED
      BY <2>1, <2>2, <3>1
  <2>4. g = [i \in 0 .. n |-> IF i = 0 THEN h[m] ELSE Nest(g[i - 1], t[i])]
    BY <2>3
  <2> QED
    BY <2>4 DEF RunUpTo
<1>7. f[m] = h[m] /\ g[n] = h[k]
  BY <1>1
<1> HIDE DEF f, g
<1>8. OpenFrom(o, s) = h[m]
  BY <1>5, <1>7, OpenFromIs DEF m
<1>9. OpenFrom(h[m], t) = h[k]
  BY <1>6, <1>7, OpenFromIs DEF n
<1> QED
  BY <1>3, <1>8, <1>9 DEF both

LEMMA OpenSingle ==
  ASSUME NEW o, NEW t
  PROVE  OpenFrom(o, <<t>>) = Nest(o, t)
<1>1. <<t>> \in Seq({t}) /\ Len(<<t>>) = 1 /\ <<t>>[1] = t
  OBVIOUS
<1>2. PICK f : RunUpTo(f, o, <<t>>, 1)
  BY RunExists
<1>3. OpenFrom(o, <<t>>) = f[1]
  BY <1>1, <1>2, OpenFromIs
<1>4. f[0] = o /\ f[1] = Nest(f[0], <<t>>[1])
  BY <1>2 DEF RunUpTo
<1> QED
  BY <1>1, <1>3, <1>4

\* Tokens that are no elements open and close nothing.
LEMMA OpenNeutral ==
  ASSUME NEW o, NEW S, NEW s \in Seq(S), \A i \in 1 .. Len(s) : s[i] \notin Elements
  PROVE  OpenFrom(o, s) = o
<1>0. PICK f : RunUpTo(f, o, s, Len(s))
  BY RunExists, LenProperties
<1>1. OpenFrom(o, s) = f[Len(s)]
  BY <1>0, OpenFromIs
<1> DEFINE apart == {i \in 0 .. Len(s) : f[i] # o}
<1>2. Len(s) \in Nat
  BY LenProperties
<1> SUFFICES ASSUME apart # {} PROVE FALSE
  BY <1>1, <1>2
<1>3. PICK j \in apart : \A i \in apart : j <= i
  <2>1. apart \in SUBSET Nat
    BY <1>2
  <2> HIDE DEF apart
  <2> QED
    BY <2>1, LeastNatural
<1>4. j \in 0 .. Len(s) /\ f[j] # o
  OBVIOUS
<1>5. j # 0
  BY <1>0, <1>2, <1>4 DEF RunUpTo
<1>6. f[j - 1] = o /\ f[j] = Nest(f[j - 1], s[j])
  <2>1. j - 1 \in 0 .. Len(s) /\ j - 1 \notin apart
    BY <1>2, <1>3, <1>4, <1>5
  <2>2. f[j] = Nest(f[j - 1], s[j])
    BY <1>0, <1>4, <1>5 DEF RunUpTo
  <2> QED
    BY <2>1, <2>2
<1>7. Nest(o, s[j]) = o
  BY <1>2, <1>4, <1>5 DEF Nest, Elements
<1> QED
  BY <1>4, <1>6, <1>7

\* An element opened and then closed leaves the others as they were.
LEMMA NestPair ==
  ASSUME NEW o \in Stacks, NEW e \in PangoElements
  PROVE  /\ Append(o, e) \in Stacks
         /\ Nest(o, StartOf[e]) = Append(o, e)
         /\ Nest(Append(o, e), EndOf[e]) = o
<1>1. \A p \in Stacks : p # Misnested
  <2>1. ASSUME NEW p \in Seq(PangoElements), Len(p) = 1
        PROVE  p[1] \in PangoElements
    BY <2>1, ElementOfSeq
  <2>2. Len(Misnested) = 1 /\ Misnested[1] = "misnested"
    BY DEF Misnested
  <2>3. "misnested" \notin PangoElements
    BY Literals
  <2> QED
    BY <2>1, <2>2, <2>3 DEF Stacks
<1>2. /\ Append(o, e) \in Stacks /\ Append(o, e) # <<>>
      /\ Last(Append(o, e)) = e /\ Front(Append(o, e)) = o
  BY AppendProperties, LenProperties, SubSeqProperties DEF Stacks, Last, Front
<1>3. Opened(StartOf[e]) = e
  BY Literals DEF Opened
<1>4. StartOf[e] \in Starts \ Ends /\ EndOf[e] \in Ends /\ EndOf[e] \notin Starts
  BY Literals
<1>5. Nest(o, StartOf[e]) = Append(o, e)
  <2> DEFINE t == StartOf[e]
  <2> HIDE DEF t
  <2>1. t \in Starts /\ t \notin Ends /\ o # Misnested
    BY <1>1, <1>4 DEF t
  <2>2. Nest(o, t) = Append(o, Opened(t))
    BY <2>1 DEF Nest
  <2> QED
    BY <1>3, <2>2 DEF t
<1>6. Nest(Append(o, e), EndOf[e]) = o
  <2> DEFINE p == Append(o, e)
  <2>1. p # Misnested /\ p # <<>> /\ Last(p) = e /\ Front(p) = o
    BY <1>1, <1>2
  <2> HIDE DEF p
  <2>2. Nest(p, EndOf[e]) = o
    BY <1>4, <2>1 DEF Nest
  <2> QED
    BY <2>2 DEF p
<1> QED
  BY <1>2, <1>5, <1>6

LEMMA BalancedConcat ==
  ASSUME NEW S, NEW s \in Seq(S), NEW t \in Seq(S), Balanced(s), Balanced(t)
  PROVE  Balanced(s \o t)
BY OpenConcat DEF Balanced

LEMMA BalancedNeutral ==
  ASSUME NEW S, NEW s \in Seq(S), \A i \in 1 .. Len(s) : s[i] \notin Elements
  PROVE  Balanced(s)
BY OpenNeutral DEF Balanced

LEMMA BalancedEmpty == Balanced(<<>>)
<1>1. <<>> \in Seq({}) /\ \A i \in 1 .. Len(<<>>) : <<>>[i] \notin Elements
  OBVIOUS
<1> QED
  BY <1>1, BalancedNeutral

LEMMA BalancedBetween ==
  ASSUME NEW S, NEW s \in Seq(S), Balanced(s), NEW e \in PangoElements,
         StartOf[e] \in S, EndOf[e] \in S
  PROVE  /\ <<StartOf[e]>> \o s \o <<EndOf[e]>> \in Seq(S)
         /\ Balanced(<<StartOf[e]>> \o s \o <<EndOf[e]>>)
<1> DEFINE start == <<StartOf[e]>>
           end == <<EndOf[e]>>
<1>1. start \in Seq(S) /\ end \in Seq(S)
  BY OneToken
<1>2. \A o \in Stacks : OpenFrom(o, start) = Append(o, e) /\ Append(o, e) \in Stacks
  BY OpenSingle, NestPair
<1>3. \A o \in Stacks : OpenFrom(Append(o, e), end) = o
  BY OpenSingle, NestPair
<1> HIDE DEF start, end
<1>4. start \o s \in Seq(S) /\ (start \o s) \o end \in Seq(S)
  BY <1>1, ConcatProperties
<1>5. ASSUME NEW o \in Stacks
      PROVE  OpenFrom(o, (start \o s) \o end) = o
  <2>1. OpenFrom(o, start \o s) = OpenFrom(OpenFrom(o, start), s)
    BY <1>1, OpenConcat
  <2>2. OpenFrom(o, start \o s) = Append(o, e)
    BY <1>2, <2>1 DEF Balanced
  <2> DEFINE inside == start \o s
  <2>3. inside \in Seq(S)
    BY <1>4
  <2> HIDE DEF inside
  <2>4. OpenFrom(o, inside \o end) = OpenFrom(OpenFrom(o, inside), end)
    BY <1>1, <2>3, OpenConcat
  <2> QED
    BY <1>3, <2>2, <2>4 DEF inside
<1> QED
  BY <1>4, <1>5 DEF Balanced, start, end

(***************************************************************************)
(* The scanner moves forward: what follows a tag is shorter.               *)
(***************************************************************************)
LEMMA TextSteps ==
  ASSUME NEW s \in Text, s # <<>>
  PROVE  /\ Head(s) \in Token /\ Tail(s) \in Text
         /\ Len(s) \in Nat /\ Len(Tail(s)) \in Nat /\ Len(Tail(s)) < Len(s)
BY HeadTailProperties DEF Text

LEMMA NameTyped ==
  ASSUME NEW span \in Text, NEW size
  PROVE  ExtractTagName(span, size) \in Text
<1> DEFINE stops == {n \in 1 .. Len(span) : span[n] \in {SPACE, SLASH}}
           first == CHOOSE n \in stops : \A k \in stops : n <= k
           name == IF stops = {} THEN span ELSE SubSeq(span, 1, first - 1)
<1>1. name \in Text
  <2>1. CASE stops # {}
    <3>1. stops \in SUBSET Nat
      BY DEF Text
    <3>2. \E n \in stops : \A k \in stops : n <= k
      <4> HIDE DEF stops
      <4> QED
        BY <2>1, <3>1, LeastNatural
    <3>3. first \in stops
      <4> HIDE DEF stops
      <4> QED
        BY <3>2
    <3>4. first \in 1 .. Len(span)
      BY <3>3
    <3>5. 1 \in Int /\ first - 1 \in Int /\ \A i \in 1 .. first - 1 : span[i] \in Token
      <4> HIDE DEF first
      <4>1. span \in Seq(Token) /\ Len(span) \in Nat
        BY LenProperties DEF Text
      <4>2. \A i \in 1 .. Len(span) : span[i] \in Token
        BY <4>1, ElementOfSeq
      <4> QED
        BY <3>4, <4>1, <4>2
    <3> QED
      BY <2>1, <3>5, SubSeqProperties DEF Text
  <2> QED
    BY <2>1
<1>2. <<>> \in Text
  BY DEF Text
<1>3. ExtractTagName(span, size) = IF NameLength(name) < size THEN name ELSE <<>>
  BY DEF ExtractTagName
<1> QED
  BY <1>1, <1>2, <1>3

LEMMA TagTyped ==
  ASSUME NEW s \in Text, s # <<>>, ~NoTagAt(s), NEW size
  PROVE  LET tag == TagAt(s, size)
         IN  /\ tag.name \in Text /\ tag.closing \in BOOLEAN /\ tag.rest \in Text
             /\ Len(tag.rest) \in Nat /\ Len(tag.rest) < Len(s)
<1> DEFINE at == {n \in 2 .. Len(s) : s[n] = GT}
           end == NextOf(s, GT, 2)
<1>1. end \in 2 .. Len(s)
  <2>1. at # {} /\ end = CHOOSE n \in at : \A k \in at : n <= k
    BY DEF NoTagAt, NextOf
  <2>2. at \in SUBSET Nat
    BY DEF Text
  <2>3. \E n \in at : \A k \in at : n <= k
    <3> HIDE DEF at
    <3> QED
      BY <2>1, <2>2, LeastNatural
  <2>4. end \in at
    <3> HIDE DEF at, end
    <3> QED
      BY <2>1, <2>3
  <2> QED
    BY <2>4
<1> HIDE DEF end
<1>2. /\ SubSeq(s, 2, end - 1) \in Text /\ SubSeq(s, 3, end - 1) \in Text
      /\ SubSeq(s, end + 1, Len(s)) \in Text
      /\ Len(SubSeq(s, end + 1, Len(s))) = Len(s) - end
  BY <1>1, SubSeqProperties, LenProperties DEF Text
<1>3. /\ TagAt(s, size).name \in Text /\ TagAt(s, size).closing \in BOOLEAN
      /\ TagAt(s, size).rest = SubSeq(s, end + 1, Len(s))
  BY <1>2, NameTyped DEF TagAt, end
<1> QED
  BY <1>1, <1>2, <1>3, LenProperties DEF Text

-------------------------------------------------------------------------------
(***************************************************************************)
(* format_inline().  Its recursion is on the text that is left, but a tag  *)
(* goes on from wherever its content ended, so that the function exists    *)
(* only because that is no longer than where it began.                     *)
(***************************************************************************)
OneOn(c) == [c EXCEPT !.text = Tail(@), !.out = Append(@, Escaped(Head(c.text)))]
InlineTag(c) == TagAt(c.text, INLINE_BUF)
Past(c) == [c EXCEPT !.text = InlineTag(c).rest]
Content(c) == [text |-> InlineTag(c).rest, enclosing |-> InlineTag(c).name, out |-> <<>>]
After(c, inner) ==
  [c EXCEPT !.text = inner.text, !.out = @ \o Wrapped(PangoTag(InlineTag(c).name), inner)]

\* FormatInline at c, given what f says of shorter texts.
InlineBody(f, c) ==
  IF c.text = <<>> THEN [c EXCEPT !.out = EndOfInput(@)]
  ELSE IF NoTagAt(c.text) THEN f[OneOn(c)]
  ELSE IF InlineTag(c).name = <<>> \/ (InlineTag(c).closing /\ InlineTag(c).name # c.enclosing)
       THEN f[Past(c)]
  ELSE IF InlineTag(c).closing THEN Past(c)
  ELSE f[After(c, f[Content(c)])]

Short(n) == {c \in InlineAt : Len(c.text) <= n}
\* c comes back to d: the text left is no longer, and the markup made on the way
\* closes every element it opens.
Returns(c, d) ==
  /\ d \in InlineAt /\ Len(d.text) <= Len(c.text)
  /\ Balanced(c.out) => Balanced(d.out)
InlineUpTo(f, n) ==
  /\ f = [c \in Short(n) |-> InlineBody(f, c)]
  /\ \A c \in Short(n) : Returns(c, f[c])

LEMMA EscapedTyped ==
  ASSUME NEW t \in Token
  PROVE  Escaped(t) \in Marked \ Elements
<1>1. CASE t \in Words
  <2>1. t \notin Special /\ t \notin Elements
    BY <1>1, MarkupAssumption DEF Special, Elements
  <2>2. Escaped(t) = t
    BY <2>1 DEF Escaped, Special
  <2> QED
    BY <1>1, <2>1, <2>2 DEF Marked
<1>2. CASE t \in {SLASH, SPACE}
  BY <1>2, Literals DEF Escaped, Marked, Elements, LT, GT, SLASH, SPACE
<1>3. CASE t \in Special
  <2>1. Escaped(t) \in Entities
    BY <1>3 DEF Escaped, Special, Entities, LT, GT
  <2> QED
    BY <2>1, Literals DEF Marked, Elements, Entities
<1> QED
  BY <1>1, <1>2, <1>3 DEF Token, Special

LEMMA PangoTagTyped == \A name : PangoTag(name) \in PangoElements \cup {""}
BY Literals DEF PangoTag

LEMMA WrappedTyped ==
  ASSUME NEW tag \in PangoElements \cup {""}, NEW inner \in InlineAt
  PROVE  /\ Wrapped(tag, inner) \in Seq(Marked)
         /\ Balanced(inner.out) => Balanced(Wrapped(tag, inner))
<1>1. inner.out \in Seq(Marked)
  BY DEF InlineAt
<1>2. CASE tag = ""
  <2>1. Wrapped(tag, inner) = <<>> \o inner.out \o <<>>
    BY <1>2 DEF Wrapped, Opening, Closing
  <2>2. Wrapped(tag, inner) = inner.out
    BY <1>1, <2>1, ConcatEmptySeq
  <2> QED
    BY <1>1, <2>2
<1>3. CASE tag # ""
  <2>1. tag \in PangoElements /\ StartOf[tag] \in Marked /\ EndOf[tag] \in Marked
    BY <1>3, Literals DEF Marked, Elements
  <2>2. Wrapped(tag, inner) = <<StartOf[tag]>> \o inner.out \o <<EndOf[tag]>>
    BY <1>3 DEF Wrapped, Opening, Closing
  <2>3. Balanced(inner.out) => Wrapped(tag, inner) \in Seq(Marked) /\ Balanced(Wrapped(tag, inner))
    BY <1>1, <2>1, <2>2, BalancedBetween
  <2>4. Wrapped(tag, inner) \in Seq(Marked)
    <3>1. <<StartOf[tag]>> \in Seq(Marked) /\ <<EndOf[tag]>> \in Seq(Marked)
      BY <2>1, OneToken
    <3> DEFINE start == <<StartOf[tag]>>
               end == <<EndOf[tag]>>
    <3>2. start \in Seq(Marked) /\ end \in Seq(Marked) /\ Wrapped(tag, inner) = (start \o inner.out) \o end
      BY <2>2, <3>1
    <3> HIDE DEF start, end
    <3>3. start \o inner.out \in Seq(Marked)
      BY <1>1, <3>2, ConcatProperties
    <3> QED
      BY <3>2, <3>3, ConcatProperties
  <2> QED
    BY <2>3, <2>4
<1> QED
  BY <1>2, <1>3

\* Each step that format_inline() takes is from an InlineAt to a shorter one.
LEMMA InlineSteps ==
  ASSUME NEW c \in InlineAt, c.text # <<>>
  PROVE  /\ NoTagAt(c.text) =>
              /\ OneOn(c) \in InlineAt /\ Len(OneOn(c).text) < Len(c.text)
              /\ Balanced(c.out) => Balanced(OneOn(c).out)
         /\ ~NoTagAt(c.text) =>
              /\ Past(c) \in InlineAt /\ Len(Past(c).text) < Len(c.text)
              /\ Past(c).out = c.out
              /\ Content(c) \in InlineAt /\ Len(Content(c).text) < Len(c.text)
              /\ Content(c).out = <<>>
              /\ \A d \in InlineAt :
                   /\ After(c, d) \in InlineAt /\ After(c, d).text = d.text
                   /\ Balanced(c.out) /\ Balanced(d.out) => Balanced(After(c, d).out)
<1>1. c.text \in Text /\ c.enclosing \in Text /\ c.out \in Seq(Marked)
  BY DEF InlineAt
<1>2. CASE NoTagAt(c.text)
  <2> DEFINE more == Escaped(Head(c.text))
  <2>1. more \in Marked \ Elements
    BY <1>1, TextSteps, EscapedTyped
  <2>2. Tail(c.text) \in Text /\ Len(Tail(c.text)) < Len(c.text)
    BY <1>1, TextSteps
  <2>3. /\ OneOn(c) = [c EXCEPT !.text = Tail(c.text), !.out = Append(c.out, more)]
    BY DEF OneOn
  <2> HIDE DEF more
  <2>4. /\ Append(c.out, more) \in Seq(Marked) /\ Append(c.out, more) = c.out \o <<more>>
        /\ <<more>> \in Seq(Marked) /\ \A i \in 1 .. Len(<<more>>) : <<more>>[i] \notin Elements
    BY <1>1, <2>1
  <2>5. /\ OneOn(c) \in InlineAt /\ OneOn(c).text = Tail(c.text)
        /\ OneOn(c).out = c.out \o <<more>>
    BY <2>2, <2>3, <2>4 DEF InlineAt
  <2>6. Balanced(<<more>>)
    BY <2>4, BalancedNeutral
  <2>7. Balanced(c.out) => Balanced(OneOn(c).out)
    BY <1>1, <2>4, <2>5, <2>6, BalancedConcat
  <2> QED
    BY <1>2, <2>2, <2>5, <2>7
<1>3. CASE ~NoTagAt(c.text)
  <2>1. /\ InlineTag(c).name \in Text /\ InlineTag(c).rest \in Text
        /\ Len(InlineTag(c).rest) < Len(c.text)
    BY <1>1, <1>3, TagTyped DEF InlineTag
  <2>2. Past(c) \in InlineAt /\ Past(c).text = InlineTag(c).rest /\ Past(c).out = c.out
    BY <2>1 DEF Past, InlineAt
  <2>3. Content(c) \in InlineAt /\ Content(c).text = InlineTag(c).rest /\ Content(c).out = <<>>
    BY <2>1 DEF Content, InlineAt
  <2>4. ASSUME NEW d \in InlineAt
        PROVE  /\ After(c, d) \in InlineAt /\ After(c, d).text = d.text
               /\ Balanced(c.out) /\ Balanced(d.out) => Balanced(After(c, d).out)
    <3> DEFINE more == Wrapped(PangoTag(InlineTag(c).name), d)
    <3>1. more \in Seq(Marked) /\ (Balanced(d.out) => Balanced(more))
      BY PangoTagTyped, WrappedTyped
    <3>2. After(c, d) = [c EXCEPT !.text = d.text, !.out = c.out \o more]
      BY DEF After
    <3> HIDE DEF more
    <3>3. c.out \o more \in Seq(Marked)
      BY <1>1, <3>1, ConcatProperties
    <3>4. d.text \in Text
      BY DEF InlineAt
    <3>5. After(c, d) \in InlineAt /\ After(c, d).text = d.text /\ After(c, d).out = c.out \o more
      BY <3>2, <3>3, <3>4 DEF InlineAt
    <3> QED
      BY <1>1, <3>1, <3>5, BalancedConcat
  <2> QED
    BY <1>3, <2>1, <2>2, <2>3, <2>4
<1> QED
  BY <1>2, <1>3

\* What InlineBody makes at c rests on shorter texts only.
LEMMA InlineBodyAgrees ==
  ASSUME NEW f, NEW g, NEW c \in InlineAt,
         \A d \in InlineAt : Len(d.text) < Len(c.text) => Returns(d, f[d]) /\ g[d] = f[d]
  PROVE  Returns(c, InlineBody(f, c)) /\ InlineBody(g, c) = InlineBody(f, c)
<1>0. Len(c.text) \in Nat /\ \A d \in InlineAt : Len(d.text) \in Nat
  BY DEF InlineAt, Text
<1>1. CASE c.text = <<>>
  BY <1>0, <1>1 DEF InlineBody, Returns, EndOfInput, InlineAt
<1>2. CASE c.text # <<>> /\ NoTagAt(c.text)
  <2>1. /\ OneOn(c) \in InlineAt /\ Len(OneOn(c).text) < Len(c.text)
        /\ Balanced(c.out) => Balanced(OneOn(c).out)
    BY <1>2, InlineSteps
  <2>2. InlineBody(f, c) = f[OneOn(c)] /\ InlineBody(g, c) = g[OneOn(c)]
    BY <1>2 DEF InlineBody
  <2> QED
    BY <1>0, <2>1, <2>2 DEF Returns
<1>3. CASE c.text # <<>> /\ ~NoTagAt(c.text)
  <2>1. /\ Past(c) \in InlineAt /\ Len(Past(c).text) < Len(c.text)
        /\ Past(c).out = c.out
        /\ Content(c) \in InlineAt /\ Len(Content(c).text) < Len(c.text)
        /\ Balanced(Content(c).out)
        /\ \A d \in InlineAt :
             /\ After(c, d) \in InlineAt /\ After(c, d).text = d.text
             /\ Balanced(c.out) /\ Balanced(d.out) => Balanced(After(c, d).out)
    BY <1>3, InlineSteps, BalancedEmpty
  <2> DEFINE skipped == InlineTag(c).name = <<>> \/ (InlineTag(c).closing /\ InlineTag(c).name # c.enclosing)
  <2>2. CASE skipped
    <3>1. InlineBody(f, c) = f[Past(c)] /\ InlineBody(g, c) = g[Past(c)]
      BY <1>3, <2>2 DEF InlineBody
    <3> QED
      BY <1>0, <2>1, <3>1 DEF Returns
  <2>3. CASE ~skipped /\ InlineTag(c).closing
    <3>1. InlineBody(f, c) = Past(c) /\ InlineBody(g, c) = Past(c)
      BY <1>3, <2>3 DEF InlineBody
    <3> QED
      BY <1>0, <2>1, <3>1 DEF Returns
  <2>4. CASE ~skipped /\ ~InlineTag(c).closing
    <3>1. InlineBody(f, c) = f[After(c, f[Content(c)])] /\ InlineBody(g, c) = g[After(c, g[Content(c)])]
      BY <1>3, <2>4 DEF InlineBody
    <3>2. /\ g[Content(c)] = f[Content(c)] /\ f[Content(c)] \in InlineAt
          /\ Len(f[Content(c)].text) < Len(c.text) /\ Balanced(f[Content(c)].out)
      BY <1>0, <2>1 DEF Returns
    <3>3. /\ After(c, f[Content(c)]) \in InlineAt /\ Len(After(c, f[Content(c)]).text) < Len(c.text)
          /\ Balanced(c.out) => Balanced(After(c, f[Content(c)]).out)
      BY <2>1, <3>2
    <3> QED
      BY <1>0, <3>1, <3>2, <3>3 DEF Returns
  <2> QED
    BY <2>2, <2>3, <2>4
<1> QED
  BY <1>1, <1>2, <1>3

LEMMA InlineUpToExists ==
  ASSUME NEW n \in Nat
  PROVE  \E f : InlineUpTo(f, n)
<1> DEFINE none == {i \in Nat : ~ \E f : InlineUpTo(f, i)}
<1> SUFFICES ASSUME none # {} PROVE FALSE
  OBVIOUS
<1>1. PICK m \in none : \A i \in none : m <= i
  <2>1. none \in SUBSET Nat
    OBVIOUS
  <2> HIDE DEF none
  <2> QED
    BY <2>1, LeastNatural
<1>2. m \in Nat /\ ~ \E f : InlineUpTo(f, m)
  OBVIOUS
\* g is right for every text shorter than m.
<1>3. PICK g : \A d \in InlineAt : Len(d.text) < m => Returns(d, g[d]) /\ g[d] = InlineBody(g, d)
  <2>1. CASE m = 0
    BY <2>1 DEF InlineAt, Text
  <2>2. CASE m # 0
    <3>1. m - 1 \in Nat /\ m - 1 \notin none
      BY <1>1, <1>2, <2>2
    <3>2. PICK g : InlineUpTo(g, m - 1)
      BY <3>1
    <3>3. \A d \in InlineAt : Len(d.text) < m => d \in Short(m - 1)
      BY <1>2 DEF Short, InlineAt, Text
    <3> QED
      BY <3>2, <3>3 DEF InlineUpTo
  <2> QED
    BY <2>1, <2>2
<1> DEFINE f == [c \in Short(m) |-> InlineBody(g, c)]
<1>4. ASSUME NEW c \in Short(m)
      PROVE  Returns(c, f[c]) /\ f[c] = InlineBody(f, c)
  <2>1. c \in InlineAt /\ Len(c.text) <= m /\ Len(c.text) \in Nat
    BY DEF Short, InlineAt, Text
  <2>2. ASSUME NEW d \in InlineAt, Len(d.text) < Len(c.text)
        PROVE  Returns(d, g[d]) /\ f[d] = g[d]
    <3>1. Len(d.text) < m /\ d \in Short(m)
      BY <1>2, <2>1, <2>2 DEF Short, InlineAt, Text
    <3> QED
      BY <1>3, <3>1
  <2>3. f[c] = InlineBody(g, c)
    OBVIOUS
  <2> HIDE DEF f
  <2> QED
    BY <2>1, <2>2, <2>3, InlineBodyAgrees
<1>5. f = [c \in Short(m) |-> f[c]]
  OBVIOUS
<1> HIDE DEF f
<1>6. f = [c \in Short(m) |-> InlineBody(f, c)]
  BY <1>4, <1>5
<1>7. InlineUpTo(f, m)
  BY <1>4, <1>6 DEF InlineUpTo
<1> QED
  BY <1>2, <1>7

LEMMA InlineUpToAgree ==
  ASSUME NEW f, NEW g, NEW m \in Nat, NEW n \in Nat, InlineUpTo(f, m), InlineUpTo(g, n), m <= n,
         NEW c \in Short(m)
  PROVE  g[c] = f[c]
<1> DEFINE apart == {k \in Nat : \E d \in Short(m) : Len(d.text) = k /\ g[d] # f[d]}
<1>0. \A d \in Short(m) : d \in InlineAt /\ Len(d.text) \in Nat /\ Len(d.text) <= m /\ d \in Short(n)
  BY DEF Short, InlineAt, Text
<1> SUFFICES ASSUME apart # {} PROVE FALSE
  BY <1>0
<1>1. PICK k \in apart : \A i \in apart : k <= i
  <2>1. apart \in SUBSET Nat
    OBVIOUS
  <2> HIDE DEF apart
  <2> QED
    BY <2>1, LeastNatural
<1>2. PICK d \in Short(m) : Len(d.text) = k /\ g[d] # f[d]
  BY <1>1
<1>3. ASSUME NEW e \in InlineAt, Len(e.text) < Len(d.text)
      PROVE  Returns(e, f[e]) /\ g[e] = f[e]
  <2>1. e \in Short(m) /\ Len(e.text) \in Nat /\ Len(e.text) < k
    BY <1>0, <1>2, <1>3, SMTT(30) DEF Short, InlineAt, Text
  <2>2. Len(e.text) \notin apart
    <3> HIDE DEF apart
    <3>1. k \in Nat
      BY <1>0, <1>2
    <3> QED
      BY <1>1, <2>1, <3>1
  <2> QED
    BY <2>1, <2>2 DEF InlineUpTo
<1>4. InlineBody(g, d) = InlineBody(f, d)
  BY <1>0, <1>3, InlineBodyAgrees, SMTT(30)
<1> QED
  BY <1>0, <1>2, <1>4 DEF InlineUpTo

\* format_inline() returns, and what it does is what FormatInline says.
LEMMA FormatInlineIs ==
  FormatInline = [c \in InlineAt |-> InlineBody(FormatInline, c)]
<1> DEFINE upto(n) == CHOOSE f : InlineUpTo(f, n)
           whole == [c \in InlineAt |-> upto(Len(c.text))[c]]
<1>1. \A n \in Nat : InlineUpTo(upto(n), n)
  BY InlineUpToExists
<1> HIDE DEF upto
<1>2. ASSUME NEW c \in InlineAt
      PROVE  whole[c] = InlineBody(whole, c)
  <2>1. Len(c.text) \in Nat /\ c \in Short(Len(c.text))
    BY DEF InlineAt, Text, Short
  <2> DEFINE f == upto(Len(c.text))
  <2>2. InlineUpTo(f, Len(c.text))
    BY <1>1, <2>1
  <2>3. whole[c] = f[c]
    OBVIOUS
  <2>4. f[c] = InlineBody(f, c)
    BY <2>1, <2>2 DEF InlineUpTo
  <2>5. ASSUME NEW d \in InlineAt, Len(d.text) < Len(c.text)
        PROVE  Returns(d, f[d]) /\ whole[d] = f[d]
    <3>1. Len(d.text) \in Nat /\ d \in Short(Len(d.text)) /\ d \in Short(Len(c.text))
      BY <2>1, <2>5 DEF InlineAt, Text, Short
    <3>2. InlineUpTo(upto(Len(d.text)), Len(d.text))
      BY <1>1, <3>1
    <3>3. f[d] = upto(Len(d.text))[d]
      <4> HIDE DEF f
      <4> QED
        BY <2>1, <2>2, <2>5, <3>1, <3>2, InlineUpToAgree
    <3>4. Returns(d, f[d])
      <4> HIDE DEF f
      <4> QED
        BY <2>2, <3>1 DEF InlineUpTo
    <3> QED
      BY <3>3, <3>4
  <2> HIDE DEF whole, f
  <2>6. InlineBody(whole, c) = InlineBody(f, c)
    BY <2>5, InlineBodyAgrees
  <2> QED
    BY <2>3, <2>4, <2>6
<1>3. whole = [c \in InlineAt |-> whole[c]]
  OBVIOUS
<1> HIDE DEF whole
<1>4. whole = [c \in InlineAt |-> InlineBody(whole, c)]
  BY <1>2, <1>3
<1> QED
  BY <1>4, Zenon DEF FormatInline, InlineBody, OneOn, InlineTag, Past, Content, After

LEMMA FormatInlineReturns ==
  ASSUME NEW c \in InlineAt
  PROVE  Returns(c, FormatInline[c])
<1> DEFINE astray == {n \in Nat : \E d \in InlineAt : Len(d.text) = n /\ ~Returns(d, FormatInline[d])}
<1>0. \A d \in InlineAt : Len(d.text) \in Nat
  BY DEF InlineAt, Text
<1> SUFFICES ASSUME astray # {} PROVE FALSE
  BY <1>0
<1>1. PICK m \in astray : \A n \in astray : m <= n
  <2>1. astray \in SUBSET Nat
    OBVIOUS
  <2> HIDE DEF astray
  <2> QED
    BY <2>1, LeastNatural
<1>2. PICK d \in InlineAt : Len(d.text) = m /\ ~Returns(d, FormatInline[d])
  OBVIOUS
<1>3. ASSUME NEW e \in InlineAt, Len(e.text) < Len(d.text)
      PROVE  Returns(e, FormatInline[e])
  <2>1. Len(e.text) \in Nat /\ Len(e.text) < m /\ m \in Nat
    BY <1>0, <1>2, <1>3
  <2>2. Len(e.text) \notin astray
    <3> HIDE DEF astray
    <3> QED
      BY <1>1, <2>1
  <2> QED
    BY <2>1, <2>2
<1>4. Returns(d, InlineBody(FormatInline, d))
  BY <1>3, InlineBodyAgrees
<1>5. FormatInline[d] = InlineBody(FormatInline, d)
  BY FormatInlineIs
<1> QED
  BY <1>2, <1>4, <1>5

-------------------------------------------------------------------------------
(***************************************************************************)
(* The loop of gs_modulix_html_to_pango().                                 *)
(***************************************************************************)
\* What the whole markup is made of.
Digits == {"0", "1", "2", "3", "4", "5", "6", "7", "8", "9"}
Drawn == Marked \cup {NEWLINE, BULLET, "."} \cup Digits

BlockTag(c) == TagAt(c.text, BLOCK_BUF)
Skipped(c) == [c EXCEPT !.text = Tail(@)]
PastBlock(c) == [c EXCEPT !.text = BlockTag(c).rest]
Inline(c) == FormatInline[[text |-> BlockTag(c).rest, enclosing |-> BlockTag(c).name, out |-> <<>>]]
AfterParagraph(c) == [c EXCEPT !.text = Inline(c).text, !.empty = @ /\ Inline(c).out = <<>>]
AfterListTag(c) == [PastBlock(c) EXCEPT !.list = ListTag(BlockTag(c), @)]
AfterItem(c) == [text |-> Inline(c).text, empty |-> FALSE,
                 list |-> [c.list EXCEPT !.counter = IF c.list.ordered THEN @ + 1 ELSE @]]
Paragraph(c) == OnNewLine(c.empty, Inline(c).out)
Item(c) == OnNewLine(c.empty, ItemMark(c.list) \o Inline(c).out)

\* FormatBlocks at c, given what f says of shorter texts.
BlocksBody(f, c) ==
  IF c.text = <<>> THEN <<>>
  ELSE IF NoTagAt(c.text) THEN f[Skipped(c)]
  ELSE IF BlockTag(c).name = <<"p">> /\ ~BlockTag(c).closing
       THEN Paragraph(c) \o f[AfterParagraph(c)]
  ELSE IF BlockTag(c).name \in {<<"ul">>, <<"ol">>} THEN f[AfterListTag(c)]
  ELSE IF BlockTag(c).name = <<"li">> /\ ~BlockTag(c).closing /\ c.list.in_list
       THEN Item(c) \o f[AfterItem(c)]
  ELSE f[PastBlock(c)]

ShortBlocks(n) == {c \in BlocksAt : Len(c.text) <= n}
BlocksUpTo(f, n) == f = [c \in ShortBlocks(n) |-> BlocksBody(f, c)]

\* Each step of the loop is from a BlocksAt to a shorter one.
LEMMA BlockSteps ==
  ASSUME NEW c \in BlocksAt, c.text # <<>>
  PROVE  /\ NoTagAt(c.text) => Skipped(c) \in BlocksAt /\ Len(Skipped(c).text) < Len(c.text)
         /\ ~NoTagAt(c.text) =>
              /\ Inline(c).out \in Seq(Marked) /\ Balanced(Inline(c).out)
              /\ PastBlock(c) \in BlocksAt /\ Len(PastBlock(c).text) < Len(c.text)
              /\ AfterParagraph(c) \in BlocksAt /\ Len(AfterParagraph(c).text) < Len(c.text)
              /\ AfterListTag(c) \in BlocksAt /\ Len(AfterListTag(c).text) < Len(c.text)
              /\ AfterItem(c) \in BlocksAt /\ Len(AfterItem(c).text) < Len(c.text)
<1>1. c.text \in Text /\ c.list \in ListState /\ c.empty \in BOOLEAN
  BY DEF BlocksAt
<1>2. CASE NoTagAt(c.text)
  <2>1. Tail(c.text) \in Text /\ Len(Tail(c.text)) < Len(c.text)
    BY <1>1, TextSteps
  <2> QED
    BY <1>2, <2>1 DEF Skipped, BlocksAt
<1>3. CASE ~NoTagAt(c.text)
  <2> DEFINE tag == BlockTag(c)
             start == [text |-> tag.rest, enclosing |-> tag.name, out |-> <<>>]
             inline == Inline(c)
  <2>1. /\ tag.name \in Text /\ tag.closing \in BOOLEAN /\ tag.rest \in Text
        /\ Len(tag.rest) \in Nat /\ Len(tag.rest) < Len(c.text)
    BY <1>1, <1>3, TagTyped DEF BlockTag
  <2>2. start \in InlineAt /\ start.text = tag.rest /\ start.out = <<>>
    BY <2>1 DEF InlineAt
  <2>3. /\ inline \in InlineAt /\ Len(inline.text) <= Len(tag.rest) /\ Balanced(inline.out)
    <3> HIDE DEF start
    <3>1. Returns(start, FormatInline[start])
      BY <2>2, FormatInlineReturns
    <3> QED
      BY <2>2, <3>1, BalancedEmpty DEF Returns, Inline, start
  <2>4. inline.text \in Text /\ inline.out \in Seq(Marked) /\ Len(inline.text) \in Nat
    BY <2>3 DEF InlineAt, Text
  <2>5. Len(inline.text) < Len(c.text)
    BY <1>1, <2>1, <2>3, <2>4 DEF Text
  <2> HIDE DEF tag, start, inline
  <2>6. PastBlock(c) \in BlocksAt /\ PastBlock(c).text = tag.rest
    BY <2>1 DEF PastBlock, BlocksAt, tag
  <2>7. AfterParagraph(c) \in BlocksAt /\ AfterParagraph(c).text = inline.text
    <3>1. (c.empty /\ inline.out = <<>>) \in BOOLEAN
      OBVIOUS
    <3>2. AfterParagraph(c) = [c EXCEPT !.text = inline.text, !.empty = c.empty /\ inline.out = <<>>]
      BY DEF AfterParagraph, inline
    <3> QED
      BY <2>4, <3>1, <3>2 DEF BlocksAt
  <2>8. AfterListTag(c) \in BlocksAt /\ AfterListTag(c).text = tag.rest
    <3>1. ListTag(tag, c.list) \in ListState
      BY <1>1, <2>1 DEF ListTag, ListState
    <3>2. PastBlock(c).list = c.list
      BY DEF PastBlock, BlocksAt
    <3>3. AfterListTag(c) = [PastBlock(c) EXCEPT !.list = ListTag(tag, c.list)]
      BY <2>6, <3>2 DEF AfterListTag, BlocksAt, tag
    <3> QED
      BY <2>6, <3>1, <3>3 DEF BlocksAt
  <2>9. AfterItem(c) \in BlocksAt /\ AfterItem(c).text = inline.text
    <3>1. [c.list EXCEPT !.counter = IF c.list.ordered THEN @ + 1 ELSE @] \in ListState
      BY <1>1 DEF ListState
    <3> QED
      BY <2>4, <3>1 DEF AfterItem, BlocksAt, inline
  <2> QED
    BY <1>3, <2>1, <2>3, <2>4, <2>5, <2>6, <2>7, <2>8, <2>9 DEF inline
<1> QED
  BY <1>2, <1>3

LEMMA BlocksBodyAgrees ==
  ASSUME NEW f, NEW g, NEW c \in BlocksAt,
         \A d \in BlocksAt : Len(d.text) < Len(c.text) => g[d] = f[d]
  PROVE  BlocksBody(g, c) = BlocksBody(f, c)
<1>1. CASE c.text = <<>>
  BY <1>1 DEF BlocksBody
<1>2. CASE c.text # <<>> /\ NoTagAt(c.text)
  <2>1. g[Skipped(c)] = f[Skipped(c)]
    BY <1>2, BlockSteps
  <2> QED
    BY <1>2, <2>1 DEF BlocksBody
<1>3. CASE c.text # <<>> /\ ~NoTagAt(c.text)
  <2>1. /\ g[PastBlock(c)] = f[PastBlock(c)] /\ g[AfterParagraph(c)] = f[AfterParagraph(c)]
        /\ g[AfterListTag(c)] = f[AfterListTag(c)] /\ g[AfterItem(c)] = f[AfterItem(c)]
    BY <1>3, BlockSteps
  <2> QED
    BY <1>3, <2>1 DEF BlocksBody
<1> QED
  BY <1>1, <1>2, <1>3

LEMMA BlocksUpToExists ==
  ASSUME NEW n \in Nat
  PROVE  \E f : BlocksUpTo(f, n)
<1> DEFINE none == {i \in Nat : ~ \E f : BlocksUpTo(f, i)}
<1> SUFFICES ASSUME none # {} PROVE FALSE
  OBVIOUS
<1>1. PICK m \in none : \A i \in none : m <= i
  <2>1. none \in SUBSET Nat
    OBVIOUS
  <2> HIDE DEF none
  <2> QED
    BY <2>1, LeastNatural
<1>2. m \in Nat /\ ~ \E f : BlocksUpTo(f, m)
  OBVIOUS
<1>3. PICK g : \A d \in BlocksAt : Len(d.text) < m => g[d] = BlocksBody(g, d)
  <2>1. CASE m = 0
    BY <2>1 DEF BlocksAt, Text
  <2>2. CASE m # 0
    <3>1. m - 1 \in Nat /\ m - 1 \notin none
      BY <1>1, <1>2, <2>2
    <3>2. PICK g : BlocksUpTo(g, m - 1)
      BY <3>1
    <3>3. \A d \in BlocksAt : Len(d.text) < m => d \in ShortBlocks(m - 1)
      BY <1>2 DEF ShortBlocks, BlocksAt, Text
    <3> QED
      BY <3>2, <3>3 DEF BlocksUpTo
  <2> QED
    BY <2>1, <2>2
<1> DEFINE f == [c \in ShortBlocks(m) |-> BlocksBody(g, c)]
<1>4. ASSUME NEW c \in ShortBlocks(m)
      PROVE  f[c] = BlocksBody(f, c)
  <2>1. c \in BlocksAt /\ Len(c.text) <= m /\ Len(c.text) \in Nat
    BY DEF ShortBlocks, BlocksAt, Text
  <2>2. ASSUME NEW d \in BlocksAt, Len(d.text) < Len(c.text)
        PROVE  f[d] = g[d]
    <3>1. Len(d.text) < m /\ d \in ShortBlocks(m)
      BY <1>2, <2>1, <2>2 DEF ShortBlocks, BlocksAt, Text
    <3> QED
      BY <1>3, <3>1
  <2>3. f[c] = BlocksBody(g, c)
    OBVIOUS
  <2> HIDE DEF f
  <2> QED
    BY <2>1, <2>2, <2>3, BlocksBodyAgrees
<1>5. f = [c \in ShortBlocks(m) |-> f[c]]
  OBVIOUS
<1> HIDE DEF f
<1>6. f = [c \in ShortBlocks(m) |-> BlocksBody(f, c)]
  BY <1>4, <1>5
<1>7. BlocksUpTo(f, m)
  BY <1>6 DEF BlocksUpTo
<1> QED
  BY <1>2, <1>7

LEMMA BlocksUpToAgree ==
  ASSUME NEW f, NEW g, NEW m \in Nat, NEW n \in Nat, BlocksUpTo(f, m), BlocksUpTo(g, n), m <= n,
         NEW c \in ShortBlocks(m)
  PROVE  g[c] = f[c]
<1> DEFINE apart == {k \in Nat : \E d \in ShortBlocks(m) : Len(d.text) = k /\ g[d] # f[d]}
<1>0. \A d \in ShortBlocks(m) :
        d \in BlocksAt /\ Len(d.text) \in Nat /\ Len(d.text) <= m /\ d \in ShortBlocks(n)
  BY DEF ShortBlocks, BlocksAt, Text
<1> SUFFICES ASSUME apart # {} PROVE FALSE
  BY <1>0
<1>1. PICK k \in apart : \A i \in apart : k <= i
  <2>1. apart \in SUBSET Nat
    OBVIOUS
  <2> HIDE DEF apart
  <2> QED
    BY <2>1, LeastNatural
<1>2. PICK d \in ShortBlocks(m) : Len(d.text) = k /\ g[d] # f[d]
  BY <1>1
<1>3. ASSUME NEW e \in BlocksAt, Len(e.text) < Len(d.text)
      PROVE  g[e] = f[e]
  <2>1. e \in ShortBlocks(m) /\ Len(e.text) \in Nat /\ Len(e.text) < k
    BY <1>0, <1>2, <1>3 DEF ShortBlocks, BlocksAt, Text
  <2>2. Len(e.text) \notin apart
    <3> HIDE DEF apart
    <3>1. k \in Nat
      BY <1>0, <1>2
    <3> QED
      BY <1>1, <2>1, <3>1
  <2> QED
    BY <2>1, <2>2
<1>4. BlocksBody(g, d) = BlocksBody(f, d)
  BY <1>0, <1>3, BlocksBodyAgrees, SMTT(30)
<1> QED
  BY <1>0, <1>2, <1>4 DEF BlocksUpTo

\* The loop ends, and what it appends is what FormatBlocks says.
LEMMA FormatBlocksIs ==
  FormatBlocks = [c \in BlocksAt |-> BlocksBody(FormatBlocks, c)]
<1> DEFINE upto(n) == CHOOSE f : BlocksUpTo(f, n)
           whole == [c \in BlocksAt |-> upto(Len(c.text))[c]]
<1>1. \A n \in Nat : BlocksUpTo(upto(n), n)
  BY BlocksUpToExists
<1> HIDE DEF upto
<1>2. ASSUME NEW c \in BlocksAt
      PROVE  whole[c] = BlocksBody(whole, c)
  <2>1. Len(c.text) \in Nat /\ c \in ShortBlocks(Len(c.text))
    BY DEF BlocksAt, Text, ShortBlocks
  <2> DEFINE f == upto(Len(c.text))
  <2>2. BlocksUpTo(f, Len(c.text))
    BY <1>1, <2>1
  <2>3. whole[c] = f[c]
    OBVIOUS
  <2>4. f[c] = BlocksBody(f, c)
    BY <2>1, <2>2 DEF BlocksUpTo
  <2>5. ASSUME NEW d \in BlocksAt, Len(d.text) < Len(c.text)
        PROVE  whole[d] = f[d]
    <3>1. Len(d.text) \in Nat /\ d \in ShortBlocks(Len(d.text))
      BY <2>5 DEF BlocksAt, Text, ShortBlocks
    <3>2. BlocksUpTo(upto(Len(d.text)), Len(d.text))
      BY <1>1, <3>1
    <3> HIDE DEF f
    <3>3. f[d] = upto(Len(d.text))[d]
      BY <2>1, <2>2, <2>5, <3>1, <3>2, BlocksUpToAgree
    <3> QED
      BY <3>3
  <2> HIDE DEF whole, f
  <2>6. BlocksBody(whole, c) = BlocksBody(f, c)
    BY <2>5, BlocksBodyAgrees
  <2> QED
    BY <2>3, <2>4, <2>6
<1>3. whole = [c \in BlocksAt |-> whole[c]]
  OBVIOUS
<1> HIDE DEF whole
<1>4. whole = [c \in BlocksAt |-> BlocksBody(whole, c)]
  BY <1>2, <1>3
<1> QED
  BY <1>4, Zenon DEF FormatBlocks, BlocksBody, BlockTag, Skipped, PastBlock, Inline, AfterParagraph,
              AfterListTag, AfterItem, Paragraph, Item

\* Markup that may be given to Pango, once its elements are closed.
Fine(s) == s \in Seq(Drawn) /\ Balanced(s)

LEMMA FineConcat ==
  ASSUME NEW s, NEW t, Fine(s), Fine(t)
  PROVE  Fine(s \o t)
<1>1. s \o t \in Seq(Drawn)
  BY ConcatProperties DEF Fine
<1> QED
  BY <1>1, BalancedConcat DEF Fine

LEMMA FineNeutral ==
  ASSUME NEW s \in Seq(Drawn \ Elements)
  PROVE  Fine(s)
<1>1. \A i \in 1 .. Len(s) : s[i] \in Drawn \ Elements
  BY ElementOfSeq
<1>2. s \in Seq(Drawn)
  BY <1>1, LenProperties
<1>3. Balanced(s)
  BY <1>1, BalancedNeutral
<1> QED
  BY <1>2, <1>3 DEF Fine

LEMMA FineEmpty == Fine(<<>>)
BY BalancedEmpty DEF Fine

LEMMA FineInline ==
  ASSUME NEW s \in Seq(Marked), Balanced(s)
  PROVE  Fine(s)
<1>1. \A i \in 1 .. Len(s) : s[i] \in Drawn
  BY ElementOfSeq DEF Drawn
<1>2. s \in Seq(Drawn)
  BY <1>1, LenProperties
<1> QED
  BY <1>2 DEF Fine

LEMMA NumeralTyped ==
  ASSUME NEW n \in Nat
  PROVE  Numeral(n) \in Seq(Digits)
<1> DEFINE digits == [i \in 1 .. 10 |-> Digit[((n \div Power[i]) % 10) + 1]]
           larger == {i \in 1 .. 10 : n < Power[i]}
<1>1. digits \in Seq(Digits)
  <2>1. \A i \in 1 .. 10 : Power[i] \in Nat \ {0}
    BY DEF Power
  <2>2. \A d \in 0 .. 9 : Digit[d + 1] \in Digits
    BY DEF Digit, Digits
  <2>3. ASSUME NEW i \in 1 .. 10
        PROVE  digits[i] \in Digits
    <3> DEFINE p == Power[i]
    <3>1. p \in Nat /\ p > 0
      BY <2>1
    <3> HIDE DEF p
    <3>2. (n \div p) \in Int
      BY <3>1
    <3>3. ((n \div p) % 10) \in 0 .. 9
      BY <3>2
    <3> QED
      BY <2>2, <3>3 DEF p
  <2> QED
    BY <2>3
<1>2. Cardinality(larger) \in Nat
  <2>0. 1 \in Int /\ 10 \in Int
    OBVIOUS
  <2>1. IsFiniteSet(1 .. 10)
    BY <2>0, FS_Interval, Zenon
  <2>2. larger \subseteq 1 .. 10
    OBVIOUS
  <2> HIDE DEF larger
  <2>3. IsFiniteSet(larger)
    BY <2>1, <2>2, FS_Subset
  <2> QED
    BY <2>3, FS_CardinalityType
<1>3. Len(digits) = 10
  OBVIOUS
<1>4. Numeral(n) = SubSeq(digits, Cardinality(larger) + 1, 10)
  BY DEF Numeral
<1> DEFINE first == Cardinality(larger) + 1
<1> HIDE DEF digits, larger
<1>5. first \in Int /\ first >= 1 /\ 10 \in Int
  BY <1>2
<1> HIDE DEF first
<1>6. ASSUME NEW i \in first .. 10
      PROVE  digits[i] \in Digits
  <2>1. i \in 1 .. Len(digits)
    BY <1>3, <1>5
  <2> QED
    BY <1>1, <2>1, ElementOfSeq, Zenon
<1>7. SubSeq(digits, first, 10) \in Seq(Digits)
  BY <1>5, <1>6, SubSeqProperties
<1> QED
  BY <1>4, <1>7 DEF first

LEMMA FineItemMark ==
  ASSUME NEW list \in ListState
  PROVE  Fine(ItemMark(list))
<1>1. CASE list.ordered
  <2> DEFINE number == Numeral(list.counter + 1)
             dot == <<".", SPACE>>
  <2>1. Digits \subseteq Drawn \ Elements
    BY Literals DEF Digits, Drawn, Elements
  <2>2. number \in Seq(Drawn \ Elements)
    <3>1. list.counter + 1 \in Nat
      BY DEF ListState
    <3>2. number \in Seq(Digits)
      BY <3>1, NumeralTyped
    <3> HIDE DEF number
    <3> QED
      BY <2>1, <3>2
  <2>3. dot \in Seq(Drawn \ Elements)
    <3>1. "." \in Drawn \ Elements /\ SPACE \in Drawn \ Elements
      BY Literals DEF Drawn, Marked, Elements, SPACE
    <3> QED
      BY <3>1
  <2>4. ItemMark(list) = number \o dot
    BY <1>1 DEF ItemMark
  <2> HIDE DEF number, dot
  <2>5. number \o dot \in Seq(Drawn \ Elements)
    BY <2>2, <2>3, ConcatProperties
  <2> QED
    BY <2>4, <2>5, FineNeutral
<1>2. CASE ~list.ordered
  <2>1. BULLET \in Drawn \ Elements /\ SPACE \in Drawn \ Elements
    BY Literals DEF Drawn, Marked, Elements, SPACE, BULLET
  <2>2. ItemMark(list) = <<BULLET, SPACE>>
    BY <1>2 DEF ItemMark
  <2>3. <<BULLET, SPACE>> \in Seq(Drawn \ Elements)
    BY <2>1
  <2> QED
    BY <2>2, <2>3, FineNeutral
<1> QED
  BY <1>1, <1>2

LEMMA FineOnNewLine ==
  ASSUME NEW empty \in BOOLEAN, NEW line, Fine(line)
  PROVE  Fine(OnNewLine(empty, line))
<1>1. Fine(<<>>)
  BY FineEmpty
<1>2. Fine(<<NEWLINE>>)
  <2>1. NEWLINE \in Drawn \ Elements
    BY Literals DEF Drawn, Elements, NEWLINE
  <2>2. <<NEWLINE>> \in Seq(Drawn \ Elements)
    BY <2>1, OneToken
  <2> QED
    BY <2>2, FineNeutral
<1>3. \A s : Fine(s) => Fine(s \o line)
  BY FineConcat
<1> QED
  BY <1>1, <1>2, <1>3 DEF OnNewLine

LEMMA BlocksBodyFine ==
  ASSUME NEW f, NEW c \in BlocksAt,
         \A d \in BlocksAt : Len(d.text) < Len(c.text) => Fine(f[d])
  PROVE  Fine(BlocksBody(f, c))
<1>1. CASE c.text = <<>>
  <2>1. Fine(<<>>)
    BY FineEmpty
  <2> QED
    BY <1>1, <2>1 DEF BlocksBody
<1>2. CASE c.text # <<>> /\ NoTagAt(c.text)
  BY <1>2, BlockSteps DEF BlocksBody
<1>3. CASE c.text # <<>> /\ ~NoTagAt(c.text)
  <2>1. /\ Fine(f[PastBlock(c)]) /\ Fine(f[AfterParagraph(c)])
        /\ Fine(f[AfterListTag(c)]) /\ Fine(f[AfterItem(c)])
    BY <1>3, BlockSteps
  <2>2. Fine(Inline(c).out)
    BY <1>3, BlockSteps, FineInline
  <2>3. Fine(Paragraph(c) \o f[AfterParagraph(c)])
    <3>1. Fine(Paragraph(c))
      BY <2>2, FineOnNewLine DEF Paragraph, BlocksAt
    <3> QED
      BY <2>1, <3>1, FineConcat
  <2>4. Fine(Item(c) \o f[AfterItem(c)])
    <3>1. Fine(ItemMark(c.list) \o Inline(c).out)
      BY <2>2, FineItemMark, FineConcat DEF BlocksAt
    <3>2. Fine(Item(c))
      BY <3>1, FineOnNewLine DEF Item, BlocksAt
    <3> QED
      BY <2>1, <3>2, FineConcat
  <2> QED
    BY <1>3, <2>1, <2>3, <2>4 DEF BlocksBody
<1> QED
  BY <1>1, <1>2, <1>3

LEMMA FormatBlocksFine ==
  ASSUME NEW c \in BlocksAt
  PROVE  Fine(FormatBlocks[c])
<1> DEFINE wrong == {n \in Nat : \E d \in BlocksAt : Len(d.text) = n /\ ~Fine(FormatBlocks[d])}
<1>0. \A d \in BlocksAt : Len(d.text) \in Nat
  BY DEF BlocksAt, Text
<1> SUFFICES ASSUME wrong # {} PROVE FALSE
  BY <1>0
<1>1. PICK m \in wrong : \A n \in wrong : m <= n
  <2>1. wrong \in SUBSET Nat
    OBVIOUS
  <2> HIDE DEF wrong
  <2> QED
    BY <2>1, LeastNatural
<1>2. PICK d \in BlocksAt : Len(d.text) = m /\ ~Fine(FormatBlocks[d])
  OBVIOUS
<1>3. ASSUME NEW e \in BlocksAt, Len(e.text) < Len(d.text)
      PROVE  Fine(FormatBlocks[e])
  <2>1. Len(e.text) \in Nat /\ Len(e.text) < m /\ m \in Nat
    BY <1>0, <1>2, <1>3
  <2>2. Len(e.text) \notin wrong
    <3> HIDE DEF wrong
    <3> QED
      BY <1>1, <2>1
  <2> QED
    BY <2>1, <2>2
<1>4. Fine(BlocksBody(FormatBlocks, d))
  BY <1>3, BlocksBodyFine
<1>5. FormatBlocks[d] = BlocksBody(FormatBlocks, d)
  BY FormatBlocksIs
<1> QED
  BY <1>2, <1>4, <1>5

\* g_strstrip() takes no element away.
LEMMA FineStripped ==
  ASSUME NEW s, Fine(s)
  PROVE  Fine(Stripped(s))
<1> DEFINE kept == {n \in 1 .. Len(s) : s[n] \notin {SPACE, NEWLINE}}
           first == CHOOSE n \in kept : \A k \in kept : n <= k
           last == CHOOSE n \in kept : \A k \in kept : k <= n
           before == SubSeq(s, 1, first - 1)
           middle == SubSeq(s, first, last)
           behind == SubSeq(s, last + 1, Len(s))
<1>0. s \in Seq(Drawn) /\ Len(s) \in Nat /\ Balanced(s)
  BY LenProperties DEF Fine
<1>1. CASE kept = {}
  <2>1. Stripped(s) = <<>>
    BY <1>1 DEF Stripped
  <2> QED
    BY <2>1, FineEmpty
<1>2. CASE kept # {}
  <2>1. first \in kept /\ \A k \in kept : first <= k
    <3>1. kept \in SUBSET Nat
      BY <1>0
    <3> HIDE DEF kept
    <3> QED
      BY <1>2, <3>1, LeastNatural
  <2>2. last \in kept /\ \A k \in kept : k <= last
    <3> DEFINE far == {n \in Nat : Len(s) - n \in kept}
    <3>1. far \in SUBSET Nat /\ far # {}
      <4>1. Len(s) - first \in far
        BY <1>0, <2>1
      <4> QED
        BY <4>1
    <3>2. PICK n \in far : \A m \in far : n <= m
      <4> HIDE DEF far
      <4> QED
        BY <3>1, LeastNatural
    <3>3. Len(s) - n \in kept
      OBVIOUS
    <3>4. ASSUME NEW k \in kept PROVE k <= Len(s) - n
      <4>1. k \in Nat /\ Len(s) - k \in Nat /\ Len(s) - (Len(s) - k) = k
        BY <1>0
      <4>2. Len(s) - k \in far
        BY <4>1
      <4>3. n <= Len(s) - k /\ n \in Nat
        <5> HIDE DEF far
        <5> QED
          BY <3>1, <3>2, <4>2
      <4> HIDE DEF kept
      <4> QED
        BY <1>0, <4>1, <4>3
    <3> HIDE DEF kept, far
    <3> QED
      BY <3>3, <3>4
  <2>3. first \in 1 .. Len(s) /\ last \in 1 .. Len(s) /\ first <= last
    BY <2>1, <2>2
  <2>4. Stripped(s) = middle
    BY <1>2 DEF Stripped
  <2>5. /\ \A i \in 1 .. first - 1 : s[i] \notin Elements
        /\ \A i \in last + 1 .. Len(s) : s[i] \notin Elements
    <3>1. SPACE \notin Elements /\ NEWLINE \notin Elements
      BY Literals DEF Elements, SPACE, NEWLINE
    <3>2. ASSUME NEW i \in 1 .. Len(s), i < first \/ last < i
          PROVE  s[i] \in {SPACE, NEWLINE}
      <4>1. i \notin kept
        <5> HIDE DEF kept, first, last
        <5> QED
          BY <2>1, <2>2, <2>3, <3>2
      <4> QED
        BY <4>1
    <3> HIDE DEF first, last
    <3> QED
      BY <1>0, <2>3, <3>1, <3>2
  <2> HIDE DEF kept, first, last
  <2>6. \A i \in 1 .. Len(s) : s[i] \in Drawn
    BY <1>0, ElementOfSeq
  <2>7. /\ before \in Seq(Drawn) /\ \A i \in 1 .. Len(before) : before[i] \notin Elements
        /\ middle \in Seq(Drawn)
        /\ behind \in Seq(Drawn) /\ \A i \in 1 .. Len(behind) : behind[i] \notin Elements
    <3>1. before \in Seq(Drawn) /\ \A i \in 1 .. Len(before) : before[i] \notin Elements
      BY <1>0, <2>3, <2>5, <2>6, SubSeqProperties
    <3>2. middle \in Seq(Drawn)
      BY <1>0, <2>3, <2>6, SubSeqProperties
    <3>3. behind \in Seq(Drawn) /\ \A i \in 1 .. Len(behind) : behind[i] \notin Elements
      BY <1>0, <2>3, <2>5, <2>6, SubSeqProperties
    <3> QED
      BY <3>1, <3>2, <3>3
  <2>8. s = (before \o middle) \o behind
    <3>1. before \o middle = SubSeq(s, 1, last)
      BY <1>0, <2>3, ConcatAdjacentSubSeq
    <3>2. SubSeq(s, 1, last) \o behind = SubSeq(s, 1, Len(s))
      BY <1>0, <2>3, ConcatAdjacentSubSeq
    <3>3. SubSeq(s, 1, Len(s)) = s
      BY <1>0, SubSeqFull
    <3> QED
      BY <3>1, <3>2, <3>3
  <2> HIDE DEF before, middle, behind
  <2>9. ASSUME NEW o \in Stacks
        PROVE  OpenFrom(o, middle) = o
    <3>1. before \o middle \in Seq(Drawn)
      BY <2>7, ConcatProperties
    <3>2. OpenFrom(o, before \o middle) = OpenFrom(o, middle)
      <4>1. OpenFrom(o, before) = o
        BY <2>7, OpenNeutral
      <4> QED
        BY <2>7, <4>1, OpenConcat
    <3> DEFINE most == before \o middle
    <3>3. OpenFrom(o, most \o behind) = OpenFrom(OpenFrom(o, most), behind)
      <4>1. most \in Seq(Drawn)
        BY <3>1
      <4> HIDE DEF most
      <4> QED
        BY <2>7, <4>1, OpenConcat
    <3>4. OpenFrom(OpenFrom(o, most), behind) = OpenFrom(o, most)
      <4> HIDE DEF most
      <4> QED
        BY <2>7, OpenNeutral
    <3>5. OpenFrom(o, s) = o
      BY <1>0 DEF Balanced
    <3> QED
      BY <2>8, <3>2, <3>3, <3>4, <3>5
  <2> QED
    BY <2>4, <2>7, <2>9 DEF Fine, Balanced
<1> QED
  BY <1>1, <1>2

LEMMA HtmlToPangoFine ==
  ASSUME NEW s \in Text
  PROVE  Fine(HtmlToPango(s))
<1> DEFINE start == [text |-> s, list |-> NoList, empty |-> TRUE]
<1>1. start \in BlocksAt
  BY DEF BlocksAt, ListState, NoList
<1> HIDE DEF start
<1>2. Fine(FormatBlocks[start])
  BY <1>1, FormatBlocksFine
<1> QED
  BY <1>2, FineStripped DEF HtmlToPango, start

-------------------------------------------------------------------------------
(***************************************************************************)
(* Induction, over sets rather than predicates.                            *)
(***************************************************************************)
LEMMA NatInduct ==
  ASSUME NEW G, 0 \in G, \A n \in Nat : n \in G => n + 1 \in G
  PROVE  Nat \subseteq G
<1> DEFINE out == {n \in Nat : n \notin G}
<1> SUFFICES ASSUME out # {} PROVE FALSE
  OBVIOUS
<1>1. PICK m \in out : \A n \in out : m <= n
  <2>1. out \in SUBSET Nat
    OBVIOUS
  <2> HIDE DEF out
  <2> QED
    BY <2>1, LeastNatural
<1>2. m \in Nat /\ m # 0 /\ m \notin G
  OBVIOUS
<1>3. m - 1 \in Nat /\ m - 1 \notin out /\ (m - 1) + 1 = m
  BY <1>1, <1>2
<1> QED
  BY <1>2, <1>3

LEMMA SeqInduct ==
  ASSUME NEW S, NEW G, <<>> \in G, \A s \in Seq(S), e \in S : s \in G => Append(s, e) \in G
  PROVE  Seq(S) \subseteq G
<1> DEFINE all == {n \in Nat : \A s \in Seq(S) : Len(s) = n => s \in G}
<1>1. 0 \in all
  OBVIOUS
<1>2. ASSUME NEW n \in Nat, n \in all
      PROVE  n + 1 \in all
  <2> SUFFICES ASSUME NEW s \in Seq(S), Len(s) = n + 1
               PROVE  s \in G
    OBVIOUS
  <2> DEFINE front == SubSeq(s, 1, n)
  <2>1. \A i \in 1 .. n + 1 : s[i] \in S
    BY ElementOfSeq
  <2>2. front \in Seq(S) /\ Len(front) = n /\ \A i \in 1 .. n : front[i] = s[i]
    BY <2>1, SubSeqProperties
  <2>3. s[n + 1] \in S
    BY <2>1
  <2> HIDE DEF front
  <2>4. s = Append(front, s[n + 1])
    <3>1. /\ Append(front, s[n + 1]) \in Seq(S) /\ Len(Append(front, s[n + 1])) = n + 1
          /\ \A i \in 1 .. n : Append(front, s[n + 1])[i] = front[i]
          /\ Append(front, s[n + 1])[n + 1] = s[n + 1]
      BY <2>2, <2>3, AppendProperties
    <3> QED
      BY <2>2, <3>1, SeqEqual
  <2>5. front \in G
    BY <1>2, <2>2
  <2> QED
    BY <2>2, <2>3, <2>4, <2>5
<1> HIDE DEF all
<1>3. Nat \subseteq all
  BY <1>1, <1>2, NatInduct
<1> QED
  BY <1>3, LenProperties DEF all

-------------------------------------------------------------------------------
(***************************************************************************)
(* What FlattenSeq makes of a sequence that grows.                         *)
(***************************************************************************)
\* f[i] is the first i of seqs, one after the other.
Joined(s, t) == s \o t
FlatUpTo(f, seqs, n) ==
  f = [i \in 1 .. n |-> IF i = 1 THEN seqs[i] ELSE Joined(f[i - 1], seqs[i])]

LEMMA JoinedAssoc ==
  ASSUME NEW S, NEW s \in Seq(S), NEW t \in Seq(S), NEW u \in Seq(S)
  PROVE  Joined(Joined(s, t), u) = Joined(s, Joined(t, u))
BY ConcatAssociative, SMTT(30) DEF Joined

LEMMA FlatExists ==
  ASSUME NEW seqs, NEW n \in Nat
  PROVE  \E f : FlatUpTo(f, seqs, n)
<1> DEFINE G == {i \in Nat : \E f : FlatUpTo(f, seqs, i)}
<1>1. 0 \in G
  <2> DEFINE f == [i \in 1 .. 0 |-> <<>>]
  <2>1. FlatUpTo(f, seqs, 0)
    <3>1. \A i \in 1 .. 0 : <<>> = IF i = 1 THEN seqs[i] ELSE Joined(f[i - 1], seqs[i])
      OBVIOUS
    <3>2. f = [i \in 1 .. 0 |-> IF i = 1 THEN seqs[i] ELSE Joined(f[i - 1], seqs[i])]
      BY <3>1
    <3> QED
      BY <3>2 DEF FlatUpTo
  <2> HIDE DEF f
  <2> QED
    BY <2>1
<1>2. ASSUME NEW m \in Nat, m \in G
      PROVE  m + 1 \in G
  <2>1. PICK g : FlatUpTo(g, seqs, m)
    BY <1>2
  <2> DEFINE f == [i \in 1 .. m + 1 |-> IF i = 1 THEN seqs[i] ELSE Joined(g[i - 1], seqs[i])]
  <2>2. \A i \in 1 .. m : f[i] = g[i]
    BY <2>1 DEF FlatUpTo
  <2>3. \A i \in 1 .. m + 1 : i # 1 => i - 1 \in 1 .. m
    OBVIOUS
  <2>4. \A i \in 1 .. m + 1 : f[i] = IF i = 1 THEN seqs[i] ELSE Joined(f[i - 1], seqs[i])
    BY <2>2, <2>3
  <2>5. f = [i \in 1 .. m + 1 |-> f[i]]
    OBVIOUS
  <2> HIDE DEF f
  <2>6. f = [i \in 1 .. m + 1 |-> IF i = 1 THEN seqs[i] ELSE Joined(f[i - 1], seqs[i])]
    BY <2>4, <2>5
  <2>7. FlatUpTo(f, seqs, m + 1)
    BY <2>6 DEF FlatUpTo
  <2> QED
    BY <2>7
<1> HIDE DEF G
<1>3. Nat \subseteq G
  BY <1>1, <1>2, NatInduct
<1> QED
  BY <1>3 DEF G

LEMMA FlatUnique ==
  ASSUME NEW seqs, NEW more, NEW n \in Nat, NEW m \in Nat, n <= m, NEW f, NEW g,
         \A i \in 1 .. n : seqs[i] = more[i],
         FlatUpTo(f, seqs, n), FlatUpTo(g, more, m)
  PROVE  \A i \in 1 .. n : f[i] = g[i]
<1> DEFINE G == {i \in Nat : i + 1 \in 1 .. n => f[i + 1] = g[i + 1]}
<1>0. /\ \A i \in 1 .. n : f[i] = IF i = 1 THEN seqs[i] ELSE Joined(f[i - 1], seqs[i])
      /\ \A i \in 1 .. m : g[i] = IF i = 1 THEN more[i] ELSE Joined(g[i - 1], more[i])
  BY DEF FlatUpTo
<1>1. 0 \in G
  BY <1>0
<1>2. ASSUME NEW i \in Nat, i \in G
      PROVE  i + 1 \in G
  <2> SUFFICES ASSUME i + 1 + 1 \in 1 .. n
               PROVE  f[i + 1 + 1] = g[i + 1 + 1]
    OBVIOUS
  <2> DEFINE j == i + 1 + 1
  <2>1. j \in 1 .. n /\ j \in 1 .. m /\ j # 1 /\ j - 1 = i + 1 /\ i + 1 \in 1 .. n
    OBVIOUS
  <2>2. f[i + 1] = g[i + 1]
    BY <1>2, <2>1
  <2> HIDE DEF j
  <2>3. f[j] = g[j]
    BY <1>0, <2>1, <2>2
  <2> QED
    BY <2>3 DEF j
<1> HIDE DEF G
<1>3. Nat \subseteq G
  BY <1>1, <1>2, NatInduct
<1> QED
  <2>1. ASSUME NEW i \in 1 .. n PROVE f[i] = g[i]
    <3>1. i - 1 \in Nat /\ i - 1 + 1 = i
      OBVIOUS
    <3>2. i - 1 \in G
      BY <1>3, <3>1
    <3> QED
      BY <3>1, <3>2 DEF G
  <2> QED
    BY <2>1

LEMMA FlattenIs ==
  ASSUME NEW seqs, NEW n \in Nat \ {0}, Len(seqs) = n, NEW f, FlatUpTo(f, seqs, n)
  PROVE  FlattenSeq(seqs) = f[n]
<1> DEFINE g == CHOOSE g : FlatUpTo(g, seqs, n)
<1>1. FlatUpTo(g, seqs, n)
  BY FlatExists
<1>2. FlattenSeq(seqs) = g[n]
  BY DEF FlattenSeq, FlatUpTo, Joined
<1> HIDE DEF g
<1>3. \A i \in 1 .. n : g[i] = f[i]
  BY <1>1, FlatUnique
<1> QED
  BY <1>2, <1>3

LEMMA FlattenEmpty == FlattenSeq(<<>>) = <<>>
<1>1. Len(<<>>) = 0
  OBVIOUS
<1> QED
  BY <1>1 DEF FlattenSeq

LEMMA FlattenOne ==
  ASSUME NEW s
  PROVE  FlattenSeq(<<s>>) = s
<1> DEFINE seqs == <<s>>
<1>1. Len(seqs) = 1 /\ seqs[1] = s /\ 1 \in Nat \ {0}
  OBVIOUS
<1> HIDE DEF seqs
<1>2. PICK f : FlatUpTo(f, seqs, 1)
  BY FlatExists
<1>3. f[1] = s
  BY <1>1, <1>2 DEF FlatUpTo
<1>4. FlattenSeq(seqs) = f[1]
  BY <1>1, <1>2, FlattenIs
<1> QED
  BY <1>3, <1>4 DEF seqs

LEMMA FlattenAppend ==
  ASSUME NEW S, NEW seqs \in Seq(S), NEW s \in S, seqs # <<>>
  PROVE  FlattenSeq(Append(seqs, s)) = FlattenSeq(seqs) \o s
<1> DEFINE n == Len(seqs)
           more == Append(seqs, s)
<1>1. n \in Nat \ {0} /\ n + 1 \in Nat \ {0}
  BY LenProperties, EmptySeq
<1>2. Len(more) = n + 1 /\ more[n + 1] = s /\ \A i \in 1 .. n : seqs[i] = more[i]
  BY AppendProperties
<1>0. Len(seqs) = n
  OBVIOUS
<1> HIDE DEF n, more
<1>3. PICK f : FlatUpTo(f, seqs, n)
  BY <1>1, FlatExists
<1>4. PICK g : FlatUpTo(g, more, n + 1)
  BY <1>1, FlatExists
<1>5. f[n] = g[n]
  <2>1. \A i \in 1 .. n : f[i] = g[i]
    BY <1>1, <1>2, <1>3, <1>4, FlatUnique
  <2> QED
    BY <1>1, <2>1
<1>6. g[n + 1] = g[n] \o s
  <2>1. n + 1 \in 1 .. n + 1 /\ n + 1 # 1 /\ n + 1 - 1 = n
    BY <1>1
  <2>2. \A i \in 1 .. n + 1 : g[i] = IF i = 1 THEN more[i] ELSE Joined(g[i - 1], more[i])
    BY <1>4 DEF FlatUpTo
  <2> DEFINE j == n + 1
  <2>3. j \in 1 .. n + 1 /\ j # 1 /\ j - 1 = n /\ more[j] = s
    BY <1>1, <1>2
  <2> HIDE DEF j
  <2>4. g[j] = Joined(g[n], s)
    BY <2>2, <2>3
  <2> QED
    BY <2>4 DEF j, Joined
<1>7. FlattenSeq(more) = g[n + 1]
  BY <1>1, <1>2, <1>4, FlattenIs
<1>8. FlattenSeq(seqs) = f[n]
  BY <1>0, <1>1, <1>3, FlattenIs
<1> QED
  BY <1>5, <1>6, <1>7, <1>8 DEF more

LEMMA FlattenMore ==
  ASSUME NEW S, NEW seqs \in Seq(Seq(S)), NEW s \in Seq(S)
  PROVE  FlattenSeq(Append(seqs, s)) = FlattenSeq(seqs) \o s
<1>1. CASE seqs = <<>>
  <2>1. Append(seqs, s) = <<s>>
    BY <1>1
  <2>2. FlattenSeq(Append(seqs, s)) = s
    BY <2>1, FlattenOne
  <2>3. <<>> \o s = s
    BY ConcatEmptySeq
  <2> QED
    BY <1>1, <2>2, <2>3, FlattenEmpty
<1>2. CASE seqs # <<>>
  BY <1>2, FlattenAppend
<1> QED
  BY <1>1, <1>2

\* What holds of the parts, and of two parts joined, holds of the whole.
LEMMA FlattenIn ==
  ASSUME NEW T, NEW seqs \in Seq(T), seqs # <<>> \/ <<>> \in T,
         \A s, t \in T : Joined(s, t) \in T
  PROVE  FlattenSeq(seqs) \in T
<1> DEFINE G == {u \in Seq(T) : u # <<>> => FlattenSeq(u) \in T}
<1>1. <<>> \in G
  BY EmptySeq
<1>2. ASSUME NEW u \in Seq(T), NEW e \in T, u \in G
      PROVE  Append(u, e) \in G
  <2>1. Append(u, e) \in Seq(T)
    BY AppendProperties
  <2>2. CASE u = <<>>
    <3>1. Append(u, e) = <<e>>
      BY <2>2
    <3>2. FlattenSeq(Append(u, e)) = e
      BY <3>1, FlattenOne
    <3> QED
      BY <2>1, <3>2
  <2>3. CASE u # <<>>
    <3>1. FlattenSeq(u) \in T
      BY <1>2, <2>3
    <3>2. FlattenSeq(Append(u, e)) = Joined(FlattenSeq(u), e)
      BY <2>3, FlattenAppend DEF Joined
    <3> QED
      BY <2>1, <3>1, <3>2
  <2> QED
    BY <2>2, <2>3
<1> HIDE DEF G
<1>3. Seq(T) \subseteq G
  BY <1>1, <1>2, SeqInduct
<1>4. seqs # <<>> => FlattenSeq(seqs) \in T
  BY <1>3 DEF G
<1> QED
  BY <1>4, FlattenEmpty

LEMMA FlattenTyped ==
  ASSUME NEW S, NEW seqs \in Seq(Seq(S))
  PROVE  FlattenSeq(seqs) \in Seq(S)
<1> DEFINE T == Seq(S)
<1>1. <<>> \in T
  BY EmptySeq
<1>2. \A s, t \in T : Joined(s, t) \in T
  BY ConcatProperties DEF Joined
<1>3. seqs \in Seq(T)
  OBVIOUS
<1> HIDE DEF T
<1>4. FlattenSeq(seqs) \in T
  BY <1>1, <1>2, <1>3, FlattenIn
<1> QED
  BY <1>4 DEF T

LEMMA FlattenConcat ==
  ASSUME NEW S, NEW seqs \in Seq(Seq(S)), NEW more \in Seq(Seq(S))
  PROVE  FlattenSeq(seqs \o more) = FlattenSeq(seqs) \o FlattenSeq(more)
<1> DEFINE T == Seq(S)
           G == {u \in Seq(T) : FlattenSeq(seqs \o u) = FlattenSeq(seqs) \o FlattenSeq(u)}
<1>0. FlattenSeq(seqs) \in T
  BY FlattenTyped
<1>1. <<>> \in G
  <2>1. seqs \o <<>> = seqs /\ FlattenSeq(seqs) \o <<>> = FlattenSeq(seqs)
    BY <1>0, ConcatEmptySeq
  <2> QED
    BY <2>1, FlattenEmpty, EmptySeq
<1>2. ASSUME NEW u \in Seq(T), NEW e \in T, u \in G
      PROVE  Append(u, e) \in G
  <2>1. Append(u, e) \in Seq(T) /\ seqs \o u \in Seq(T)
    BY AppendProperties, ConcatProperties
  <2>2. seqs \o Append(u, e) = Append(seqs \o u, e)
    <3> DEFINE one == <<e>>
    <3>1. one \in Seq(T) /\ seqs \in Seq(T) /\ u \in Seq(T)
      BY OneToken
    <3>2. Append(u, e) = u \o one /\ Append(seqs \o u, e) = (seqs \o u) \o one
      BY <2>1, AppendIsConcat
    <3> HIDE DEF one, T
    <3>3. (seqs \o u) \o one = seqs \o (u \o one)
      <4>1. Joined(Joined(seqs, u), one) = Joined(seqs, Joined(u, one))
        BY <3>1, JoinedAssoc
      <4> QED
        BY <4>1 DEF Joined
    <3> QED
      BY <3>2, <3>3
  <2>3. FlattenSeq(Append(seqs \o u, e)) = FlattenSeq(seqs \o u) \o e
    BY <2>1, FlattenMore
  <2>4. FlattenSeq(Append(u, e)) = FlattenSeq(u) \o e /\ FlattenSeq(u) \in T
    BY FlattenMore, FlattenTyped
  <2>5. FlattenSeq(seqs \o u) = FlattenSeq(seqs) \o FlattenSeq(u)
    BY <1>2
  <2>6. (FlattenSeq(seqs) \o FlattenSeq(u)) \o e = FlattenSeq(seqs) \o (FlattenSeq(u) \o e)
    <3>1. Joined(Joined(FlattenSeq(seqs), FlattenSeq(u)), e) = Joined(FlattenSeq(seqs), Joined(FlattenSeq(u), e))
      BY <1>0, <2>4, JoinedAssoc
    <3> QED
      BY <3>1 DEF Joined
  <2> QED
    BY <2>1, <2>2, <2>3, <2>4, <2>5, <2>6
<1>3. more \in Seq(T)
  OBVIOUS
<1> HIDE DEF G, T
<1>4. Seq(T) \subseteq G
  BY <1>1, <1>2, SeqInduct
<1> QED
  BY <1>3, <1>4 DEF G

\* Two sequences side by side: a relation between their parts that holds of two
\* parts joined holds between the wholes.
Joins(R) == \A a, b, c, d : <<a, b>> \in R /\ <<c, d>> \in R => <<Joined(a, c), Joined(b, d)>> \in R

LEMMA FlattenPairs ==
  ASSUME NEW R, Joins(R), NEW A, NEW hs \in Seq(A), NEW B, NEW ss \in Seq(B),
         Len(hs) = Len(ss), \A i \in 1 .. Len(hs) : <<hs[i], ss[i]>> \in R,
         hs = <<>> => <<<<>>, <<>>>> \in R
  PROVE  <<FlattenSeq(hs), FlattenSeq(ss)>> \in R
<1> DEFINE n == Len(hs)
<1>0. n \in Nat /\ Len(hs) = n /\ Len(ss) = n /\ \A i \in 1 .. n : <<hs[i], ss[i]>> \in R
  BY LenProperties
<1>1. CASE n = 0
  <2>1. hs = <<>> /\ ss = <<>>
    BY <1>0, <1>1, EmptySeq
  <2> QED
    BY <2>1, FlattenEmpty
<1>2. CASE n # 0
  <2> HIDE DEF n
  <2>1. PICK f : FlatUpTo(f, hs, n)
    BY <1>0, FlatExists
  <2>2. PICK g : FlatUpTo(g, ss, n)
    BY <1>0, FlatExists
  <2>3. /\ \A i \in 1 .. n : f[i] = IF i = 1 THEN hs[i] ELSE Joined(f[i - 1], hs[i])
        /\ \A i \in 1 .. n : g[i] = IF i = 1 THEN ss[i] ELSE Joined(g[i - 1], ss[i])
    BY <2>1, <2>2 DEF FlatUpTo
  <2> DEFINE G == {i \in Nat : i + 1 \in 1 .. n => <<f[i + 1], g[i + 1]>> \in R}
  <2>4. 0 \in G
    BY <1>0, <2>3
  <2>5. ASSUME NEW i \in Nat, i \in G
        PROVE  i + 1 \in G
    <3> SUFFICES ASSUME i + 1 + 1 \in 1 .. n
                 PROVE  <<f[i + 1 + 1], g[i + 1 + 1]>> \in R
      OBVIOUS
    <3> DEFINE j == i + 1 + 1
               k == i + 1
    <3>1. j \in 1 .. n /\ j # 1 /\ j - 1 = k /\ k \in 1 .. n
      BY <1>0
    <3>2. <<f[k], g[k]>> \in R
      BY <2>5, <3>1
    <3> HIDE DEF j, k
    <3>3. f[j] = Joined(f[k], hs[j]) /\ g[j] = Joined(g[k], ss[j])
      BY <2>3, <3>1
    <3>4. <<f[j], g[j]>> \in R
      BY <1>0, <3>1, <3>2, <3>3 DEF Joins
    <3> QED
      BY <3>4 DEF j
  <2> HIDE DEF G
  <2>6. n - 1 \in Nat /\ n - 1 \in G
    <3>1. Nat \subseteq G
      BY <2>4, <2>5, NatInduct
    <3> QED
      BY <1>0, <1>2, <3>1
  <2>7. <<f[n], g[n]>> \in R
    <3>1. n - 1 + 1 = n /\ n \in 1 .. n
      BY <1>0, <1>2
    <3> QED
      BY <2>6, <3>1 DEF G
  <2>8. FlattenSeq(hs) = f[n] /\ FlattenSeq(ss) = g[n]
    BY <1>0, <1>2, <2>1, <2>2, FlattenIs
  <2> QED
    BY <2>7, <2>8
<1> QED
  BY <1>1, <1>2

-------------------------------------------------------------------------------
(***************************************************************************)
(* What Around makes of the tags of a span: FoldRight takes them by their  *)
(* positions, the first of those left first.                               *)
(***************************************************************************)
Within(before, inner, after) == before \o inner \o after
\* f[s] is what the tags at s put around base.
AroundAt(f, m, n, base, before, after) ==
  f = [s \in SUBSET (m .. n) |->
         IF s = {} THEN base ELSE Within(before[Min(s)], f[s \ {Min(s)}], after[Min(s)])]

LEMMA MinIs ==
  ASSUME NEW m \in Nat, NEW n \in Nat, NEW s \in SUBSET (m .. n), s # {}
  PROVE  Min(s) \in s /\ \A k \in s : Min(s) <= k
<1>1. s \in SUBSET Nat
  OBVIOUS
<1>2. \E k \in s : \A j \in s : k <= j
  BY <1>1, LeastNatural
<1> QED
  BY <1>2 DEF Min

LEMMA AroundExists ==
  ASSUME NEW n \in Nat, NEW base, NEW before, NEW after
  PROVE  \E f : AroundAt(f, 1, n, base, before, after)
<1> DEFINE G == {i \in Nat : i <= n => \E f : AroundAt(f, n + 1 - i, n, base, before, after)}
<1>1. 0 \in G
  <2> DEFINE f == [s \in SUBSET (n + 1 .. n) |-> base]
  <2>1. \A s \in SUBSET (n + 1 .. n) : s = {}
    OBVIOUS
  <2>2. AroundAt(f, n + 1, n, base, before, after)
    <3>1. \A s \in SUBSET (n + 1 .. n) :
            base = IF s = {} THEN base ELSE Within(before[Min(s)], f[s \ {Min(s)}], after[Min(s)])
      BY <2>1
    <3>2. f = [s \in SUBSET (n + 1 .. n) |->
                 IF s = {} THEN base ELSE Within(before[Min(s)], f[s \ {Min(s)}], after[Min(s)])]
      BY <3>1
    <3> QED
      BY <3>2 DEF AroundAt
  <2> HIDE DEF f
  <2>3. n + 1 - 0 = n + 1
    OBVIOUS
  <2> QED
    BY <2>2, <2>3
<1>2. ASSUME NEW i \in Nat, i \in G
      PROVE  i + 1 \in G
  <2> SUFFICES ASSUME i + 1 <= n
               PROVE  \E f : AroundAt(f, n + 1 - (i + 1), n, base, before, after)
    OBVIOUS
  <2> DEFINE k == n + 1 - (i + 1)
  <2>1. k \in Nat /\ n + 1 - i = k + 1 /\ k <= n
    OBVIOUS
  <2>2. PICK g : AroundAt(g, k + 1, n, base, before, after)
    BY <1>2, <2>1
  <2> HIDE DEF k
  <2>3. \A s \in SUBSET (k + 1 .. n) :
          g[s] = IF s = {} THEN base ELSE Within(before[Min(s)], g[s \ {Min(s)}], after[Min(s)])
    BY <2>2 DEF AroundAt
  <2> DEFINE f == [s \in SUBSET (k .. n) |->
                     IF k \in s THEN Within(before[k], g[s \ {k}], after[k]) ELSE g[s]]
  <2>4. ASSUME NEW s \in SUBSET (k .. n)
        PROVE  f[s] = IF s = {} THEN base
                      ELSE Within(before[Min(s)], f[s \ {Min(s)}], after[Min(s)])
    <3>1. \A r \in SUBSET (k .. n) : k \notin r => r \in SUBSET (k + 1 .. n) /\ f[r] = g[r]
      <4>1. \A j \in k .. n : j # k => j \in k + 1 .. n
        BY <2>1
      <4> QED
        BY <4>1
    <3>2. CASE k \in s
      <4>1. s # {} /\ Min(s) = k
        <5>1. Min(s) \in s /\ Min(s) <= k
          BY <2>1, <3>2, MinIs
        <5>2. Min(s) \in k .. n
          BY <5>1
        <5> HIDE DEF f
        <5> QED
          BY <2>1, <3>2, <5>1, <5>2
      <4>2. f[s] = Within(before[k], g[s \ {k}], after[k])
        BY <3>2
      <4>3. f[s \ {k}] = g[s \ {k}]
        BY <3>1
      <4> HIDE DEF f
      <4> QED
        BY <4>1, <4>2, <4>3
    <3>3. CASE k \notin s /\ s # {}
      <4>1. s \in SUBSET (k + 1 .. n) /\ f[s] = g[s]
        BY <3>1, <3>3
      <4>2. f[s \ {Min(s)}] = g[s \ {Min(s)}]
        BY <3>1, <3>3
      <4> HIDE DEF f
      <4> QED
        BY <2>3, <3>3, <4>1, <4>2
    <3>4. CASE s = {}
      <4>1. f[{}] = g[{}]
        BY <3>1
      <4>2. g[{}] = base
        BY <2>3
      <4> HIDE DEF f
      <4> QED
        BY <3>4, <4>1, <4>2
    <3> QED
      BY <3>2, <3>3, <3>4
  <2>5. f = [s \in SUBSET (k .. n) |-> f[s]]
    OBVIOUS
  <2> HIDE DEF f
  <2>6. f = [s \in SUBSET (k .. n) |->
               IF s = {} THEN base ELSE Within(before[Min(s)], f[s \ {Min(s)}], after[Min(s)])]
    BY <2>4, <2>5
  <2>7. AroundAt(f, k, n, base, before, after)
    BY <2>6 DEF AroundAt
  <2> QED
    BY <2>7 DEF k
<1> HIDE DEF G
<1>3. n \in G
  BY <1>1, <1>2, NatInduct
<1>4. n + 1 - n = 1
  OBVIOUS
<1> QED
  BY <1>3, <1>4 DEF G

\* A relation between two contents that a tag preserves holds between what all
\* the tags make of them.
LEMMA AroundPairs ==
  ASSUME NEW n \in Nat, NEW R, NEW f, NEW g,
         \A s \in SUBSET (1 .. n) : s = {} => <<f[s], g[s]>> \in R,
         \A s \in SUBSET (1 .. n) :
           s # {} /\ <<f[s \ {Min(s)}], g[s \ {Min(s)}]>> \in R => <<f[s], g[s]>> \in R
  PROVE  <<f[1 .. n], g[1 .. n]>> \in R
<1> DEFINE G == {i \in Nat : i <= n => <<f[n + 1 - i .. n], g[n + 1 - i .. n]>> \in R}
<1>1. 0 \in G
  <2>1. n + 1 - 0 .. n = {}
    OBVIOUS
  <2> QED
    BY <2>1
<1>2. ASSUME NEW i \in Nat, i \in G
      PROVE  i + 1 \in G
  <2> SUFFICES ASSUME i + 1 <= n
               PROVE  <<f[n + 1 - (i + 1) .. n], g[n + 1 - (i + 1) .. n]>> \in R
    OBVIOUS
  <2> DEFINE k == n + 1 - (i + 1)
             s == k .. n
             r == k + 1 .. n
  <2>1. k \in Nat /\ n + 1 - i = k + 1 /\ k <= n /\ 1 <= k
    OBVIOUS
  <2> HIDE DEF k
  <2>2. s \in SUBSET (1 .. n) /\ s \in SUBSET (k .. n) /\ s # {} /\ k \in s
    BY <2>1
  <2>3. Min(s) = k
    <3>1. Min(s) \in s /\ \A j \in s : Min(s) <= j
      BY <2>1, <2>2, MinIs
    <3> QED
      BY <2>1, <2>2, <3>1
  <2>4. s \ {k} = r
    BY <2>1
  <2>5. <<f[r], g[r]>> \in R
    BY <1>2, <2>1
  <2> HIDE DEF s, r
  <2>6. <<f[s], g[s]>> \in R
    BY <2>2, <2>3, <2>4, <2>5
  <2> QED
    BY <2>6 DEF s, k
<1> HIDE DEF G
<1>3. n \in G
  BY <1>1, <1>2, NatInduct
<1>4. n + 1 - n = 1
  OBVIOUS
<1> QED
  BY <1>3, <1>4 DEF G

\* What the folds of SpanHtml and SpanShown run through.
HtmlRun(f, tags, word) ==
  f = [s \in SUBSET (1 .. Len(tags)) |->
         IF s = {} THEN <<word>>
         ELSE Within(StartTag(tags[Min(s)]), f[s \ {Min(s)}], EndTag(tags[Min(s)]))]
ShownWord(w) == IF w \in DOMAIN Entity THEN Entity[w] ELSE w
ShownRun(f, tags, word) ==
  f = [s \in SUBSET (1 .. Len(tags)) |->
         IF s = {} THEN <<ShownWord(word)>>
         ELSE Within(StyleOn(tags[Min(s)]), f[s \ {Min(s)}], StyleOff(tags[Min(s)]))]

LEMMA SpanHtmlIs ==
  ASSUME NEW S, NEW span, span.tags \in Seq(S)
  PROVE  \E f : HtmlRun(f, span.tags, span.word) /\ SpanHtml(span) = f[1 .. Len(span.tags)]
<1> DEFINE tags == span.tags
           n == Len(tags)
           base == <<span.word>>
           before == [i \in 1 .. n |-> StartTag(tags[i])]
           after == [i \in 1 .. n |-> EndTag(tags[i])]
           f == CHOOSE f : HtmlRun(f, tags, span.word)
<1>1. n \in Nat /\ DOMAIN tags = 1 .. n
  BY LenProperties
<1>2. \E g : HtmlRun(g, tags, span.word)
  <2>1. PICK g : AroundAt(g, 1, n, base, before, after)
    BY <1>1, AroundExists
  <2>2. \A s \in SUBSET (1 .. n) : s # {} =>
          before[Min(s)] = StartTag(tags[Min(s)]) /\ after[Min(s)] = EndTag(tags[Min(s)])
    <3>1. \A s \in SUBSET (1 .. n) : s # {} => Min(s) \in 1 .. n
      BY <1>1, MinIs
    <3> HIDE DEF n, tags
    <3> QED
      BY <3>1
  <2> HIDE DEF before, after
  <2>3. \A s \in SUBSET (1 .. n) :
          (IF s = {} THEN base ELSE Within(before[Min(s)], g[s \ {Min(s)}], after[Min(s)]))
            = IF s = {} THEN <<span.word>>
              ELSE Within(StartTag(tags[Min(s)]), g[s \ {Min(s)}], EndTag(tags[Min(s)]))
    BY <2>2
  <2>4. HtmlRun(g, tags, span.word)
    BY <2>1, <2>3 DEF AroundAt, HtmlRun
  <2> QED
    BY <2>4
<1>3. HtmlRun(f, tags, span.word)
  BY <1>2
<1>4. SpanHtml(span) = f[DOMAIN tags]
  BY <1>1 DEF SpanHtml, Around, FoldRight, MapThenFoldSet, HtmlRun, Within
<1> HIDE DEF f
<1> QED
  BY <1>1, <1>3, <1>4

LEMMA SpanShownIs ==
  ASSUME NEW S, NEW span, span.tags \in Seq(S)
  PROVE  \E f : ShownRun(f, span.tags, span.word) /\ SpanShown(span) = f[1 .. Len(span.tags)]
<1> DEFINE tags == span.tags
           n == Len(tags)
           base == <<ShownWord(span.word)>>
           before == [i \in 1 .. n |-> StyleOn(tags[i])]
           after == [i \in 1 .. n |-> StyleOff(tags[i])]
           f == CHOOSE f : ShownRun(f, tags, span.word)
<1>1. n \in Nat /\ DOMAIN tags = 1 .. n
  BY LenProperties
<1>2. \E g : ShownRun(g, tags, span.word)
  <2>1. PICK g : AroundAt(g, 1, n, base, before, after)
    BY <1>1, AroundExists
  <2>2. \A s \in SUBSET (1 .. n) : s # {} =>
          before[Min(s)] = StyleOn(tags[Min(s)]) /\ after[Min(s)] = StyleOff(tags[Min(s)])
    <3>1. \A s \in SUBSET (1 .. n) : s # {} => Min(s) \in 1 .. n
      BY <1>1, MinIs
    <3> HIDE DEF n, tags
    <3> QED
      BY <3>1
  <2> HIDE DEF before, after
  <2>3. \A s \in SUBSET (1 .. n) :
          (IF s = {} THEN base ELSE Within(before[Min(s)], g[s \ {Min(s)}], after[Min(s)]))
            = IF s = {} THEN <<ShownWord(span.word)>>
              ELSE Within(StyleOn(tags[Min(s)]), g[s \ {Min(s)}], StyleOff(tags[Min(s)]))
    BY <2>2
  <2>4. ShownRun(g, tags, span.word)
    BY <2>1, <2>3 DEF AroundAt, ShownRun
  <2> QED
    BY <2>4
<1>3. ShownRun(f, tags, span.word)
  BY <1>2
<1>4. SpanShown(span) = f[DOMAIN tags]
  BY <1>1 DEF SpanShown, Around, FoldRight, MapThenFoldSet, ShownRun, ShownWord, Within
<1> HIDE DEF f
<1> QED
  BY <1>1, <1>3, <1>4

-------------------------------------------------------------------------------
(***************************************************************************)
(* What the scanner makes of the tags of a description.                    *)
(***************************************************************************)
TagNames == DOMAIN Style \cup BlockTags

LEMMA StyleIs ==
  /\ DOMAIN Style = {"i", "em", "strong", "b", "code", "a"}
  /\ Style["i"] = "i" /\ Style["em"] = "i" /\ Style["strong"] = "b" /\ Style["b"] = "b"
  /\ Style["code"] = "tt" /\ Style["a"] = ""
BY DEF Style

LEMMA TagNameIs ==
  ASSUME NEW t \in TagNames
  PROVE  /\ t \in Token /\ t \notin {LT, GT, SLASH, SPACE}
         /\ WordLength(t) = 1
<1>1. t \in Words
  BY MarkupAssumption DEF TagNames
<1>2. t # "seventeen-letters" /\ t # "a-word-of-thirty-three-characters"
  BY StyleIs DEF TagNames, BlockTags
<1>3. WordLength(t) = 1
  BY <1>2, Zenon DEF WordLength
<1> QED
  BY <1>1, <1>3, MarkupAssumption DEF Token

LEMMA NameLengthOne ==
  ASSUME NEW t
  PROVE  NameLength(<<t>>) = 0 + WordLength(t)
<1> DEFINE name == <<t>>
           run(f) == f = [s \in SUBSET {1} |->
                            IF s = {} THEN 0 ELSE f[s \ {Max(s)}] + WordLength(name[Max(s)])]
           f == CHOOSE f : run(f)
<1>0. DOMAIN name = {1} /\ name[1] = t
  OBVIOUS
<1>1. SUBSET {1} = {{}, {1}}
  OBVIOUS
<1>2. Max({1}) = 1
  BY DEF Max
<1> HIDE DEF name
<1>3. \E g : run(g)
  <2> DEFINE g == [s \in SUBSET {1} |-> IF s = {} THEN 0 ELSE 0 + WordLength(name[Max(s)])]
  <2>1. g[{}] = 0
    OBVIOUS
  <2>2. \A s \in SUBSET {1} : s # {} => s \ {Max(s)} = {}
    BY <1>1, <1>2
  <2>3. \A s \in SUBSET {1} : g[s] = IF s = {} THEN 0 ELSE g[s \ {Max(s)}] + WordLength(name[Max(s)])
    BY <2>1, <2>2
  <2>4. g = [s \in SUBSET {1} |-> g[s]]
    OBVIOUS
  <2> HIDE DEF g
  <2>5. g = [s \in SUBSET {1} |-> IF s = {} THEN 0 ELSE g[s \ {Max(s)}] + WordLength(name[Max(s)])]
    BY <2>3, <2>4
  <2> QED
    BY <2>5
<1>4. run(f)
  BY <1>3
<1>5. NameLength(name) = f[{1}]
  BY <1>0 DEF NameLength, FoldLeft, MapThenFoldSet
<1> HIDE DEF f
<1>6. \A s \in SUBSET {1} : f[s] = IF s = {} THEN 0 ELSE f[s \ {Max(s)}] + WordLength(name[Max(s)])
  BY <1>4
<1>7. f[{}] = 0
  BY <1>6
<1>8. f[{1}] = f[{1} \ {1}] + WordLength(name[1])
  <2>1. {1} \in SUBSET {1} /\ {1} # {}
    OBVIOUS
  <2> QED
    BY <1>2, <1>6, <2>1
<1>9. {1} \ {1} = {}
  OBVIOUS
<1> QED
  BY <1>0, <1>5, <1>7, <1>8, <1>9 DEF name

LEMMA NameRead ==
  ASSUME NEW t \in TagNames, NEW size \in {BLOCK_BUF, INLINE_BUF}
  PROVE  ExtractTagName(<<t>>, size) = <<t>>
<1> DEFINE name == <<t>>
           stops == {n \in 1 .. Len(name) : name[n] \in {SPACE, SLASH}}
<1>1. Len(name) = 1 /\ name[1] = t
  OBVIOUS
<1>2. stops = {}
  BY <1>1, TagNameIs
<1>3. NameLength(name) < size
  BY NameLengthOne, TagNameIs DEF BLOCK_BUF, INLINE_BUF
<1> HIDE DEF name
<1>4. ExtractTagName(name, size) = IF NameLength(name) < size THEN name ELSE <<>>
  BY <1>2 DEF ExtractTagName
<1> QED
  BY <1>3, <1>4 DEF name

LEMMA LinkNameRead ==
  ASSUME NEW size \in {BLOCK_BUF, INLINE_BUF}
  PROVE  ExtractTagName(<<"a", SPACE, "href">>, size) = <<"a">>
<1> DEFINE span == <<"a", SPACE, "href">>
           stops == {n \in 1 .. Len(span) : span[n] \in {SPACE, SLASH}}
           first == CHOOSE n \in stops : \A k \in stops : n <= k
           name == <<"a">>
<1>1. Len(span) = 3 /\ span[1] = "a" /\ span[2] = SPACE /\ span[3] = "href"
  OBVIOUS
<1>2. stops = {2}
  <2> HIDE DEF span
  <2>1. "a" \notin {SPACE, SLASH} /\ "href" \notin {SPACE, SLASH}
    BY DEF SPACE, SLASH
  <2>2. \A n \in 1 .. 3 : span[n] \in {SPACE, SLASH} <=> n = 2
    <3>1. \A n \in 1 .. 3 : n = 1 \/ n = 2 \/ n = 3
      OBVIOUS
    <3> QED
      BY <1>1, <2>1, <3>1
  <2> QED
    BY <1>1, <2>2
<1>3. first = 2
  BY <1>2
<1>4. SubSeq(span, 1, 1) = name
  <2> DEFINE S == {"a"}
  <2>1. \A i \in 1 .. 1 : span[i] \in S
    BY <1>1
  <2>2. name \in Seq(S) /\ Len(name) = 1 /\ name[1] = "a"
    OBVIOUS
  <2> HIDE DEF S, span, name
  <2>3. /\ SubSeq(span, 1, 1) \in Seq(S) /\ Len(SubSeq(span, 1, 1)) = 1
        /\ SubSeq(span, 1, 1)[1] = span[1]
    BY <2>1, SubSeqProperties
  <2>4. \A i \in 1 .. 1 : SubSeq(span, 1, 1)[i] = name[i]
    BY <1>1, <2>2, <2>3
  <2> QED
    BY <2>2, <2>3, <2>4, SeqEqual
<1>5. "a" \in TagNames
  BY StyleIs DEF TagNames
<1>6. NameLength(name) < size
  BY <1>5, NameLengthOne, TagNameIs DEF BLOCK_BUF, INLINE_BUF
<1> HIDE DEF span, name
<1> DEFINE read == IF stops = {} THEN span ELSE SubSeq(span, 1, first - 1)
<1>7. read = name
  <2>1. stops # {} /\ first - 1 = 1
    BY <1>2, <1>3
  <2> HIDE DEF stops, first
  <2> QED
    BY <1>4, <2>1
<1>8. ExtractTagName(span, size) = IF NameLength(read) < size THEN read ELSE <<>>
  BY DEF ExtractTagName
<1> HIDE DEF read
<1> QED
  BY <1>6, <1>7, <1>8 DEF span, name

\* A tag and nothing else, and its name.
IsTag(h) ==
  /\ h \in Text /\ Len(h) >= 3 /\ h[1] = LT /\ h[Len(h)] = GT
  /\ \A i \in 2 .. Len(h) - 1 : h[i] # GT
NameIn(h, size) == ExtractTagName(SubSeq(h, IF h[2] = SLASH THEN 3 ELSE 2, Len(h) - 1), size)

\* s begins with a tag of that name, and r follows it.
Reads(s, size, name, closing, r) ==
  /\ s \in Text /\ s # <<>> /\ ~NoTagAt(s)
  /\ TagAt(s, size).name = name /\ TagAt(s, size).closing = closing /\ TagAt(s, size).rest = r

LEMMA TagRead ==
  ASSUME NEW h, IsTag(h), NEW r \in Text, NEW size
  PROVE  Reads(h \o r, size, NameIn(h, size), h[2] = SLASH, r)
<1> DEFINE n == Len(h)
           s == h \o r
           m == Len(r)
<1>0. /\ h \in Text /\ n = Len(h) /\ n >= 3 /\ h[1] = LT /\ h[n] = GT
      /\ \A i \in 2 .. n - 1 : h[i] # GT
  BY DEF IsTag
<1>1. /\ n \in Nat /\ m \in Nat /\ m = Len(r) /\ s \in Text /\ Len(s) = n + m
      /\ \A i \in 1 .. n : s[i] = h[i]
      /\ \A i \in 1 .. m : s[n + i] = r[i]
  BY <1>0, ConcatProperties, LenProperties DEF Text
<1> HIDE DEF s, m, n
<1>2. s # <<>> /\ s[1] = LT /\ s[2] = h[2] /\ s[n] = GT /\ \A i \in 2 .. n - 1 : s[i] # GT
  BY <1>0, <1>1, SMTT(30)
<1> DEFINE at == {i \in 2 .. Len(s) : s[i] = GT}
<1>3. n \in at /\ \A k \in at : n <= k
  BY <1>0, <1>1, <1>2
<1>4. NextOf(s, GT, 2) = n
  <2>1. at # {} /\ \A j \in at : (\A k \in at : j <= k) => j = n
    BY <1>1, <1>3
  <2>2. NextOf(s, GT, 2) = IF at = {} THEN 0 ELSE CHOOSE j \in at : \A k \in at : j <= k
    BY DEF NextOf
  <2> HIDE DEF at
  <2> QED
    BY <1>3, <2>1, <2>2
<1>5. Head(s) = LT
  BY <1>1, <1>2 DEF Text
<1>6. ~NoTagAt(s)
  BY <1>0, <1>1, <1>4, <1>5 DEF NoTagAt
<1>7. SubSeq(s, n + 1, Len(s)) = r
  <2>1. \A i \in n + 1 .. n + m : s[i] \in Token
    BY <1>1, ElementOfSeq DEF Text
  <2>2. /\ SubSeq(s, n + 1, n + m) \in Seq(Token) /\ Len(SubSeq(s, n + 1, n + m)) = m
        /\ \A i \in 1 .. m : SubSeq(s, n + 1, n + m)[i] = s[n + i]
    <3> DEFINE p == n + 1
               q == n + m
    <3>0. n \in Nat /\ m \in Nat
      BY <1>1
    <3>1. p \in Int /\ q \in Int /\ q - p + 1 = m /\ (p <= q <=> m # 0) /\ \A i \in 1 .. m : p + i - 1 = n + i
      BY <3>0
    <3> HIDE DEF p, q
    <3>2. /\ SubSeq(s, p, q) \in Seq(Token) /\ Len(SubSeq(s, p, q)) = IF p <= q THEN q - p + 1 ELSE 0
          /\ \A i \in 1 .. q - p + 1 : SubSeq(s, p, q)[i] = s[p + i - 1]
      BY <2>1, <3>1, SubSeqProperties DEF p, q
    <3> QED
      BY <3>1, <3>2 DEF p, q
  <2>3. SubSeq(s, n + 1, n + m) = r
    <3> DEFINE u == SubSeq(s, n + 1, n + m)
    <3>1. u \in Seq(Token) /\ r \in Seq(Token) /\ Len(u) = Len(r) /\ \A i \in 1 .. Len(u) : u[i] = r[i]
      BY <1>1, <2>2 DEF Text
    <3> HIDE DEF u
    <3>2. u = r
      BY <3>1, SeqEqual
    <3> QED
      BY <3>2 DEF u
  <2> QED
    BY <1>1, <2>3
<1>8. ASSUME NEW j \in {2, 3}
      PROVE  SubSeq(s, j, n - 1) = SubSeq(h, j, n - 1)
  <2>1. \A i \in j .. n - 1 : s[i] = h[i] /\ h[i] \in Token
    <3>1. \A i \in 1 .. n : h[i] \in Token
      BY <1>0, ElementOfSeq DEF Text
    <3> QED
      BY <1>0, <1>1, <3>1
  <2>2. /\ SubSeq(s, j, n - 1) \in Seq(Token) /\ SubSeq(h, j, n - 1) \in Seq(Token)
        /\ Len(SubSeq(s, j, n - 1)) = n - j /\ Len(SubSeq(h, j, n - 1)) = n - j
        /\ \A i \in 1 .. n - j : SubSeq(s, j, n - 1)[i] = s[j + i - 1]
                                   /\ SubSeq(h, j, n - 1)[i] = h[j + i - 1]
    <3> DEFINE q == n - 1
    <3>1. j \in Int /\ q \in Int /\ q - j + 1 = n - j /\ (j <= q \/ n - j = 0)
      BY <1>0, <1>1
    <3>2. \A i \in j .. q : s[i] \in Token /\ h[i] \in Token
      BY <2>1
    <3> HIDE DEF q
    <3>3. /\ SubSeq(s, j, q) \in Seq(Token) /\ Len(SubSeq(s, j, q)) = n - j
          /\ \A i \in 1 .. n - j : SubSeq(s, j, q)[i] = s[j + i - 1]
      BY <3>1, <3>2, SubSeqProperties
    <3>4. /\ SubSeq(h, j, q) \in Seq(Token) /\ Len(SubSeq(h, j, q)) = n - j
          /\ \A i \in 1 .. n - j : SubSeq(h, j, q)[i] = h[j + i - 1]
      BY <3>1, <3>2, SubSeqProperties
    <3> QED
      BY <3>3, <3>4 DEF q
  <2>3. \A i \in 1 .. n - j : SubSeq(s, j, n - 1)[i] = SubSeq(h, j, n - 1)[i]
    BY <1>1, <2>1, <2>2
  <2> QED
    BY <2>2, <2>3, SeqEqual
<1>9. TagAt(s, size) = [name |-> NameIn(h, size), closing |-> h[2] = SLASH, rest |-> r]
  <2>1. TagAt(s, size) = [name |-> ExtractTagName(SubSeq(s, IF s[2] = SLASH THEN 3 ELSE 2, n - 1), size),
                          closing |-> s[2] = SLASH, rest |-> SubSeq(s, n + 1, Len(s))]
    BY <1>4 DEF TagAt
  <2>2. SubSeq(s, IF s[2] = SLASH THEN 3 ELSE 2, n - 1) = SubSeq(h, IF h[2] = SLASH THEN 3 ELSE 2, n - 1)
    BY <1>2, <1>8
  <2>3. NameIn(h, size) = ExtractTagName(SubSeq(h, IF h[2] = SLASH THEN 3 ELSE 2, n - 1), size)
    BY <1>0 DEF NameIn
  <2> QED
    BY <1>2, <1>7, <2>1, <2>2, <2>3
<1>10. Reads(s, size, NameIn(h, size), h[2] = SLASH, r)
  BY <1>1, <1>2, <1>6, <1>9 DEF Reads
<1> QED
  BY <1>10 DEF s

LEMMA StartTagRead ==
  ASSUME NEW t \in TagNames, NEW r \in Text, NEW size \in {BLOCK_BUF, INLINE_BUF}
  PROVE  StartTag(t) \in Text /\ Reads(StartTag(t) \o r, size, <<t>>, FALSE, r)
<1>0. /\ LT \in Token /\ GT \in Token /\ SPACE \in Token /\ t \in Token
      /\ t \notin {LT, GT, SLASH, SPACE} /\ SPACE # GT /\ LT # GT
  BY TagNameIs DEF Token, SPACE, GT, LT
<1>1. CASE t # "a"
  <2> DEFINE h == <<LT, t, GT>>
             name == <<t>>
  <2>1. Len(h) = 3 /\ h[1] = LT /\ h[2] = t /\ h[3] = GT /\ StartTag(t) = h
    BY <1>1 DEF StartTag
  <2>2. h \in Text
    BY <1>0 DEF Text
  <2>3. name \in Seq(Token) /\ Len(name) = 1 /\ name[1] = t
    BY <1>0
  <2>4. ExtractTagName(name, size) = name
    BY NameRead
  <2> HIDE DEF h, name
  <2>5. \A i \in 2 .. 3 - 1 : h[i] # GT
    BY <1>0, <2>1
  <2>6. SubSeq(h, 2, 3 - 1) = name
    <3>1. \A i \in 2 .. 2 : h[i] \in Token
      BY <1>0, <2>1
    <3>2. SubSeq(h, 2, 2) \in Seq(Token) /\ Len(SubSeq(h, 2, 2)) = 1 /\ SubSeq(h, 2, 2)[1] = h[2]
      BY <3>1, SubSeqProperties
    <3>3. \A i \in 1 .. 1 : SubSeq(h, 2, 2)[i] = name[i]
      BY <2>1, <2>3, <3>2
    <3>4. SubSeq(h, 2, 2) = name
      BY <2>3, <3>2, <3>3, SeqEqual
    <3> QED
      BY <3>4
  <2>7. IsTag(h)
    BY <2>1, <2>2, <2>5 DEF IsTag
  <2>8. NameIn(h, size) = name /\ (h[2] = SLASH) = FALSE
    BY <1>0, <2>1, <2>4, <2>6 DEF NameIn
  <2>9. Reads(h \o r, size, name, FALSE, r)
    BY <2>7, <2>8, TagRead
  <2> QED
    BY <2>1, <2>2, <2>9 DEF name
<1>2. CASE t = "a"
  <2> DEFINE h == <<LT, "a", SPACE, "href", GT>>
             span == <<"a", SPACE, "href">>
             name == <<"a">>
  <2>0. "href" \in Token /\ "href" # GT
    BY MarkupAssumption DEF Token, GT
  <2>1. /\ Len(h) = 5 /\ h[1] = LT /\ h[2] = "a" /\ h[3] = SPACE /\ h[4] = "href" /\ h[5] = GT
        /\ StartTag(t) = h
    BY <1>2 DEF StartTag
  <2>2. h \in Text
    BY <1>0, <1>2, <2>0 DEF Text
  <2>3. span \in Seq(Token) /\ Len(span) = 3 /\ span[1] = "a" /\ span[2] = SPACE /\ span[3] = "href"
    BY <1>0, <1>2, <2>0
  <2>4. ExtractTagName(span, size) = name
    BY LinkNameRead
  <2> HIDE DEF h, span, name
  <2>5. \A i \in 2 .. 5 - 1 : h[i] # GT
    <3>1. \A i \in 2 .. 5 - 1 : i = 2 \/ i = 3 \/ i = 4
      OBVIOUS
    <3> QED
      BY <1>0, <1>2, <2>0, <2>1, <3>1
  <2>6. SubSeq(h, 2, 5 - 1) = span
    <3> DEFINE u == SubSeq(h, 2, 4)
    <3>1. \A i \in 2 .. 4 : h[i] \in Token
      <4>1. \A i \in 2 .. 4 : i = 2 \/ i = 3 \/ i = 4
        OBVIOUS
      <4> QED
        BY <1>0, <1>2, <2>0, <2>1, <4>1
    <3>2. u \in Seq(Token) /\ Len(u) = 3 /\ \A i \in 1 .. 3 : u[i] = h[2 + i - 1]
      BY <3>1, SubSeqProperties
    <3> HIDE DEF u
    <3>3. u[1] = h[2] /\ u[2] = h[3] /\ u[3] = h[4]
      BY <3>2
    <3>4. \A i \in 1 .. 3 : u[i] = span[i]
      <4>1. \A i \in 1 .. 3 : i = 1 \/ i = 2 \/ i = 3
        OBVIOUS
      <4> QED
        BY <2>1, <2>3, <3>3, <4>1
    <3>5. u = span
      BY <2>3, <3>2, <3>4, SeqEqual
    <3> QED
      BY <3>5 DEF u
  <2>7. IsTag(h)
    BY <2>1, <2>2, <2>5 DEF IsTag
  <2>8. NameIn(h, size) = name /\ (h[2] = SLASH) = FALSE
    BY <1>0, <1>2, <2>1, <2>4, <2>6 DEF NameIn
  <2>9. Reads(h \o r, size, name, FALSE, r)
    BY <2>7, <2>8, TagRead
  <2> QED
    BY <1>2, <2>1, <2>2, <2>9 DEF name
<1> QED
  BY <1>1, <1>2

LEMMA EndTagRead ==
  ASSUME NEW t \in TagNames, NEW r \in Text, NEW size \in {BLOCK_BUF, INLINE_BUF}
  PROVE  EndTag(t) \in Text /\ Reads(EndTag(t) \o r, size, <<t>>, TRUE, r)
<1> DEFINE h == <<LT, SLASH, t, GT>>
           name == <<t>>
<1>0. /\ LT \in Token /\ GT \in Token /\ SLASH \in Token /\ t \in Token
      /\ t \notin {LT, GT, SLASH, SPACE} /\ SLASH # GT /\ LT # GT
  BY TagNameIs DEF Token, SLASH, GT, LT
<1>1. Len(h) = 4 /\ h[1] = LT /\ h[2] = SLASH /\ h[3] = t /\ h[4] = GT /\ EndTag(t) = h
  BY DEF EndTag
<1>2. h \in Text
  BY <1>0 DEF Text
<1>3. name \in Seq(Token) /\ Len(name) = 1 /\ name[1] = t
  BY <1>0
<1>4. ExtractTagName(name, size) = name
  BY NameRead
<1> HIDE DEF h, name
<1>5. \A i \in 2 .. 4 - 1 : h[i] # GT
  <2>1. \A i \in 2 .. 4 - 1 : i = 2 \/ i = 3
    OBVIOUS
  <2> QED
    BY <1>0, <1>1, <2>1
<1>6. SubSeq(h, 3, 4 - 1) = name
  <2>1. \A i \in 3 .. 3 : h[i] \in Token
    BY <1>0, <1>1
  <2>2. SubSeq(h, 3, 3) \in Seq(Token) /\ Len(SubSeq(h, 3, 3)) = 1 /\ SubSeq(h, 3, 3)[1] = h[3]
    BY <2>1, SubSeqProperties
  <2>3. \A i \in 1 .. 1 : SubSeq(h, 3, 3)[i] = name[i]
    BY <1>1, <1>3, <2>2
  <2>4. SubSeq(h, 3, 3) = name
    BY <1>3, <2>2, <2>3, SeqEqual
  <2> QED
    BY <2>4
<1>7. IsTag(h)
  BY <1>1, <1>2, <1>5 DEF IsTag
<1>8. NameIn(h, size) = name /\ (h[2] = SLASH) = TRUE
  BY <1>0, <1>1, <1>4, <1>6 DEF NameIn
<1>9. Reads(h \o r, size, name, TRUE, r)
  BY <1>7, <1>8, TagRead
<1> QED
  BY <1>1, <1>2, <1>9 DEF name

-------------------------------------------------------------------------------
(***************************************************************************)
(* A run of markup that is not empty.                                      *)
(***************************************************************************)
Filled(S) == Seq(S) \ {<<>>}

LEMMA FilledSeq == \A S : \A s \in Filled(S) : s \in Seq(S) /\ s # <<>>
BY DEF Filled

LEMMA FilledOne ==
  ASSUME NEW S, NEW t \in S
  PROVE  <<t>> \in Filled(S)
BY OneToken DEF Filled

LEMMA FilledJoined ==
  ASSUME NEW S, NEW s \in Seq(S), NEW t \in Filled(S)
  PROVE  Joined(s, t) \in Filled(S) /\ Joined(t, s) \in Filled(S)
<1> DEFINE u == s \o t
           v == t \o s
           m == Len(s)
           n == Len(t)
<1>1. t \in Seq(S) /\ t # <<>>
  BY FilledSeq
<1>2. /\ u \in Seq(S) /\ v \in Seq(S) /\ m \in Nat /\ n \in Nat
      /\ Len(u) = m + n /\ Len(v) = n + m
  BY <1>1, ConcatProperties, LenProperties
<1>3. n # 0
  BY <1>1, EmptySeq
<1> HIDE DEF u, v, m, n
<1>4. u # <<>> /\ v # <<>>
  BY <1>2, <1>3
<1> QED
  BY <1>2, <1>4 DEF Filled, Joined, u, v

-------------------------------------------------------------------------------
(***************************************************************************)
(* What format_inline() makes of a run of text, wherever it meets it.      *)
(***************************************************************************)
LEMMA StyleTagged ==
  ASSUME NEW t \in DOMAIN Style
  PROVE  PangoTag(<<t>>) = Style[t] /\ Style[t] \in PangoElements \cup {""}
<1>1. \A x, y : <<x>> = <<y>> <=> x = y
  OBVIOUS
<1>2. t \in {"i", "em", "strong", "b", "code", "a"}
  BY StyleIs
<1>3. CASE t = "i"
  <2>1. PangoTag(<<"i">>) = "i"
    BY <1>1, Zenon DEF PangoTag
  <2> QED
    BY <1>3, <2>1, StyleIs, Literals
<1>4. CASE t = "em"
  <2>1. PangoTag(<<"em">>) = "i"
    BY <1>1, Zenon DEF PangoTag
  <2> QED
    BY <1>4, <2>1, StyleIs, Literals
<1>5. CASE t = "strong"
  <2>1. "strong" # "i" /\ "strong" # "em"
    OBVIOUS
  <2>2. PangoTag(<<"strong">>) = "b"
    BY <1>1, <2>1, Zenon DEF PangoTag
  <2> QED
    BY <1>5, <2>2, StyleIs, Literals
<1>6. CASE t = "b"
  <2>1. "b" # "i" /\ "b" # "em"
    OBVIOUS
  <2>2. PangoTag(<<"b">>) = "b"
    BY <1>1, <2>1, Zenon DEF PangoTag
  <2> QED
    BY <1>6, <2>2, StyleIs, Literals
<1>7. CASE t = "code"
  <2>1. "code" \notin {"i", "em", "strong", "b"}
    OBVIOUS
  <2>2. PangoTag(<<"code">>) = "tt"
    BY <1>1, <2>1, Zenon DEF PangoTag
  <2> QED
    BY <1>7, <2>2, StyleIs, Literals
<1>8. CASE t = "a"
  <2>1. "a" \notin {"i", "em", "strong", "b", "code"}
    OBVIOUS
  <2>2. PangoTag(<<"a">>) = ""
    BY <1>1, <2>1, Zenon DEF PangoTag
  <2> QED
    BY <1>8, <2>2, StyleIs
<1> QED
  BY <1>2, <1>3, <1>4, <1>5, <1>6, <1>7, <1>8

LEMMA ShownWordIs ==
  ASSUME NEW w \in Token \ {LT}
  PROVE  Escaped(w) = ShownWord(w) /\ ShownWord(w) \in Marked
<1>0. DOMAIN Entity = {"&", "\"", GT}
  BY DEF Entity
<1>1. CASE w \notin {"&", "\"", GT}
  <2>1. Escaped(w) = w
    BY <1>1, Zenon DEF Escaped
  <2>2. ShownWord(w) = w
    BY <1>0, <1>1 DEF ShownWord
  <2>3. w \in Words \cup {SLASH, SPACE}
    BY <1>1 DEF Token
  <2> QED
    BY <2>1, <2>2, <2>3 DEF Marked
<1>2. CASE w \in {"&", "\"", GT}
  <2>1. "\"" # "&" /\ GT # "&" /\ GT # "\"" /\ "&" # GT /\ GT # LT /\ LT # "\"" /\ LT # "&"
    BY DEF GT, LT
  <2>2. Escaped("&") = "&amp;" /\ Escaped(GT) = "&gt;" /\ Escaped("\"") = "&quot;"
    BY <2>1, Zenon DEF Escaped
  <2>3. Entity["&"] = "&amp;" /\ Entity[GT] = "&gt;" /\ Entity["\""] = "&quot;"
    BY <2>1, Zenon DEF Entity
  <2>4. {"&amp;", "&gt;", "&quot;"} \subseteq Marked
    BY DEF Marked, Entities
  <2> QED
    BY <1>0, <1>2, <2>2, <2>3, <2>4 DEF ShownWord
<1> QED
  BY <1>1, <1>2

At(text, enclosing, out) == [text |-> text, enclosing |-> enclosing, out |-> out]
\* Reading h anywhere adds s to the markup.
Conv(h, s) ==
  /\ h \in Text /\ s \in Filled(Marked)
  /\ \A x \in Text, e \in Text, o \in Seq(Marked) :
       FormatInline[At(h \o x, e, o)] = FormatInline[At(x, e, o \o s)]
Converts == {r \in Text \X Filled(Marked) : Conv(r[1], r[2])}

LEMMA ConvertsIs ==
  ASSUME NEW h, NEW s
  PROVE  <<h, s>> \in Converts <=> Conv(h, s)
BY DEF Converts, Conv

LEMMA AtTyped ==
  ASSUME NEW x \in Text, NEW e \in Text, NEW o \in Seq(Marked)
  PROVE  /\ At(x, e, o) \in InlineAt
         /\ At(x, e, o).text = x /\ At(x, e, o).enclosing = e /\ At(x, e, o).out = o
BY DEF At, InlineAt

LEMMA TextConcat ==
  ASSUME NEW h \in Text, NEW x \in Text
  PROVE  h \o x \in Text
BY ConcatProperties DEF Text

LEMMA TextAssoc ==
  ASSUME NEW h \in Text, NEW x \in Text, NEW y \in Text
  PROVE  (h \o x) \o y = h \o (x \o y)
BY ConcatAssociative, SMTT(30) DEF Text

LEMMA TextJoined ==
  ASSUME NEW h \in Text, NEW g \in Text, NEW x \in Text
  PROVE  g \o x \in Text /\ Joined(h, g) \o x = h \o (g \o x)
<1>1. g \o x \in Text
  BY TextConcat
<1>2. (h \o g) \o x = h \o (g \o x)
  BY TextAssoc
<1> QED
  BY <1>1, <1>2 DEF Joined

\* A token in front of a text is the first the scanner sees.
LEMMA TextCons ==
  ASSUME NEW w \in Token, NEW x \in Text
  PROVE  /\ <<w>> \o x \in Text /\ <<w>> \o x # <<>>
         /\ Head(<<w>> \o x) = w /\ Tail(<<w>> \o x) = x
<1> DEFINE h == <<w>>
           y == h \o x
           n == Len(x)
<1>1. h \in Seq(Token) /\ Len(h) = 1 /\ h[1] = w
  OBVIOUS
<1>2. x \in Seq(Token) /\ n \in Nat
  BY LenProperties DEF Text
<1> HIDE DEF h
<1>3. /\ y \in Seq(Token) /\ Len(y) = 1 + n
      /\ \A i \in 1 .. 1 + n : y[i] = IF i <= 1 THEN h[i] ELSE x[i - 1]
  <2>1. h \in Seq(Token) /\ x \in Seq(Token)
    BY <1>1, <1>2
  <2>2. /\ y \in Seq(Token) /\ Len(y) = Len(h) + Len(x)
        /\ \A i \in 1 .. Len(h) + Len(x) : y[i] = IF i <= Len(h) THEN h[i] ELSE x[i - Len(h)]
    BY <2>1, ConcatProperties
  <2> HIDE DEF y
  <2> QED
    BY <1>1, <2>2
<1> HIDE DEF y, n
<1>4. y # <<>> /\ y[1] = w /\ \A i \in 1 .. n : y[i + 1] = x[i]
  <2>1. \A i \in 1 .. n : i + 1 \in 1 .. 1 + n /\ ~(i + 1 <= 1) /\ i + 1 - 1 = i
    BY <1>2
  <2>2. 1 \in 1 .. 1 + n /\ Len(y) # 0
    BY <1>2, <1>3
  <2>3. \A i \in 1 .. n : y[i + 1] = x[i]
    BY <1>3, <2>1
  <2> QED
    BY <1>1, <1>3, <2>2, <2>3
<1>5. Head(y) = w
  BY <1>3, <1>4
<1> DEFINE z == Tail(y)
<1>6. z \in Seq(Token) /\ Len(z) = n /\ \A i \in 1 .. Len(z) : z[i] = y[i + 1]
  BY <1>2, <1>3, <1>4, HeadTailProperties
<1> HIDE DEF z
<1>7. Len(x) = n
  BY DEF n
<1>8. z = x
  <2>1. \A i \in 1 .. Len(z) : z[i] = x[i]
    BY <1>4, <1>6
  <2> QED
    BY <1>2, <1>6, <1>7, <2>1, SeqEqual
<1> QED
  BY <1>3, <1>4, <1>5, <1>8 DEF y, z, h, Text

LEMMA ConvertsJoins == Joins(Converts)
<1> SUFFICES ASSUME NEW h, NEW s, NEW g, NEW t, Conv(h, s), Conv(g, t)
             PROVE  Conv(Joined(h, g), Joined(s, t))
  BY ConvertsIs DEF Joins
<1>1. h \in Text /\ g \in Text /\ s \in Filled(Marked) /\ t \in Filled(Marked)
  BY DEF Conv
<1>2. s \in Seq(Marked) /\ t \in Seq(Marked)
  BY <1>1, FilledSeq
<1>3. Joined(h, g) \in Text /\ Joined(s, t) \in Filled(Marked)
  BY <1>1, <1>2, TextConcat, FilledJoined DEF Joined
<1>4. ASSUME NEW x \in Text, NEW e \in Text, NEW o \in Seq(Marked)
      PROVE  FormatInline[At(Joined(h, g) \o x, e, o)] = FormatInline[At(x, e, o \o Joined(s, t))]
  <2>1. g \o x \in Text /\ Joined(h, g) \o x = h \o (g \o x)
    <3>1. h \in Text /\ g \in Text
      BY <1>1
    <3> QED
      BY <3>1, TextJoined, ZenonT(30)
  <2>2. o \o s \in Seq(Marked) /\ (o \o s) \o t = o \o Joined(s, t)
    BY <1>2, ConcatProperties, ConcatAssociative DEF Joined
  <2>3. FormatInline[At(h \o (g \o x), e, o)] = FormatInline[At(g \o x, e, o \o s)]
    BY <2>1 DEF Conv
  <2>4. FormatInline[At(g \o x, e, o \o s)] = FormatInline[At(x, e, (o \o s) \o t)]
    BY <2>2, ZenonT(30) DEF Conv
  <2> QED
    BY <2>1, <2>2, <2>3, <2>4
<1> QED
  BY <1>3, <1>4 DEF Conv

LEMMA ConvertsWord ==
  ASSUME NEW w \in Token \ {LT}
  PROVE  Conv(<<w>>, <<ShownWord(w)>>)
<1> DEFINE h == <<w>>
           s == <<ShownWord(w)>>
<1>0. w \in Token /\ w # LT /\ Escaped(w) = ShownWord(w) /\ ShownWord(w) \in Marked
  BY ShownWordIs
<1>1. h \in Text
  BY <1>0, OneToken DEF Text
<1>2. s \in Filled(Marked)
  BY <1>0, FilledOne
<1>3. s \in Seq(Marked)
  BY <1>2, FilledSeq
<1>4. ASSUME NEW x \in Text, NEW e \in Text, NEW o \in Seq(Marked)
      PROVE  FormatInline[At(h \o x, e, o)] = FormatInline[At(x, e, o \o s)]
  <2> DEFINE y == h \o x
             c == At(y, e, o)
  <2>1. y \in Text
    BY <1>0, TextCons
  <2>2. y # <<>> /\ Head(y) = w
    BY <1>0, TextCons
  <2>3. Tail(y) = x
    BY <1>0, TextCons
  <2> HIDE DEF y
  <2>4. NoTagAt(y)
    BY <1>0, <2>2 DEF NoTagAt
  <2>5. c \in InlineAt /\ c.text = y /\ c.enclosing = e /\ c.out = o
    BY <2>1 DEF At, InlineAt
  <2>6. OneOn(c) = At(x, e, o \o s)
    <3>1. Append(o, ShownWord(w)) = o \o s
      BY <1>0, AppendIsConcat
    <3> DEFINE more == Escaped(Head(y))
    <3>2. OneOn(c) = [c EXCEPT !.text = Tail(y), !.out = Append(o, more)]
      BY <2>5 DEF OneOn
    <3>3. c = [text |-> y, enclosing |-> e, out |-> o]
      BY DEF At
    <3>4. OneOn(c) = At(Tail(y), e, Append(o, more))
      BY <3>2, <3>3 DEF At
    <3> QED
      BY <1>0, <2>2, <2>3, <3>1, <3>4
  <2>7. FormatInline[c] = InlineBody(FormatInline, c)
    BY <2>5, FormatInlineIs
  <2> HIDE DEF c
  <2>8. FormatInline[c] = FormatInline[OneOn(c)]
    BY <2>2, <2>4, <2>5, <2>7 DEF InlineBody
  <2> QED
    BY <2>6, <2>8 DEF c, y
<1> HIDE DEF h, s
<1> QED
  BY <1>1, <1>2, <1>4 DEF Conv, h, s

\* Where an element of that name leaves format_inline(), once its content is read.
Onward(e, o, name, inner) == At(inner.text, e, o \o Wrapped(PangoTag(name), inner))

LEMMA InlineStart ==
  ASSUME NEW c \in InlineAt, NEW name, name # <<>>, NEW r,
         Reads(c.text, INLINE_BUF, name, FALSE, r)
  PROVE  FormatInline[c] = FormatInline[Onward(c.enclosing, c.out, name, FormatInline[At(r, name, <<>>)])]
<1> DEFINE inner == FormatInline[At(r, name, <<>>)]
<1>1. c.text \in Text /\ c.text # <<>> /\ ~NoTagAt(c.text)
  BY DEF Reads
<1>3. InlineTag(c).name = name /\ InlineTag(c).closing = FALSE /\ InlineTag(c).rest = r
  BY DEF Reads, InlineTag
<1>4. FormatInline[c] = InlineBody(FormatInline, c)
  BY FormatInlineIs
<1>5. Content(c) = At(r, name, <<>>)
  BY <1>3 DEF Content, At
<1> HIDE DEF inner
<1>6. After(c, inner) = Onward(c.enclosing, c.out, name, inner)
  <2> DEFINE more == c.out \o Wrapped(PangoTag(name), inner)
             left == inner.text
  <2>1. After(c, inner) = [c EXCEPT !.text = left, !.out = more]
    BY <1>3 DEF After
  <2>2. c = [text |-> c.text, enclosing |-> c.enclosing, out |-> c.out]
    BY DEF InlineAt
  <2> HIDE DEF more, left
  <2>3. After(c, inner) = At(left, c.enclosing, more)
    BY <2>1, <2>2 DEF At, InlineAt
  <2> QED
    BY <2>3 DEF left, more, Onward
<1>7. FormatInline[c] = FormatInline[After(c, FormatInline[Content(c)])]
  BY <1>1, <1>3, <1>4 DEF InlineBody
<1> QED
  BY <1>5, <1>6, <1>7 DEF inner

LEMMA InlineEnd ==
  ASSUME NEW x, NEW e \in Text, e # <<>>, NEW o \in Seq(Marked), NEW r \in Text,
         Reads(x, INLINE_BUF, e, TRUE, r)
  PROVE  FormatInline[At(x, e, o)] = At(r, e, o)
<1> DEFINE c == At(x, e, o)
<1>1. x \in Text /\ x # <<>> /\ ~NoTagAt(x)
  BY DEF Reads
<1>2. c \in InlineAt /\ c.text = x /\ c.enclosing = e /\ c.out = o
  BY <1>1, AtTyped
<1>3. InlineTag(c).name = e /\ InlineTag(c).closing = TRUE /\ InlineTag(c).rest = r
  BY <1>2 DEF Reads, InlineTag
<1>4. FormatInline[c] = InlineBody(FormatInline, c)
  BY <1>2, FormatInlineIs
<1>5. Past(c) = At(r, e, o)
  BY <1>2, <1>3 DEF Past, At
<1> HIDE DEF c
<1>6. FormatInline[c] = Past(c)
  BY <1>1, <1>2, <1>3, <1>4 DEF InlineBody
<1> QED
  BY <1>5, <1>6 DEF c

\* The content of an element that ends with its closing tag.
LEMMA ContentRead ==
  ASSUME NEW h, NEW s, Conv(h, s), NEW t \in TagNames, NEW x \in Text
  PROVE  FormatInline[At(h \o (EndTag(t) \o x), <<t>>, <<>>)] = At(x, <<t>>, s)
<1> DEFINE name == <<t>>
           y == EndTag(t) \o x
<1>0. t \in Token
  BY TagNameIs
<1>1. name \in Text /\ name # <<>>
  BY <1>0, OneToken DEF Text
<1>2. Reads(y, INLINE_BUF, name, TRUE, x) /\ EndTag(t) \in Text
  BY EndTagRead
<1>3. y \in Text /\ <<>> \in Seq(Marked)
  BY <1>2, TextConcat
<1> HIDE DEF name, y
<1>4. s \in Seq(Marked)
  BY FilledSeq DEF Conv
<1>5. FormatInline[At(h \o y, name, <<>>)] = FormatInline[At(y, name, <<>> \o s)]
  BY <1>1, <1>3 DEF Conv
<1>6. <<>> \o s = s
  BY <1>4, ConcatEmptySeq
<1>7. FormatInline[At(y, name, s)] = At(x, name, s)
  BY <1>1, <1>2, <1>4, InlineEnd, ZenonT(30)
<1> QED
  BY <1>5, <1>6, <1>7 DEF name, y

LEMMA WithinTyped ==
  ASSUME NEW t \in DOMAIN Style, NEW s \in Filled(Marked)
  PROVE  Within(StyleOn(t), s, StyleOff(t)) \in Filled(Marked)
<1>1. s \in Seq(Marked)
  BY FilledSeq
<1>2. CASE Style[t] = ""
  <2>1. Within(StyleOn(t), s, StyleOff(t)) = (<<>> \o s) \o <<>>
    BY <1>2 DEF Within, StyleOn, StyleOff, Opening, Closing
  <2>2. Within(StyleOn(t), s, StyleOff(t)) = s
    BY <1>1, <2>1, ConcatEmptySeq
  <2> QED
    BY <2>2
<1>3. CASE Style[t] # ""
  <2> DEFINE e == Style[t]
             on == <<StartOf[e]>>
             off == <<EndOf[e]>>
  <2>1. e \in PangoElements
    BY <1>3, StyleTagged
  <2>2. StartOf[e] \in Marked /\ EndOf[e] \in Marked
    BY <2>1, Literals DEF Marked
  <2>3. StyleOn(t) = on /\ StyleOff(t) = off
    BY <1>3 DEF StyleOn, StyleOff, Opening, Closing
  <2>4. on \in Seq(Marked) /\ off \in Seq(Marked)
    BY <2>2, OneToken
  <2> HIDE DEF on, off
  <2>5. Joined(on, s) \in Filled(Marked)
    BY <2>4, FilledJoined
  <2>6. Joined(Joined(on, s), off) \in Filled(Marked)
    BY <2>4, <2>5, FilledJoined
  <2> QED
    BY <2>3, <2>6 DEF Within, Joined
<1> QED
  BY <1>2, <1>3

LEMMA ConvertsTag ==
  ASSUME NEW h, NEW s, Conv(h, s), NEW t \in DOMAIN Style
  PROVE  Conv(Within(StartTag(t), h, EndTag(t)), Within(StyleOn(t), s, StyleOff(t)))
<1> DEFINE start == StartTag(t)
           end == EndTag(t)
           name == <<t>>
           styled == Within(StyleOn(t), s, StyleOff(t))
<1>0. t \in TagNames /\ h \in Text /\ s \in Filled(Marked) /\ <<>> \in Text
  BY DEF TagNames, Conv, Text
<1>1. start \in Text /\ end \in Text
  BY <1>0, StartTagRead, EndTagRead DEF INLINE_BUF
<1>2. name \in Text /\ name # <<>>
  BY <1>0, TagNameIs, OneToken DEF Text
<1>3. styled \in Filled(Marked)
  BY <1>0, WithinTyped
<1>4. Wrapped(PangoTag(name), At(<<>>, name, s)) = styled
  BY StyleTagged DEF Wrapped, At, Within, StyleOn, StyleOff
<1>5. ASSUME NEW x \in Text, NEW e \in Text, NEW o \in Seq(Marked)
      PROVE  FormatInline[At((start \o h \o end) \o x, e, o)] = FormatInline[At(x, e, o \o styled)]
  <2> DEFINE rest == h \o (end \o x)
             inner == At(x, name, s)
  <2>1. FormatInline[At(rest, name, <<>>)] = inner
    BY <1>0, ContentRead
  <2>2. rest \in Text /\ ((start \o h) \o end) \o x = start \o rest
    <3> HIDE DEF start, end
    <3>1. end \o x \in Text /\ start \o h \in Text
      BY <1>0, <1>1, TextConcat
    <3>2. ((start \o h) \o end) \o x = (start \o h) \o (end \o x)
      <4> DEFINE a == start \o h
      <4>1. a \in Text /\ end \in Text
        BY <1>1, <3>1
      <4> HIDE DEF a
      <4>2. Joined(Joined(a, end), x) = Joined(a, Joined(end, x))
        BY <4>1, JoinedAssoc DEF Text
      <4> QED
        BY <4>2 DEF Joined, a
    <3>3. (start \o h) \o (end \o x) = start \o (h \o (end \o x))
      <4> DEFINE y == end \o x
      <4>1. start \in Text /\ h \in Text /\ y \in Text
        BY <1>0, <1>1, <3>1
      <4> HIDE DEF y
      <4>2. (start \o h) \o y = start \o (h \o y)
        <5>1. Joined(Joined(start, h), y) = Joined(start, Joined(h, y))
          BY <4>1, JoinedAssoc DEF Text
        <5> QED
          BY <5>1 DEF Joined
      <4> QED
        BY <4>2 DEF y
    <3> QED
      BY <1>0, <3>1, <3>2, <3>3, TextConcat
  <2>3. Reads(start \o rest, INLINE_BUF, name, FALSE, rest)
    <3> HIDE DEF rest
    <3> QED
      BY <1>0, <2>2, StartTagRead
  <2>4. Onward(e, o, name, inner) = At(x, e, o \o styled)
    BY <1>4 DEF At, Wrapped, Onward
  <2> HIDE DEF rest, inner, start, end, name, styled
  <2>5. FormatInline[At(start \o rest, e, o)] = FormatInline[Onward(e, o, name, inner)]
    <3> DEFINE c == At(start \o rest, e, o)
    <3>0. start \o rest \in Text
      BY <2>3 DEF Reads
    <3>1. c \in InlineAt /\ c.text = start \o rest /\ c.enclosing = e /\ c.out = o
      BY <3>0 DEF At, InlineAt
    <3>2. c \in InlineAt /\ name # <<>> /\ Reads(c.text, INLINE_BUF, name, FALSE, rest)
      BY <1>2, <2>3, <3>1
    <3> HIDE DEF c
    <3>3. FormatInline[c]
            = FormatInline[Onward(c.enclosing, c.out, name, FormatInline[At(rest, name, <<>>)])]
      BY <3>2, InlineStart, ZenonT(30)
    <3> QED
      BY <2>1, <3>1, <3>3 DEF c
  <2> QED
    BY <2>2, <2>4, <2>5
<1>6. start \o h \o end \in Text
  <2> HIDE DEF start, end
  <2> QED
    BY <1>0, <1>1, TextConcat
<1> HIDE DEF styled, start, end
<1>7. Conv(start \o h \o end, styled)
  BY <1>3, <1>5, <1>6 DEF Conv
<1> QED
  BY <1>7 DEF start, end, styled, Within

LEMMA SpanRead ==
  ASSUME NEW span \in Spans
  PROVE  Conv(SpanHtml(span), SpanShown(span))
<1> DEFINE tags == span.tags
           n == Len(tags)
<1>1. /\ tags \in Seq(DOMAIN Style) /\ span.word \in Token \ {LT}
  BY DEF Spans
<1>2. n \in Nat /\ \A i \in 1 .. n : tags[i] \in DOMAIN Style
  BY <1>1, LenProperties, ElementOfSeq
<1>3. PICK f : HtmlRun(f, tags, span.word) /\ SpanHtml(span) = f[1 .. n]
  BY <1>1, SpanHtmlIs
<1>4. PICK g : ShownRun(g, tags, span.word) /\ SpanShown(span) = g[1 .. n]
  BY <1>1, SpanShownIs
<1>5. \A s \in SUBSET (1 .. n) :
        /\ f[s] = IF s = {} THEN <<span.word>>
                  ELSE Within(StartTag(tags[Min(s)]), f[s \ {Min(s)}], EndTag(tags[Min(s)]))
        /\ g[s] = IF s = {} THEN <<ShownWord(span.word)>>
                  ELSE Within(StyleOn(tags[Min(s)]), g[s \ {Min(s)}], StyleOff(tags[Min(s)]))
  BY <1>3, <1>4 DEF HtmlRun, ShownRun
<1>6. Conv(<<span.word>>, <<ShownWord(span.word)>>)
  BY <1>1, ConvertsWord
<1> HIDE DEF n, tags
<1>7. \A s \in SUBSET (1 .. n) : s = {} => <<f[s], g[s]>> \in Converts
  BY <1>5, <1>6, ConvertsIs
<1>8. ASSUME NEW s \in SUBSET (1 .. n), s # {}, <<f[s \ {Min(s)}], g[s \ {Min(s)}]>> \in Converts
      PROVE  <<f[s], g[s]>> \in Converts
  <2> DEFINE t == tags[Min(s)]
             h == f[s \ {Min(s)}]
             m == g[s \ {Min(s)}]
  <2>1. t \in DOMAIN Style
    <3>1. 1 \in Nat /\ Min(s) \in s
      BY <1>2, <1>8, MinIs
    <3> QED
      BY <1>2, <3>1
  <2>2. Conv(h, m)
    BY <1>8, ConvertsIs
  <2>3. f[s] = Within(StartTag(t), h, EndTag(t)) /\ g[s] = Within(StyleOn(t), m, StyleOff(t))
    BY <1>5, <1>8
  <2> HIDE DEF t, h, m
  <2>4. Conv(Within(StartTag(t), h, EndTag(t)), Within(StyleOn(t), m, StyleOff(t)))
    BY <2>1, <2>2, ConvertsTag
  <2> QED
    BY <2>3, <2>4, ConvertsIs
<1>9. <<f[1 .. n], g[1 .. n]>> \in Converts
  BY <1>2, <1>7, <1>8, AroundPairs
<1> QED
  BY <1>3, <1>4, <1>9, ConvertsIs

ItemText(item) == SpansAs(item, SpanHtml)
ItemShown(item) == SpansAs(item, SpanShown)

LEMMA ItemRead ==
  ASSUME NEW item \in Seq(Spans), item # <<>>
  PROVE  Conv(ItemText(item), ItemShown(item))
<1> DEFINE n == Len(item)
           hs == [i \in 1 .. n |-> SpanHtml(item[i])]
           ss == [i \in 1 .. n |-> SpanShown(item[i])]
<1>1. n \in Nat /\ n # 0 /\ DOMAIN item = 1 .. n /\ \A i \in 1 .. n : item[i] \in Spans
  BY LenProperties, ElementOfSeq, EmptySeq
<1>2. \A i \in 1 .. n : Conv(SpanHtml(item[i]), SpanShown(item[i]))
  BY <1>1, SpanRead
<1>3. ItemText(item) = FlattenSeq(hs) /\ ItemShown(item) = FlattenSeq(ss)
  BY <1>1 DEF ItemText, ItemShown, SpansAs
<1> HIDE DEF n
<1>4. \A i \in 1 .. n : SpanHtml(item[i]) \in Text /\ SpanShown(item[i]) \in Filled(Marked)
  BY <1>2 DEF Conv
<1>5. /\ hs \in Seq(Text) /\ ss \in Seq(Filled(Marked)) /\ Len(hs) = n /\ Len(ss) = n
      /\ \A i \in 1 .. n : hs[i] = SpanHtml(item[i]) /\ ss[i] = SpanShown(item[i])
  BY <1>1, <1>4
<1>6. \A i \in 1 .. n : <<hs[i], ss[i]>> \in Converts
  BY <1>2, <1>5, ConvertsIs
<1> HIDE DEF hs, ss
<1>7. hs # <<>>
  BY <1>1, <1>5
<1>8. <<FlattenSeq(hs), FlattenSeq(ss)>> \in Converts
  <2>1. Len(hs) = Len(ss) /\ \A i \in 1 .. Len(hs) : <<hs[i], ss[i]>> \in Converts
    BY <1>5, <1>6
  <2> QED
    BY <1>5, <1>7, <2>1, ConvertsJoins, FlattenPairs
<1> QED
  BY <1>3, <1>8, ConvertsIs

-------------------------------------------------------------------------------
(***************************************************************************)
(* What the loop of gs_modulix_html_to_pango() makes of the tags and the   *)
(* text it meets outside the inline markup.                                *)
(***************************************************************************)
LoopAt(text, list, empty) == [text |-> text, list |-> list, empty |-> empty]

LEMMA LoopAtTyped ==
  ASSUME NEW x \in Text, NEW l \in ListState, NEW e \in BOOLEAN
  PROVE  /\ LoopAt(x, l, e) \in BlocksAt
         /\ LoopAt(x, l, e).text = x /\ LoopAt(x, l, e).list = l /\ LoopAt(x, l, e).empty = e
BY DEF LoopAt, BlocksAt

LEMMA LoopSkips ==
  ASSUME NEW c \in BlocksAt, c.text # <<>>, NoTagAt(c.text)
  PROVE  FormatBlocks[c] = FormatBlocks[LoopAt(Tail(c.text), c.list, c.empty)]
<1>1. FormatBlocks[c] = BlocksBody(FormatBlocks, c)
  BY FormatBlocksIs
<1>2. FormatBlocks[c] = FormatBlocks[Skipped(c)]
  BY <1>1 DEF BlocksBody
<1>3. Skipped(c) = LoopAt(Tail(c.text), c.list, c.empty)
  BY SMTT(30) DEF Skipped, LoopAt, BlocksAt
<1> QED
  BY <1>2, <1>3

\* A tag that the loop does not know, or a closing one that ends nothing.
LEMMA LoopPasses ==
  ASSUME NEW c \in BlocksAt, NEW name, NEW closing \in BOOLEAN, NEW r,
         Reads(c.text, BLOCK_BUF, name, closing, r),
         name \notin {<<"p">>, <<"ul">>, <<"ol">>, <<"li">>}
  PROVE  FormatBlocks[c] = FormatBlocks[LoopAt(r, c.list, c.empty)]
<1>1. FormatBlocks[c] = BlocksBody(FormatBlocks, c)
  BY FormatBlocksIs
<1>2. c.text # <<>> /\ ~NoTagAt(c.text) /\ BlockTag(c).name = name /\ BlockTag(c).rest = r
  BY DEF Reads, BlockTag
<1>3. FormatBlocks[c] = FormatBlocks[PastBlock(c)]
  BY <1>1, <1>2 DEF BlocksBody
<1>4. PastBlock(c) = LoopAt(r, c.list, c.empty)
  BY <1>2 DEF PastBlock, LoopAt, BlocksAt
<1> QED
  BY <1>3, <1>4

\* The content of an element t, at r: it leaves s, and x to read.
Leaves(r, t, s, x) == FormatInline[At(r, <<t>>, <<>>)] = At(x, <<t>>, s)
\* What the loop appends for a paragraph, and for an item.
FromParagraph(c, s, x) ==
  OnNewLine(c.empty, s) \o FormatBlocks[LoopAt(x, c.list, c.empty /\ s = <<>>)]
Bumped(list) == [list EXCEPT !.counter = IF list.ordered THEN @ + 1 ELSE @]
FromItem(c, s, x) ==
  OnNewLine(c.empty, ItemMark(c.list) \o s) \o FormatBlocks[LoopAt(x, Bumped(c.list), FALSE)]

LEMMA LoopParagraph ==
  ASSUME NEW c \in BlocksAt, NEW r, Reads(c.text, BLOCK_BUF, <<"p">>, FALSE, r),
         NEW s, NEW x, Leaves(r, "p", s, x)
  PROVE  FormatBlocks[c] = FromParagraph(c, s, x)
<1>1. FormatBlocks[c] = BlocksBody(FormatBlocks, c)
  BY FormatBlocksIs
<1>2. /\ c.text # <<>> /\ ~NoTagAt(c.text)
      /\ BlockTag(c).name = <<"p">> /\ BlockTag(c).closing = FALSE /\ BlockTag(c).rest = r
  BY DEF Reads, BlockTag
<1>3. FormatBlocks[c] = Paragraph(c) \o FormatBlocks[AfterParagraph(c)]
  BY <1>1, <1>2 DEF BlocksBody
<1>4. Inline(c) = At(x, <<"p">>, s)
  BY <1>2 DEF Inline, At, Leaves
<1>5. Inline(c).text = x /\ Inline(c).out = s
  BY <1>4 DEF At
<1>6. Paragraph(c) = OnNewLine(c.empty, s)
  BY <1>5 DEF Paragraph
<1> DEFINE more == c.empty /\ s = <<>>
<1>7. AfterParagraph(c) = [c EXCEPT !.text = x, !.empty = more]
  BY <1>5 DEF AfterParagraph
<1>8. c = [text |-> c.text, list |-> c.list, empty |-> c.empty]
  BY DEF BlocksAt
<1> HIDE DEF more
<1>9. AfterParagraph(c) = LoopAt(x, c.list, more)
  BY <1>7, <1>8 DEF LoopAt, BlocksAt
<1> QED
  BY <1>3, <1>6, <1>9 DEF more, FromParagraph

LEMMA LoopList ==
  ASSUME NEW c \in BlocksAt, NEW name \in {<<"ul">>, <<"ol">>}, NEW closing \in BOOLEAN, NEW r,
         Reads(c.text, BLOCK_BUF, name, closing, r)
  PROVE  FormatBlocks[c]
           = FormatBlocks[LoopAt(r, IF closing THEN [c.list EXCEPT !.in_list = FALSE]
                                    ELSE [in_list |-> TRUE, ordered |-> name = <<"ol">>, counter |-> 0],
                                 c.empty)]
<1>0. <<"p">> # <<"ul">> /\ <<"p">> # <<"ol">>
  OBVIOUS
<1>1. FormatBlocks[c] = BlocksBody(FormatBlocks, c)
  BY FormatBlocksIs
<1>2. /\ c.text # <<>> /\ ~NoTagAt(c.text)
      /\ BlockTag(c).name = name /\ BlockTag(c).closing = closing /\ BlockTag(c).rest = r
  BY DEF Reads, BlockTag
<1>3. FormatBlocks[c] = FormatBlocks[AfterListTag(c)]
  BY <1>0, <1>1, <1>2 DEF BlocksBody
<1>4. PastBlock(c) = LoopAt(r, c.list, c.empty)
  BY <1>2 DEF PastBlock, LoopAt, BlocksAt
<1> DEFINE list == ListTag(BlockTag(c), c.list)
<1>5. AfterListTag(c) = [PastBlock(c) EXCEPT !.list = list]
  BY <1>4 DEF AfterListTag, LoopAt
<1>6. list = IF closing THEN [c.list EXCEPT !.in_list = FALSE]
             ELSE [in_list |-> TRUE, ordered |-> name = <<"ol">>, counter |-> 0]
  BY <1>2 DEF ListTag
<1> HIDE DEF list
<1>7. AfterListTag(c) = LoopAt(r, list, c.empty)
  BY <1>4, <1>5 DEF LoopAt
<1> QED
  BY <1>3, <1>6, <1>7

LEMMA LoopItem ==
  ASSUME NEW c \in BlocksAt, c.list.in_list, NEW r, Reads(c.text, BLOCK_BUF, <<"li">>, FALSE, r),
         NEW s, NEW x, Leaves(r, "li", s, x)
  PROVE  FormatBlocks[c] = FromItem(c, s, x)
<1>0. <<"li">> # <<"p">> /\ <<"li">> # <<"ul">> /\ <<"li">> # <<"ol">>
  OBVIOUS
<1>1. FormatBlocks[c] = BlocksBody(FormatBlocks, c)
  BY FormatBlocksIs
<1>2. /\ c.text # <<>> /\ ~NoTagAt(c.text)
      /\ BlockTag(c).name = <<"li">> /\ BlockTag(c).closing = FALSE /\ BlockTag(c).rest = r
  BY DEF Reads, BlockTag
<1>3. FormatBlocks[c] = Item(c) \o FormatBlocks[AfterItem(c)]
  BY <1>0, <1>1, <1>2 DEF BlocksBody
<1>4. Inline(c) = At(x, <<"li">>, s)
  BY <1>2 DEF Inline, At, Leaves
<1>5. Inline(c).text = x /\ Inline(c).out = s
  BY <1>4 DEF At
<1>6. Item(c) = OnNewLine(c.empty, ItemMark(c.list) \o s)
  BY <1>5 DEF Item
<1>7. AfterItem(c) = LoopAt(x, Bumped(c.list), FALSE)
  BY <1>5 DEF AfterItem, LoopAt, Bumped
<1> QED
  BY <1>3, <1>6, <1>7 DEF FromItem

\* Text that the loop passes over, wherever it meets it.
Ignored(h) ==
  /\ h \in Text
  /\ \A x \in Text, l \in ListState, e \in BOOLEAN :
       FormatBlocks[LoopAt(h \o x, l, e)] = FormatBlocks[LoopAt(x, l, e)]
Skips == {h \in Text : Ignored(h)}

LEMMA IgnoredJoined ==
  ASSUME NEW h, NEW g, Ignored(h), Ignored(g)
  PROVE  Ignored(Joined(h, g))
<1>1. h \in Text /\ g \in Text
  BY DEF Ignored
<1>2. Joined(h, g) \in Text
  BY <1>1, TextConcat DEF Joined
<1>3. ASSUME NEW x \in Text, NEW l \in ListState, NEW e \in BOOLEAN
      PROVE  FormatBlocks[LoopAt(Joined(h, g) \o x, l, e)] = FormatBlocks[LoopAt(x, l, e)]
  <2>1. g \o x \in Text /\ Joined(h, g) \o x = h \o (g \o x)
    <3>1. h \in Text /\ g \in Text
      BY <1>1
    <3> QED
      BY <3>1, TextJoined, ZenonT(30)
  <2>2. FormatBlocks[LoopAt(h \o (g \o x), l, e)] = FormatBlocks[LoopAt(g \o x, l, e)]
    BY <2>1 DEF Ignored
  <2>3. FormatBlocks[LoopAt(g \o x, l, e)] = FormatBlocks[LoopAt(x, l, e)]
    BY DEF Ignored
  <2> QED
    BY <2>1, <2>2, <2>3
<1> QED
  BY <1>2, <1>3 DEF Ignored

LEMMA IgnoredWord ==
  ASSUME NEW w \in Token, w # LT
  PROVE  Ignored(<<w>>)
<1> DEFINE h == <<w>>
<1>1. h \in Text
  BY OneToken DEF Text
<1>2. ASSUME NEW x \in Text, NEW l \in ListState, NEW e \in BOOLEAN
      PROVE  FormatBlocks[LoopAt(h \o x, l, e)] = FormatBlocks[LoopAt(x, l, e)]
  <2> DEFINE y == h \o x
             c == LoopAt(y, l, e)
  <2>1. y \in Text /\ y # <<>> /\ Head(y) = w /\ Tail(y) = x
    BY TextCons
  <2> HIDE DEF y
  <2>2. c \in BlocksAt /\ c.text = y /\ c.list = l /\ c.empty = e
    BY <2>1 DEF LoopAt, BlocksAt
  <2>3. NoTagAt(c.text) /\ c.text # <<>>
    BY <2>1, <2>2 DEF NoTagAt
  <2> HIDE DEF c
  <2>4. FormatBlocks[c] = FormatBlocks[LoopAt(Tail(c.text), c.list, c.empty)]
    BY <2>2, <2>3, LoopSkips
  <2> QED
    BY <2>1, <2>2, <2>4 DEF c, y
<1> HIDE DEF h
<1> QED
  BY <1>1, <1>2 DEF Ignored, h

LEMMA IgnoredTags ==
  ASSUME NEW t \in DOMAIN Style
  PROVE  Ignored(StartTag(t)) /\ Ignored(EndTag(t))
<1>1. t \in TagNames
  BY DEF TagNames
<1>2. <<t>> \notin {<<"p">>, <<"ul">>, <<"ol">>, <<"li">>}
  <2>1. t \notin {"p", "ul", "ol", "li"}
    BY StyleIs
  <2> QED
    BY <2>1
<1>3. ASSUME NEW tag \in Text, NEW closing \in BOOLEAN,
             \A x \in Text : Reads(tag \o x, BLOCK_BUF, <<t>>, closing, x)
      PROVE  Ignored(tag)
  <2>1. ASSUME NEW x \in Text, NEW l \in ListState, NEW e \in BOOLEAN
        PROVE  FormatBlocks[LoopAt(tag \o x, l, e)] = FormatBlocks[LoopAt(x, l, e)]
    <3> DEFINE y == tag \o x
               c == LoopAt(y, l, e)
               name == <<t>>
    <3>1. Reads(y, BLOCK_BUF, name, closing, x)
      BY <1>3
    <3> HIDE DEF y
    <3>2. y \in Text
      BY <3>1 DEF Reads
    <3>3. c \in BlocksAt /\ c.text = y /\ c.list = l /\ c.empty = e
      BY <3>2 DEF LoopAt, BlocksAt
    <3>4. Reads(c.text, BLOCK_BUF, name, closing, x) /\ name \notin {<<"p">>, <<"ul">>, <<"ol">>, <<"li">>}
      BY <1>2, <3>1, <3>3
    <3> HIDE DEF c, name
    <3>5. FormatBlocks[c] = FormatBlocks[LoopAt(x, c.list, c.empty)]
      BY <3>3, <3>4, LoopPasses, ZenonT(30)
    <3> QED
      BY <3>3, <3>5 DEF c, y
  <2> QED
    BY <2>1 DEF Ignored
<1>4. BLOCK_BUF \in {BLOCK_BUF, INLINE_BUF} /\ <<>> \in Text
  BY DEF Text
<1>5. StartTag(t) \in Text /\ \A x \in Text : Reads(StartTag(t) \o x, BLOCK_BUF, <<t>>, FALSE, x)
  BY <1>1, <1>4, StartTagRead
<1>6. EndTag(t) \in Text /\ \A x \in Text : Reads(EndTag(t) \o x, BLOCK_BUF, <<t>>, TRUE, x)
  BY <1>1, <1>4, EndTagRead
<1> QED
  BY <1>3, <1>5, <1>6

LEMMA IgnoredSpan ==
  ASSUME NEW span \in Spans
  PROVE  SpanHtml(span) \in Skips
<1> DEFINE tags == span.tags
           n == Len(tags)
           R == Skips \X Skips
<1>1. /\ tags \in Seq(DOMAIN Style) /\ span.word \in Token \ {LT}
  BY DEF Spans
<1>2. n \in Nat /\ \A i \in 1 .. n : tags[i] \in DOMAIN Style
  BY <1>1, LenProperties, ElementOfSeq
<1>3. PICK f : HtmlRun(f, tags, span.word) /\ SpanHtml(span) = f[1 .. n]
  BY <1>1, SpanHtmlIs
<1>4. \A s \in SUBSET (1 .. n) :
        f[s] = IF s = {} THEN <<span.word>>
               ELSE Within(StartTag(tags[Min(s)]), f[s \ {Min(s)}], EndTag(tags[Min(s)]))
  BY <1>3 DEF HtmlRun
<1>5. <<span.word>> \in Skips
  <2>1. Ignored(<<span.word>>)
    BY <1>1, IgnoredWord
  <2> QED
    BY <2>1 DEF Skips, Ignored
<1> HIDE DEF n, tags
<1>6. \A s \in SUBSET (1 .. n) : s = {} => f[s] \in Skips
  BY <1>4, <1>5
<1>7. ASSUME NEW s \in SUBSET (1 .. n), s # {}, f[s \ {Min(s)}] \in Skips
      PROVE  f[s] \in Skips
  <2> DEFINE t == tags[Min(s)]
             h == f[s \ {Min(s)}]
  <2>1. t \in DOMAIN Style
    <3>1. 1 \in Nat /\ Min(s) \in s
      BY <1>2, <1>7, MinIs
    <3> QED
      BY <1>2, <3>1
  <2>2. Ignored(h)
    BY <1>7 DEF Skips
  <2>3. f[s] = Within(StartTag(t), h, EndTag(t))
    BY <1>4, <1>7
  <2> HIDE DEF t, h
  <2>4. Ignored(Joined(Joined(StartTag(t), h), EndTag(t)))
    BY <2>1, <2>2, IgnoredTags, IgnoredJoined
  <2>5. Within(StartTag(t), h, EndTag(t)) = Joined(Joined(StartTag(t), h), EndTag(t))
    BY DEF Within, Joined
  <2> QED
    BY <2>3, <2>4, <2>5 DEF Skips, Ignored
<1>8. \A s \in SUBSET (1 .. n) : s = {} => <<f[s], f[s]>> \in R
  BY <1>6
<1>9. \A s \in SUBSET (1 .. n) :
        s # {} /\ <<f[s \ {Min(s)}], f[s \ {Min(s)}]>> \in R => <<f[s], f[s]>> \in R
  BY <1>7
<1> HIDE DEF R
<1>10. <<f[1 .. n], f[1 .. n]>> \in R
  BY <1>2, <1>8, <1>9, AroundPairs
<1> QED
  BY <1>3, <1>10 DEF R

LEMMA IgnoredItem ==
  ASSUME NEW item \in Seq(Spans), item # <<>>
  PROVE  Ignored(ItemText(item))
<1> DEFINE n == Len(item)
           hs == [i \in 1 .. n |-> SpanHtml(item[i])]
<1>1. n \in Nat /\ n # 0 /\ DOMAIN item = 1 .. n /\ \A i \in 1 .. n : item[i] \in Spans
  BY LenProperties, ElementOfSeq, EmptySeq
<1>2. \A i \in 1 .. n : SpanHtml(item[i]) \in Skips
  BY <1>1, IgnoredSpan
<1>3. ItemText(item) = FlattenSeq(hs)
  BY <1>1 DEF ItemText, SpansAs
<1> HIDE DEF n
<1>4. hs \in Seq(Skips) /\ Len(hs) = n
  BY <1>1, <1>2
<1> HIDE DEF hs
<1>5. hs # <<>>
  BY <1>1, <1>4
<1>6. \A s, t \in Skips : Joined(s, t) \in Skips
  BY IgnoredJoined DEF Skips, Ignored
<1>7. FlattenSeq(hs) \in Skips
  BY <1>4, <1>5, <1>6, FlattenIn
<1> QED
  BY <1>3, <1>7 DEF Skips

-------------------------------------------------------------------------------
(***************************************************************************)
(* The lines of blocks that follow each other.                             *)
(***************************************************************************)
Rows == Seq(Filled(Drawn))
Parts(L, e) == [n \in 1 .. Len(L) |-> OnNewLine(e /\ n = 1, L[n])]
Laid(L, e) == FlattenSeq(Parts(L, e))

LEMMA NewLineTyped ==
  ASSUME NEW e \in BOOLEAN, NEW l \in Seq(Drawn)
  PROVE  OnNewLine(e, l) \in Seq(Drawn)
<1>1. NEWLINE \in Drawn
  BY DEF Drawn
<1> DEFINE new == <<NEWLINE>>
<1>2. new \in Seq(Drawn) /\ <<>> \in Seq(Drawn)
  BY <1>1, OneToken
<1> HIDE DEF new
<1>3. new \o l \in Seq(Drawn) /\ <<>> \o l \in Seq(Drawn)
  BY <1>2, ConcatProperties
<1> QED
  BY <1>3 DEF OnNewLine, new

LEMMA PartsTyped ==
  ASSUME NEW L \in Rows, NEW e \in BOOLEAN
  PROVE  /\ Parts(L, e) \in Seq(Seq(Drawn)) /\ Len(Parts(L, e)) = Len(L) /\ Len(L) \in Nat
         /\ \A n \in 1 .. Len(L) : Parts(L, e)[n] = OnNewLine(e /\ n = 1, L[n])
<1>1. Len(L) \in Nat /\ \A n \in 1 .. Len(L) : L[n] \in Seq(Drawn)
  BY LenProperties, ElementOfSeq, FilledSeq DEF Rows
<1>2. \A n \in 1 .. Len(L) : OnNewLine(e /\ n = 1, L[n]) \in Seq(Drawn)
  BY <1>1, NewLineTyped
<1> DEFINE part(n) == OnNewLine(e /\ n = 1, L[n])
<1>3. \A n \in 1 .. Len(L) : part(n) \in Seq(Drawn)
  BY <1>2
<1>4. Parts(L, e) = [n \in 1 .. Len(L) |-> part(n)]
  BY DEF Parts
<1> HIDE DEF part
<1>5. /\ Parts(L, e) \in Seq(Seq(Drawn)) /\ Len(Parts(L, e)) = Len(L)
      /\ \A n \in 1 .. Len(L) : Parts(L, e)[n] = part(n)
  BY <1>1, <1>3, <1>4
<1> QED
  BY <1>1, <1>5 DEF part

LEMMA LaidTyped ==
  ASSUME NEW L \in Rows, NEW e \in BOOLEAN
  PROVE  Laid(L, e) \in Seq(Drawn)
BY PartsTyped, FlattenTyped DEF Laid

LEMMA LaidEmpty == \A e : Laid(<<>>, e) = <<>>
<1>1. \A e : Parts(<<>>, e) = <<>>
  BY DEF Parts
<1> QED
  BY <1>1, FlattenEmpty DEF Laid

LEMMA LaidAppend ==
  ASSUME NEW L \in Rows, NEW x \in Filled(Drawn), NEW e \in BOOLEAN
  PROVE  /\ Append(L, x) \in Rows
         /\ Laid(Append(L, x), e) = Laid(L, e) \o OnNewLine(e /\ L = <<>>, x)
<1> DEFINE more == Append(L, x)
           n == Len(L)
           last == OnNewLine(e /\ L = <<>>, x)
<1>1. n \in Nat /\ more \in Rows /\ Len(more) = n + 1 /\ more[n + 1] = x
  BY AppendProperties, LenProperties DEF Rows
<1>2. \A i \in 1 .. n : more[i] = L[i]
  BY AppendProperties DEF Rows
<1>3. L = <<>> <=> n = 0
  BY EmptySeq DEF Rows
<1>4. last \in Seq(Drawn)
  BY FilledSeq, NewLineTyped
<1>5. /\ Parts(L, e) \in Seq(Seq(Drawn)) /\ Len(Parts(L, e)) = n
      /\ \A i \in 1 .. n : Parts(L, e)[i] = OnNewLine(e /\ i = 1, L[i])
  BY PartsTyped
<1> HIDE DEF more, n
<1>6. /\ Parts(more, e) \in Seq(Seq(Drawn)) /\ Len(Parts(more, e)) = n + 1
      /\ \A i \in 1 .. n + 1 : Parts(more, e)[i] = OnNewLine(e /\ i = 1, more[i])
  <2>1. more \in Rows /\ Len(more) = n + 1
    BY <1>1
  <2>2. /\ Parts(more, e) \in Seq(Seq(Drawn)) /\ Len(Parts(more, e)) = Len(more)
        /\ \A i \in 1 .. Len(more) : Parts(more, e)[i] = OnNewLine(e /\ i = 1, more[i])
    BY <2>1, PartsTyped
  <2> QED
    BY <2>1, <2>2
<1>7. Parts(more, e)[n + 1] = last
  <2>1. n + 1 \in 1 .. n + 1 /\ (n + 1 = 1 <=> L = <<>>)
    BY <1>1, <1>3
  <2> QED
    BY <1>1, <1>6, <2>1
<1>8. \A i \in 1 .. n : Parts(more, e)[i] = Parts(L, e)[i]
  <2>1. \A i \in 1 .. n : i \in 1 .. n + 1
    BY <1>1
  <2> QED
    BY <1>2, <1>5, <1>6, <2>1
<1> HIDE DEF last
<1> DEFINE p == Parts(L, e)
           q == Parts(more, e)
           r == Append(p, last)
<1>9. q = r
  <2> HIDE DEF p, q
  <2>1. p \in Seq(Seq(Drawn)) /\ Len(p) = n /\ q \in Seq(Seq(Drawn)) /\ Len(q) = n + 1
    BY <1>5, <1>6 DEF p, q
  <2>2. /\ r \in Seq(Seq(Drawn)) /\ Len(r) = n + 1 /\ r[n + 1] = last
        /\ \A i \in 1 .. n : r[i] = p[i]
    BY <1>4, <2>1, AppendProperties
  <2> HIDE DEF r
  <2>3. \A i \in 1 .. n + 1 : q[i] = r[i]
    <3>1. \A i \in 1 .. n + 1 : i \in 1 .. n \/ i = n + 1
      BY <1>1
    <3> QED
      BY <1>7, <1>8, <2>2, <3>1 DEF p, q
  <2> QED
    BY <2>1, <2>2, <2>3, SeqEqual
<1>10. FlattenSeq(Append(Parts(L, e), last)) = FlattenSeq(Parts(L, e)) \o last
  BY <1>4, <1>5, FlattenMore
<1> QED
  BY <1>1, <1>9, <1>10 DEF Laid, more, last

LEMMA LaidConcat ==
  ASSUME NEW L \in Rows, NEW M \in Rows, NEW e \in BOOLEAN
  PROVE  /\ L \o M \in Rows
         /\ Laid(L \o M, e) = Laid(L, e) \o Laid(M, e /\ L = <<>>)
<1> DEFINE k == e /\ L = <<>>
           G == {u \in Rows : Laid(L \o u, e) = Laid(L, e) \o Laid(u, k)}
<1>0. L \o M \in Rows /\ \A u \in Rows : L \o u \in Rows
  BY ConcatProperties DEF Rows
<1>1. Laid(L, e) \in Seq(Drawn) /\ k \in BOOLEAN
  BY LaidTyped
<1>2. <<>> \in G
  <2>1. L \o <<>> = L /\ Laid(L, e) \o <<>> = Laid(L, e)
    BY <1>1, ConcatEmptySeq DEF Rows
  <2>2. <<>> \in Rows
    BY DEF Rows
  <2> QED
    BY <2>1, <2>2, LaidEmpty
<1>3. ASSUME NEW u \in Rows, NEW x \in Filled(Drawn), u \in G
      PROVE  Append(u, x) \in G
  <2> DEFINE both == L \o u
             end == OnNewLine(e /\ both = <<>>, x)
  <2>1. both \in Rows /\ (both = <<>> <=> L = <<>> /\ u = <<>>)
    <3>1. Len(L) \in Nat /\ Len(u) \in Nat /\ Len(both) = Len(L) + Len(u) /\ both \in Rows
      BY <1>0, ConcatProperties, LenProperties DEF Rows
    <3>2. /\ L = <<>> <=> Len(L) = 0
          /\ u = <<>> <=> Len(u) = 0
          /\ both = <<>> <=> Len(both) = 0
      <4> HIDE DEF both
      <4> QED
        BY <3>1, EmptySeq DEF Rows
    <3> HIDE DEF both
    <3> QED
      BY <3>1, <3>2
  <2>2. L \o Append(u, x) = Append(both, x)
    <3> DEFINE one == <<x>>
    <3>1. one \in Rows
      BY OneToken DEF Rows
    <3>2. Append(u, x) = u \o one /\ Append(both, x) = both \o one
      BY <2>1, AppendIsConcat DEF Rows
    <3> HIDE DEF one
    <3>3. (L \o u) \o one = L \o (u \o one)
      <4>1. Joined(Joined(L, u), one) = Joined(L, Joined(u, one))
        BY <3>1, JoinedAssoc DEF Rows
      <4> QED
        BY <4>1 DEF Joined
    <3> QED
      BY <3>2, <3>3
  <2>3. Laid(both, e) = Laid(L, e) \o Laid(u, k)
    BY <1>3
  <2> HIDE DEF both
  <2>4. Laid(Append(both, x), e) = Laid(both, e) \o end
    BY <2>1, LaidAppend
  <2>5. Append(u, x) \in Rows /\ Laid(Append(u, x), k) = Laid(u, k) \o OnNewLine(k /\ u = <<>>, x)
    BY <1>1, LaidAppend
  <2>6. (k /\ u = <<>>) = (e /\ both = <<>>)
    BY <2>1
  <2>7. Laid(u, k) \in Seq(Drawn) /\ end \in Seq(Drawn)
    <3>1. x \in Seq(Drawn) /\ (e /\ both = <<>>) \in BOOLEAN
      BY FilledSeq
    <3> QED
      BY <1>1, <3>1, LaidTyped, NewLineTyped
  <2>8. Laid(Append(u, x), k) = Laid(u, k) \o end
    BY <2>5, <2>6
  <2> HIDE DEF end, k
  <2>9. (Laid(L, e) \o Laid(u, k)) \o end = Laid(L, e) \o (Laid(u, k) \o end)
    <3>1. Joined(Joined(Laid(L, e), Laid(u, k)), end) = Joined(Laid(L, e), Joined(Laid(u, k), end))
      BY <1>1, <2>7, JoinedAssoc
    <3> QED
      BY <3>1 DEF Joined
  <2> QED
    BY <2>2, <2>3, <2>4, <2>5, <2>8, <2>9
<1> HIDE DEF G
<1>4. Rows \subseteq G
  BY <1>2, <1>3, SeqInduct DEF Rows
<1> QED
  BY <1>0, <1>4 DEF G

LEMMA FilledDrawn ==
  ASSUME NEW s \in Filled(Marked)
  PROVE  s \in Filled(Drawn) /\ s \in Seq(Drawn)
<1>1. s \in Seq(Marked) /\ s # <<>>
  BY FilledSeq
<1>2. Len(s) \in Nat /\ \A i \in 1 .. Len(s) : s[i] \in Drawn
  BY <1>1, ElementOfSeq, LenProperties DEF Drawn
<1>3. s \in Seq(Drawn)
  BY <1>1, <1>2
<1> QED
  BY <1>1, <1>3 DEF Filled

LEMMA LaidOne ==
  ASSUME NEW s \in Filled(Drawn), NEW e \in BOOLEAN
  PROVE  <<s>> \in Rows /\ <<s>> # <<>> /\ Laid(<<s>>, e) = OnNewLine(e, s)
<1> DEFINE none == <<>>
<1>1. none \in Rows /\ none = <<>>
  BY DEF Rows
<1>2. Laid(none, e) = <<>>
  BY LaidEmpty
<1>3. Append(none, s) = <<s>> /\ <<s>> # <<>>
  OBVIOUS
<1>4. OnNewLine(e, s) \in Seq(Drawn)
  BY FilledSeq, NewLineTyped
<1> HIDE DEF none
<1>5. Append(none, s) \in Rows /\ Laid(Append(none, s), e) = Laid(none, e) \o OnNewLine(e /\ none = <<>>, s)
  BY <1>1, LaidAppend
<1>6. (e /\ none = <<>>) = e
  BY <1>1
<1> DEFINE line == OnNewLine(e, s)
<1>7. Laid(Append(none, s), e) = <<>> \o line
  BY <1>2, <1>5, <1>6
<1> HIDE DEF line
<1>8. <<>> \o line = line
  BY <1>4, ConcatEmptySeq DEF line
<1> QED
  BY <1>3, <1>5, <1>7, <1>8 DEF line

-------------------------------------------------------------------------------
(***************************************************************************)
(* Text that the loop turns into lines, whatever list it comes after.      *)
(***************************************************************************)
Lays(h, L) ==
  /\ h \in Text /\ L \in Rows
  /\ \A x \in Text, l \in ListState, e \in BOOLEAN : \E k \in ListState :
       FormatBlocks[LoopAt(h \o x, l, e)]
         = Laid(L, e) \o FormatBlocks[LoopAt(x, k, e /\ L = <<>>)]
LaysPairs == {r \in Text \X Rows : Lays(r[1], r[2])}

LEMMA LaysIs ==
  ASSUME NEW h, NEW L
  PROVE  <<h, L>> \in LaysPairs <=> Lays(h, L)
<1>1. Lays(h, L) => h \in Text /\ L \in Rows
  BY DEF Lays
<1> QED
  BY <1>1 DEF LaysPairs

LEMMA MarkDrawn ==
  ASSUME NEW list \in ListState
  PROVE  ItemMark(list) \in Seq(Drawn)
<1>1. {BULLET, SPACE, "."} \subseteq Drawn
  BY DEF Drawn, Marked
<1>2. CASE list.ordered
  <2> DEFINE number == Numeral(list.counter + 1)
             dot == <<".", SPACE>>
  <2>1. number \in Seq(Drawn)
    <3>1. list.counter + 1 \in Nat
      BY DEF ListState
    <3>2. number \in Seq(Digits) /\ Digits \subseteq Drawn
      BY <3>1, NumeralTyped DEF Drawn
    <3> HIDE DEF number
    <3> QED
      BY <3>2
  <2>2. dot \in Seq(Drawn)
    BY <1>1
  <2>3. ItemMark(list) = number \o dot
    BY <1>2 DEF ItemMark
  <2> HIDE DEF number, dot
  <2> QED
    BY <2>1, <2>2, <2>3, ConcatProperties
<1>3. CASE ~list.ordered
  <2>1. ItemMark(list) = <<BULLET, SPACE>>
    BY <1>3 DEF ItemMark
  <2>2. <<BULLET, SPACE>> \in Seq(Drawn)
    BY <1>1
  <2> QED
    BY <2>1, <2>2
<1> QED
  BY <1>2, <1>3

LEMMA BlocksBodyDrawn ==
  ASSUME NEW f, NEW c \in BlocksAt,
         \A d \in BlocksAt : Len(d.text) < Len(c.text) => f[d] \in Seq(Drawn)
  PROVE  BlocksBody(f, c) \in Seq(Drawn)
<1>0. c.list \in ListState /\ c.empty \in BOOLEAN
  BY DEF BlocksAt
<1>1. CASE c.text = <<>>
  BY <1>1 DEF BlocksBody
<1>2. CASE c.text # <<>> /\ NoTagAt(c.text)
  BY <1>2, BlockSteps DEF BlocksBody
<1>3. CASE c.text # <<>> /\ ~NoTagAt(c.text)
  <2>1. /\ f[PastBlock(c)] \in Seq(Drawn) /\ f[AfterParagraph(c)] \in Seq(Drawn)
        /\ f[AfterListTag(c)] \in Seq(Drawn) /\ f[AfterItem(c)] \in Seq(Drawn)
    BY <1>3, BlockSteps
  <2>2. Inline(c).out \in Seq(Drawn)
    <3>1. Inline(c).out \in Seq(Marked)
      BY <1>3, BlockSteps
    <3>2. \A S, T : S \subseteq T => Seq(S) \subseteq Seq(T)
      OBVIOUS
    <3> QED
      BY <3>1, <3>2 DEF Drawn
  <2>3. Paragraph(c) \in Seq(Drawn)
    BY <1>0, <2>2, NewLineTyped DEF Paragraph
  <2>4. Item(c) \in Seq(Drawn)
    <3>1. ItemMark(c.list) \o Inline(c).out \in Seq(Drawn)
      BY <1>0, <2>2, MarkDrawn, ConcatProperties
    <3> QED
      BY <1>0, <3>1, NewLineTyped DEF Item
  <2>5. /\ Paragraph(c) \o f[AfterParagraph(c)] \in Seq(Drawn)
        /\ Item(c) \o f[AfterItem(c)] \in Seq(Drawn)
    BY <2>1, <2>3, <2>4, ConcatProperties
  <2> QED
    BY <1>3, <2>1, <2>5 DEF BlocksBody
<1> QED
  BY <1>1, <1>2, <1>3

LEMMA FormatBlocksDrawn ==
  ASSUME NEW c \in BlocksAt
  PROVE  FormatBlocks[c] \in Seq(Drawn)
<1> DEFINE wrong == {n \in Nat : \E d \in BlocksAt : Len(d.text) = n /\ FormatBlocks[d] \notin Seq(Drawn)}
<1>0. \A d \in BlocksAt : Len(d.text) \in Nat
  BY DEF BlocksAt, Text
<1> SUFFICES ASSUME wrong # {} PROVE FALSE
  BY <1>0
<1>1. PICK m \in wrong : \A n \in wrong : m <= n
  <2>1. wrong \in SUBSET Nat
    OBVIOUS
  <2> HIDE DEF wrong
  <2> QED
    BY <2>1, LeastNatural
<1>2. PICK d \in BlocksAt : Len(d.text) = m /\ FormatBlocks[d] \notin Seq(Drawn)
  OBVIOUS
<1>3. ASSUME NEW e \in BlocksAt, Len(e.text) < Len(d.text)
      PROVE  FormatBlocks[e] \in Seq(Drawn)
  <2>1. Len(e.text) \in Nat /\ Len(e.text) < m /\ m \in Nat
    BY <1>0, <1>2, <1>3
  <2>2. Len(e.text) \notin wrong
    <3> HIDE DEF wrong
    <3> QED
      BY <1>1, <2>1
  <2> QED
    BY <2>1, <2>2
<1>4. BlocksBody(FormatBlocks, d) \in Seq(Drawn)
  BY <1>3, BlocksBodyDrawn
<1>5. FormatBlocks[d] = BlocksBody(FormatBlocks, d)
  BY FormatBlocksIs
<1> QED
  BY <1>2, <1>4, <1>5

LEMMA BlocksDrawn ==
  ASSUME NEW x \in Text, NEW l \in ListState, NEW e \in BOOLEAN
  PROVE  FormatBlocks[LoopAt(x, l, e)] \in Seq(Drawn)
BY LoopAtTyped, FormatBlocksDrawn

LEMMA LaysNothing ==
  ASSUME NEW h, Ignored(h)
  PROVE  Lays(h, <<>>)
<1> DEFINE L == <<>>
<1>1. h \in Text /\ L \in Rows /\ L = <<>>
  BY DEF Ignored, Rows
<1> HIDE DEF L
<1>2. ASSUME NEW x \in Text, NEW l \in ListState, NEW e \in BOOLEAN
      PROVE  \E k \in ListState : FormatBlocks[LoopAt(h \o x, l, e)]
                                    = Laid(L, e) \o FormatBlocks[LoopAt(x, k, e /\ L = <<>>)]
  <2> DEFINE out == FormatBlocks[LoopAt(x, l, e)]
  <2>1. FormatBlocks[LoopAt(h \o x, l, e)] = out
    BY DEF Ignored
  <2>2. (e /\ L = <<>>) = e
    BY <1>1
  <2>3. out \in Seq(Drawn)
    BY BlocksDrawn
  <2>4. Laid(L, e) = <<>>
    BY <1>1, LaidEmpty
  <2>5. FormatBlocks[LoopAt(x, l, e /\ L = <<>>)] = out
    BY <2>2
  <2> HIDE DEF out
  <2>6. <<>> \o out = out
    BY <2>3, ConcatEmptySeq
  <2> QED
    BY <2>1, <2>4, <2>5, <2>6
<1>3. Lays(h, L)
  BY <1>1, <1>2 DEF Lays
<1> QED
  BY <1>3 DEF L

LEMMA LaysJoins == Joins(LaysPairs)
<1> SUFFICES ASSUME NEW h, NEW L, NEW g, NEW M, Lays(h, L), Lays(g, M)
             PROVE  Lays(Joined(h, g), Joined(L, M))
  BY LaysIs DEF Joins
<1>1. h \in Text /\ g \in Text /\ L \in Rows /\ M \in Rows
  BY DEF Lays
<1>2. Joined(h, g) \in Text /\ Joined(L, M) \in Rows
  BY <1>1, TextConcat, LaidConcat DEF Joined
<1>3. Joined(L, M) = <<>> <=> L = <<>> /\ M = <<>>
  <2> DEFINE both == L \o M
  <2>1. Len(L) \in Nat /\ Len(M) \in Nat /\ Len(both) = Len(L) + Len(M) /\ both \in Rows
    BY <1>1, ConcatProperties, LenProperties DEF Rows
  <2> HIDE DEF both
  <2>2. /\ L = <<>> <=> Len(L) = 0
        /\ M = <<>> <=> Len(M) = 0
        /\ both = <<>> <=> Len(both) = 0
    BY <1>1, <2>1, EmptySeq DEF Rows
  <2> QED
    BY <2>1, <2>2 DEF both, Joined
<1>4. ASSUME NEW x \in Text, NEW l \in ListState, NEW e \in BOOLEAN
      PROVE  \E k \in ListState :
               FormatBlocks[LoopAt(Joined(h, g) \o x, l, e)]
                 = Laid(Joined(L, M), e) \o FormatBlocks[LoopAt(x, k, e /\ Joined(L, M) = <<>>)]
  <2> DEFINE e1 == e /\ L = <<>>
  <2>1. g \o x \in Text /\ Joined(h, g) \o x = h \o (g \o x) /\ e1 \in BOOLEAN
    <3>1. h \in Text /\ g \in Text
      BY <1>1
    <3> QED
      BY <3>1, TextJoined, ZenonT(30)
  <2>2. PICK j \in ListState : FormatBlocks[LoopAt(h \o (g \o x), l, e)]
                                 = Laid(L, e) \o FormatBlocks[LoopAt(g \o x, j, e1)]
    BY <2>1, ZenonT(30) DEF Lays
  <2>3. PICK k \in ListState : FormatBlocks[LoopAt(g \o x, j, e1)]
                                 = Laid(M, e1) \o FormatBlocks[LoopAt(x, k, e1 /\ M = <<>>)]
    BY <2>1, ZenonT(30) DEF Lays
  <2>4. (e1 /\ M = <<>>) = (e /\ Joined(L, M) = <<>>)
    BY <1>3
  <2>5. Laid(Joined(L, M), e) = Laid(L, e) \o Laid(M, e1)
    BY <1>1, LaidConcat DEF Joined
  <2> HIDE DEF e1
  <2> DEFINE out == FormatBlocks[LoopAt(x, k, e1 /\ M = <<>>)]
             a == Laid(L, e)
             b == Laid(M, e1)
  <2>6. out \in Seq(Drawn) /\ a \in Seq(Drawn) /\ b \in Seq(Drawn)
    BY <1>1, <2>1, BlocksDrawn, LaidTyped
  <2>7. FormatBlocks[LoopAt(Joined(h, g) \o x, l, e)] = a \o (b \o out)
    BY <2>1, <2>2, <2>3
  <2>8. FormatBlocks[LoopAt(x, k, e /\ Joined(L, M) = <<>>)] = out
    BY <2>4
  <2>9. Laid(Joined(L, M), e) = a \o b
    BY <2>5
  <2> HIDE DEF out, a, b
  <2>10. (a \o b) \o out = a \o (b \o out)
    <3>1. Joined(Joined(a, b), out) = Joined(a, Joined(b, out))
      BY <2>6, JoinedAssoc
    <3> QED
      BY <3>1 DEF Joined
  <2> QED
    BY <2>7, <2>8, <2>9, <2>10
<1> QED
  BY <1>2, <1>4 DEF Lays

\* An element that begins a paragraph or an item, and its content.
Block(t, h) == StartTag(t) \o h \o EndTag(t)

LEMMA BlockShape ==
  ASSUME NEW h \in Text, NEW t \in TagNames, NEW x \in Text
  PROVE  /\ Block(t, h) \in Text /\ Block(t, h) \o x \in Text
         /\ EndTag(t) \o x \in Text /\ h \o (EndTag(t) \o x) \in Text
         /\ Reads(Block(t, h) \o x, BLOCK_BUF, <<t>>, FALSE, h \o (EndTag(t) \o x))
         /\ Reads(EndTag(t) \o x, BLOCK_BUF, <<t>>, TRUE, x)
<1> DEFINE start == StartTag(t)
           end == EndTag(t)
           y == end \o x
           z == h \o y
<1>1. BLOCK_BUF \in {BLOCK_BUF, INLINE_BUF}
  OBVIOUS
<1>2. start \in Text /\ end \in Text /\ Reads(y, BLOCK_BUF, <<t>>, TRUE, x)
  BY <1>1, StartTagRead, EndTagRead
<1>3. ASSUME NEW r \in Text PROVE Reads(start \o r, BLOCK_BUF, <<t>>, FALSE, r)
  BY <1>1, StartTagRead
<1> HIDE DEF start, end
<1>4. y \in Text /\ start \o h \in Text /\ (start \o h) \o end \in Text
  BY <1>2, TextConcat
<1>5. ((start \o h) \o end) \o x = (start \o h) \o y
  <2> DEFINE a == start \o h
  <2>1. a \in Text
    BY <1>4
  <2> HIDE DEF a, y
  <2>2. (a \o end) \o x = a \o (end \o x)
    BY <1>2, <2>1, TextAssoc, Zenon
  <2> QED
    BY <2>2 DEF a, y
<1> HIDE DEF y
<1>6. z \in Text /\ (start \o h) \o y = start \o z
  <2>1. z \in Text
    BY <1>4, TextConcat
  <2>2. start \in Text /\ h \in Text /\ y \in Text
    BY <1>2, <1>4
  <2>3. (start \o h) \o y = start \o (h \o y)
    <3>1. Joined(Joined(start, h), y) = Joined(start, Joined(h, y))
      BY <2>2, JoinedAssoc DEF Text
    <3> QED
      BY <3>1 DEF Joined
  <2> QED
    BY <2>1, <2>3
<1>7. ((start \o h) \o end) \o x \in Text
  BY <1>4, TextConcat
<1> HIDE DEF z
<1>8. Reads(start \o z, BLOCK_BUF, <<t>>, FALSE, z)
  BY <1>3, <1>6
<1> QED
  BY <1>2, <1>4, <1>5, <1>6, <1>7, <1>8 DEF Block, start, end, y, z

LEMMA BlockRead ==
  ASSUME NEW h, NEW s, Conv(h, s), NEW t \in TagNames, NEW x \in Text
  PROVE  /\ Block(t, h) \in Text /\ Block(t, h) \o x \in Text
         /\ Reads(Block(t, h) \o x, BLOCK_BUF, <<t>>, FALSE, h \o (EndTag(t) \o x))
         /\ Leaves(h \o (EndTag(t) \o x), t, s, x)
<1>1. h \in Text
  BY DEF Conv
<1>2. Leaves(h \o (EndTag(t) \o x), t, s, x)
  BY ContentRead DEF Leaves
<1> QED
  BY <1>1, <1>2, BlockShape

LEMMA LaysParagraph ==
  ASSUME NEW h, NEW s, Conv(h, s)
  PROVE  Lays(Block("p", h), <<s>>)
<1> DEFINE b == Block("p", h)
           L == <<s>>
<1>1. "p" \in TagNames
  BY DEF TagNames, BlockTags
<1>2. s \in Filled(Drawn) /\ s # <<>>
  BY FilledDrawn, FilledSeq DEF Conv
<1>3. L \in Rows /\ L # <<>> /\ \A e \in BOOLEAN : Laid(L, e) = OnNewLine(e, s)
  BY <1>2, LaidOne
<1>4. b \in Text
  <2>1. <<>> \in Text
    BY DEF Text
  <2> QED
    BY <1>1, <2>1, BlockRead
<1> HIDE DEF b, L
<1>5. ASSUME NEW x \in Text, NEW l \in ListState, NEW e \in BOOLEAN
      PROVE  \E k \in ListState : FormatBlocks[LoopAt(b \o x, l, e)]
                                    = Laid(L, e) \o FormatBlocks[LoopAt(x, k, e /\ L = <<>>)]
  <2> DEFINE y == b \o x
             z == h \o (EndTag("p") \o x)
             c == LoopAt(y, l, e)
  <2>1. /\ y \in Text /\ Reads(y, BLOCK_BUF, <<"p">>, FALSE, z)
        /\ Leaves(z, "p", s, x)
    BY <1>1, BlockRead DEF b
  <2> HIDE DEF y, z
  <2>2. c \in BlocksAt /\ c.text = y /\ c.list = l /\ c.empty = e
    BY <2>1, LoopAtTyped
  <2>3. Reads(c.text, BLOCK_BUF, <<"p">>, FALSE, z)
    BY <2>1, <2>2
  <2> HIDE DEF c
  <2>4. FormatBlocks[c] = FromParagraph(c, s, x)
    BY <2>1, <2>2, <2>3, LoopParagraph
  <2>5. (e /\ s = <<>>) = (e /\ L = <<>>)
    BY <1>2, <1>3
  <2>6. FormatBlocks[LoopAt(x, c.list, c.empty /\ s = <<>>)] = FormatBlocks[LoopAt(x, l, e /\ L = <<>>)]
    BY <2>2, <2>5
  <2>7. OnNewLine(c.empty, s) = Laid(L, e)
    BY <1>3, <2>2
  <2> QED
    BY <2>4, <2>6, <2>7 DEF c, y, FromParagraph
<1>6. Lays(b, L)
  BY <1>3, <1>4, <1>5 DEF Lays
<1> QED
  BY <1>6 DEF b, L

-------------------------------------------------------------------------------
(***************************************************************************)
(* The items of a list, each after the others.                             *)
(***************************************************************************)
Items == Seq(Spans) \ {<<>>}
ItemTexts(u) == [n \in 1 .. Len(u) |-> ItemHtml(u[n])]
ItemsHtml(u) == FlattenSeq(ItemTexts(u))
\* The loop's list, n items into one that is ordered or not.
Listed(ordered, n) == [in_list |-> TRUE, ordered |-> ordered, counter |-> IF ordered THEN n ELSE 0]
Row(item, ordered, n) == ItemMark(Listed(ordered, n)) \o ItemShown(item)
ItemRows(u, ordered) == [n \in 1 .. Len(u) |-> Row(u[n], ordered, n - 1)]

LEMMA GrownIs ==
  ASSUME NEW S, NEW a \in Seq(S), NEW b \in Seq(S), NEW y \in S, NEW n \in Nat,
         Len(a) = n, Len(b) = n + 1, \A i \in 1 .. n : b[i] = a[i], b[n + 1] = y
  PROVE  b = Append(a, y)
<1> DEFINE c == Append(a, y)
<1>1. c \in Seq(S) /\ Len(c) = n + 1 /\ c[n + 1] = y /\ \A i \in 1 .. n : c[i] = a[i]
  BY AppendProperties
<1> HIDE DEF c
<1>2. \A i \in 1 .. n + 1 : b[i] = c[i]
  <2>1. \A i \in 1 .. n + 1 : i \in 1 .. n \/ i = n + 1
    OBVIOUS
  <2> QED
    BY <1>1, <2>1
<1>3. b = c
  BY <1>1, <1>2, SeqEqual
<1> QED
  BY <1>3 DEF c

LEMMA ListedTyped ==
  ASSUME NEW ordered \in BOOLEAN, NEW n \in Nat
  PROVE  /\ Listed(ordered, n) \in ListState /\ Listed(ordered, n).in_list
         /\ Bumped(Listed(ordered, n)) = Listed(ordered, n + 1)
<1> DEFINE l == Listed(ordered, n)
           more == IF ordered THEN n ELSE 0
<1>1. l = [in_list |-> TRUE, ordered |-> ordered, counter |-> more] /\ more \in Nat
  BY DEF Listed
<1>2. Bumped(l) = [l EXCEPT !.counter = IF ordered THEN more + 1 ELSE more]
  BY <1>1 DEF Bumped
<1>3. (IF ordered THEN more + 1 ELSE more) = IF ordered THEN n + 1 ELSE 0
  OBVIOUS
<1> HIDE DEF l, more
<1>4. l \in ListState /\ l.in_list
  BY <1>1 DEF ListState
<1>5. Bumped(l) = Listed(ordered, n + 1)
  BY <1>1, <1>2, <1>3 DEF Listed
<1> QED
  BY <1>4, <1>5 DEF l

LEMMA RowTyped ==
  ASSUME NEW item \in Items, NEW ordered \in BOOLEAN, NEW n \in Nat
  PROVE  Row(item, ordered, n) \in Filled(Drawn)
<1> DEFINE mark == ItemMark(Listed(ordered, n))
           shown == ItemShown(item)
<1>1. item \in Seq(Spans) /\ item # <<>>
  BY DEF Items
<1>2. shown \in Filled(Drawn)
  BY <1>1, ItemRead, FilledDrawn DEF Conv
<1>3. mark \in Seq(Drawn)
  BY ListedTyped, MarkDrawn
<1> HIDE DEF mark, shown
<1>4. Joined(mark, shown) \in Filled(Drawn)
  BY <1>2, <1>3, FilledJoined
<1> QED
  BY <1>4 DEF Row, Joined, mark, shown

LEMMA OneItem ==
  ASSUME NEW item \in Items, NEW x \in Text, NEW ordered \in BOOLEAN, NEW n \in Nat, NEW e \in BOOLEAN
  PROVE  /\ ItemHtml(item) \in Text /\ ItemHtml(item) \o x \in Text
         /\ FormatBlocks[LoopAt(ItemHtml(item) \o x, Listed(ordered, n), e)]
              = OnNewLine(e, Row(item, ordered, n))
                  \o FormatBlocks[LoopAt(x, Listed(ordered, n + 1), FALSE)]
<1> DEFINE h == ItemText(item)
           s == ItemShown(item)
           y == ItemHtml(item) \o x
           z == h \o (EndTag("li") \o x)
           l == Listed(ordered, n)
           c == LoopAt(y, l, e)
<1>1. Conv(h, s)
  BY ItemRead DEF Items
<1>2. "li" \in TagNames
  BY DEF TagNames, BlockTags
<1>3. ItemHtml(item) = Block("li", h)
  BY DEF ItemHtml, Block, ItemText
<1> HIDE DEF h, s
<1>4. /\ ItemHtml(item) \in Text /\ y \in Text /\ Reads(y, BLOCK_BUF, <<"li">>, FALSE, z)
      /\ Leaves(z, "li", s, x)
  BY <1>1, <1>2, <1>3, BlockRead
<1>5. l \in ListState /\ l.in_list /\ Bumped(l) = Listed(ordered, n + 1)
  BY ListedTyped
<1> HIDE DEF y, z, l
<1>6. c \in BlocksAt /\ c.text = y /\ c.list = l /\ c.empty = e
  BY <1>4, <1>5, LoopAtTyped
<1>7. c.list.in_list /\ Reads(c.text, BLOCK_BUF, <<"li">>, FALSE, z)
  BY <1>4, <1>5, <1>6
<1> HIDE DEF c
<1>8. FormatBlocks[c] = FromItem(c, s, x)
  BY <1>4, <1>6, <1>7, LoopItem
<1>9. FromItem(c, s, x) = OnNewLine(e, ItemMark(l) \o s) \o FormatBlocks[LoopAt(x, Bumped(l), FALSE)]
  BY <1>6 DEF FromItem
<1>10. ItemMark(l) \o s = Row(item, ordered, n)
  BY DEF Row, l, s
<1> QED
  BY <1>4, <1>5, <1>8, <1>9, <1>10 DEF y, c, l

ItemsRead(u, ordered) ==
  /\ ItemTexts(u) \in Seq(Text) /\ ItemsHtml(u) \in Text /\ ItemRows(u, ordered) \in Rows
  /\ \A x \in Text, e \in BOOLEAN :
       FormatBlocks[LoopAt(ItemsHtml(u) \o x, Listed(ordered, 0), e)]
         = Laid(ItemRows(u, ordered), e)
             \o FormatBlocks[LoopAt(x, Listed(ordered, Len(u)), e /\ u = <<>>)]

LEMMA NoItems ==
  ASSUME NEW ordered \in BOOLEAN
  PROVE  ItemsRead(<<>>, ordered)
<1> DEFINE u == <<>>
<1>1. u = <<>> /\ Len(u) = 0
  OBVIOUS
<1>2. ItemTexts(u) = <<>> /\ ItemRows(u, ordered) = <<>>
  BY DEF ItemTexts, ItemRows
<1> HIDE DEF u
<1>3. ItemsHtml(u) = <<>>
  BY <1>2, FlattenEmpty DEF ItemsHtml
<1>4. ItemTexts(u) \in Seq(Text) /\ ItemsHtml(u) \in Text /\ ItemRows(u, ordered) \in Rows
  <2>1. <<>> \in Seq(Text) /\ <<>> \in Text /\ <<>> \in Rows
    BY DEF Text, Rows
  <2> QED
    BY <1>2, <1>3, <2>1
<1>5. ASSUME NEW x \in Text, NEW e \in BOOLEAN
      PROVE  FormatBlocks[LoopAt(ItemsHtml(u) \o x, Listed(ordered, 0), e)]
               = Laid(ItemRows(u, ordered), e)
                   \o FormatBlocks[LoopAt(x, Listed(ordered, Len(u)), e /\ u = <<>>)]
  <2> DEFINE out == FormatBlocks[LoopAt(x, Listed(ordered, 0), e)]
  <2>1. <<>> \o x = x
    BY ConcatEmptySeq DEF Text
  <2>2. out \in Seq(Drawn)
    <3>1. Listed(ordered, 0) \in ListState
      BY ListedTyped
    <3> QED
      BY <3>1, BlocksDrawn
  <2>3. (e /\ u = <<>>) = e
    BY <1>1
  <2>4. FormatBlocks[LoopAt(x, Listed(ordered, Len(u)), e /\ u = <<>>)] = out
    BY <1>1, <2>3
  <2>5. FormatBlocks[LoopAt(ItemsHtml(u) \o x, Listed(ordered, 0), e)] = out
    BY <1>3, <2>1
  <2>6. Laid(ItemRows(u, ordered), e) = <<>>
    BY <1>2, LaidEmpty
  <2> HIDE DEF out
  <2>7. <<>> \o out = out
    BY <2>2, ConcatEmptySeq
  <2> QED
    BY <2>4, <2>5, <2>6, <2>7
<1>6. ItemsRead(u, ordered)
  BY <1>4, <1>5 DEF ItemsRead
<1> QED
  BY <1>6 DEF u

LEMMA ItemRowsTyped ==
  ASSUME NEW u \in Seq(Items), NEW ordered \in BOOLEAN
  PROVE  /\ ItemRows(u, ordered) \in Rows /\ Len(ItemRows(u, ordered)) = Len(u) /\ Len(u) \in Nat
         /\ \A n \in 1 .. Len(u) : ItemRows(u, ordered)[n] = Row(u[n], ordered, n - 1)
<1>1. Len(u) \in Nat /\ \A n \in 1 .. Len(u) : u[n] \in Items /\ n - 1 \in Nat
  BY LenProperties, ElementOfSeq
<1>2. \A n \in 1 .. Len(u) : Row(u[n], ordered, n - 1) \in Filled(Drawn)
  BY <1>1, RowTyped
<1> DEFINE row(n) == Row(u[n], ordered, n - 1)
<1>3. \A n \in 1 .. Len(u) : row(n) \in Filled(Drawn)
  BY <1>2
<1>4. ItemRows(u, ordered) = [n \in 1 .. Len(u) |-> row(n)]
  BY DEF ItemRows
<1> HIDE DEF row
<1>5. /\ ItemRows(u, ordered) \in Seq(Filled(Drawn)) /\ Len(ItemRows(u, ordered)) = Len(u)
      /\ \A n \in 1 .. Len(u) : ItemRows(u, ordered)[n] = row(n)
  BY <1>1, <1>3, <1>4
<1> QED
  BY <1>1, <1>5 DEF row, Rows

LEMMA ItemTextsTyped ==
  ASSUME NEW u \in Seq(Items)
  PROVE  /\ ItemTexts(u) \in Seq(Text) /\ Len(ItemTexts(u)) = Len(u) /\ Len(u) \in Nat
         /\ \A n \in 1 .. Len(u) : ItemTexts(u)[n] = ItemHtml(u[n])
<1>1. Len(u) \in Nat /\ \A n \in 1 .. Len(u) : u[n] \in Items
  BY LenProperties, ElementOfSeq
<1>2. \A n \in 1 .. Len(u) : ItemHtml(u[n]) \in Text
  <2>1. <<>> \in Text
    BY DEF Text
  <2>2. 0 \in Nat /\ TRUE \in BOOLEAN
    OBVIOUS
  <2> QED
    BY <1>1, <2>1, <2>2, OneItem
<1> DEFINE text(n) == ItemHtml(u[n])
<1>3. \A n \in 1 .. Len(u) : text(n) \in Text
  BY <1>2
<1>4. ItemTexts(u) = [n \in 1 .. Len(u) |-> text(n)]
  BY DEF ItemTexts
<1> HIDE DEF text
<1>5. /\ ItemTexts(u) \in Seq(Text) /\ Len(ItemTexts(u)) = Len(u)
      /\ \A n \in 1 .. Len(u) : ItemTexts(u)[n] = text(n)
  BY <1>1, <1>3, <1>4
<1> QED
  BY <1>1, <1>5 DEF text

LEMMA ItemTextsGrow ==
  ASSUME NEW u \in Seq(Items), NEW item \in Items
  PROVE  ItemsHtml(Append(u, item)) = ItemsHtml(u) \o ItemHtml(item) /\ ItemsHtml(u) \in Text
<1> DEFINE more == Append(u, item)
           n == Len(u)
           a == ItemTexts(u)
           b == ItemTexts(more)
           y == ItemHtml(item)
<1>1. n \in Nat /\ more \in Seq(Items) /\ Len(more) = n + 1 /\ more[n + 1] = item
  BY AppendProperties, LenProperties
<1>2. \A i \in 1 .. n : more[i] = u[i]
  BY AppendProperties
<1>3. a \in Seq(Text) /\ Len(a) = n /\ \A i \in 1 .. n : a[i] = ItemHtml(u[i])
  BY ItemTextsTyped
<1> HIDE DEF more, n
<1>4. b \in Seq(Text) /\ Len(b) = n + 1 /\ \A i \in 1 .. n + 1 : b[i] = ItemHtml(more[i])
  BY <1>1, ItemTextsTyped
<1> HIDE DEF a, b
<1>5. \A i \in 1 .. n : b[i] = a[i]
  <2>1. \A i \in 1 .. n : i \in 1 .. n + 1
    BY <1>1
  <2> QED
    BY <1>2, <1>3, <1>4, <2>1
<1>6. b[n + 1] = y
  BY <1>1, <1>4
<1>7. y \in Text
  BY <1>1, <1>4, <1>6, ElementOfSeq
<1> HIDE DEF y
<1>8. b = Append(a, y)
  BY <1>1, <1>3, <1>4, <1>5, <1>6, <1>7, GrownIs
<1>9. FlattenSeq(Append(a, y)) = FlattenSeq(a) \o y
  BY <1>3, <1>7, FlattenMore DEF Text
<1>10. FlattenSeq(a) \in Text
  BY <1>3, FlattenTyped DEF Text
<1> QED
  BY <1>8, <1>9, <1>10 DEF ItemsHtml, a, b, y, more

LEMMA ItemRowsGrow ==
  ASSUME NEW u \in Seq(Items), NEW item \in Items, NEW ordered \in BOOLEAN
  PROVE  ItemRows(Append(u, item), ordered)
           = Append(ItemRows(u, ordered), Row(item, ordered, Len(u)))
<1> DEFINE more == Append(u, item)
           n == Len(u)
           a == ItemRows(u, ordered)
           b == ItemRows(more, ordered)
           y == Row(item, ordered, n)
<1>1. n \in Nat /\ more \in Seq(Items) /\ Len(more) = n + 1 /\ more[n + 1] = item
  BY AppendProperties, LenProperties
<1>2. \A i \in 1 .. n : more[i] = u[i]
  BY AppendProperties
<1>3. /\ a \in Seq(Filled(Drawn)) /\ Len(a) = n
      /\ \A i \in 1 .. n : a[i] = Row(u[i], ordered, i - 1)
  BY ItemRowsTyped DEF Rows
<1> HIDE DEF more, n
<1>4. /\ b \in Seq(Filled(Drawn)) /\ Len(b) = n + 1
      /\ \A i \in 1 .. n + 1 : b[i] = Row(more[i], ordered, i - 1)
  BY <1>1, ItemRowsTyped DEF Rows
<1> HIDE DEF a, b
<1>5. \A i \in 1 .. n : b[i] = a[i]
  <2>1. \A i \in 1 .. n : i \in 1 .. n + 1
    BY <1>1
  <2> QED
    BY <1>2, <1>3, <1>4, <2>1
<1>6. b[n + 1] = y
  <2>1. n + 1 \in 1 .. n + 1 /\ n + 1 - 1 = n
    BY <1>1
  <2> QED
    BY <1>1, <1>4, <2>1
<1>7. y \in Filled(Drawn)
  BY <1>1, RowTyped
<1> HIDE DEF y
<1>8. b = Append(a, y)
  BY <1>1, <1>3, <1>4, <1>5, <1>6, <1>7, GrownIs
<1> QED
  BY <1>8 DEF a, b, y, more, n

LEMMA MoreItems ==
  ASSUME NEW u \in Seq(Items), NEW item \in Items,
         NEW ordered \in BOOLEAN, ItemsRead(u, ordered)
  PROVE  ItemsRead(Append(u, item), ordered)
<1> DEFINE more == Append(u, item)
           n == Len(u)
           rows == ItemRows(u, ordered)
           row == Row(item, ordered, n)
           text == ItemsHtml(u)
           one == ItemHtml(item)
<1>1. n \in Nat /\ more \in Seq(Items) /\ Len(more) = n + 1 /\ more # <<>>
  BY AppendProperties, LenProperties
<1>2. /\ ItemTexts(more) \in Seq(Text) /\ ItemRows(more, ordered) \in Rows
      /\ rows \in Rows /\ Len(rows) = n
  BY <1>1, ItemTextsTyped, ItemRowsTyped
<1>3. ItemsHtml(more) = text \o one /\ text \in Text
  BY ItemTextsGrow
<1>4. one \in Text
  <2>1. <<>> \in Text
    BY DEF Text
  <2> QED
    BY <1>1, <2>1, OneItem
<1>5. ItemRows(more, ordered) = Append(rows, row) /\ row \in Filled(Drawn)
  BY <1>1, ItemRowsGrow, RowTyped
<1>6. rows = <<>> <=> u = <<>>
  <2> HIDE DEF rows
  <2> QED
    BY <1>1, <1>2, EmptySeq DEF Rows
<1>7. \A x \in Text, e \in BOOLEAN :
        FormatBlocks[LoopAt(text \o x, Listed(ordered, 0), e)]
          = Laid(rows, e) \o FormatBlocks[LoopAt(x, Listed(ordered, n), e /\ u = <<>>)]
  BY DEF ItemsRead
<1>8. \A x \in Text, e \in BOOLEAN :
        /\ one \o x \in Text
        /\ FormatBlocks[LoopAt(one \o x, Listed(ordered, n), e)]
             = OnNewLine(e, row) \o FormatBlocks[LoopAt(x, Listed(ordered, n + 1), FALSE)]
  BY <1>1, OneItem, ZenonT(30)
<1> HIDE DEF more, n, rows, row, text, one
<1>9. text \o one \in Text
  BY <1>3, <1>4, TextConcat
<1>10. ASSUME NEW x \in Text, NEW e \in BOOLEAN
       PROVE  FormatBlocks[LoopAt(ItemsHtml(more) \o x, Listed(ordered, 0), e)]
                = Laid(ItemRows(more, ordered), e)
                    \o FormatBlocks[LoopAt(x, Listed(ordered, Len(more)), e /\ more = <<>>)]
  <2> DEFINE e1 == e /\ u = <<>>
             out == FormatBlocks[LoopAt(x, Listed(ordered, n + 1), FALSE)]
             a == Laid(rows, e)
             b == OnNewLine(e1, row)
             y == one \o x
  <2>1. y \in Text /\ FormatBlocks[LoopAt(y, Listed(ordered, n), e1)] = b \o out
    BY <1>8
  <2>2. (text \o one) \o x = text \o y
    BY <1>3, <1>4, TextAssoc
  <2> HIDE DEF y
  <2>3. FormatBlocks[LoopAt(text \o y, Listed(ordered, 0), e)]
          = a \o FormatBlocks[LoopAt(y, Listed(ordered, n), e1)]
    BY <1>7, <2>1
  <2>4. Laid(ItemRows(more, ordered), e) = a \o b
    <3>1. Laid(Append(rows, row), e) = Laid(rows, e) \o OnNewLine(e /\ rows = <<>>, row)
      BY <1>2, <1>5, LaidAppend
    <3>2. (e /\ rows = <<>>) = e1
      BY <1>6
    <3> QED
      BY <1>5, <3>1, <3>2
  <2>5. FormatBlocks[LoopAt(x, Listed(ordered, Len(more)), e /\ more = <<>>)] = out
    <3>1. (e /\ more = <<>>) = FALSE
      BY <1>1
    <3> QED
      BY <1>1, <3>1
  <2>6. out \in Seq(Drawn) /\ a \in Seq(Drawn) /\ b \in Seq(Drawn)
    <3>1. Listed(ordered, n + 1) \in ListState
      BY <1>1, ListedTyped
    <3>2. out \in Seq(Drawn)
      BY <3>1, BlocksDrawn
    <3>3. row \in Seq(Drawn) /\ e1 \in BOOLEAN
      BY <1>5, FilledSeq
    <3> QED
      BY <1>2, <3>2, <3>3, LaidTyped, NewLineTyped
  <2>7. FormatBlocks[LoopAt(ItemsHtml(more) \o x, Listed(ordered, 0), e)] = a \o (b \o out)
    BY <1>3, <2>1, <2>2, <2>3
  <2> HIDE DEF out, a, b
  <2>8. (a \o b) \o out = a \o (b \o out)
    <3>1. Joined(Joined(a, b), out) = Joined(a, Joined(b, out))
      BY <2>6, JoinedAssoc
    <3> QED
      BY <3>1 DEF Joined
  <2> QED
    BY <2>4, <2>5, <2>7, <2>8
<1> QED
  BY <1>2, <1>3, <1>9, <1>10 DEF ItemsRead, more

LEMMA ItemsReadAll ==
  ASSUME NEW u \in Seq(Items), NEW ordered \in BOOLEAN
  PROVE  ItemsRead(u, ordered)
<1> DEFINE G == {v \in Seq(Items) : ItemsRead(v, ordered)}
<1>1. <<>> \in G
  BY NoItems
<1>2. ASSUME NEW v \in Seq(Items), NEW item \in Items, v \in G
      PROVE  Append(v, item) \in G
  <2>1. Append(v, item) \in Seq(Items)
    BY AppendProperties
  <2>2. ItemsRead(Append(v, item), ordered)
    BY <1>2, MoreItems
  <2> QED
    BY <2>1, <2>2
<1> HIDE DEF G
<1>3. Seq(Items) \subseteq G
  BY <1>1, <1>2, SeqInduct
<1> QED
  BY <1>3 DEF G

LEMMA LaysList ==
  ASSUME NEW u \in Seq(Items), NEW t \in {"ul", "ol"}
  PROVE  Lays(Block(t, ItemsHtml(u)), ItemRows(u, t = "ol"))
<1> DEFINE h == ItemsHtml(u)
           b == Block(t, h)
           ordered == t = "ol"
           L == ItemRows(u, ordered)
           n == Len(u)
           name == <<t>>
<1>1. ordered \in BOOLEAN /\ n \in Nat /\ t \in TagNames
  BY LenProperties DEF TagNames, BlockTags
<1>2. name \in {<<"ul">>, <<"ol">>} /\ (name = <<"ol">> <=> ordered)
  OBVIOUS
<1>3. h \in Text /\ L \in Rows
  BY <1>1, ItemsReadAll DEF ItemsRead
<1>4. \A x \in Text, e \in BOOLEAN :
        FormatBlocks[LoopAt(h \o x, Listed(ordered, 0), e)]
          = Laid(L, e) \o FormatBlocks[LoopAt(x, Listed(ordered, n), e /\ u = <<>>)]
  BY <1>1, ItemsReadAll DEF ItemsRead
<1>5. L = <<>> <=> u = <<>>
  <2>1. Len(L) = n
    BY <1>1, ItemRowsTyped
  <2> HIDE DEF L
  <2> QED
    BY <1>1, <1>3, <2>1, EmptySeq DEF Rows
<1>6. Listed(ordered, 0) \in ListState /\ Listed(ordered, n) \in ListState
  BY <1>1, ListedTyped
<1>7. b \in Text
  <2>1. <<>> \in Text
    BY DEF Text
  <2> HIDE DEF h
  <2> QED
    BY <1>1, <1>3, <2>1, BlockShape
<1> HIDE DEF h, b, ordered, L, n, name
<1>8. ASSUME NEW x \in Text, NEW l \in ListState, NEW e \in BOOLEAN
      PROVE  \E k \in ListState : FormatBlocks[LoopAt(b \o x, l, e)]
                                    = Laid(L, e) \o FormatBlocks[LoopAt(x, k, e /\ L = <<>>)]
  <2> DEFINE e1 == e /\ u = <<>>
             w == EndTag(t) \o x
             z == h \o w
             y == b \o x
             c == LoopAt(y, l, e)
             d == LoopAt(w, Listed(ordered, n), e1)
             k == [Listed(ordered, n) EXCEPT !.in_list = FALSE]
  <2>1. /\ y \in Text /\ w \in Text /\ z \in Text
        /\ Reads(y, BLOCK_BUF, name, FALSE, z) /\ Reads(w, BLOCK_BUF, name, TRUE, x)
    BY <1>1, <1>3, BlockShape DEF b, name
  <2>2. e1 \in BOOLEAN /\ (e /\ L = <<>>) = e1
    BY <1>5
  <2> HIDE DEF e1, w, y, z
  <2>3. c \in BlocksAt /\ c.text = y /\ c.list = l /\ c.empty = e
    BY <2>1, LoopAtTyped
  <2>4. d \in BlocksAt /\ d.text = w /\ d.list = Listed(ordered, n) /\ d.empty = e1
    BY <1>6, <2>1, <2>2, LoopAtTyped
  <2>5. Reads(c.text, BLOCK_BUF, name, FALSE, z) /\ Reads(d.text, BLOCK_BUF, name, TRUE, x)
    BY <2>1, <2>3, <2>4
  <2> HIDE DEF c, d
  <2>6. FormatBlocks[c] = FormatBlocks[LoopAt(z, Listed(ordered, 0), e)]
    <3>1. FormatBlocks[c]
            = FormatBlocks[LoopAt(z, IF FALSE THEN [c.list EXCEPT !.in_list = FALSE]
                                     ELSE [in_list |-> TRUE, ordered |-> name = <<"ol">>, counter |-> 0],
                                  c.empty)]
      BY <1>2, <2>3, <2>5, LoopList, ZenonT(30)
    <3>2. (IF FALSE THEN [c.list EXCEPT !.in_list = FALSE]
           ELSE [in_list |-> TRUE, ordered |-> name = <<"ol">>, counter |-> 0])
            = Listed(ordered, 0)
      <4>1. (name = <<"ol">>) = ordered
        BY <1>1, <1>2
      <4> QED
        BY <4>1 DEF Listed
    <3> QED
      BY <2>3, <3>1, <3>2
  <2>7. FormatBlocks[LoopAt(z, Listed(ordered, 0), e)] = Laid(L, e) \o FormatBlocks[d]
    BY <1>4, <2>1 DEF z, d, e1
  <2>8. FormatBlocks[d] = FormatBlocks[LoopAt(x, k, e1)]
    <3>1. FormatBlocks[d]
            = FormatBlocks[LoopAt(x, IF TRUE THEN [d.list EXCEPT !.in_list = FALSE]
                                     ELSE [in_list |-> TRUE, ordered |-> name = <<"ol">>, counter |-> 0],
                                  d.empty)]
      BY <1>2, <2>4, <2>5, LoopList, ZenonT(30)
    <3> QED
      BY <2>4, <3>1
  <2>9. k \in ListState
    BY <1>6 DEF ListState
  <2> HIDE DEF k
  <2>10. FormatBlocks[LoopAt(b \o x, l, e)] = Laid(L, e) \o FormatBlocks[LoopAt(x, k, e1)]
    BY <2>6, <2>7, <2>8 DEF c, y
  <2>11. FormatBlocks[LoopAt(x, k, e1)] = FormatBlocks[LoopAt(x, k, e /\ L = <<>>)]
    BY <2>2
  <2> QED
    BY <2>9, <2>10, <2>11
<1>9. Lays(b, L)
  BY <1>3, <1>7, <1>8 DEF Lays
<1> QED
  BY <1>9 DEF b, L, h, ordered

-------------------------------------------------------------------------------
LEMMA BlockLays ==
  ASSUME NEW b \in Written
  PROVE  Lays(BlockHtml(b), Lines(b))
<1> DEFINE u == b.items
           n == Len(u)
<1>1. /\ b.tag \in {"", "p", "ul", "ol"} /\ u \in Seq(Items)
      /\ b.tag \in {"", "p"} => u # <<>>
  BY DEF Written, Items
<1>2. n \in Nat /\ DOMAIN u = 1 .. n /\ Len(u) = n
  BY <1>1, LenProperties
<1>3. u # <<>> => u[1] \in Seq(Spans) /\ u[1] # <<>>
  <2> HIDE DEF u, n
  <2>1. u # <<>> => 1 \in 1 .. n
    <3>1. u \in Seq(Items)
      BY <1>1
    <3>2. u # <<>> => n # 0
      BY <1>2, <3>1, EmptySeq
    <3> QED
      BY <1>2, <3>2
  <2>2. \A i \in 1 .. n : u[i] \in Items
    BY <1>1, <1>2, ElementOfSeq
  <2> QED
    BY <2>1, <2>2 DEF Items
<1>4. CASE b.tag = ""
  <2>1. BlockHtml(b) = ItemText(u[1]) /\ Lines(b) = <<>>
    BY <1>4 DEF BlockHtml, Lines, ItemText
  <2>2. Ignored(ItemText(u[1]))
    BY <1>1, <1>3, <1>4, IgnoredItem
  <2> QED
    BY <2>1, <2>2, LaysNothing
<1>5. CASE b.tag = "p"
  <2>0. "p" # ""
    OBVIOUS
  <2>1. BlockHtml(b) = Block("p", ItemText(u[1])) /\ Lines(b) = <<ItemShown(u[1])>>
    BY <1>5, <2>0 DEF BlockHtml, Lines, ItemText, ItemShown, Block
  <2>2. Conv(ItemText(u[1]), ItemShown(u[1]))
    BY <1>1, <1>3, <1>5, ItemRead
  <2> HIDE DEF u
  <2> QED
    BY <2>1, <2>2, LaysParagraph
<1>6. CASE b.tag \in {"ul", "ol"}
  <2> DEFINE t == b.tag
             ordered == t = "ol"
  <2>1. BlockHtml(b) = Block(t, ItemsHtml(u))
    <3>1. BlockHtml(b) = StartTag(t) \o FlattenSeq([i \in DOMAIN u |-> ItemHtml(u[i])]) \o EndTag(t)
      BY <1>6 DEF BlockHtml
    <3> QED
      BY <1>2, <3>1 DEF Block, ItemsHtml, ItemTexts
  <2>2. Lines(b) = ItemRows(u, ordered)
    <3>1. CASE t = "ul"
      <4>0. "ul" \notin {"", "p"} /\ "ul" # "ol"
        OBVIOUS
      <4>1. Lines(b) = [i \in 1 .. n |-> <<BULLET, SPACE>> \o ItemShown(u[i])]
        BY <1>2, <3>1, <4>0 DEF Lines, ItemShown
      <4>2. \A i : Row(u[i], ordered, i - 1) = <<BULLET, SPACE>> \o ItemShown(u[i])
        BY <3>1, <4>0 DEF Row, ItemMark, Listed
      <4> QED
        BY <4>1, <4>2 DEF ItemRows
    <3>2. CASE t = "ol"
      <4>0. "ol" \notin {"", "p", "ul"}
        OBVIOUS
      <4>1. Lines(b) = [i \in 1 .. n |-> Numeral(i) \o <<".", SPACE>> \o ItemShown(u[i])]
        BY <1>2, <3>2, <4>0 DEF Lines, ItemShown
      <4>2. \A i \in 1 .. n : Row(u[i], ordered, i - 1) = Numeral(i) \o <<".", SPACE>> \o ItemShown(u[i])
        <5>1. \A i \in 1 .. n : i - 1 + 1 = i
          BY <1>2
        <5>2. \A i : Row(u[i], ordered, i - 1) = Numeral(i - 1 + 1) \o <<".", SPACE>> \o ItemShown(u[i])
          BY <3>2 DEF Row, ItemMark, Listed
        <5> QED
          BY <5>1, <5>2
      <4> QED
        BY <4>1, <4>2 DEF ItemRows
    <3> QED
      BY <1>6, <3>1, <3>2
  <2>3. Lays(Block(t, ItemsHtml(u)), ItemRows(u, t = "ol"))
    BY <1>1, <1>6, LaysList
  <2> QED
    BY <2>1, <2>2, <2>3
<1> QED
  BY <1>1, <1>4, <1>5, <1>6

AllLines(d) == FlattenSeq([n \in DOMAIN d |-> Lines(d[n])])

LEMMA DescriptionLays ==
  ASSUME NEW d \in Seq(Written)
  PROVE  Lays(Html(d), AllLines(d))
<1> DEFINE n == Len(d)
           hs == [i \in 1 .. n |-> BlockHtml(d[i])]
           ss == [i \in 1 .. n |-> Lines(d[i])]
<1>1. n \in Nat /\ DOMAIN d = 1 .. n /\ \A i \in 1 .. n : d[i] \in Written
  BY LenProperties, ElementOfSeq
<1>2. \A i \in 1 .. n : Lays(BlockHtml(d[i]), Lines(d[i]))
  BY <1>1, BlockLays
<1>3. Html(d) = FlattenSeq(hs) /\ AllLines(d) = FlattenSeq(ss)
  BY <1>1 DEF Html, AllLines
<1> HIDE DEF n
<1>4. \A i \in 1 .. n : BlockHtml(d[i]) \in Text /\ Lines(d[i]) \in Rows
  BY <1>2 DEF Lays
<1>5. /\ hs \in Seq(Text) /\ ss \in Seq(Rows) /\ Len(hs) = n /\ Len(ss) = n
      /\ \A i \in 1 .. n : hs[i] = BlockHtml(d[i]) /\ ss[i] = Lines(d[i])
  BY <1>1, <1>4
<1>6. \A i \in 1 .. n : <<hs[i], ss[i]>> \in LaysPairs
  BY <1>2, <1>5, LaysIs
<1> HIDE DEF hs, ss
<1>7. <<<<>>, <<>>>> \in LaysPairs
  <2> DEFINE none == <<>>
  <2>1. none \in Text /\ \A x \in Text : none \o x = x
    BY ConcatEmptySeq DEF Text
  <2> HIDE DEF none
  <2>2. Ignored(none)
    BY <2>1 DEF Ignored
  <2>3. Lays(none, <<>>)
    BY <2>2, LaysNothing
  <2> QED
    BY <2>3, LaysIs DEF none
<1>8. <<FlattenSeq(hs), FlattenSeq(ss)>> \in LaysPairs
  <2>1. Len(hs) = Len(ss) /\ \A i \in 1 .. Len(hs) : <<hs[i], ss[i]>> \in LaysPairs
    BY <1>5, <1>6
  <2> QED
    BY <1>5, <1>7, <2>1, LaysJoins, FlattenPairs
<1> QED
  BY <1>3, <1>8, LaysIs

LEMMA ShownIs ==
  ASSUME NEW d, AllLines(d) \in Rows
  PROVE  Shown(d) = Stripped(Laid(AllLines(d), TRUE))
<1> DEFINE L == AllLines(d)
           n == Len(L)
           part(i) == IF i = 1 THEN L[i] ELSE <<NEWLINE>> \o L[i]
<1>1. n \in Nat /\ DOMAIN L = 1 .. n /\ \A i \in 1 .. n : L[i] \in Seq(Drawn)
  BY LenProperties, ElementOfSeq, FilledSeq DEF Rows
<1>2. Shown(d) = Stripped(FlattenSeq([i \in DOMAIN L |-> part(i)]))
  BY DEF Shown, AllLines
<1>0. n = Len(L)
  OBVIOUS
<1> HIDE DEF L, n
<1>3. \A i \in 1 .. n : OnNewLine(TRUE /\ i = 1, L[i]) = part(i)
  <2>1. \A i \in 1 .. n : <<>> \o L[i] = L[i]
    BY <1>1, ConcatEmptySeq
  <2> QED
    BY <2>1 DEF OnNewLine
<1>4. Parts(L, TRUE) = [i \in 1 .. n |-> part(i)]
  BY <1>0, <1>3 DEF Parts
<1> HIDE DEF part
<1> QED
  BY <1>1, <1>2, <1>4 DEF Laid, L

LEMMA LoopEnds ==
  ASSUME NEW l \in ListState, NEW e \in BOOLEAN
  PROVE  FormatBlocks[LoopAt(<<>>, l, e)] = <<>>
<1> DEFINE c == LoopAt(<<>>, l, e)
<1>1. <<>> \in Text
  BY DEF Text
<1>2. c \in BlocksAt /\ c.text = <<>>
  BY <1>1, LoopAtTyped
<1> HIDE DEF c
<1>3. FormatBlocks[c] = BlocksBody(FormatBlocks, c)
  BY <1>2, FormatBlocksIs
<1>4. FormatBlocks[c] = <<>>
  BY <1>2, <1>3 DEF BlocksBody
<1> QED
  BY <1>4 DEF c

\* What gs_modulix_html_to_pango() makes of a description as it was written.
LEMMA DescriptionShown ==
  ASSUME NEW d \in Seq(Written)
  PROVE  Html(d) \in Text /\ HtmlToPango(Html(d)) = Shown(d)
<1> DEFINE h == Html(d)
           L == AllLines(d)
           none == <<>>
<1>1. Lays(h, L) /\ h \in Text /\ L \in Rows
  BY DescriptionLays DEF Lays
<1>2. none \in Text /\ h \o none = h
  BY <1>1, ConcatEmptySeq DEF Text
<1>3. NoList \in ListState
  BY DEF NoList, ListState
<1>4. Shown(d) = Stripped(Laid(L, TRUE))
  BY <1>1, ShownIs
<1>5. \A k \in ListState, e \in BOOLEAN : FormatBlocks[LoopAt(none, k, e)] = <<>>
  BY LoopEnds
<1> HIDE DEF h, L, none
<1>6. PICK k \in ListState : FormatBlocks[LoopAt(h \o none, NoList, TRUE)]
                               = Laid(L, TRUE) \o FormatBlocks[LoopAt(none, k, TRUE /\ L = <<>>)]
  BY <1>1, <1>2, <1>3 DEF Lays
<1>7. FormatBlocks[LoopAt(h, NoList, TRUE)] = Laid(L, TRUE)
  <2>1. FormatBlocks[LoopAt(none, k, TRUE /\ L = <<>>)] = <<>>
    BY <1>5
  <2>2. Laid(L, TRUE) \o <<>> = Laid(L, TRUE)
    BY <1>1, LaidTyped, ConcatEmptySeq
  <2> QED
    BY <1>2, <1>6, <2>1, <2>2
<1>8. HtmlToPango(h) = Stripped(FormatBlocks[LoopAt(h, NoList, TRUE)])
  BY DEF HtmlToPango, LoopAt
<1> QED
  BY <1>1, <1>4, <1>7, <1>8 DEF h, L

-------------------------------------------------------------------------------
(***************************************************************************)
(* The daemon's text stays a text, whatever is put in it or cut off.       *)
(***************************************************************************)
MarkupInv ==
  /\ doc \in Descriptions
  /\ html \in Text
  /\ pango = HtmlToPango(html)

\* What is written is a text.
LEMMA BlockTyped ==
  ASSUME NEW b \in Written
  PROVE  BlockHtml(b) \in Text
<1> DEFINE u == b.items
           n == Len(u)
<1>1. /\ b.tag \in {"", "p", "ul", "ol"} /\ u \in Seq(Items)
      /\ b.tag \in {"", "p"} => u # <<>>
  BY DEF Written, Items
<1>2. n \in Nat /\ DOMAIN u = 1 .. n /\ Len(u) = n
  BY <1>1, LenProperties
<1>3. u # <<>> => ItemText(u[1]) \in Text
  <2> HIDE DEF u, n
  <2>1. u \in Seq(Items)
    BY <1>1
  <2>2. u # <<>> => n # 0
    BY <1>2, <2>1, EmptySeq
  <2>3. u # <<>> => u[1] \in Items
    BY <1>2, <2>1, <2>2, ElementOfSeq
  <2> QED
    BY <2>3, ItemRead DEF Items, Conv
<1>4. ItemsHtml(u) \in Text
  <2> HIDE DEF u
  <2>1. ItemTexts(u) \in Seq(Text)
    BY <1>1, ItemTextsTyped
  <2> QED
    BY <2>1, FlattenTyped DEF ItemsHtml, Text
<1>5. \A h \in Text, t \in {"p", "ul", "ol"} : Block(t, h) \in Text
  <2>1. {"p", "ul", "ol"} \subseteq TagNames /\ <<>> \in Text
    BY DEF TagNames, BlockTags, Text
  <2> QED
    BY <2>1, BlockShape
<1>6. CASE b.tag = ""
  <2>1. BlockHtml(b) = ItemText(u[1])
    BY <1>6 DEF BlockHtml, ItemText
  <2> QED
    BY <1>1, <1>3, <1>6, <2>1
<1>7. CASE b.tag = "p"
  <2>0. "p" # ""
    OBVIOUS
  <2>1. BlockHtml(b) = Block("p", ItemText(u[1]))
    BY <1>7, <2>0 DEF BlockHtml, ItemText, Block
  <2> HIDE DEF u
  <2> QED
    BY <1>1, <1>3, <1>5, <1>7, <2>1
<1>8. CASE b.tag \in {"ul", "ol"}
  <2>1. BlockHtml(b) = StartTag(b.tag) \o FlattenSeq([i \in DOMAIN u |-> ItemHtml(u[i])]) \o EndTag(b.tag)
    BY <1>8 DEF BlockHtml
  <2>2. BlockHtml(b) = Block(b.tag, ItemsHtml(u))
    BY <1>2, <2>1 DEF Block, ItemsHtml, ItemTexts
  <2> HIDE DEF u
  <2> QED
    BY <1>4, <1>5, <1>8, <2>2
<1> QED
  BY <1>1, <1>6, <1>7, <1>8

LEMMA HtmlTyped ==
  ASSUME NEW d \in Seq(Written)
  PROVE  Html(d) \in Text
<1> DEFINE n == Len(d)
           hs == [i \in 1 .. n |-> BlockHtml(d[i])]
<1>1. n \in Nat /\ DOMAIN d = 1 .. n /\ \A i \in 1 .. n : d[i] \in Written
  BY LenProperties, ElementOfSeq
<1>2. \A i \in 1 .. n : BlockHtml(d[i]) \in Text
  BY <1>1, BlockTyped
<1>3. Html(d) = FlattenSeq(hs)
  BY <1>1 DEF Html
<1> HIDE DEF n
<1>4. hs \in Seq(Text)
  BY <1>1, <1>2
<1> HIDE DEF hs
<1>5. FlattenSeq(hs) \in Text
  BY <1>4, FlattenTyped DEF Text
<1> QED
  BY <1>3, <1>5

LEMMA MarkupInvInit == MarkupInit => MarkupInv
BY MarkupAssumption, HtmlTyped DEF MarkupInit, MarkupInv

LEMMA MarkupInvNext == MarkupInv /\ [MarkupNext]_vars => MarkupInv'
<1> SUFFICES ASSUME MarkupInv, [MarkupNext]_vars
             PROVE  MarkupInv'
  OBVIOUS
<1>0. Len(html) \in Nat /\ \A i \in 1 .. Len(html) : html[i] \in Token
  BY LenProperties, ElementOfSeq DEF MarkupInv, Text
<1>1. ASSUME NEW i \in 0 .. Len(html), NEW t \in Strays, Stray(i, t)
      PROVE  MarkupInv'
  <2>1. SubSeq(html, 1, i) \in Text /\ SubSeq(html, i + 1, Len(html)) \in Text
    BY <1>0, SubSeqProperties DEF Text
  <2>2. <<t>> \in Text
    BY MarkupAssumption
  <2> DEFINE before == SubSeq(html, 1, i)
             stray == <<t>>
             behind == SubSeq(html, i + 1, Len(html))
  <2>3. html' = (before \o stray) \o behind
    BY <1>1 DEF Stray
  <2> HIDE DEF before, stray, behind
  <2>4. before \o stray \in Text
    BY <2>1, <2>2, ConcatProperties DEF Text, before, stray
  <2>5. html' \in Text
    BY <2>1, <2>3, <2>4, ConcatProperties DEF Text, behind
  <2> QED
    BY <1>1, <2>5 DEF Stray, MarkupInv
<1>2. ASSUME NEW n \in 0 .. Len(html) - 1, Cut(n)
      PROVE  MarkupInv'
  <2>1. SubSeq(html, 1, n) \in Text
    BY <1>0, SubSeqProperties DEF Text
  <2> QED
    BY <1>2, <2>1 DEF Cut, MarkupInv
<1>3. CASE Deliver(doc)
  BY <1>3, MarkupAssumption, HtmlTyped DEF Deliver, MarkupInv
<1>4. CASE UNCHANGED vars
  BY <1>4 DEF vars, MarkupInv
<1> QED
  BY <1>1, <1>2, <1>3, <1>4 DEF MarkupNext

LEMMA MarkupInvAccepts ==
  ASSUME MarkupInv
  PROVE  PangoAccepts
<1>1. Fine(pango)
  BY HtmlToPangoFine DEF MarkupInv
<1>2. OpenAfter(pango) = <<>>
  <2>1. <<>> \in Stacks
    BY DEF Stacks
  <2> QED
    BY <1>1, <2>1 DEF Fine, Balanced, OpenAfter
<1>3. Drawn \cap Special = {}
  <2>1. Words \cap Special = {}
    BY MarkupAssumption DEF Special
  <2>2. ({SLASH, SPACE} \cup Entities) \cap Special = {}
    BY DEF SLASH, SPACE, Entities, Special, LT, GT
  <2>3. (Starts \cup Ends) \cap Special = {}
    BY Literals DEF Special, LT, GT
  <2>4. {NEWLINE, BULLET, "."} \cap Special = {}
    BY DEF NEWLINE, BULLET, Special, LT, GT
  <2>5. Digits \cap Special = {}
    BY DEF Digits, Special, LT, GT
  <2> QED
    BY <2>1, <2>2, <2>3, <2>4, <2>5 DEF Drawn, Marked
<1>4. \A n \in DOMAIN pango : pango[n] \in Drawn
  BY <1>1, ElementOfSeq, LenProperties DEF Fine
<1> QED
  BY <1>2, <1>3, <1>4 DEF PangoAccepts, Special

\* Whatever the daemon's description holds and wherever it ends, the markup made
\* of it closes every element it opens, in order, and leaves no character of the
\* text that means something to Pango: for every set of words, of descriptions
\* and of strays, however many of these (gs_modulix_html_to_pango()).
THEOREM PangoAlwaysAccepts == MarkupSpec => []PangoAccepts
<1>1. MarkupInit => MarkupInv
  BY MarkupInvInit
<1>2. MarkupInv /\ [MarkupNext]_vars => MarkupInv'
  BY MarkupInvNext
<1>3. MarkupInv => PangoAccepts
  BY MarkupInvAccepts
<1> QED
  BY <1>1, <1>2, <1>3, PTL DEF MarkupSpec

-------------------------------------------------------------------------------
(***************************************************************************)
(* As long as nothing was put in it or cut off, the text is the one its    *)
(* author wrote.                                                           *)
(***************************************************************************)
AsWritten == strays \in Nat /\ (strays = 0 /\ ~cut => html = Html(doc))
RenderInv == MarkupInv /\ AsWritten

LEMMA RenderInvInit == MarkupInit => RenderInv
BY MarkupInvInit DEF MarkupInit, RenderInv, AsWritten

LEMMA RenderInvNext == RenderInv /\ [MarkupNext]_vars => RenderInv'
<1> SUFFICES ASSUME RenderInv, [MarkupNext]_vars
             PROVE  RenderInv'
  OBVIOUS
<1>1. MarkupInv'
  BY MarkupInvNext DEF RenderInv
<1>2. AsWritten'
  <2>1. ASSUME NEW i \in 0 .. Len(html), NEW t \in Strays, Stray(i, t)
        PROVE  AsWritten'
    <3>1. strays' = strays + 1
      BY <2>1 DEF Stray
    <3>2. strays \in Nat
      BY DEF RenderInv, AsWritten
    <3> QED
      BY <3>1, <3>2 DEF AsWritten
  <2>2. ASSUME NEW n \in 0 .. Len(html) - 1, Cut(n)
        PROVE  AsWritten'
    BY <2>2 DEF Cut, RenderInv, AsWritten
  <2>3. CASE Deliver(doc)
    BY <2>3 DEF Deliver, AsWritten
  <2>4. CASE UNCHANGED vars
    BY <2>4 DEF vars, RenderInv, AsWritten
  <2> QED
    BY <2>1, <2>2, <2>3, <2>4 DEF MarkupNext
<1> QED
  BY <1>1, <1>2 DEF RenderInv

LEMMA RenderInvRenders ==
  ASSUME RenderInv
  PROVE  RendersDescription
<1> SUFFICES ASSUME strays = 0, ~cut
             PROVE  pango = Shown(doc)
  BY DEF RendersDescription
<1>1. doc \in Seq(Written)
  BY MarkupAssumption DEF RenderInv, MarkupInv
<1>2. pango = HtmlToPango(Html(doc))
  BY DEF RenderInv, MarkupInv, AsWritten
<1> QED
  BY <1>1, <1>2, DescriptionShown

\* A description that arrives as it was written is shown as it was meant: for
\* every description made of paragraphs, lists and text outside both, however
\* many and however deep its inline tags, every word is there, in order and
\* under its style, a line to each paragraph and item, and the items of each
\* ordered list numbered from 1 (gs_modulix_html_to_pango()).
THEOREM DescriptionsRendered == MarkupSpec => []RendersDescription
<1>1. MarkupInit => RenderInv
  BY RenderInvInit
<1>2. RenderInv /\ [MarkupNext]_vars => RenderInv'
  BY RenderInvNext
<1>3. RenderInv => RendersDescription
  BY RenderInvRenders
<1> QED
  BY <1>1, <1>2, <1>3, PTL DEF MarkupSpec

-------------------------------------------------------------------------------
(***************************************************************************)
(* The markup of a text that is cut, beside that of the whole: a beginning *)
(* of it, after which the elements then open are closed.                   *)
(***************************************************************************)
Closes(r) == \E i \in 1 .. Len(r) : r[i] \in Ends
Grows(s, t) ==
  \E m \in Seq(Drawn), r \in Seq(Drawn), e \in Seq(Ends) :
    s = Joined(m, e) /\ t = Joined(m, r) /\ (e # <<>> => Closes(r))

LEMMA JoinedTyped ==
  ASSUME NEW S, NEW s \in Seq(S), NEW t \in Seq(S)
  PROVE  Joined(s, t) \in Seq(S)
BY ConcatProperties DEF Joined

LEMMA JoinedEmpty ==
  ASSUME NEW S, NEW s \in Seq(S)
  PROVE  Joined(s, <<>>) = s /\ Joined(<<>>, s) = s
BY ConcatEmptySeq DEF Joined

LEMMA EndsDrawn == \A e \in Seq(Ends) : e \in Seq(Drawn) /\ e \in Seq(Marked)
<1>1. Ends \subseteq Drawn /\ Ends \subseteq Marked
  BY DEF Drawn, Marked
<1> QED
  BY <1>1, SeqMonotonic

LEMMA MarkedDrawn == \A s \in Seq(Marked) : s \in Seq(Drawn)
<1>1. Marked \subseteq Drawn
  BY DEF Drawn
<1> QED
  BY <1>1, SeqMonotonic

LEMMA ClosesJoined ==
  ASSUME NEW S, NEW s \in Seq(S), NEW t \in Seq(S), Closes(s) \/ Closes(t)
  PROVE  Closes(Joined(s, t))
<1> DEFINE u == s \o t
           m == Len(s)
           n == Len(t)
<1>1. /\ m \in Nat /\ n \in Nat /\ Len(u) = m + n
      /\ \A i \in 1 .. m + n : u[i] = IF i <= m THEN s[i] ELSE t[i - m]
  BY ConcatProperties, LenProperties
<1> HIDE DEF u
<1>2. CASE Closes(s)
  <2>1. PICK i \in 1 .. m : s[i] \in Ends
    BY <1>2 DEF Closes
  <2> HIDE DEF m, n
  <2>2. i \in 1 .. m + n /\ u[i] = s[i]
    BY <1>1
  <2> QED
    BY <1>1, <2>1, <2>2 DEF Closes, Joined, u
<1>3. CASE Closes(t)
  <2>1. PICK i \in 1 .. n : t[i] \in Ends
    BY <1>3 DEF Closes
  <2> HIDE DEF m, n
  <2>2. m + i \in 1 .. m + n /\ u[m + i] = t[i]
    BY <1>1
  <2> QED
    BY <1>1, <2>1, <2>2 DEF Closes, Joined, u
<1> QED
  BY <1>2, <1>3

LEMMA GrowsFrom ==
  ASSUME NEW s \in Seq(Drawn), NEW x \in Seq(Drawn)
  PROVE  Grows(s, Joined(s, x))
<1> DEFINE none == <<>>
<1>1. none \in Seq(Ends) /\ s = Joined(s, none)
  BY JoinedEmpty
<1>2. none = <<>>
  OBVIOUS
<1> HIDE DEF none
<1> QED
  BY <1>1, <1>2 DEF Grows

LEMMA GrowsAfter ==
  ASSUME NEW o \in Seq(Drawn), NEW s, NEW t, Grows(s, t)
  PROVE  Grows(Joined(o, s), Joined(o, t))
<1>1. PICK m \in Seq(Drawn), r \in Seq(Drawn), e \in Seq(Ends) :
        s = Joined(m, e) /\ t = Joined(m, r) /\ (e # <<>> => Closes(r))
  BY DEF Grows
<1>2. e \in Seq(Drawn)
  BY EndsDrawn
<1>3. Joined(o, m) \in Seq(Drawn)
  BY JoinedTyped
<1>4. Joined(o, s) = Joined(Joined(o, m), e) /\ Joined(o, t) = Joined(Joined(o, m), r)
  BY <1>1, <1>2, JoinedAssoc
<1> QED
  BY <1>1, <1>3, <1>4 DEF Grows

LEMMA GrowsMore ==
  ASSUME NEW s, NEW t, Grows(s, t), NEW x \in Seq(Drawn)
  PROVE  Grows(s, Joined(t, x))
<1>1. PICK m \in Seq(Drawn), r \in Seq(Drawn), e \in Seq(Ends) :
        s = Joined(m, e) /\ t = Joined(m, r) /\ (e # <<>> => Closes(r))
  BY DEF Grows
<1>2. Joined(r, x) \in Seq(Drawn) /\ Joined(t, x) = Joined(m, Joined(r, x))
  BY <1>1, JoinedAssoc, JoinedTyped
<1>3. Closes(r) => Closes(Joined(r, x))
  BY ClosesJoined
<1> QED
  BY <1>1, <1>2, <1>3 DEF Grows

LEMMA GrowsClosed ==
  ASSUME NEW s, NEW t, Grows(s, t), NEW c \in Seq(Ends)
  PROVE  Grows(Joined(s, c), Joined(t, c))
<1>1. PICK m \in Seq(Drawn), r \in Seq(Drawn), e \in Seq(Ends) :
        s = Joined(m, e) /\ t = Joined(m, r) /\ (e # <<>> => Closes(r))
  BY DEF Grows
<1>2. e \in Seq(Drawn) /\ c \in Seq(Drawn)
  BY EndsDrawn
<1>3. Joined(r, c) \in Seq(Drawn) /\ Joined(e, c) \in Seq(Ends)
  BY <1>2, JoinedTyped
<1>4. Joined(t, c) = Joined(m, Joined(r, c)) /\ Joined(s, c) = Joined(m, Joined(e, c))
  BY <1>1, <1>2, JoinedAssoc
<1>5. Joined(e, c) # <<>> => Closes(Joined(r, c))
  <2>1. CASE c = <<>>
    <3>1. Joined(e, c) = e
      BY <2>1, JoinedEmpty
    <3> QED
      BY <1>1, <1>2, <3>1, ClosesJoined
  <2>2. CASE c # <<>>
    <3>1. Len(c) \in Nat \ {0}
      BY <2>2, EmptySeq
    <3>2. c[1] \in Ends /\ 1 \in 1 .. Len(c)
      BY <3>1, ElementOfSeq
    <3>3. Closes(c)
      BY <3>2 DEF Closes
    <3> QED
      BY <1>2, <3>3, ClosesJoined
  <2> QED
    BY <2>1, <2>2
<1> QED
  BY <1>3, <1>4, <1>5 DEF Grows

-------------------------------------------------------------------------------
(***************************************************************************)
(* A markup without its elements.                                          *)
(***************************************************************************)
Bare(s) == [n \in DOMAIN s |-> IF s[n] \in Elements THEN <<>> ELSE <<s[n]>>]

LEMMA BareTyped ==
  ASSUME NEW S, NEW s \in Seq(S)
  PROVE  /\ TextOf(s) = FlattenSeq(Bare(s)) /\ Bare(s) \in Seq(Seq(S)) /\ Len(Bare(s)) = Len(s)
         /\ \A i \in 1 .. Len(s) : Bare(s)[i] = IF s[i] \in Elements THEN <<>> ELSE <<s[i]>>
<1> DEFINE part(i) == IF s[i] \in Elements THEN <<>> ELSE <<s[i]>>
           n == Len(s)
<1>1. n \in Nat /\ DOMAIN s = 1 .. n /\ \A i \in 1 .. n : s[i] \in S
  BY LenProperties, ElementOfSeq
<1>2. \A i \in 1 .. n : part(i) \in Seq(S)
  <2>1. ASSUME NEW i \in 1 .. n
        PROVE  part(i) \in Seq(S)
    <3>1. <<s[i]>> \in Seq(S) /\ <<>> \in Seq(S)
      BY <1>1, OneToken
    <3> QED
      BY <3>1
  <2> QED
    BY <2>1
<1>3. Bare(s) = [i \in 1 .. n |-> part(i)]
  BY <1>1 DEF Bare
<1>4. TextOf(s) = FlattenSeq(Bare(s))
  BY DEF TextOf, Bare, Elements
<1>5. \A i \in 1 .. n : part(i) = IF s[i] \in Elements THEN <<>> ELSE <<s[i]>>
  OBVIOUS
<1>0. n = Len(s)
  OBVIOUS
<1> HIDE DEF part, n
<1>6. /\ Bare(s) \in Seq(Seq(S)) /\ Len(Bare(s)) = n
      /\ \A i \in 1 .. n : Bare(s)[i] = part(i)
  BY <1>1, <1>2, <1>3
<1> QED
  BY <1>0, <1>4, <1>5, <1>6

LEMMA TextOfTyped ==
  ASSUME NEW S, NEW s \in Seq(S)
  PROVE  TextOf(s) \in Seq(S)
BY BareTyped, FlattenTyped

LEMMA TextOfJoined ==
  ASSUME NEW S, NEW s \in Seq(S), NEW t \in Seq(S)
  PROVE  TextOf(Joined(s, t)) = Joined(TextOf(s), TextOf(t))
<1> DEFINE u == Joined(s, t)
           a == Bare(s)
           b == Bare(t)
           c == Bare(u)
           d == a \o b
           m == Len(s)
           n == Len(t)
<1>1. /\ u \in Seq(S) /\ m \in Nat /\ n \in Nat /\ Len(u) = m + n
      /\ \A i \in 1 .. m + n : u[i] = IF i <= m THEN s[i] ELSE t[i - m]
  BY ConcatProperties, LenProperties DEF Joined
<1>2. /\ a \in Seq(Seq(S)) /\ Len(a) = m
      /\ \A i \in 1 .. m : a[i] = IF s[i] \in Elements THEN <<>> ELSE <<s[i]>>
  BY BareTyped
<1>3. /\ b \in Seq(Seq(S)) /\ Len(b) = n
      /\ \A i \in 1 .. n : b[i] = IF t[i] \in Elements THEN <<>> ELSE <<t[i]>>
  BY BareTyped
<1> HIDE DEF u, m, n
<1>4. /\ c \in Seq(Seq(S)) /\ Len(c) = m + n
      /\ \A i \in 1 .. m + n : c[i] = IF u[i] \in Elements THEN <<>> ELSE <<u[i]>>
  BY <1>1, BareTyped
<1> HIDE DEF a, b, c
<1>5. /\ d \in Seq(Seq(S)) /\ Len(d) = m + n
      /\ \A i \in 1 .. m + n : d[i] = IF i <= m THEN a[i] ELSE b[i - m]
  <2> DEFINE T == Seq(S)
  <2>0. a \in Seq(T) /\ b \in Seq(T)
    BY <1>2, <1>3
  <2> HIDE DEF T
  <2>1. /\ a \o b \in Seq(T) /\ Len(a \o b) = Len(a) + Len(b)
        /\ \A i \in 1 .. Len(a) + Len(b) : (a \o b)[i] = IF i <= Len(a) THEN a[i] ELSE b[i - Len(a)]
    BY <2>0, ConcatProperties
  <2>2. Len(a) = m /\ Len(b) = n
    BY <1>2, <1>3
  <2>3. /\ d \in Seq(T) /\ Len(d) = m + n
        /\ \A i \in 1 .. m + n : d[i] = IF i <= m THEN a[i] ELSE b[i - m]
    BY <2>1, <2>2
  <2> QED
    BY <2>3 DEF T
<1> HIDE DEF d
<1>6. \A i \in 1 .. m + n : c[i] = d[i]
  <2>1. ASSUME NEW i \in 1 .. m + n
        PROVE  c[i] = d[i]
    <3>1. CASE i <= m
      <4>1. i \in 1 .. m /\ u[i] = s[i] /\ d[i] = a[i]
        BY <1>1, <1>5, <3>1
      <4> QED
        BY <1>2, <1>4, <4>1
    <3>2. CASE ~(i <= m)
      <4>1. i - m \in 1 .. n /\ u[i] = t[i - m] /\ d[i] = b[i - m]
        BY <1>1, <1>5, <3>2
      <4> QED
        BY <1>3, <1>4, <4>1
    <3> QED
      BY <3>1, <3>2
  <2> QED
    BY <2>1
<1>7. c = d
  BY <1>4, <1>5, <1>6, SeqEqual
<1>8. FlattenSeq(d) = Joined(FlattenSeq(a), FlattenSeq(b))
  BY <1>2, <1>3, FlattenConcat DEF d, Joined
<1>9. TextOf(u) = FlattenSeq(c) /\ TextOf(s) = FlattenSeq(a) /\ TextOf(t) = FlattenSeq(b)
  BY <1>1, BareTyped DEF a, b, c
<1> QED
  BY <1>7, <1>8, <1>9 DEF u

LEMMA TextOfEnds ==
  ASSUME NEW e \in Seq(Ends)
  PROVE  TextOf(e) = <<>>
<1> DEFINE b == Bare(e)
           T == {<<>>}
<1>1. \A i \in 1 .. Len(e) : e[i] \in Elements
  BY ElementOfSeq DEF Elements
<1>2. /\ TextOf(e) = FlattenSeq(b) /\ b \in Seq(Seq(Ends)) /\ Len(b) = Len(e)
      /\ \A i \in 1 .. Len(e) : b[i] = IF e[i] \in Elements THEN <<>> ELSE <<e[i]>>
  BY BareTyped
<1> HIDE DEF b
<1>3. \A i \in 1 .. Len(b) : b[i] \in T
  BY <1>1, <1>2
<1>4. b \in Seq(T)
  BY <1>2, <1>3, LenProperties
<1>5. <<>> \in T /\ \A s, t \in T : Joined(s, t) \in T
  BY DEF Joined
<1>6. FlattenSeq(b) \in T
  <2> HIDE DEF T
  <2> QED
    BY <1>4, <1>5, FlattenIn
<1> QED
  BY <1>2, <1>6

-------------------------------------------------------------------------------
(***************************************************************************)
(* g_strstrip(), of a markup and of one that grows from it.                *)
(***************************************************************************)
Blanks == {SPACE, NEWLINE}
StartsInk(s) == s # <<>> /\ s[1] \notin Blanks
EndsInk(s) == s # <<>> /\ s[Len(s)] \notin Blanks

LEMMA BlanksDrawn == \A b \in Seq(Blanks) : b \in Seq(Drawn)
<1>1. Blanks \subseteq Drawn
  BY DEF Blanks, Drawn, Marked
<1> QED
  BY <1>1, SeqMonotonic

LEMMA EndsInked == \A e \in Seq(Ends) : e # <<>> => StartsInk(e) /\ EndsInk(e)
<1>1. Ends \cap Blanks = {}
  BY Literals DEF Blanks, SPACE, NEWLINE
<1> SUFFICES ASSUME NEW e \in Seq(Ends), e # <<>>
             PROVE  StartsInk(e) /\ EndsInk(e)
  OBVIOUS
<1>2. Len(e) \in Nat \ {0}
  BY EmptySeq
<1>3. e[1] \in Ends /\ e[Len(e)] \in Ends
  BY <1>2, ElementOfSeq
<1> QED
  BY <1>1, <1>3 DEF StartsInk, EndsInk

LEMMA InkJoined ==
  ASSUME NEW S, NEW s \in Seq(S), NEW t \in Seq(S)
  PROVE  /\ StartsInk(s) => StartsInk(Joined(s, t)) /\ Joined(s, t)[1] = s[1]
         /\ EndsInk(t) => EndsInk(Joined(s, t))
<1> DEFINE u == s \o t
           m == Len(s)
           n == Len(t)
<1>1. /\ m \in Nat /\ n \in Nat /\ u \in Seq(S) /\ Len(u) = m + n
      /\ \A i \in 1 .. m + n : u[i] = IF i <= m THEN s[i] ELSE t[i - m]
  BY ConcatProperties, LenProperties
<1>2. (s = <<>> <=> m = 0) /\ (t = <<>> <=> n = 0)
  BY EmptySeq
<1> HIDE DEF u
<1>3. u = <<>> <=> m + n = 0
  BY <1>1, EmptySeq
<1>0. m = Len(s) /\ n = Len(t)
  OBVIOUS
<1> HIDE DEF m, n
<1>4. StartsInk(s) => StartsInk(u) /\ u[1] = s[1]
  <2> SUFFICES ASSUME StartsInk(s)
               PROVE  StartsInk(u) /\ u[1] = s[1]
    OBVIOUS
  <2>1. m # 0
    BY <1>2 DEF StartsInk
  <2>2. u[1] = s[1] /\ m + n # 0
    BY <1>1, <2>1
  <2> QED
    BY <1>3, <2>2 DEF StartsInk
<1>5. EndsInk(t) => EndsInk(u)
  <2> SUFFICES ASSUME EndsInk(t)
               PROVE  EndsInk(u)
    OBVIOUS
  <2>1. n # 0
    BY <1>2 DEF EndsInk
  <2>2. u[m + n] = t[n] /\ m + n # 0
    BY <1>1, <2>1
  <2> QED
    BY <1>0, <1>1, <1>3, <2>2 DEF EndsInk
<1> QED
  BY <1>4, <1>5 DEF u, Joined

\* A sequence is blank, or blanks and then something, or something and then
\* blanks.
LEMMA SplitsLeft ==
  ASSUME NEW S, NEW s \in Seq(S), s \notin Seq(Blanks)
  PROVE  \E a \in Seq(Blanks), w \in Seq(S) : s = Joined(a, w) /\ StartsInk(w)
<1> DEFINE Splits(t) == \E a \in Seq(Blanks), w \in Seq(S) : t = Joined(a, w) /\ StartsInk(w)
           good == {t \in Seq(S) : t \in Seq(Blanks) \/ Splits(t)}
<1>1. <<>> \in good
  OBVIOUS
<1>2. ASSUME NEW t \in Seq(S), NEW x \in S, t \in good
      PROVE  Append(t, x) \in good
  <2>0. Append(t, x) \in Seq(S) /\ <<x>> \in Seq(S) /\ Append(t, x) = Joined(t, <<x>>)
    BY OneToken, AppendIsConcat DEF Joined
  <2>1. CASE Splits(t)
    <3>1. PICK a \in Seq(Blanks), w \in Seq(S) : t = Joined(a, w) /\ StartsInk(w)
      BY <2>1
    <3> DEFINE T == S \cup Blanks
               one == <<x>>
    <3>2. a \in Seq(T) /\ w \in Seq(T) /\ one \in Seq(T)
      <4>1. S \subseteq T /\ Blanks \subseteq T
        OBVIOUS
      <4> HIDE DEF T
      <4> QED
        BY <2>0, <4>1, SeqMonotonic
    <3>3. Append(t, x) = Joined(Joined(a, w), one)
      BY <2>0, <3>1
    <3> HIDE DEF T, one
    <3>4. Append(t, x) = Joined(a, Joined(w, one))
      BY <3>2, <3>3, JoinedAssoc
    <3>5. Joined(w, one) \in Seq(S) /\ StartsInk(Joined(w, one))
      BY <2>0, <3>1, InkJoined, JoinedTyped DEF one
    <3> QED
      BY <2>0, <3>4, <3>5
  <2>2. CASE t \in Seq(Blanks) /\ x \in Blanks
    <3>1. Append(t, x) \in Seq(Blanks)
      BY <2>2
    <3> QED
      BY <2>0, <3>1
  <2>3. CASE t \in Seq(Blanks) /\ x \notin Blanks
    <3>1. StartsInk(<<x>>)
      BY <2>3 DEF StartsInk
    <3> QED
      BY <2>0, <2>3, <3>1
  <2> QED
    BY <1>2, <2>1, <2>2, <2>3
<1> HIDE DEF good
<1>3. Seq(S) \subseteq good
  BY <1>1, <1>2, SeqInduct
<1> QED
  BY <1>3 DEF good

LEMMA SplitsRight ==
  ASSUME NEW S, NEW s \in Seq(S), s \notin Seq(Blanks)
  PROVE  \E v \in Seq(S), b \in Seq(Blanks) : s = Joined(v, b) /\ EndsInk(v)
<1> DEFINE Splits(t) == \E v \in Seq(S), b \in Seq(Blanks) : t = Joined(v, b) /\ EndsInk(v)
           good == {t \in Seq(S) : t \in Seq(Blanks) \/ Splits(t)}
<1>1. <<>> \in good
  OBVIOUS
<1>2. ASSUME NEW t \in Seq(S), NEW x \in S, t \in good
      PROVE  Append(t, x) \in good
  <2>0. Append(t, x) \in Seq(S) /\ <<x>> \in Seq(S) /\ Append(t, x) = Joined(t, <<x>>)
    BY OneToken, AppendIsConcat DEF Joined
  <2>1. CASE x \notin Blanks
    <3>1. EndsInk(<<x>>)
      BY <2>1 DEF EndsInk
    <3>2. EndsInk(Append(t, x))
      BY <2>0, <3>1, InkJoined
    <3>3. <<>> \in Seq(Blanks) /\ Append(t, x) = Joined(Append(t, x), <<>>)
      BY <2>0, JoinedEmpty
    <3> QED
      BY <2>0, <3>2, <3>3
  <2>2. CASE x \in Blanks /\ t \in Seq(Blanks)
    <3>1. Append(t, x) \in Seq(Blanks)
      BY <2>2
    <3> QED
      BY <2>0, <3>1
  <2>3. CASE x \in Blanks /\ Splits(t)
    <3>1. PICK v \in Seq(S), b \in Seq(Blanks) : t = Joined(v, b) /\ EndsInk(v)
      BY <2>3
    <3> DEFINE T == S \cup Blanks
               one == <<x>>
    <3>0. one \in Seq(Blanks)
      BY <2>3, OneToken
    <3>2. v \in Seq(T) /\ b \in Seq(T) /\ one \in Seq(T)
      <4>1. S \subseteq T /\ Blanks \subseteq T
        OBVIOUS
      <4> HIDE DEF T
      <4> QED
        BY <2>0, <4>1, SeqMonotonic
    <3>3. Append(t, x) = Joined(Joined(v, b), one)
      BY <2>0, <3>1
    <3> HIDE DEF T, one
    <3>4. Append(t, x) = Joined(v, Joined(b, one))
      BY <3>2, <3>3, JoinedAssoc
    <3>5. Joined(b, one) \in Seq(Blanks)
      BY <3>0, JoinedTyped
    <3> QED
      BY <2>0, <3>1, <3>4, <3>5
  <2> QED
    BY <1>2, <2>1, <2>2, <2>3
<1> HIDE DEF good
<1>3. Seq(S) \subseteq good
  BY <1>1, <1>2, SeqInduct
<1> QED
  BY <1>3 DEF good

LEMMA StrippedBlank ==
  ASSUME NEW s \in Seq(Blanks)
  PROVE  Stripped(s) = <<>>
<1>1. \A n \in 1 .. Len(s) : s[n] \in Blanks
  BY ElementOfSeq
<1> QED
  BY <1>1 DEF Stripped, Blanks

LEMMA StrippedIs ==
  ASSUME NEW a \in Seq(Blanks), NEW b \in Seq(Blanks), NEW u \in Seq(Drawn), StartsInk(u), EndsInk(u)
  PROVE  Stripped(Joined(Joined(a, u), b)) = u
<1> DEFINE au == Joined(a, u)
           s == Joined(au, b)
           k == Len(a)
           n == Len(u)
           m == Len(b)
           kept == {i \in 1 .. Len(s) : s[i] \notin Blanks}
           first == CHOOSE i \in kept : \A j \in kept : i <= j
           last == CHOOSE i \in kept : \A j \in kept : j <= i
<1>1. /\ k \in Nat /\ n \in Nat /\ m \in Nat /\ n # 0
      /\ a \in Seq(Drawn) /\ b \in Seq(Drawn)
  BY BlanksDrawn, LenProperties, EmptySeq DEF StartsInk
<1>2. /\ au \in Seq(Drawn) /\ Len(au) = k + n
      /\ \A i \in 1 .. k + n : au[i] = IF i <= k THEN a[i] ELSE u[i - k]
  BY <1>1, ConcatProperties DEF Joined
<1>3. /\ s \in Seq(Drawn) /\ Len(s) = k + n + m
      /\ \A i \in 1 .. k + n + m : s[i] = IF i <= k + n THEN au[i] ELSE b[i - (k + n)]
  <2> HIDE DEF au
  <2>1. /\ s \in Seq(Drawn) /\ Len(s) = Len(au) + Len(b)
        /\ \A i \in 1 .. Len(au) + Len(b) : s[i] = IF i <= Len(au) THEN au[i] ELSE b[i - Len(au)]
    BY <1>1, <1>2, ConcatProperties DEF Joined
  <2> HIDE DEF s
  <2> QED
    BY <1>2, <2>1
<1>4. /\ \A i \in 1 .. k : a[i] \in Blanks
      /\ \A i \in 1 .. m : b[i] \in Blanks
      /\ \A i \in 1 .. n : u[i] \in Drawn
      /\ u[1] \notin Blanks /\ u[n] \notin Blanks
  BY ElementOfSeq DEF StartsInk, EndsInk
<1>5. Stripped(s) = IF kept = {} THEN <<>> ELSE SubSeq(s, first, last)
  BY DEF Stripped, Blanks
<1>0. n = Len(u)
  OBVIOUS
<1> HIDE DEF au, s, k, n, m
<1>6. /\ \A i \in 1 .. k : s[i] \in Blanks
      /\ \A i \in 1 .. n : s[k + i] = u[i]
      /\ \A i \in k + n + 1 .. k + n + m : s[i] \in Blanks
  <2>1. \A i \in 1 .. k : s[i] \in Blanks
    <3> SUFFICES ASSUME NEW i \in 1 .. k PROVE s[i] \in Blanks
      OBVIOUS
    <3>1. i \in 1 .. k + n /\ i \in 1 .. k + n + m /\ i <= k + n
      BY <1>1
    <3>2. s[i] = au[i]
      BY <1>3, <3>1
    <3>3. au[i] = a[i]
      BY <1>2, <3>1
    <3> QED
      BY <1>4, <3>2, <3>3
  <2>2. \A i \in 1 .. n : s[k + i] = u[i]
    <3> SUFFICES ASSUME NEW i \in 1 .. n PROVE s[k + i] = u[i]
      OBVIOUS
    <3> DEFINE j == k + i
    <3>1. j \in 1 .. k + n /\ j \in 1 .. k + n + m /\ ~(j <= k) /\ j - k = i /\ j <= k + n
      BY <1>1
    <3> HIDE DEF j
    <3>2. s[j] = au[j]
      BY <1>3, <3>1
    <3>3. au[j] = u[i]
      BY <1>2, <3>1
    <3> QED
      BY <3>2, <3>3 DEF j
  <2>3. \A i \in k + n + 1 .. k + n + m : s[i] \in Blanks
    <3> SUFFICES ASSUME NEW i \in k + n + 1 .. k + n + m PROVE s[i] \in Blanks
      OBVIOUS
    <3>1. i \in 1 .. k + n + m /\ ~(i <= k + n) /\ i - (k + n) \in 1 .. m
      BY <1>1
    <3> QED
      BY <1>3, <1>4, <3>1
  <2> QED
    BY <2>1, <2>2, <2>3
<1>7. /\ k + 1 \in kept /\ k + n \in kept
      /\ \A j \in kept : k + 1 <= j /\ j <= k + n /\ j \in Nat
  <2>1. 1 \in 1 .. n /\ n \in 1 .. n
    BY <1>1
  <2>2. s[k + 1] \notin Blanks /\ s[k + n] \notin Blanks
    BY <1>4, <1>6, <2>1
  <2>3. k + 1 \in 1 .. Len(s) /\ k + n \in 1 .. Len(s)
    BY <1>1, <1>3
  <2>4. \A j \in 1 .. Len(s) : s[j] \notin Blanks => k + 1 <= j /\ j <= k + n /\ j \in Nat
    BY <1>1, <1>3, <1>6
  <2> QED
    BY <2>2, <2>3, <2>4
<1>8. first = k + 1 /\ last = k + n /\ kept # {}
  <2> HIDE DEF kept
  <2>1. \A i \in kept : (\A j \in kept : i <= j) => i = k + 1
    BY <1>1, <1>7
  <2>2. \A i \in kept : (\A j \in kept : j <= i) => i = k + n
    BY <1>1, <1>7
  <2> QED
    BY <1>7, <2>1, <2>2
<1> HIDE DEF first, last, kept
<1>9. SubSeq(s, k + 1, k + n) = u
  <2> DEFINE p == k + 1
             q == k + n
  <2>1. p \in Int /\ q \in Int /\ p <= q /\ q - p + 1 = n /\ \A i \in 1 .. n : p + i - 1 = k + i
    BY <1>1
  <2>2. \A i \in p .. q : s[i] \in Drawn
    BY <1>1, <1>3, ElementOfSeq
  <2> HIDE DEF p, q
  <2>3. /\ SubSeq(s, p, q) \in Seq(Drawn) /\ Len(SubSeq(s, p, q)) = n
        /\ \A i \in 1 .. n : SubSeq(s, p, q)[i] = s[k + i]
    BY <2>1, <2>2, SubSeqProperties
  <2> DEFINE z == SubSeq(s, p, q)
  <2>4. z \in Seq(Drawn) /\ Len(z) = Len(u) /\ \A i \in 1 .. Len(z) : z[i] = u[i]
    BY <1>0, <1>6, <2>3
  <2> HIDE DEF z
  <2>5. z = u
    BY <2>4, SeqEqual
  <2> QED
    BY <2>5 DEF z, p, q
<1> QED
  BY <1>5, <1>8, <1>9 DEF s, au

LEMMA Trimmed ==
  ASSUME NEW w \in Seq(Drawn), StartsInk(w)
  PROVE  \E v \in Seq(Drawn), b \in Seq(Blanks) :
           /\ w = Joined(v, b) /\ StartsInk(v) /\ EndsInk(v)
           /\ \A a \in Seq(Blanks) : Stripped(Joined(a, w)) = v
<1>1. w \notin Seq(Blanks)
  <2> SUFFICES ASSUME w \in Seq(Blanks) PROVE FALSE
    OBVIOUS
  <2>1. w # <<>> /\ w[1] \notin Blanks
    BY DEF StartsInk
  <2>2. Len(w) \in Nat \ {0}
    BY <2>1, EmptySeq
  <2> QED
    BY <2>1, <2>2, ElementOfSeq
<1>2. PICK v \in Seq(Drawn), b \in Seq(Blanks) : w = Joined(v, b) /\ EndsInk(v)
  BY <1>1, SplitsRight
<1>3. StartsInk(v)
  <2>1. v # <<>>
    BY <1>2 DEF EndsInk
  <2>2. 1 \in 1 .. Len(v) /\ b \in Seq(Drawn)
    BY <2>1, EmptySeq, BlanksDrawn
  <2>3. w[1] = v[1]
    BY <1>2, <2>2, ConcatProperties DEF Joined
  <2> QED
    BY <2>1, <2>3 DEF StartsInk
<1>4. ASSUME NEW a \in Seq(Blanks)
      PROVE  Stripped(Joined(a, w)) = v
  <2>1. a \in Seq(Drawn) /\ b \in Seq(Drawn)
    BY BlanksDrawn
  <2>2. Joined(a, w) = Joined(Joined(a, v), b)
    BY <1>2, <2>1, JoinedAssoc
  <2> QED
    BY <1>2, <1>3, <2>2, StrippedIs
<1> QED
  BY <1>2, <1>3, <1>4

LEMMA StrippedTyped ==
  ASSUME NEW s \in Seq(Drawn)
  PROVE  Stripped(s) \in Seq(Drawn)
<1>1. CASE s \in Seq(Blanks)
  <2>1. Stripped(s) = <<>>
    BY <1>1, StrippedBlank
  <2>2. <<>> \in Seq(Drawn)
    OBVIOUS
  <2> QED
    BY <2>1, <2>2
<1>2. CASE s \notin Seq(Blanks)
  <2>1. PICK a \in Seq(Blanks), w \in Seq(Drawn) : s = Joined(a, w) /\ StartsInk(w)
    BY <1>2, SplitsLeft
  <2> QED
    BY <2>1, Trimmed
<1> QED
  BY <1>1, <1>2

LEMMA PrefixJoined ==
  ASSUME NEW S, NEW s \in Seq(S), NEW x \in Seq(S)
  PROVE  IsPrefix(s, Joined(s, x))
<1> DEFINE t == Joined(s, x)
<1>1. /\ t \in Seq(S) /\ Len(t) = Len(s) + Len(x) /\ Len(s) \in Nat /\ Len(x) \in Nat
      /\ SubSeq(t, 1, Len(s)) = s /\ SubSeq(s, 1, Len(s)) = s
  BY ConcatProperties, LenProperties, SubSeqOfConcat1, SubSeqFull DEF Joined
<1> HIDE DEF t
<1>2. Len(s) <= Len(t)
  BY <1>1
<1>3. IsPrefix(s, t)
  BY <1>1, <1>2 DEF IsPrefix
<1> QED
  BY <1>3 DEF t

\* A markup stripped is the beginning of one that grows from it, stripped.
LEMMA StrippedGrows ==
  ASSUME NEW s, NEW t, Grows(s, t)
  PROVE  IsPrefix(TextOf(Stripped(s)), TextOf(Stripped(t)))
<1> DEFINE Shorter(x, y) == IsPrefix(TextOf(x), TextOf(y))
<1>1. PICK m \in Seq(Drawn), r \in Seq(Drawn), e \in Seq(Ends) :
        s = Joined(m, e) /\ t = Joined(m, r) /\ (e # <<>> => Closes(r))
  BY DEF Grows
<1>2. e \in Seq(Drawn)
  BY EndsDrawn
<1>3. ASSUME NEW x \in Seq(Drawn), NEW y \in Seq(Drawn)
      PROVE  Shorter(x, Joined(x, y))
  BY TextOfTyped, TextOfJoined, PrefixJoined
<1>4. <<>> \in Seq(Drawn) /\ <<>> \in Seq(Blanks) /\ <<>> \in Seq(Ends)
  OBVIOUS
<1>5. \A x \in Seq(Drawn) : Joined(<<>>, x) = x /\ Joined(x, <<>>) = x
  BY JoinedEmpty
<1>6. CASE m \in Seq(Blanks)
  <2>1. Stripped(s) \in Seq(Ends)
    <3>1. CASE e = <<>>
      <4>1. s = m
        BY <1>1, <1>5, <3>1
      <4> QED
        BY <1>4, <1>6, <4>1, StrippedBlank
    <3>2. CASE e # <<>>
      <4>1. StartsInk(e) /\ EndsInk(e)
        BY <3>2, EndsInked
      <4>2. s \in Seq(Drawn)
        BY <1>1, <1>2, JoinedTyped
      <4>3. s = Joined(Joined(m, e), <<>>)
        BY <1>1, <1>5, <4>2
      <4>4. Stripped(s) = e
        BY <1>2, <1>4, <1>6, <4>1, <4>3, StrippedIs
      <4> QED
        BY <4>4
    <3> QED
      BY <3>1, <3>2
  <2>2. TextOf(Stripped(s)) = <<>>
    BY <2>1, TextOfEnds
  <2>3. t \in Seq(Drawn)
    BY <1>1, JoinedTyped
  <2>4. TextOf(Stripped(t)) \in Seq(Drawn)
    BY <2>3, StrippedTyped, TextOfTyped
  <2>5. IsPrefix(<<>>, Joined(<<>>, TextOf(Stripped(t))))
    BY <1>4, <2>4, PrefixJoined
  <2> QED
    BY <1>5, <2>2, <2>4, <2>5
<1>7. CASE m \notin Seq(Blanks)
  <2>1. PICK a \in Seq(Blanks), w \in Seq(Drawn) : m = Joined(a, w) /\ StartsInk(w)
    BY <1>7, SplitsLeft
  <2>2. a \in Seq(Drawn)
    BY BlanksDrawn
  <2>3. CASE e = <<>>
    <3>1. PICK v \in Seq(Drawn), b \in Seq(Blanks) :
            /\ w = Joined(v, b) /\ StartsInk(v) /\ EndsInk(v)
            /\ Stripped(Joined(a, w)) = v
      BY <2>1, Trimmed
    <3>2. b \in Seq(Drawn)
      BY BlanksDrawn
    <3>3. s = m /\ Stripped(s) = v
      BY <1>1, <1>5, <2>1, <2>3, <3>1
    <3> DEFINE y == Joined(b, r)
    <3>4. y \in Seq(Drawn)
      BY <3>2, JoinedTyped
    <3>5. t = Joined(a, Joined(v, y))
      <4>1. t = Joined(a, Joined(w, r))
        BY <1>1, <2>1, <2>2, JoinedAssoc
      <4>2. Joined(w, r) = Joined(v, y)
        BY <3>1, <3>2, JoinedAssoc
      <4> QED
        BY <4>1, <4>2
    <3> HIDE DEF y
    <3>6. CASE y \in Seq(Blanks)
      <4>1. t = Joined(Joined(a, v), y)
        BY <2>2, <3>4, <3>5, JoinedAssoc
      <4>2. Stripped(t) = v
        BY <3>1, <3>6, <4>1, StrippedIs
      <4>3. Shorter(v, Joined(v, <<>>))
        BY <1>3, <1>4
      <4> QED
        BY <1>5, <3>3, <4>2, <4>3
    <3>7. CASE y \notin Seq(Blanks)
      <4>1. PICK z \in Seq(Drawn), c \in Seq(Blanks) : y = Joined(z, c) /\ EndsInk(z)
        BY <3>4, <3>7, SplitsRight
      <4>2. c \in Seq(Drawn) /\ Joined(v, z) \in Seq(Drawn)
        BY BlanksDrawn, JoinedTyped
      <4>3. Joined(v, y) = Joined(Joined(v, z), c)
        BY <4>1, <4>2, JoinedAssoc
      <4>4. t = Joined(Joined(a, Joined(v, z)), c)
        BY <2>2, <3>5, <4>2, <4>3, JoinedAssoc
      <4>5. StartsInk(Joined(v, z)) /\ EndsInk(Joined(v, z))
        BY <3>1, <4>1, InkJoined
      <4>6. Stripped(t) = Joined(v, z)
        BY <4>2, <4>4, <4>5, StrippedIs
      <4> QED
        BY <1>3, <3>3, <4>6
    <3> QED
      BY <3>6, <3>7
  <2>4. CASE e # <<>>
    <3>1. Stripped(s) = Joined(w, e)
      <4>1. Joined(w, e) \in Seq(Drawn) /\ StartsInk(Joined(w, e)) /\ EndsInk(Joined(w, e))
        BY <1>2, <2>1, <2>4, EndsInked, InkJoined, JoinedTyped
      <4>2. s = Joined(a, Joined(w, e))
        BY <1>1, <1>2, <2>1, <2>2, JoinedAssoc
      <4>3. s \in Seq(Drawn)
        BY <2>2, <4>1, <4>2, JoinedTyped
      <4>4. s = Joined(Joined(a, Joined(w, e)), <<>>)
        BY <1>5, <4>2, <4>3
      <4> QED
        BY <1>4, <4>1, <4>4, StrippedIs
    <3>2. TextOf(Stripped(s)) = TextOf(w)
      <4>1. TextOf(Joined(w, e)) = Joined(TextOf(w), TextOf(e))
        BY <1>2, TextOfJoined
      <4>2. TextOf(e) = <<>> /\ TextOf(w) \in Seq(Drawn)
        BY TextOfEnds, TextOfTyped
      <4> QED
        BY <1>5, <3>1, <4>1, <4>2
    <3>3. r \notin Seq(Blanks)
      <4>1. PICK i \in 1 .. Len(r) : r[i] \in Ends
        BY <1>1, <2>4 DEF Closes
      <4>2. Ends \cap Blanks = {}
        BY Literals DEF Blanks, SPACE, NEWLINE
      <4> QED
        BY <4>1, <4>2, ElementOfSeq
    <3>4. PICK z \in Seq(Drawn), c \in Seq(Blanks) : r = Joined(z, c) /\ EndsInk(z)
      BY <3>3, SplitsRight
    <3>5. c \in Seq(Drawn) /\ Joined(w, z) \in Seq(Drawn)
      BY BlanksDrawn, JoinedTyped
    <3>6. t = Joined(Joined(a, Joined(w, z)), c)
      <4>1. t = Joined(a, Joined(w, r))
        BY <1>1, <2>1, <2>2, JoinedAssoc
      <4>2. Joined(w, r) = Joined(Joined(w, z), c)
        BY <3>4, <3>5, JoinedAssoc
      <4> QED
        BY <2>2, <3>5, <4>1, <4>2, JoinedAssoc
    <3>7. StartsInk(Joined(w, z)) /\ EndsInk(Joined(w, z))
      BY <2>1, <3>4, InkJoined
    <3>8. Stripped(t) = Joined(w, z)
      BY <3>5, <3>6, <3>7, StrippedIs
    <3> QED
      BY <1>3, <3>2, <3>8
  <2> QED
    BY <2>3, <2>4
<1> QED
  BY <1>6, <1>7

-------------------------------------------------------------------------------
(***************************************************************************)
(* The scanner, at a text whose tags are whole and at one that goes on.    *)
(***************************************************************************)
From(s, m) == SubSeq(s, m, Len(s))

LEMMA FromJoined ==
  ASSUME NEW S, NEW s \in Seq(S), NEW t \in Seq(S), NEW m \in 1 .. Len(s) + 1
  PROVE  From(Joined(s, t), m) = Joined(From(s, m), t) /\ From(s, m) \in Seq(S)
<1> DEFINE u == Joined(s, t)
           k == Len(s)
           n == Len(u)
<1>1. k \in Nat /\ Len(t) \in Nat /\ u \in Seq(S) /\ n = k + Len(t) /\ m \in Nat
  BY ConcatProperties, LenProperties DEF Joined
<1>2. SubSeq(u, m, k) \o SubSeq(u, k + 1, n) = SubSeq(u, m, n)
  <2> HIDE DEF u
  <2>1. m \in 1 .. n + 1 /\ k \in m - 1 .. n /\ n \in k .. n
    BY <1>1
  <2> QED
    BY <1>1, <2>1, ConcatAdjacentSubSeq
<1>3. SubSeq(u, m, k) = SubSeq(s, m, k) /\ SubSeq(s, m, k) \in Seq(S)
  <2>1. CASE m \in 1 .. k
    <3>1. k \in 1 .. k
      BY <1>1, <2>1
    <3>2. \A i \in m .. k : s[i] \in S
      BY <2>1, <1>1, ElementOfSeq
    <3> QED
      BY <1>1, <2>1, <3>1, <3>2, SubSeqOfConcat1, SubSeqProperties DEF Joined
  <2>2. CASE m = k + 1
    <3>1. \A v : SubSeq(v, k + 1, k) = <<>>
      BY <1>1
    <3> QED
      BY <2>2, <3>1
  <2> QED
    BY <1>1, <2>1, <2>2
<1>4. SubSeq(u, k + 1, n) = t
  <2>1. CASE t = <<>>
    <3>1. n = k
      BY <1>1, <2>1
    <3>2. SubSeq(u, k + 1, k) = <<>>
      BY <1>1
    <3> QED
      BY <2>1, <3>1, <3>2
  <2>2. CASE t # <<>>
    <3>1. Len(t) # 0
      BY <2>2, EmptySeq
    <3>2. k + 1 \in k + 1 .. k + Len(t) /\ n \in k + 1 .. k + Len(t)
      BY <1>1, <3>1
    <3>3. SubSeq(u, k + 1, n) = SubSeq(t, k + 1 - k, n - k)
      BY <3>2, SubSeqOfConcat2 DEF Joined
    <3>4. k + 1 - k = 1 /\ n - k = Len(t)
      BY <1>1
    <3> QED
      BY <3>3, <3>4, SubSeqFull
  <2> QED
    BY <2>1, <2>2
<1> HIDE DEF u
<1>5. SubSeq(u, m, n) = SubSeq(s, m, k) \o t
  BY <1>2, <1>3, <1>4
<1> QED
  BY <1>3, <1>5 DEF From, Joined, u

LEMMA WholeFrom ==
  ASSUME NEW s \in Text, TagsWhole(s), NEW m \in 1 .. Len(s) + 1
  PROVE  TagsWhole(From(s, m))
<1> DEFINE n == Len(s)
           z == From(s, m)
<1>1. n \in Nat /\ m \in Nat /\ DOMAIN s = 1 .. n
  BY LenProperties DEF Text
<1>2. \A i \in m .. n : s[i] \in Token
  BY <1>1, ElementOfSeq DEF Text
<1>3. z \in Seq(Token) /\ Len(z) = n - m + 1 /\ \A i \in 1 .. n - m + 1 : z[i] = s[m + i - 1]
  BY <1>1, <1>2, SubSeqProperties DEF From
<1>4. DOMAIN z = 1 .. n - m + 1
  BY <1>3, LenProperties
<1> HIDE DEF n, z
<1> SUFFICES ASSUME NEW i \in 1 .. n - m + 1, z[i] = LT
             PROVE  \E k \in i .. Len(z) : z[k] = GT
  BY <1>4 DEF TagsWhole, z
<1>5. m + i - 1 \in 1 .. n /\ s[m + i - 1] = LT
  BY <1>1, <1>3
<1>6. PICK k \in m + i - 1 .. n : s[k] = GT
  BY <1>1, <1>5 DEF TagsWhole, n
<1> DEFINE j == k - m + 1
<1>7. j \in i .. n - m + 1 /\ j \in 1 .. n - m + 1 /\ m + j - 1 = k
  BY <1>1
<1> HIDE DEF j
<1>8. z[j] = GT
  BY <1>3, <1>6, <1>7
<1> QED
  BY <1>3, <1>7, <1>8

\* The first tag of a text, where it ends and what is read of it.
LEMMA TagEnds ==
  ASSUME NEW s \in Text, s # <<>>, ~NoTagAt(s), NEW size
  PROVE  \E n \in 2 .. Len(s) :
           /\ s[1] = LT /\ s[n] = GT /\ \A i \in 2 .. n - 1 : s[i] # GT
           /\ NextOf(s, GT, 2) = n
<1> DEFINE at == {n \in 2 .. Len(s) : s[n] = GT}
           end == NextOf(s, GT, 2)
<1>1. at # {} /\ end = CHOOSE n \in at : \A k \in at : n <= k
  BY DEF NoTagAt, NextOf
<1>2. at \in SUBSET Nat
  BY DEF Text
<1>3. \E n \in at : \A k \in at : n <= k
  <2> HIDE DEF at
  <2> QED
    BY <1>1, <1>2, LeastNatural
<1>4. end \in at /\ \A k \in at : end <= k
  <2> HIDE DEF at, end
  <2> QED
    BY <1>1, <1>3
<1>5. s[1] = LT
  BY DEF NoTagAt, Text
<1>6. Len(s) \in Nat
  BY LenProperties DEF Text
<1>0. end = NextOf(s, GT, 2)
  OBVIOUS
<1> HIDE DEF end
<1>7. end \in 2 .. Len(s) /\ s[end] = GT
  BY <1>4
<1>8. \A i \in 2 .. end - 1 : s[i] # GT
  BY <1>4, <1>6, <1>7
<1> QED
  BY <1>0, <1>5, <1>7, <1>8

\* More text after it changes nothing to a tag.
LEMMA TagKeeps ==
  ASSUME NEW p \in Text, p # <<>>, ~NoTagAt(p), NEW q \in Text, NEW size
  PROVE  Reads(Joined(p, q), size, TagAt(p, size).name, TagAt(p, size).closing,
               Joined(TagAt(p, size).rest, q))
<1> DEFINE s == Joined(p, q)
           m == Len(p)
<1>1. PICK n \in 2 .. m :
        /\ p[1] = LT /\ p[n] = GT /\ \A i \in 2 .. n - 1 : p[i] # GT
        /\ NextOf(p, GT, 2) = n
  BY TagEnds
<1>2. /\ p \in Seq(Token) /\ q \in Seq(Token) /\ m \in Nat /\ Len(q) \in Nat
      /\ s \in Seq(Token) /\ Len(s) = m + Len(q)
      /\ \A i \in 1 .. m : s[i] = p[i]
  BY ConcatProperties, LenProperties DEF Text, Joined
<1>0. m = Len(p)
  OBVIOUS
<1>3. \A i, j \in 1 .. m : SubSeq(s, i, j) = SubSeq(p, i, j)
  BY <1>2, SubSeqOfConcat1 DEF Joined
<1>4. From(s, n + 1) = Joined(From(p, n + 1), q)
  <2>1. n + 1 \in 1 .. m + 1
    BY <1>2
  <2> QED
    BY <1>2, <2>1, FromJoined
<1> HIDE DEF s, m
<1>5. n \in 2 .. Len(s) /\ s[1] = LT /\ s[2] = p[2] /\ s[n] = GT /\ \A i \in 2 .. n - 1 : s[i] # GT
  BY <1>1, <1>2
<1> DEFINE at == {i \in 2 .. Len(s) : s[i] = GT}
<1>6. n \in at /\ \A k \in at : n <= k
  BY <1>1, <1>2, <1>5
<1>7. NextOf(s, GT, 2) = n
  <2>0. \A j \in at : j \in Int
    BY <1>2
  <2>1. at # {} /\ \A j \in at : (\A k \in at : j <= k) => j = n
    <3> HIDE DEF at
    <3> QED
      BY <1>6, <2>0
  <2>2. NextOf(s, GT, 2) = IF at = {} THEN 0 ELSE CHOOSE j \in at : \A k \in at : j <= k
    BY DEF NextOf
  <2> HIDE DEF at
  <2> QED
    BY <1>6, <2>1, <2>2
<1>8. Head(s) = LT /\ s # <<>>
  BY <1>2, <1>5
<1>9. ~NoTagAt(s)
  BY <1>5, <1>7, <1>8 DEF NoTagAt
<1> DEFINE j == IF p[2] = SLASH THEN 3 ELSE 2
<1>10. SubSeq(s, j, n - 1) = SubSeq(p, j, n - 1)
  <2>1. p[2] = SLASH => n # 2
    BY <1>1 DEF SLASH, GT
  <2>2. j \in 1 .. m /\ n - 1 \in 1 .. m
    BY <1>2, <2>1
  <2> HIDE DEF j
  <2> QED
    BY <1>3, <2>2
<1>11. TagAt(s, size) = [name |-> ExtractTagName(SubSeq(s, j, n - 1), size),
                         closing |-> p[2] = SLASH, rest |-> From(s, n + 1)]
  BY <1>5, <1>7 DEF TagAt, From
<1>12. TagAt(p, size) = [name |-> ExtractTagName(SubSeq(p, j, n - 1), size),
                         closing |-> p[2] = SLASH, rest |-> From(p, n + 1)]
  BY <1>1 DEF TagAt, From
<1> HIDE DEF j
<1>13. /\ TagAt(s, size).name = TagAt(p, size).name
       /\ TagAt(s, size).closing = TagAt(p, size).closing
       /\ TagAt(s, size).rest = Joined(TagAt(p, size).rest, q)
  <2> DEFINE name == ExtractTagName(SubSeq(p, j, n - 1), size)
             closing == p[2] = SLASH
             rest == From(p, n + 1)
             more == From(s, n + 1)
  <2>1. TagAt(s, size) = [name |-> name, closing |-> closing, rest |-> more]
    BY <1>10, <1>11
  <2>2. TagAt(p, size) = [name |-> name, closing |-> closing, rest |-> rest]
    BY <1>12
  <2>3. more = Joined(rest, q)
    BY <1>4
  <2> HIDE DEF name, closing, rest, more
  <2> QED
    BY <2>1, <2>2, <2>3
<1>14. s \in Text
  BY <1>2 DEF Text
<1>15. Reads(s, size, TagAt(p, size).name, TagAt(p, size).closing, Joined(TagAt(p, size).rest, q))
  BY <1>8, <1>9, <1>13, <1>14 DEF Reads
<1> QED
  BY <1>15 DEF s

\* The tags that follow a tag are whole as well.
LEMMA TagLeavesWhole ==
  ASSUME NEW p \in Text, p # <<>>, ~NoTagAt(p), TagsWhole(p), NEW size
  PROVE  TagsWhole(TagAt(p, size).rest)
<1>1. PICK n \in 2 .. Len(p) : NextOf(p, GT, 2) = n
  BY TagEnds
<1>2. TagAt(p, size).rest = From(p, n + 1)
  BY <1>1 DEF TagAt, From
<1>3. n + 1 \in 1 .. Len(p) + 1
  BY LenProperties DEF Text
<1> QED
  BY <1>2, <1>3, WholeFrom

\* A character taken as such is taken as such in the longer text.
LEMMA PlainKeeps ==
  ASSUME NEW p \in Text, p # <<>>, NoTagAt(p), TagsWhole(p), NEW q \in Text
  PROVE  /\ Joined(p, q) \in Text /\ Joined(p, q) # <<>> /\ NoTagAt(Joined(p, q))
         /\ Head(Joined(p, q)) = Head(p) /\ Tail(Joined(p, q)) = Joined(Tail(p), q)
         /\ TagsWhole(Tail(p))
<1> DEFINE s == Joined(p, q)
           m == Len(p)
<1>1. /\ p \in Seq(Token) /\ q \in Seq(Token) /\ m \in Nat /\ m # 0 /\ Len(q) \in Nat
      /\ s \in Seq(Token) /\ Len(s) = m + Len(q)
      /\ \A i \in 1 .. m : s[i] = p[i]
  BY ConcatProperties, LenProperties, EmptySeq DEF Text, Joined
<1>2. 2 \in 1 .. m + 1
  BY <1>1
<1>3. From(s, 2) = Joined(From(p, 2), q)
  BY <1>1, <1>2, FromJoined
<1>4. TagsWhole(From(p, 2))
  BY <1>2, WholeFrom
<1>5. Head(p) # LT
  <2> SUFFICES ASSUME Head(p) = LT
               PROVE  FALSE
    OBVIOUS
  <2>1. p[1] = LT /\ 1 \in DOMAIN p
    BY <1>1
  <2>2. PICK k \in 1 .. Len(p) : p[k] = GT
    BY <2>1 DEF TagsWhole
  <2>3. k # 1
    BY <2>1, <2>2 DEF LT, GT
  <2> DEFINE at == {i \in 2 .. Len(p) : p[i] = GT}
  <2>4. k \in at
    BY <1>1, <2>2, <2>3
  <2>5. at \in SUBSET Nat /\ \A i \in at : i # 0
    BY <1>1
  <2>6. NextOf(p, GT, 2) = IF at = {} THEN 0 ELSE CHOOSE j \in at : \A i \in at : j <= i
    BY DEF NextOf
  <2> HIDE DEF at
  <2>7. \E j \in at : \A i \in at : j <= i
    BY <2>4, <2>5, LeastNatural
  <2>8. NextOf(p, GT, 2) \in at
    BY <2>6, <2>7
  <2> QED
    BY <2>5, <2>8 DEF NoTagAt
<1>0. m = Len(p)
  OBVIOUS
<1> HIDE DEF s, m
<1>6. s # <<>>
  BY <1>1
<1>7. Head(s) = Head(p)
  BY <1>1, <1>6
<1>8. Tail(s) = From(s, 2) /\ Tail(p) = From(p, 2)
  BY <1>1, <1>6, TailIsSubSeq DEF From
<1>9. s \in Text /\ NoTagAt(s)
  BY <1>1, <1>5, <1>7 DEF NoTagAt, Text
<1> QED
  BY <1>3, <1>4, <1>6, <1>7, <1>8, <1>9 DEF s

-------------------------------------------------------------------------------
(***************************************************************************)
(* One step of format_inline(), and of the loop, for any tag.              *)
(***************************************************************************)
LEMMA ByLength ==
  ASSUME NEW G, \A x \in Text : (\A y \in Text : Len(y) < Len(x) => y \in G) => x \in G
  PROVE  Text \subseteq G
<1> DEFINE wrong == {n \in Nat : \E x \in Text : Len(x) = n /\ x \notin G}
<1>0. \A x \in Text : Len(x) \in Nat
  BY LenProperties DEF Text
<1> SUFFICES ASSUME wrong # {} PROVE FALSE
  BY <1>0
<1>1. PICK m \in wrong : \A n \in wrong : m <= n
  <2>1. wrong \in SUBSET Nat
    OBVIOUS
  <2> HIDE DEF wrong
  <2> QED
    BY <2>1, LeastNatural
<1>2. PICK x \in Text : Len(x) = m /\ x \notin G
  OBVIOUS
<1>3. ASSUME NEW y \in Text, Len(y) < Len(x)
      PROVE  y \in G
  <2>1. Len(y) \in Nat /\ Len(y) < m /\ m \in Nat
    BY <1>0, <1>2, <1>3
  <2>2. Len(y) \notin wrong
    <3> HIDE DEF wrong
    <3> QED
      BY <1>1, <2>1
  <2> QED
    BY <2>1, <2>2
<1> QED
  BY <1>2, <1>3

LEMMA InlineTyped ==
  ASSUME NEW x \in Text, NEW e \in Text, NEW o \in Seq(Marked)
  PROVE  /\ FormatInline[At(x, e, o)] \in InlineAt
         /\ FormatInline[At(x, e, o)].text \in Text
         /\ FormatInline[At(x, e, o)].out \in Seq(Marked)
         /\ Len(FormatInline[At(x, e, o)].text) <= Len(x)
         /\ Len(FormatInline[At(x, e, o)].text) \in Nat /\ Len(x) \in Nat
<1> DEFINE c == At(x, e, o)
           d == FormatInline[c]
<1>1. c \in InlineAt /\ c.text = x
  BY AtTyped
<1> HIDE DEF c
<1>2. Returns(c, d)
  BY <1>1, FormatInlineReturns
<1> HIDE DEF d
<1>3. d \in InlineAt /\ Len(d.text) <= Len(x)
  BY <1>1, <1>2 DEF Returns
<1>4. d.text \in Text /\ d.out \in Seq(Marked)
  BY <1>3 DEF InlineAt
<1>5. Len(d.text) \in Nat /\ Len(x) \in Nat
  BY <1>4, LenProperties DEF Text
<1> QED
  BY <1>3, <1>4, <1>5 DEF c, d

LEMMA InlineEmpty ==
  ASSUME NEW e \in Text, NEW o \in Seq(Marked)
  PROVE  FormatInline[At(<<>>, e, o)] = At(<<>>, e, o)
<1> DEFINE c == At(<<>>, e, o)
<1>1. c \in InlineAt /\ c.text = <<>> /\ c = [text |-> <<>>, enclosing |-> e, out |-> o]
  <2>1. <<>> \in Text
    BY DEF Text
  <2> QED
    BY <2>1, AtTyped DEF At
<1>2. FormatInline[c] = InlineBody(FormatInline, c)
  BY <1>1, FormatInlineIs
<1> HIDE DEF c
<1>3. FormatInline[c] = [c EXCEPT !.out = EndOfInput(c.out)]
  BY <1>1, <1>2 DEF InlineBody
<1>4. FormatInline[c] = c
  BY <1>1, <1>3 DEF EndOfInput
<1> QED
  BY <1>4 DEF c

LEMMA InlinePlain ==
  ASSUME NEW x \in Text, x # <<>>, NoTagAt(x), NEW e \in Text, NEW o \in Seq(Marked)
  PROVE  /\ Append(o, Escaped(Head(x))) \in Seq(Marked)
         /\ Append(o, Escaped(Head(x))) = Joined(o, <<Escaped(Head(x))>>)
         /\ <<Escaped(Head(x))>> \in Seq(Marked)
         /\ FormatInline[At(x, e, o)] = FormatInline[At(Tail(x), e, Append(o, Escaped(Head(x))))]
<1> DEFINE c == At(x, e, o)
           more == Escaped(Head(x))
<1>1. c \in InlineAt /\ c.text = x /\ c.out = o /\ c = [text |-> x, enclosing |-> e, out |-> o]
  BY AtTyped DEF At
<1>2. FormatInline[c] = InlineBody(FormatInline, c)
  BY <1>1, FormatInlineIs
<1>3. more \in Marked
  BY TextSteps, EscapedTyped
<1>4. OneOn(c) = At(Tail(x), e, Append(o, more))
  <2> DEFINE left == Tail(x)
             longer == Append(o, more)
  <2>1. OneOn(c) = [c EXCEPT !.text = left, !.out = longer]
    BY <1>1 DEF OneOn
  <2> HIDE DEF c, left, longer
  <2>0. c = [text |-> x, enclosing |-> e, out |-> o]
    BY <1>1
  <2>2. OneOn(c) = At(left, e, longer)
    BY <2>0, <2>1 DEF At
  <2> QED
    BY <2>2 DEF left, longer
<1> HIDE DEF c
<1>5. FormatInline[c] = FormatInline[OneOn(c)]
  BY <1>1, <1>2 DEF InlineBody
<1> HIDE DEF more
<1>6. Append(o, more) \in Seq(Marked) /\ <<more>> \in Seq(Marked) /\ Append(o, more) = Joined(o, <<more>>)
  BY <1>3, OneToken, AppendIsConcat DEF Joined
<1> QED
  BY <1>4, <1>5, <1>6 DEF c, more

LEMMA InlineSkips ==
  ASSUME NEW x, NEW e \in Text, NEW o \in Seq(Marked), NEW name, NEW closing \in BOOLEAN, NEW r,
         Reads(x, INLINE_BUF, name, closing, r), name = <<>> \/ (closing /\ name # e)
  PROVE  FormatInline[At(x, e, o)] = FormatInline[At(r, e, o)]
<1> DEFINE c == At(x, e, o)
<1>1. x \in Text /\ x # <<>> /\ ~NoTagAt(x)
  BY DEF Reads
<1>2. c \in InlineAt /\ c.text = x /\ c.enclosing = e /\ c.out = o
  BY <1>1, AtTyped
<1>3. InlineTag(c).name = name /\ InlineTag(c).closing = closing /\ InlineTag(c).rest = r
  BY <1>2 DEF Reads, InlineTag
<1>4. FormatInline[c] = InlineBody(FormatInline, c)
  BY <1>2, FormatInlineIs
<1>5. Past(c) = At(r, e, o)
  BY <1>2, <1>3 DEF Past, At
<1> HIDE DEF c
<1>6. FormatInline[c] = FormatInline[Past(c)]
  BY <1>1, <1>2, <1>3, <1>4 DEF InlineBody
<1> QED
  BY <1>5, <1>6 DEF c

\* The closing tag of the element format_inline() is in.
Stops(x, e, o, r) == FormatInline[At(x, e, o)] = At(r, e, o)
LEMMA InlineCloses ==
  ASSUME NEW x, NEW e \in Text, NEW o \in Seq(Marked), NEW name,
         NEW closing \in BOOLEAN, NEW r \in Text, Reads(x, INLINE_BUF, name, closing, r)
  PROVE  name # <<>> /\ closing /\ name = e => Stops(x, e, o, r)
<1> SUFFICES ASSUME name # <<>>, closing, name = e
             PROVE  Stops(x, e, o, r)
  OBVIOUS
<1>1. e # <<>> /\ Reads(x, INLINE_BUF, e, TRUE, r)
  <2>1. closing = TRUE
    OBVIOUS
  <2> QED
    BY <2>1
<1> QED
  BY <1>1, InlineEnd DEF Stops

\* A known tag, or an unknown one, and what is inside.
Inside(r, name) == FormatInline[At(r, name, <<>>)]
Element(r, name) == Wrapped(PangoTag(name), Inside(r, name))
LEMMA InlineOpens ==
  ASSUME NEW x, NEW e \in Text, NEW o \in Seq(Marked), NEW name \in Text, name # <<>>,
         NEW closing \in BOOLEAN, ~closing, NEW r \in Text, Reads(x, INLINE_BUF, name, closing, r)
  PROVE  /\ Element(r, name) \in Seq(Marked) /\ Joined(o, Element(r, name)) \in Seq(Marked)
         /\ FormatInline[At(x, e, o)]
              = FormatInline[At(Inside(r, name).text, e, Joined(o, Element(r, name)))]
<1> DEFINE c == At(x, e, o)
           d == Inside(r, name)
           more == Wrapped(PangoTag(name), d)
<1>1. c \in InlineAt /\ c.text = x /\ c.enclosing = e /\ c.out = o
  BY AtTyped DEF Reads
<1>2. FormatInline[c] = FormatInline[Onward(e, o, name, d)]
  <2> HIDE DEF c
  <2>0. closing = FALSE
    OBVIOUS
  <2>1. Reads(c.text, INLINE_BUF, name, FALSE, r)
    BY <1>1, <2>0
  <2>2. FormatInline[c] = FormatInline[Onward(c.enclosing, c.out, name, FormatInline[At(r, name, <<>>)])]
    BY <1>1, <2>1, InlineStart
  <2> QED
    BY <1>1, <2>2 DEF Inside
<1>3. <<>> \in Seq(Marked)
  OBVIOUS
<1>4. d \in InlineAt
  BY <1>3, InlineTyped DEF Inside
<1> HIDE DEF d
<1>5. more \in Seq(Marked)
  BY <1>4, PangoTagTyped, WrappedTyped
<1>6. Onward(e, o, name, d) = At(d.text, e, Joined(o, more))
  BY DEF Onward, Joined
<1> HIDE DEF more, c
<1>7. Joined(o, more) \in Seq(Marked)
  BY <1>5, JoinedTyped
<1> QED
  BY <1>2, <1>5, <1>6, <1>7 DEF c, more, d, Element

\* What is made inside an element comes after what was there.
LEMMA InlineAdds ==
  ASSUME NEW x \in Text, NEW e \in Text, NEW o \in Seq(Marked)
  PROVE  \E y \in Seq(Marked) : FormatInline[At(x, e, o)].out = Joined(o, y)
<1> DEFINE Adds(u, f, n) == \E y \in Seq(Marked) : FormatInline[At(u, f, n)].out = Joined(n, y)
           good == {u \in Text : \A f \in Text, n \in Seq(Marked) : Adds(u, f, n)}
<1>0. <<>> \in Seq(Marked)
  OBVIOUS
<1>1. ASSUME NEW u \in Text, NEW f \in Text, NEW n \in Seq(Marked),
             \A v \in Text : Len(v) < Len(u) => v \in good
      PROVE  Adds(u, f, n)
  <2>1. CASE u = <<>>
    <3>1. FormatInline[At(u, f, n)].out = n
      BY <2>1, InlineEmpty DEF At
    <3>2. n = Joined(n, <<>>)
      BY JoinedEmpty
    <3> QED
      BY <1>0, <3>1, <3>2
  <2>2. CASE u # <<>> /\ NoTagAt(u)
    <3> DEFINE one == <<Escaped(Head(u))>>
               more == Append(n, Escaped(Head(u)))
    <3>1. /\ more \in Seq(Marked) /\ one \in Seq(Marked) /\ more = Joined(n, one)
          /\ FormatInline[At(u, f, n)] = FormatInline[At(Tail(u), f, more)]
      BY <2>2, InlinePlain
    <3>2. Tail(u) \in good
      BY <1>1, <2>2, TextSteps
    <3> HIDE DEF one, more
    <3>3. PICK y \in Seq(Marked) : FormatInline[At(Tail(u), f, more)].out = Joined(more, y)
      BY <3>1, <3>2
    <3>4. Joined(more, y) = Joined(n, Joined(one, y)) /\ Joined(one, y) \in Seq(Marked)
      BY <3>1, JoinedAssoc, JoinedTyped
    <3> QED
      BY <3>1, <3>3, <3>4
  <2>3. CASE u # <<>> /\ ~NoTagAt(u)
    <3> DEFINE name == TagAt(u, INLINE_BUF).name
               closing == TagAt(u, INLINE_BUF).closing
               r == TagAt(u, INLINE_BUF).rest
    <3>1. name \in Text /\ closing \in BOOLEAN /\ r \in Text /\ Len(r) < Len(u)
          /\ Reads(u, INLINE_BUF, name, closing, r)
      BY <2>3, TagTyped DEF Reads
    <3> HIDE DEF name, closing, r
    <3>2. r \in good
      BY <1>1, <3>1
    <3>3. CASE name = <<>> \/ (closing /\ name # f)
      <4>1. FormatInline[At(u, f, n)] = FormatInline[At(r, f, n)]
        BY <3>1, <3>3, InlineSkips
      <4> QED
        BY <3>2, <4>1
    <3>4. CASE name # <<>> /\ closing /\ name = f
      <4>1. FormatInline[At(u, f, n)] = At(r, f, n)
        <5>1. Stops(u, f, n, r)
          BY <3>1, <3>4, InlineCloses
        <5> QED
          BY <5>1 DEF Stops
      <4>2. FormatInline[At(u, f, n)].out = n
        BY <4>1 DEF At
      <4>3. n = Joined(n, <<>>)
        BY JoinedEmpty
      <4> QED
        BY <1>0, <4>2, <4>3
    <3>5. CASE name # <<>> /\ ~closing
      <4> DEFINE d == Inside(r, name)
                 more == Element(r, name)
                 after == Joined(n, more)
      <4>1. /\ more \in Seq(Marked) /\ after \in Seq(Marked)
            /\ FormatInline[At(u, f, n)] = FormatInline[At(d.text, f, after)]
        BY <3>1, <3>5, InlineOpens
      <4>2. d.text \in Text /\ Len(d.text) <= Len(r) /\ Len(d.text) \in Nat /\ Len(r) \in Nat
        BY <1>0, <3>1, InlineTyped DEF Inside
      <4>3. Len(u) \in Nat
        BY LenProperties DEF Text
      <4>4. d.text \in good
        <5>1. Len(d.text) < Len(u)
          BY <3>1, <4>2, <4>3
        <5> QED
          BY <1>1, <4>2, <5>1
      <4> HIDE DEF d, more, after
      <4>5. PICK y \in Seq(Marked) : FormatInline[At(d.text, f, after)].out = Joined(after, y)
        BY <4>1, <4>4
      <4>6. Joined(after, y) = Joined(n, Joined(more, y)) /\ Joined(more, y) \in Seq(Marked)
        BY <4>1, JoinedAssoc, JoinedTyped DEF after
      <4> QED
        BY <4>1, <4>5, <4>6
    <3> QED
      BY <3>1, <3>3, <3>4, <3>5
  <2> QED
    BY <2>1, <2>2, <2>3
<1>2. Text \subseteq good
  <2>1. \A u \in Text : (\A v \in Text : Len(v) < Len(u) => v \in good) => u \in good
    BY <1>1
  <2> HIDE DEF good
  <2> QED
    BY <2>1, ByLength
<1> QED
  BY <1>2

-------------------------------------------------------------------------------
(***************************************************************************)
(* Closing tags alone add nothing.                                         *)
(***************************************************************************)
Ending == {q \in Text : OnlyEndTags(q)}

LEMMA EndTagIsTag ==
  ASSUME NEW t \in Words
  PROVE  IsTag(EndTag(t)) /\ EndTag(t)[2] = SLASH /\ Len(EndTag(t)) = 4 /\ EndTag(t) \in Text
<1> DEFINE h == EndTag(t)
<1>1. t \in Token /\ LT \in Token /\ GT \in Token /\ SLASH \in Token
  BY DEF Token
<1>2. t # GT /\ SLASH # GT
  BY MarkupAssumption DEF SLASH, GT
<1>3. h = <<LT, SLASH, t, GT>>
  BY DEF EndTag
<1>4. h \in Text /\ Len(h) = 4 /\ h[1] = LT /\ h[2] = SLASH /\ h[3] = t /\ h[4] = GT
  BY <1>1, <1>3 DEF Text
<1> HIDE DEF h
<1>5. \A i \in 2 .. 4 - 1 : h[i] # GT
  BY <1>2, <1>4
<1> QED
  BY <1>4, <1>5 DEF IsTag, h

LEMMA EndingSplits ==
  ASSUME NEW q \in Ending, q # <<>>, NEW size
  PROVE  \E name \in Text, closing \in BOOLEAN, r \in Ending :
           closing /\ Reads(q, size, name, closing, r) /\ Len(r) < Len(q)
<1> DEFINE l == Len(q)
           r == From(q, 5)
<1>1. q \in Seq(Token) /\ q \in Text /\ l \in Nat /\ l # 0 /\ l % 4 = 0
  BY LenProperties, EmptySeq DEF Ending, OnlyEndTags, Text
<1>2. \A n \in 0 .. l \div 4 - 1 : \E t \in Words : SubSeq(q, 4*n + 1, 4*n + 4) = EndTag(t)
  BY DEF Ending, OnlyEndTags
<1>0. l = Len(q)
  OBVIOUS
<1> HIDE DEF l
<1>3. l >= 4 /\ l \div 4 - 1 \in Nat
  BY <1>1
<1>4. PICK t \in Words : SubSeq(q, 1, 4) = EndTag(t)
  <2>1. 0 \in 0 .. l \div 4 - 1 /\ 4 * 0 + 1 = 1 /\ 4 * 0 + 4 = 4
    BY <1>3
  <2> QED
    BY <1>2, <2>1
<1>5. /\ r \in Seq(Token) /\ r \in Text /\ Len(r) = l - 4
      /\ \A i \in 1 .. l - 4 : r[i] = q[i + 4]
  <2>1. \A i \in 5 .. l : q[i] \in Token
    BY <1>0, <1>1, ElementOfSeq
  <2>2. /\ SubSeq(q, 5, l) \in Seq(Token) /\ Len(SubSeq(q, 5, l)) = l - 4
        /\ \A i \in 1 .. l - 4 : SubSeq(q, 5, l)[i] = q[i + 4]
    BY <1>1, <1>3, <2>1, SubSeqProperties
  <2> QED
    BY <1>0, <2>2 DEF From, Text
<1>6. Joined(EndTag(t), r) = q
  <2>1. SubSeq(q, 1, 4) \o SubSeq(q, 4 + 1, l) = SubSeq(q, 1, l)
    <3>1. 1 \in 1 .. l + 1 /\ 4 \in 1 - 1 .. l /\ l \in 4 .. l
      BY <1>1, <1>3
    <3> QED
      BY <1>0, <1>1, <3>1, ConcatAdjacentSubSeq
  <2>2. SubSeq(q, 1, l) = q
    BY <1>0, <1>1, SubSeqFull
  <2>3. SubSeq(q, 4 + 1, l) = r
    BY <1>0 DEF From
  <2> QED
    BY <1>4, <2>1, <2>2, <2>3 DEF Joined
<1> HIDE DEF r
<1>7. OnlyEndTags(r)
  <2>1. (l - 4) % 4 = 0 /\ (l - 4) \div 4 = l \div 4 - 1
    BY <1>1, <1>3
  <2>2. ASSUME NEW n \in 0 .. (l - 4) \div 4 - 1
        PROVE  \E u \in Words : SubSeq(r, 4*n + 1, 4*n + 4) = EndTag(u)
    <3> DEFINE a == 4*n + 1
               b == 4*n + 4
               k == n + 1
    <3>1. /\ k \in 0 .. l \div 4 - 1 /\ 4*k + 1 = a + 4 /\ 4*k + 4 = b + 4
          /\ a \in Nat /\ b \in Nat /\ 1 <= a /\ b = a + 3 /\ b <= l - 4
      BY <1>1, <1>3, <2>1
    <3>2. PICK u \in Words : SubSeq(q, a + 4, b + 4) = EndTag(u)
      BY <1>2, <3>1
    <3> HIDE DEF a, b, k
    <3>3. SubSeq(r, a, b) = SubSeq(q, a + 4, b + 4)
      <4>1. \A i \in a .. b : r[i] \in Token /\ r[i] = q[i + 4]
        BY <1>3, <1>5, <3>1, ElementOfSeq
      <4>2. \A i \in a + 4 .. b + 4 : q[i] \in Token
        BY <1>0, <1>1, <3>1, ElementOfSeq
      <4>3. /\ SubSeq(r, a, b) \in Seq(Token) /\ Len(SubSeq(r, a, b)) = 4
            /\ \A i \in 1 .. 4 : SubSeq(r, a, b)[i] = r[a + i - 1]
        BY <3>1, <4>1, SubSeqProperties
      <4>4. /\ SubSeq(q, a + 4, b + 4) \in Seq(Token) /\ Len(SubSeq(q, a + 4, b + 4)) = 4
            /\ \A i \in 1 .. 4 : SubSeq(q, a + 4, b + 4)[i] = q[a + 4 + i - 1]
        <5> DEFINE c == a + 4
                   d == b + 4
        <5>1. c \in Int /\ d \in Int /\ c <= d /\ d - c + 1 = 4 /\ \A i \in 1 .. 4 : c + i - 1 = a + 4 + i - 1
          BY <3>1
        <5>2. \A i \in c .. d : q[i] \in Token
          BY <4>2
        <5> HIDE DEF c, d
        <5>3. /\ SubSeq(q, c, d) \in Seq(Token) /\ Len(SubSeq(q, c, d)) = 4
              /\ \A i \in 1 .. 4 : SubSeq(q, c, d)[i] = q[a + 4 + i - 1]
          BY <5>1, <5>2, SubSeqProperties
        <5> QED
          BY <5>3 DEF c, d
      <4>5. \A i \in 1 .. 4 : r[a + i - 1] = q[a + 4 + i - 1]
        <5> SUFFICES ASSUME NEW i \in 1 .. 4
                     PROVE  r[a + i - 1] = q[a + 4 + i - 1]
          OBVIOUS
        <5>1. a + i - 1 \in a .. b /\ a + i - 1 + 4 = a + 4 + i - 1
          BY <3>1
        <5> QED
          BY <4>1, <5>1
      <4> DEFINE x == SubSeq(r, a, b)
                 y == SubSeq(q, a + 4, b + 4)
      <4>6. x \in Seq(Token) /\ y \in Seq(Token) /\ Len(x) = Len(y) /\ \A i \in 1 .. Len(x) : x[i] = y[i]
        BY <4>3, <4>4, <4>5
      <4> HIDE DEF x, y
      <4>7. x = y
        BY <4>6, SeqEqual
      <4> QED
        BY <4>7 DEF x, y
    <3> QED
      BY <3>2, <3>3 DEF a, b
  <2> QED
    BY <1>5, <2>1, <2>2 DEF OnlyEndTags
<1>8. Reads(q, size, NameIn(EndTag(t), size), TRUE, r)
  <2>1. IsTag(EndTag(t)) /\ EndTag(t)[2] = SLASH
    BY EndTagIsTag
  <2>2. Reads(EndTag(t) \o r, size, NameIn(EndTag(t), size), EndTag(t)[2] = SLASH, r)
    BY <1>5, <2>1, TagRead
  <2> QED
    BY <1>6, <2>1, <2>2 DEF Joined
<1>9. NameIn(EndTag(t), size) \in Text
  <2>1. q # <<>> /\ ~NoTagAt(q) /\ TagAt(q, size).name = NameIn(EndTag(t), size)
    BY <1>8 DEF Reads
  <2> QED
    BY <1>1, <2>1, TagTyped
<1>10. r \in Ending
  BY <1>5, <1>7 DEF Ending
<1>11. Len(r) < Len(q)
  BY <1>0, <1>1, <1>5
<1>12. TRUE \in BOOLEAN
  OBVIOUS
<1> QED
  BY <1>8, <1>9, <1>10, <1>11, <1>12, Zenon

LEMMA InlineEnding ==
  ASSUME NEW q \in Ending, NEW e \in Text, NEW o \in Seq(Marked)
  PROVE  /\ FormatInline[At(q, e, o)].out = o
         /\ FormatInline[At(q, e, o)].text \in Ending
<1> DEFINE Kept(x, f, n) == /\ FormatInline[At(x, f, n)].out = n
                            /\ FormatInline[At(x, f, n)].text \in Ending
           good == {x \in Text : x \in Ending => \A f \in Text, n \in Seq(Marked) : Kept(x, f, n)}
<1>1. ASSUME NEW x \in Text, \A y \in Text : Len(y) < Len(x) => y \in good,
             x \in Ending, NEW f \in Text, NEW n \in Seq(Marked)
      PROVE  Kept(x, f, n)
  <2>1. CASE x = <<>>
    BY <1>1, <2>1, InlineEmpty DEF At
  <2>2. CASE x # <<>>
    <3>1. PICK name \in Text, closing \in BOOLEAN, r \in Ending :
            closing /\ Reads(x, INLINE_BUF, name, closing, r) /\ Len(r) < Len(x)
      BY <1>1, <2>2, EndingSplits
    <3>2. r \in Text
      BY DEF Ending
    <3>3. CASE name = <<>> \/ name # f
      <4>1. FormatInline[At(x, f, n)] = FormatInline[At(r, f, n)]
        <5>1. Reads(x, INLINE_BUF, name, closing, r) /\ (name = <<>> \/ (closing /\ name # f))
          BY <3>1, <3>3
        <5> QED
          BY <5>1, InlineSkips
      <4>2. Kept(r, f, n)
        BY <1>1, <3>1, <3>2
      <4> QED
        BY <4>1, <4>2
    <3>4. CASE name # <<>> /\ name = f
      <4>1. Stops(x, f, n, r)
        BY <3>1, <3>2, <3>4, InlineCloses
      <4> QED
        BY <4>1 DEF Stops, At
    <3> QED
      BY <3>3, <3>4
  <2> QED
    BY <2>1, <2>2
<1>2. Text \subseteq good
  <2>1. \A x \in Text : (\A y \in Text : Len(y) < Len(x) => y \in good) => x \in good
    BY <1>1
  <2> HIDE DEF good
  <2> QED
    BY <2>1, ByLength
<1>3. q \in Text
  BY DEF Ending
<1> QED
  BY <1>2, <1>3

\* The list after a tag that begins neither a paragraph nor an item.
ListAfter(name, closing, l) ==
  IF name \in {<<"ul">>, <<"ol">>}
  THEN IF closing THEN [l EXCEPT !.in_list = FALSE]
       ELSE [in_list |-> TRUE, ordered |-> name = <<"ol">>, counter |-> 0]
  ELSE l

LEMMA LoopGoesOn ==
  ASSUME NEW x, NEW l \in ListState, NEW e \in BOOLEAN, NEW name, NEW closing \in BOOLEAN,
         NEW r, Reads(x, BLOCK_BUF, name, closing, r),
         ~(name = <<"p">> /\ ~closing), ~(name = <<"li">> /\ ~closing /\ l.in_list)
  PROVE  /\ ListAfter(name, closing, l) \in ListState
         /\ FormatBlocks[LoopAt(x, l, e)] = FormatBlocks[LoopAt(r, ListAfter(name, closing, l), e)]
<1> DEFINE c == LoopAt(x, l, e)
<1>0. <<"p">> # <<"ul">> /\ <<"p">> # <<"ol">> /\ <<"li">> # <<"ul">> /\ <<"li">> # <<"ol">>
  OBVIOUS
<1>1. c \in BlocksAt /\ c.text = x /\ c.list = l /\ c.empty = e
  BY LoopAtTyped DEF Reads
<1> HIDE DEF c
<1>2. CASE name \in {<<"ul">>, <<"ol">>}
  <2> DEFINE next == IF closing THEN [l EXCEPT !.in_list = FALSE]
                     ELSE [in_list |-> TRUE, ordered |-> name = <<"ol">>, counter |-> 0]
  <2>1. FormatBlocks[c] = FormatBlocks[LoopAt(r, next, e)]
    BY <1>1, <1>2, LoopList
  <2>2. next \in ListState
    BY DEF ListState
  <2>3. ListAfter(name, closing, l) = next
    BY <1>2 DEF ListAfter
  <2> HIDE DEF next
  <2> QED
    BY <2>1, <2>2, <2>3 DEF c
<1>3. CASE name \notin {<<"ul">>, <<"ol">>}
  <2>1. ListAfter(name, closing, l) = l
    BY <1>3 DEF ListAfter
  <2>2. FormatBlocks[c] = BlocksBody(FormatBlocks, c)
    BY <1>1, FormatBlocksIs
  <2>3. c.text # <<>> /\ ~NoTagAt(c.text)
        /\ BlockTag(c).name = name /\ BlockTag(c).closing = closing /\ BlockTag(c).rest = r
    BY <1>1 DEF Reads, BlockTag
  <2>4. FormatBlocks[c] = FormatBlocks[PastBlock(c)]
    BY <1>1, <1>3, <2>2, <2>3 DEF BlocksBody
  <2>5. PastBlock(c) = LoopAt(r, l, e)
    BY <1>1, <2>3 DEF PastBlock, LoopAt, BlocksAt
  <2> QED
    BY <2>1, <2>4, <2>5 DEF c
<1> QED
  BY <1>2, <1>3

LEMMA BlocksEnding ==
  ASSUME NEW q \in Ending, NEW l \in ListState, NEW e \in BOOLEAN
  PROVE  FormatBlocks[LoopAt(q, l, e)] = <<>>
<1> DEFINE good == {x \in Text : x \in Ending =>
                     \A k \in ListState, f \in BOOLEAN : FormatBlocks[LoopAt(x, k, f)] = <<>>}
<1>1. ASSUME NEW x \in Text, \A y \in Text : Len(y) < Len(x) => y \in good,
             x \in Ending, NEW k \in ListState, NEW f \in BOOLEAN
      PROVE  FormatBlocks[LoopAt(x, k, f)] = <<>>
  <2>1. CASE x = <<>>
    BY <2>1, LoopEnds
  <2>2. CASE x # <<>>
    <3>1. PICK name \in Text, closing \in BOOLEAN, r \in Ending :
            closing /\ Reads(x, BLOCK_BUF, name, closing, r) /\ Len(r) < Len(x)
      BY <1>1, <2>2, EndingSplits
    <3>2. r \in Text
      BY DEF Ending
    <3> DEFINE next == ListAfter(name, closing, k)
    <3>3. next \in ListState /\ FormatBlocks[LoopAt(x, k, f)] = FormatBlocks[LoopAt(r, next, f)]
      <4>1. /\ Reads(x, BLOCK_BUF, name, closing, r)
            /\ ~(name = <<"p">> /\ ~closing) /\ ~(name = <<"li">> /\ ~closing /\ k.in_list)
        BY <3>1
      <4> QED
        BY <4>1, LoopGoesOn
    <3> HIDE DEF next
    <3> QED
      BY <1>1, <3>1, <3>2, <3>3
  <2> QED
    BY <2>1, <2>2
<1>2. Text \subseteq good
  <2>1. \A x \in Text : (\A y \in Text : Len(y) < Len(x) => y \in good) => x \in good
    BY <1>1
  <2> HIDE DEF good
  <2> QED
    BY <2>1, ByLength
<1>3. q \in Text
  BY DEF Ending
<1> QED
  BY <1>2, <1>3

\* The loop at a paragraph, and at an item.
LEMMA LoopOpensParagraph ==
  ASSUME NEW x, NEW l \in ListState, NEW e \in BOOLEAN, NEW closing \in BOOLEAN, ~closing,
         NEW r, Reads(x, BLOCK_BUF, <<"p">>, closing, r)
  PROVE  FormatBlocks[LoopAt(x, l, e)]
           = Joined(OnNewLine(e, Inside(r, <<"p">>).out),
                    FormatBlocks[LoopAt(Inside(r, <<"p">>).text, l, e /\ Inside(r, <<"p">>).out = <<>>)])
<1> DEFINE c == LoopAt(x, l, e)
           d == Inside(r, <<"p">>)
           more == e /\ d.out = <<>>
<1>0. closing = FALSE
  OBVIOUS
<1>1. c \in BlocksAt /\ c.text = x /\ c.list = l /\ c.empty = e
  BY LoopAtTyped DEF Reads
<1> HIDE DEF c
<1>2. /\ c.text # <<>> /\ ~NoTagAt(c.text)
      /\ BlockTag(c).name = <<"p">> /\ BlockTag(c).closing = FALSE /\ BlockTag(c).rest = r
  BY <1>0, <1>1 DEF Reads, BlockTag
<1>3. FormatBlocks[c] = BlocksBody(FormatBlocks, c)
  BY <1>1, FormatBlocksIs
<1>4. FormatBlocks[c] = Paragraph(c) \o FormatBlocks[AfterParagraph(c)]
  BY <1>2, <1>3 DEF BlocksBody
<1>5. Inline(c) = d
  BY <1>2 DEF Inline, At, Inside
<1> HIDE DEF d
<1>6. Paragraph(c) = OnNewLine(e, d.out)
  BY <1>1, <1>5 DEF Paragraph
<1> DEFINE left == d.text
<1>7. AfterParagraph(c) = [c EXCEPT !.text = left, !.empty = more]
  BY <1>1, <1>5 DEF AfterParagraph
<1>8. c = [text |-> x, list |-> l, empty |-> e]
  BY DEF c, LoopAt
<1> HIDE DEF more, left
<1>9. AfterParagraph(c) = LoopAt(left, l, more)
  BY <1>7, <1>8 DEF LoopAt
<1> QED
  BY <1>4, <1>6, <1>9 DEF c, d, more, left, Joined

ItemShows(x, l, e, r) ==
  FormatBlocks[LoopAt(x, l, e)]
    = Joined(OnNewLine(e, Joined(ItemMark(l), Inside(r, <<"li">>).out)),
             FormatBlocks[LoopAt(Inside(r, <<"li">>).text, Bumped(l), FALSE)])
LEMMA LoopOpensItem ==
  ASSUME NEW x, NEW l \in ListState, l.in_list, NEW e \in BOOLEAN, NEW closing \in BOOLEAN, ~closing,
         NEW r, Reads(x, BLOCK_BUF, <<"li">>, closing, r)
  PROVE  ItemShows(x, l, e, r)
<1> DEFINE c == LoopAt(x, l, e)
           d == Inside(r, <<"li">>)
<1>0. /\ <<"li">> # <<"p">> /\ <<"li">> # <<"ul">> /\ <<"li">> # <<"ol">>
      /\ closing = FALSE
  OBVIOUS
<1>1. c \in BlocksAt /\ c.text = x /\ c.list = l /\ c.empty = e
  BY LoopAtTyped DEF Reads
<1> HIDE DEF c
<1>2. /\ c.text # <<>> /\ ~NoTagAt(c.text)
      /\ BlockTag(c).name = <<"li">> /\ BlockTag(c).closing = FALSE /\ BlockTag(c).rest = r
  BY <1>0, <1>1 DEF Reads, BlockTag
<1>3. FormatBlocks[c] = BlocksBody(FormatBlocks, c)
  BY <1>1, FormatBlocksIs
<1>4. FormatBlocks[c] = Item(c) \o FormatBlocks[AfterItem(c)]
  BY <1>0, <1>1, <1>2, <1>3 DEF BlocksBody
<1>5. Inline(c) = d
  BY <1>2 DEF Inline, At, Inside
<1> HIDE DEF d
<1>6. Item(c) = OnNewLine(e, Joined(ItemMark(l), d.out))
  BY <1>1, <1>5 DEF Item, Joined
<1>7. AfterItem(c) = LoopAt(d.text, Bumped(l), FALSE)
  BY <1>1, <1>5 DEF AfterItem, LoopAt, Bumped
<1> QED
  BY <1>4, <1>6, <1>7 DEF c, d, Joined, ItemShows

-------------------------------------------------------------------------------
(***************************************************************************)
(* What a text that is cut loses, inside an element and in the loop.       *)
(***************************************************************************)
Wrappers == PangoElements \cup {""}

LEMMA WrappedIs ==
  ASSUME NEW tag \in Wrappers, NEW d \in InlineAt
  PROVE  /\ Opening(tag) \in Seq(Drawn) /\ Closing(tag) \in Seq(Ends)
         /\ Wrapped(tag, d) = Joined(Opening(tag), Joined(d.out, Closing(tag)))
<1> DEFINE a == Opening(tag)
           b == Closing(tag)
           o == d.out
<1>1. a \in Seq(Drawn) /\ b \in Seq(Ends)
  <2>1. CASE tag = ""
    <3>1. a = <<>> /\ b = <<>>
      BY <2>1 DEF Opening, Closing
    <3>2. <<>> \in Seq(Drawn) /\ <<>> \in Seq(Ends)
      BY EmptySeq
    <3> QED
      BY <3>1, <3>2
  <2>2. CASE tag # ""
    <3>1. a = <<StartOf[tag]>> /\ b = <<EndOf[tag]>>
      BY <2>2 DEF Opening, Closing
    <3>2. StartOf[tag] \in Drawn /\ EndOf[tag] \in Ends
      BY <2>2 DEF Wrappers, Drawn, Marked, Starts, Ends
    <3> QED
      BY <3>1, <3>2, OneToken
  <2> QED
    BY <2>1, <2>2
<1>2. o \in Seq(Drawn) /\ b \in Seq(Drawn)
  <2>1. o \in Seq(Marked)
    BY DEF InlineAt
  <2> QED
    BY <1>1, <2>1, MarkedDrawn, EndsDrawn
<1>3. Wrapped(tag, d) = Joined(Joined(a, o), b)
  BY DEF Wrapped, Joined
<1> HIDE DEF a, b, o
<1>4. Joined(Joined(a, o), b) = Joined(a, Joined(o, b))
  <2>1. a \in Seq(Drawn) /\ o \in Seq(Drawn) /\ b \in Seq(Drawn)
    BY <1>1, <1>2
  <2> QED
    BY <2>1, JoinedAssoc
<1> QED
  BY <1>1, <1>3, <1>4 DEF a, b, o

LEMMA WrappedGrows ==
  ASSUME NEW tag \in Wrappers, NEW d \in InlineAt, NEW D \in InlineAt
  PROVE  /\ Grows(d.out, D.out) => Grows(Wrapped(tag, d), Wrapped(tag, D))
         /\ d.out = D.out => Wrapped(tag, d) = Wrapped(tag, D)
<1>0. d.out \in Seq(Marked) /\ D.out \in Seq(Marked)
  BY DEF InlineAt
<1>1. /\ Opening(tag) \in Seq(Drawn) /\ Closing(tag) \in Seq(Ends)
      /\ Wrapped(tag, d) = Joined(Opening(tag), Joined(d.out, Closing(tag)))
      /\ Wrapped(tag, D) = Joined(Opening(tag), Joined(D.out, Closing(tag)))
  BY WrappedIs
<1> DEFINE x == d.out
           y == D.out
           a == Opening(tag)
           b == Closing(tag)
<1>2. Grows(x, y) => Grows(Joined(a, Joined(x, b)), Joined(a, Joined(y, b)))
  <2> SUFFICES ASSUME Grows(x, y)
               PROVE  Grows(Joined(a, Joined(x, b)), Joined(a, Joined(y, b)))
    OBVIOUS
  <2> HIDE DEF x, y, a, b
  <2>1. Grows(Joined(x, b), Joined(y, b))
    BY <1>1, GrowsClosed DEF b
  <2> QED
    BY <1>1, <2>1, GrowsAfter DEF a
<1> QED
  BY <1>1, <1>2

\* Where format_inline() is, d at a text and D at the same text and q after it:
\* both before q, at the same place; or the first at its end, with the beginning
\* of what the other made.
Left(d, D, q) ==
  \/ D.text = Joined(d.text, q) /\ D.out = d.out /\ TagsWhole(d.text)
  \/ /\ d.text = <<>> /\ Grows(d.out, D.out)
     /\ q \in Ending => D.out = d.out /\ D.text \in Ending

CutAt(p, q, e, o) == Left(FormatInline[At(p, e, o)], FormatInline[At(Joined(p, q), e, o)], q)

LEMMA CutNothing ==
  ASSUME NEW q \in Text, NEW e \in Text, NEW o \in Seq(Marked)
  PROVE  CutAt(<<>>, q, e, o)
<1> DEFINE D == FormatInline[At(q, e, o)]
           d == FormatInline[At(<<>>, e, o)]
<1>1. d.text = <<>> /\ d.out = o
  BY InlineEmpty DEF At
<1>2. Joined(<<>>, q) = q
  BY JoinedEmpty DEF Text
<1>3. PICK y \in Seq(Marked) : D.out = Joined(o, y)
  BY InlineAdds
<1>4. o \in Seq(Drawn) /\ y \in Seq(Drawn)
  BY MarkedDrawn
<1>5. Grows(o, Joined(o, y))
  BY <1>4, GrowsFrom
<1>6. q \in Ending => D.out = o /\ D.text \in Ending
  BY InlineEnding
<1> HIDE DEF d, D
<1>7. Left(d, D, q)
  BY <1>1, <1>3, <1>5, <1>6 DEF Left
<1> QED
  BY <1>2, <1>7 DEF CutAt, d, D

\* Past an element whose content is cut, or is not.
LEMMA CutOpened ==
  ASSUME NEW p, NEW q \in Text, NEW e \in Text, NEW o \in Seq(Marked),
         NEW name \in Text, name # <<>>, NEW closing \in BOOLEAN, ~closing, NEW r \in Text,
         Reads(p, INLINE_BUF, name, closing, r),
         Reads(Joined(p, q), INLINE_BUF, name, closing, Joined(r, q)),
         CutAt(r, q, name, <<>>),
         \A x \in Text, n \in Seq(Marked) : Len(x) <= Len(r) /\ TagsWhole(x) => CutAt(x, q, e, n)
  PROVE  CutAt(p, q, e, o)
<1> DEFINE rq == Joined(r, q)
           d == Inside(r, name)
           D == Inside(rq, name)
           s == Element(r, name)
           t == Element(rq, name)
           os == Joined(o, s)
           ot == Joined(o, t)
<1>1. rq \in Text /\ <<>> \in Seq(Marked)
  BY JoinedTyped DEF Text
<1>2. /\ s \in Seq(Marked) /\ os \in Seq(Marked)
      /\ FormatInline[At(p, e, o)] = FormatInline[At(d.text, e, os)]
  BY InlineOpens
<1>3. /\ t \in Seq(Marked) /\ ot \in Seq(Marked)
      /\ FormatInline[At(Joined(p, q), e, o)] = FormatInline[At(D.text, e, ot)]
  <2> HIDE DEF rq
  <2> QED
    BY <1>1, InlineOpens DEF rq
<1>4. /\ d.text \in Text /\ d.out \in Seq(Marked) /\ Len(d.text) <= Len(r)
      /\ D.text \in Text /\ D.out \in Seq(Marked)
      /\ d \in InlineAt /\ D \in InlineAt
  <2> HIDE DEF rq
  <2> QED
    BY <1>1, InlineTyped DEF Inside
<1>5. /\ Grows(d.out, D.out) => Grows(s, t)
      /\ d.out = D.out => s = t
  <2>1. PangoTag(name) \in Wrappers
    BY PangoTagTyped DEF Wrappers
  <2> HIDE DEF d, D, rq
  <2> QED
    BY <1>4, <2>1, WrappedGrows DEF Element, d, D
<1>6. Left(d, D, q)
  BY DEF CutAt, Inside
<1> HIDE DEF rq, d, D, s, t
<1>7. CASE D.text = Joined(d.text, q) /\ D.out = d.out /\ TagsWhole(d.text)
  <2>1. CutAt(d.text, q, e, os)
    BY <1>2, <1>4, <1>7
  <2>2. s = t
    BY <1>5, <1>7
  <2> QED
    BY <1>2, <1>3, <1>7, <2>1, <2>2 DEF CutAt
<1>8. CASE /\ d.text = <<>> /\ Grows(d.out, D.out)
           /\ q \in Ending => D.out = d.out /\ D.text \in Ending
  <2> DEFINE f == FormatInline[At(p, e, o)]
             F == FormatInline[At(Joined(p, q), e, o)]
  <2>1. f.text = <<>> /\ f.out = os
    <3>1. f = At(<<>>, e, os)
      BY <1>2, <1>8, InlineEmpty
    <3> QED
      BY <3>1 DEF At
  <2>2. PICK y \in Seq(Marked) : F.out = Joined(ot, y)
    <3>1. \E y \in Seq(Marked) : FormatInline[At(D.text, e, ot)].out = Joined(ot, y)
      BY <1>3, <1>4, InlineAdds, ZenonT(40)
    <3> QED
      BY <1>3, <3>1
  <2>3. q \in Ending => F.out = f.out /\ F.text \in Ending
    <3> SUFFICES ASSUME q \in Ending
                 PROVE  F.out = f.out /\ F.text \in Ending
      OBVIOUS
    <3>1. D.text \in Ending /\ s = t
      BY <1>5, <1>8
    <3>2. FormatInline[At(D.text, e, ot)].out = ot /\ FormatInline[At(D.text, e, ot)].text \in Ending
      BY <1>3, <3>1, InlineEnding
    <3> QED
      BY <1>3, <2>1, <3>1, <3>2
  <2>4. Grows(os, ot)
    <3>1. o \in Seq(Drawn) /\ Grows(s, t)
      BY <1>5, <1>8, MarkedDrawn
    <3> QED
      BY <3>1, GrowsAfter
  <2>5. Grows(os, Joined(ot, y))
    <3>1. y \in Seq(Drawn)
      BY MarkedDrawn
    <3> HIDE DEF os, ot
    <3> QED
      BY <2>4, <3>1, GrowsMore
  <2> HIDE DEF f, F
  <2>6. Left(f, F, q)
    BY <2>1, <2>2, <2>3, <2>5 DEF Left
  <2> QED
    BY <2>6 DEF CutAt, f, F
<1> QED
  BY <1>6, <1>7, <1>8 DEF Left

LEMMA CutInline ==
  ASSUME NEW p \in Text, TagsWhole(p), NEW q \in Text, NEW e \in Text, NEW o \in Seq(Marked)
  PROVE  CutAt(p, q, e, o)
<1> DEFINE good == {x \in Text : TagsWhole(x) => \A f \in Text, n \in Seq(Marked) : CutAt(x, q, f, n)}
<1>1. ASSUME NEW x \in Text, \A y \in Text : Len(y) < Len(x) => y \in good,
             TagsWhole(x), NEW f \in Text, NEW n \in Seq(Marked)
      PROVE  CutAt(x, q, f, n)
  <2> DEFINE xq == Joined(x, q)
  <2>1. CASE x = <<>>
    BY <2>1, CutNothing
  <2>2. CASE x # <<>> /\ NoTagAt(x)
    <3> DEFINE more == Append(n, Escaped(Head(x)))
    <3>1. /\ xq \in Text /\ xq # <<>> /\ NoTagAt(xq)
          /\ Head(xq) = Head(x) /\ Tail(xq) = Joined(Tail(x), q) /\ TagsWhole(Tail(x))
      BY <1>1, <2>2, PlainKeeps
    <3>2. more \in Seq(Marked) /\ FormatInline[At(x, f, n)] = FormatInline[At(Tail(x), f, more)]
      BY <2>2, InlinePlain
    <3>3. FormatInline[At(xq, f, n)] = FormatInline[At(Tail(xq), f, Append(n, Escaped(Head(xq))))]
      <4> HIDE DEF xq
      <4> QED
        BY <3>1, InlinePlain
    <3>4. Tail(x) \in good
      BY <1>1, <2>2, TextSteps
    <3> HIDE DEF more
    <3>5. CutAt(Tail(x), q, f, more)
      BY <3>1, <3>2, <3>4
    <3>6. FormatInline[At(xq, f, n)] = FormatInline[At(Joined(Tail(x), q), f, more)]
      BY <3>1, <3>3 DEF more
    <3> QED
      BY <3>2, <3>5, <3>6 DEF CutAt
  <2>3. CASE x # <<>> /\ ~NoTagAt(x)
    <3> DEFINE name == TagAt(x, INLINE_BUF).name
               closing == TagAt(x, INLINE_BUF).closing
               r == TagAt(x, INLINE_BUF).rest
    <3>1. /\ name \in Text /\ closing \in BOOLEAN /\ r \in Text /\ Len(r) < Len(x)
          /\ Reads(x, INLINE_BUF, name, closing, r)
          /\ Len(r) \in Nat
      BY <2>3, TagTyped DEF Reads
    <3>2. Reads(xq, INLINE_BUF, name, closing, Joined(r, q))
      BY <2>3, TagKeeps
    <3>3. TagsWhole(r)
      BY <1>1, <2>3, TagLeavesWhole
    <3>4. Joined(r, q) \in Text
      BY <3>1, JoinedTyped DEF Text
    <3> HIDE DEF name, closing, r, xq
    <3>5. r \in good
      BY <1>1, <3>1
    <3>6. CASE name = <<>> \/ (closing /\ name # f)
      <4>1. FormatInline[At(x, f, n)] = FormatInline[At(r, f, n)]
        BY <3>1, <3>6, InlineSkips
      <4>2. FormatInline[At(xq, f, n)] = FormatInline[At(Joined(r, q), f, n)]
        BY <3>1, <3>2, <3>6, InlineSkips
      <4>3. CutAt(r, q, f, n)
        BY <3>3, <3>5
      <4> QED
        BY <4>1, <4>2, <4>3 DEF CutAt, xq
    <3>7. CASE name # <<>> /\ closing /\ name = f
      <4>1. Stops(x, f, n, r)
        BY <3>1, <3>7, InlineCloses
      <4>2. Stops(xq, f, n, Joined(r, q))
        BY <3>1, <3>2, <3>4, <3>7, InlineCloses
      <4> QED
        BY <3>3, <4>1, <4>2 DEF CutAt, Left, Stops, At, xq
    <3>8. CASE name # <<>> /\ ~closing
      <4>1. <<>> \in Seq(Marked)
        OBVIOUS
      <4>2. CutAt(r, q, name, <<>>)
        BY <3>1, <3>3, <3>5, <4>1
      <4>3. ASSUME NEW y \in Text, NEW m \in Seq(Marked), Len(y) <= Len(r) /\ TagsWhole(y)
            PROVE  CutAt(y, q, f, m)
        <5>1. Len(y) < Len(x)
          BY <3>1, <4>3, LenProperties DEF Text
        <5>2. y \in good
          BY <1>1, <5>1
        <5> QED
          BY <4>3, <5>2
      <4>4. Reads(Joined(x, q), INLINE_BUF, name, closing, Joined(r, q))
        BY <3>2 DEF xq
      <4> HIDE DEF good
      <4> QED
        BY <3>1, <3>8, <4>2, <4>3, <4>4, CutOpened
    <3> QED
      BY <3>1, <3>6, <3>7, <3>8
  <2> QED
    BY <2>1, <2>2, <2>3
<1>2. Text \subseteq good
  <2>1. \A x \in Text : (\A y \in Text : Len(y) < Len(x) => y \in good) => x \in good
    BY <1>1
  <2> HIDE DEF good
  <2> QED
    BY <2>1, ByLength
<1> QED
  BY <1>2

\* The loop, at a text and at the same text with q after it.
CutLoop(p, q, l, e) ==
  /\ Grows(FormatBlocks[LoopAt(p, l, e)], FormatBlocks[LoopAt(Joined(p, q), l, e)])
  /\ q \in Ending => FormatBlocks[LoopAt(Joined(p, q), l, e)] = FormatBlocks[LoopAt(p, l, e)]

LEMMA LineGrows ==
  ASSUME NEW e \in BOOLEAN, NEW s, NEW t, Grows(s, t)
  PROVE  Grows(OnNewLine(e, s), OnNewLine(e, t))
<1> DEFINE n == IF e THEN <<>> ELSE <<NEWLINE>>
<1>1. n \in Seq(Drawn)
  <2>1. NEWLINE \in Drawn
    BY DEF Drawn
  <2> QED
    BY <2>1, OneToken, EmptySeq
<1>2. OnNewLine(e, s) = Joined(n, s) /\ OnNewLine(e, t) = Joined(n, t)
  BY DEF OnNewLine, Joined
<1> HIDE DEF n
<1> QED
  BY <1>1, <1>2, GrowsAfter

\* A paragraph or an item, its line and what follows, when its content is cut
\* and when it is not.
LEMMA CutContent ==
  ASSUME NEW q \in Text, NEW d \in InlineAt, NEW D \in InlineAt, Left(d, D, q),
         NEW a \in Seq(Drawn), NEW A \in Seq(Drawn), NEW l \in ListState,
         NEW b \in BOOLEAN, NEW B \in BOOLEAN,
         Grows(d.out, D.out) => Grows(a, A), d.out = D.out => a = A /\ b = B,
         TagsWhole(d.text) => CutLoop(d.text, q, l, b)
  PROVE  /\ Grows(Joined(a, FormatBlocks[LoopAt(d.text, l, b)]),
                  Joined(A, FormatBlocks[LoopAt(D.text, l, B)]))
         /\ q \in Ending => Joined(A, FormatBlocks[LoopAt(D.text, l, B)])
                              = Joined(a, FormatBlocks[LoopAt(d.text, l, b)])
<1> DEFINE x == FormatBlocks[LoopAt(d.text, l, b)]
           X == FormatBlocks[LoopAt(D.text, l, B)]
<1>1. d.text \in Text /\ D.text \in Text
  BY DEF InlineAt
<1>2. x \in Seq(Drawn) /\ X \in Seq(Drawn)
  BY <1>1, BlocksDrawn
<1>3. CASE D.text = Joined(d.text, q) /\ D.out = d.out /\ TagsWhole(d.text)
  <2>1. a = A /\ b = B
    BY <1>3
  <2>2. Grows(x, X) /\ (q \in Ending => X = x)
    BY <1>3, <2>1 DEF CutLoop
  <2> HIDE DEF x, X
  <2>3. Grows(Joined(a, x), Joined(a, X))
    BY <2>2, GrowsAfter
  <2> QED
    BY <2>1, <2>2, <2>3 DEF x, X
<1>4. CASE /\ d.text = <<>> /\ Grows(d.out, D.out)
           /\ q \in Ending => D.out = d.out /\ D.text \in Ending
  <2>1. x = <<>>
    BY <1>4, LoopEnds
  <2>2. Joined(a, x) = a
    BY <2>1, JoinedEmpty
  <2>3. Grows(a, Joined(A, X))
    <3> HIDE DEF x, X
    <3> QED
      BY <1>2, <1>4, GrowsMore
  <2>4. q \in Ending => Joined(A, X) = a
    <3> SUFFICES ASSUME q \in Ending
                 PROVE  Joined(A, X) = a
      OBVIOUS
    <3>1. D.text \in Ending /\ a = A
      BY <1>4
    <3>2. X = <<>>
      BY <3>1, BlocksEnding
    <3> QED
      BY <3>1, <3>2, JoinedEmpty
  <2> QED
    BY <2>2, <2>3, <2>4
<1> QED
  BY <1>3, <1>4 DEF Left

LEMMA CutBlock ==
  ASSUME NEW p \in Text, NEW q \in Text, NEW l \in ListState, NEW e \in BOOLEAN,
         NEW name \in {<<"p">>, <<"li">>}, NEW closing \in BOOLEAN, ~closing,
         name = <<"li">> => l.in_list, NEW r \in Text, TagsWhole(r),
         Reads(p, BLOCK_BUF, name, closing, r),
         Reads(Joined(p, q), BLOCK_BUF, name, closing, Joined(r, q)),
         \A x \in Text, k \in ListState, f \in BOOLEAN :
           Len(x) <= Len(r) /\ TagsWhole(x) => CutLoop(x, q, k, f)
  PROVE  CutLoop(p, q, l, e)
<1> DEFINE rq == Joined(r, q)
           d == Inside(r, name)
           D == Inside(rq, name)
<1>1. rq \in Text /\ name \in Text /\ <<>> \in Seq(Marked)
  <2>1. rq \in Text
    BY JoinedTyped DEF Text
  <2>2. "p" \in Token /\ "li" \in Token
    BY MarkupAssumption DEF BlockTags, Token
  <2>3. name \in Text
    BY <2>2, OneToken DEF Text
  <2>4. <<>> \in Seq(Marked)
    BY EmptySeq
  <2> QED
    BY <2>1, <2>3, <2>4
<1>2. /\ d \in InlineAt /\ D \in InlineAt /\ Len(d.text) <= Len(r)
      /\ d.text \in Text /\ D.text \in Text /\ d.out \in Seq(Marked) /\ D.out \in Seq(Marked)
  <2> HIDE DEF rq
  <2> QED
    BY <1>1, InlineTyped DEF Inside
<1>3. Left(d, D, q)
  <2>1. CutAt(r, q, name, <<>>)
    BY <1>1, CutInline
  <2> QED
    BY <2>1 DEF CutAt, Inside
<1>4. d.out \in Seq(Drawn) /\ D.out \in Seq(Drawn)
  BY <1>2, MarkedDrawn
<1>5. \A k \in ListState, f \in BOOLEAN : TagsWhole(d.text) => CutLoop(d.text, q, k, f)
  <2> HIDE DEF d
  <2> QED
    BY <1>2
<1> DEFINE u == d.out
           U == D.out
<1>6. CASE name = <<"p">>
  <2> DEFINE a == OnNewLine(e, u)
             A == OnNewLine(e, U)
             b == e /\ u = <<>>
             B == e /\ U = <<>>
  <2>1. a \in Seq(Drawn) /\ A \in Seq(Drawn) /\ (Grows(u, U) => Grows(a, A))
    <3> HIDE DEF u, U
    <3> QED
      BY <1>4, NewLineTyped, LineGrows DEF u, U
  <2>2. b \in BOOLEAN /\ B \in BOOLEAN /\ (u = U => a = A /\ b = B)
    OBVIOUS
  <2>3. FormatBlocks[LoopAt(p, l, e)] = Joined(a, FormatBlocks[LoopAt(d.text, l, b)])
    BY <1>6, LoopOpensParagraph
  <2>4. FormatBlocks[LoopAt(Joined(p, q), l, e)] = Joined(A, FormatBlocks[LoopAt(D.text, l, B)])
    BY <1>6, LoopOpensParagraph
  <2>5. /\ Grows(u, U) => Grows(a, A)
        /\ u = U => a = A /\ b = B
    BY <2>1, <2>2
  <2> HIDE DEF a, A, b, B, d, D
  <2>6. /\ Grows(Joined(a, FormatBlocks[LoopAt(d.text, l, b)]),
                 Joined(A, FormatBlocks[LoopAt(D.text, l, B)]))
        /\ q \in Ending => Joined(A, FormatBlocks[LoopAt(D.text, l, B)])
                             = Joined(a, FormatBlocks[LoopAt(d.text, l, b)])
    BY <1>2, <1>3, <1>5, <2>1, <2>2, <2>5, CutContent
  <2> QED
    BY <2>3, <2>4, <2>6 DEF CutLoop
<1>7. CASE name = <<"li">>
  <2> DEFINE m == ItemMark(l)
             a == OnNewLine(e, Joined(m, u))
             A == OnNewLine(e, Joined(m, U))
             k == Bumped(l)
  <2>1. m \in Seq(Drawn)
    BY MarkDrawn
  <2>2. a \in Seq(Drawn) /\ A \in Seq(Drawn) /\ (Grows(u, U) => Grows(a, A))
    <3> HIDE DEF u, U, m
    <3>1. Joined(m, u) \in Seq(Drawn) /\ Joined(m, U) \in Seq(Drawn)
      BY <1>4, <2>1, JoinedTyped DEF u, U
    <3>2. Grows(u, U) => Grows(Joined(m, u), Joined(m, U))
      BY <2>1, GrowsAfter
    <3> QED
      BY <3>1, <3>2, NewLineTyped, LineGrows
  <2>3. u = U => a = A
    OBVIOUS
  <2>4. k \in ListState
    BY DEF Bumped, ListState
  <2>0. l.in_list /\ name = <<"li">>
    BY <1>7
  <2>5. FormatBlocks[LoopAt(p, l, e)] = Joined(a, FormatBlocks[LoopAt(d.text, k, FALSE)])
    <3>1. ItemShows(p, l, e, r)
      BY <2>0, LoopOpensItem
    <3> QED
      BY <1>7, <3>1 DEF ItemShows
  <2>6. FormatBlocks[LoopAt(Joined(p, q), l, e)] = Joined(A, FormatBlocks[LoopAt(D.text, k, FALSE)])
    <3>1. ItemShows(Joined(p, q), l, e, rq)
      BY <2>0, LoopOpensItem
    <3> QED
      BY <1>7, <3>1 DEF ItemShows
  <2> DEFINE b == FALSE
  <2>7. /\ b \in BOOLEAN /\ b = FALSE
        /\ Grows(u, U) => Grows(a, A)
        /\ u = U => a = A /\ b = b
    BY <2>2, <2>3
  <2> HIDE DEF a, A, b, d, D, k
  <2>8. /\ Grows(Joined(a, FormatBlocks[LoopAt(d.text, k, b)]),
                 Joined(A, FormatBlocks[LoopAt(D.text, k, b)]))
        /\ q \in Ending => Joined(A, FormatBlocks[LoopAt(D.text, k, b)])
                             = Joined(a, FormatBlocks[LoopAt(d.text, k, b)])
    BY <1>2, <1>3, <1>5, <2>2, <2>4, <2>7, CutContent
  <2> QED
    BY <2>5, <2>6, <2>7, <2>8 DEF CutLoop
<1> QED
  BY <1>6, <1>7

LEMMA CutBlocks ==
  ASSUME NEW p \in Text, TagsWhole(p), NEW q \in Text, NEW l \in ListState, NEW e \in BOOLEAN
  PROVE  CutLoop(p, q, l, e)
<1> DEFINE good == {x \in Text : TagsWhole(x) =>
                      \A k \in ListState, f \in BOOLEAN : CutLoop(x, q, k, f)}
<1>1. ASSUME NEW x \in Text, \A y \in Text : Len(y) < Len(x) => y \in good,
             TagsWhole(x), NEW k \in ListState, NEW f \in BOOLEAN
      PROVE  CutLoop(x, q, k, f)
  <2> DEFINE xq == Joined(x, q)
  <2>1. CASE x = <<>>
    <3>1. FormatBlocks[LoopAt(x, k, f)] = <<>>
      BY <2>1, LoopEnds
    <3>2. xq = q
      BY <2>1, JoinedEmpty DEF Text
    <3>3. FormatBlocks[LoopAt(q, k, f)] \in Seq(Drawn)
      BY BlocksDrawn
    <3>4. Grows(<<>>, Joined(<<>>, FormatBlocks[LoopAt(q, k, f)]))
      BY <3>3, GrowsFrom, EmptySeq
    <3>5. Joined(<<>>, FormatBlocks[LoopAt(q, k, f)]) = FormatBlocks[LoopAt(q, k, f)]
      BY <3>3, JoinedEmpty
    <3>6. q \in Ending => FormatBlocks[LoopAt(q, k, f)] = <<>>
      BY BlocksEnding
    <3> QED
      BY <3>1, <3>2, <3>4, <3>5, <3>6 DEF CutLoop
  <2>2. CASE x # <<>> /\ NoTagAt(x)
    <3>1. /\ xq \in Text /\ xq # <<>> /\ NoTagAt(xq)
          /\ Tail(xq) = Joined(Tail(x), q) /\ TagsWhole(Tail(x))
      BY <1>1, <2>2, PlainKeeps
    <3>2. FormatBlocks[LoopAt(x, k, f)] = FormatBlocks[LoopAt(Tail(x), k, f)]
      BY <2>2, LoopAtTyped, LoopSkips
    <3>3. FormatBlocks[LoopAt(xq, k, f)] = FormatBlocks[LoopAt(Tail(xq), k, f)]
      <4> HIDE DEF xq
      <4> QED
        BY <3>1, LoopAtTyped, LoopSkips
    <3>4. Tail(x) \in good
      BY <1>1, <2>2, TextSteps
    <3>5. CutLoop(Tail(x), q, k, f)
      BY <3>1, <3>4
    <3> QED
      BY <3>1, <3>2, <3>3, <3>5 DEF CutLoop
  <2>3. CASE x # <<>> /\ ~NoTagAt(x)
    <3> DEFINE name == TagAt(x, BLOCK_BUF).name
               closing == TagAt(x, BLOCK_BUF).closing
               r == TagAt(x, BLOCK_BUF).rest
    <3>1. /\ name \in Text /\ closing \in BOOLEAN /\ r \in Text /\ Len(r) < Len(x)
          /\ Reads(x, BLOCK_BUF, name, closing, r)
          /\ Len(r) \in Nat
      BY <2>3, TagTyped DEF Reads
    <3>2. Reads(Joined(x, q), BLOCK_BUF, name, closing, Joined(r, q))
      BY <2>3, TagKeeps
    <3>3. TagsWhole(r)
      BY <1>1, <2>3, TagLeavesWhole
    <3> HIDE DEF name, closing, r, xq
    <3>4. r \in good
      BY <1>1, <3>1
    <3>5. ASSUME NEW y \in Text, NEW j \in ListState, NEW g \in BOOLEAN, Len(y) <= Len(r) /\ TagsWhole(y)
          PROVE  CutLoop(y, q, j, g)
      <4>1. Len(y) < Len(x)
        BY <3>1, <3>5, LenProperties DEF Text
      <4>2. y \in good
        BY <1>1, <4>1
      <4> QED
        BY <3>5, <4>2
    <3>6. CASE ~closing /\ (name = <<"p">> \/ (name = <<"li">> /\ k.in_list))
      <4>1. name \in {<<"p">>, <<"li">>} /\ ~closing /\ (name = <<"li">> => k.in_list)
        <5>1. <<"p">> # <<"li">>
          OBVIOUS
        <5> QED
          BY <3>6, <5>1
      <4> HIDE DEF good
      <4> QED
        BY <3>1, <3>2, <3>3, <3>5, <4>1, CutBlock
    <3>7. CASE ~(~closing /\ (name = <<"p">> \/ (name = <<"li">> /\ k.in_list)))
      <4>1. ~(name = <<"p">> /\ ~closing) /\ ~(name = <<"li">> /\ ~closing /\ k.in_list)
        BY <3>7
      <4> DEFINE next == ListAfter(name, closing, k)
      <4>2. next \in ListState /\ FormatBlocks[LoopAt(x, k, f)] = FormatBlocks[LoopAt(r, next, f)]
        BY <3>1, <4>1, LoopGoesOn
      <4>3. FormatBlocks[LoopAt(Joined(x, q), k, f)] = FormatBlocks[LoopAt(Joined(r, q), next, f)]
        BY <3>1, <3>2, <4>1, LoopGoesOn
      <4> HIDE DEF next
      <4>4. CutLoop(r, q, next, f)
        BY <3>3, <3>4, <4>2
      <4> QED
        BY <4>2, <4>3, <4>4 DEF CutLoop
    <3> QED
      BY <3>6, <3>7
  <2> QED
    BY <2>1, <2>2, <2>3
<1>2. Text \subseteq good
  <2>1. \A x \in Text : (\A y \in Text : Len(y) < Len(x) => y \in good) => x \in good
    BY <1>1
  <2> HIDE DEF good
  <2> QED
    BY <2>1, ByLength
<1> QED
  BY <1>2

\* gs_modulix_html_to_pango() of a text, and of its beginning.
LEMMA CutShown ==
  ASSUME NEW p \in Text, TagsWhole(p), NEW q \in Text
  PROVE  /\ IsPrefix(TextOf(HtmlToPango(p)), TextOf(HtmlToPango(Joined(p, q))))
         /\ OnlyEndTags(q) => HtmlToPango(p) = HtmlToPango(Joined(p, q))
<1>1. NoList \in ListState /\ TRUE \in BOOLEAN
  BY DEF NoList, ListState
<1>2. CutLoop(p, q, NoList, TRUE)
  BY <1>1, CutBlocks
<1>3. \A x : HtmlToPango(x) = Stripped(FormatBlocks[LoopAt(x, NoList, TRUE)])
  BY DEF HtmlToPango, LoopAt
<1>4. OnlyEndTags(q) => q \in Ending
  BY DEF Ending
<1> QED
  BY <1>2, <1>3, <1>4, StrippedGrows DEF CutLoop

LEMMA CutStepShows ==
  MarkupInv /\ [MarkupNext]_vars =>
    ((cut' /\ ~cut /\ TagsWhole(html')) =>
       /\ IsPrefix(TextOf(pango'), TextOf(pango))
       /\ OnlyEndTags(SubSeq(html, Len(html') + 1, Len(html))) => pango' = pango)
<1> SUFFICES ASSUME MarkupInv, [MarkupNext]_vars, cut', ~cut, TagsWhole(html')
             PROVE  /\ IsPrefix(TextOf(pango'), TextOf(pango))
                    /\ OnlyEndTags(SubSeq(html, Len(html') + 1, Len(html))) => pango' = pango
  OBVIOUS
<1>1. PICK n \in 0 .. Len(html) - 1 : Cut(n)
  BY DEF MarkupNext, Stray, Deliver, vars
<1>2. html \in Seq(Token) /\ Len(html) \in Nat
  BY LenProperties DEF MarkupInv, Text
<1> DEFINE p == SubSeq(html, 1, n)
           q == SubSeq(html, n + 1, Len(html))
<1>3. p \in Seq(Token) /\ Len(p) = n /\ q \in Seq(Token)
  <2> DEFINE m == Len(html)
             k == n + 1
  <2>1. \A i \in 1 .. m : html[i] \in Token
    BY <1>2, ElementOfSeq
  <2>2. m \in Nat /\ n \in Nat /\ k \in Int /\ n <= m /\ 1 <= k
    BY <1>2
  <2> HIDE DEF m, k
  <2>3. /\ SubSeq(html, 1, n) \in Seq(Token) /\ Len(SubSeq(html, 1, n)) = n
        /\ SubSeq(html, k, m) \in Seq(Token)
    BY <2>1, <2>2, SubSeqProperties
  <2> QED
    BY <2>3 DEF m, k
<1>4. Joined(p, q) = html
  <2>1. 1 \in 1 .. Len(html) + 1 /\ n \in 1 - 1 .. Len(html) /\ Len(html) \in n .. Len(html)
    BY <1>2
  <2>2. p \o q = SubSeq(html, 1, Len(html))
    BY <1>2, <2>1, ConcatAdjacentSubSeq
  <2>3. SubSeq(html, 1, Len(html)) = html
    BY <1>2, SubSeqFull
  <2> QED
    BY <2>2, <2>3, Zenon DEF Joined
<1>5. html' = p /\ pango' = HtmlToPango(p) /\ pango = HtmlToPango(Joined(p, q))
  BY <1>1, <1>4 DEF Cut, MarkupInv
<1>6. q = SubSeq(html, Len(html') + 1, Len(html))
  BY <1>3, <1>5
<1>7. p \in Text /\ q \in Text /\ TagsWhole(p)
  BY <1>3, <1>5 DEF Text
<1> HIDE DEF p, q
<1>8. /\ IsPrefix(TextOf(HtmlToPango(p)), TextOf(HtmlToPango(Joined(p, q))))
      /\ OnlyEndTags(q) => HtmlToPango(p) = HtmlToPango(Joined(p, q))
  BY <1>7, CutShown
<1> QED
  BY <1>5, <1>6, <1>8

\* A description cut between two tags shows the beginning of what it would have
\* shown whole, and all of it when only closing tags are missing: for every set
\* of words, whatever the description holds and wherever it is cut
\* (gs_modulix_html_to_pango(), which keeps what was converted before the input
\* ended).
THEOREM CutKeepsBeginning == MarkupSpec => CutShowsBeginning
<1>1. MarkupInit => MarkupInv
  BY MarkupInvInit
<1>2. MarkupInv /\ [MarkupNext]_vars => MarkupInv'
  BY MarkupInvNext
<1>3. MarkupInv /\ [MarkupNext]_vars =>
        [(cut' /\ ~cut /\ TagsWhole(html')) =>
           /\ IsPrefix(TextOf(pango'), TextOf(pango))
           /\ OnlyEndTags(SubSeq(html, Len(html') + 1, Len(html))) => pango' = pango]_vars
  BY CutStepShows
<1> QED
  BY <1>1, <1>2, <1>3, PTL DEF MarkupSpec, CutShowsBeginning

===============================================================================
