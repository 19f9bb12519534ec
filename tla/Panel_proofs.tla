---------------------------- MODULE Panel_proofs ----------------------------
(***************************************************************************)
(* Proofs about Panel: for every set of texts, width of a row, number of   *)
(* rows and of rectangles per pass, the snapshots of the renderer are what *)
(* the panel shows, and the transcript is what was said.                   *)
(***************************************************************************)
EXTENDS Panel, StreamLemmas

Inks == Chars \union {"u"}

\* A line of the history.
Line == [ text : Seq(Inks) \ {<<>>}, color : {"ai", "user"} ]

Displays ==
    [ history : Seq(Line), rest : Seq(Chars), line : Seq(Chars),
      stream : BOOLEAN, queued : Seq(Chars) ]

\* The Display, and the reply the server is sending.
Texts ==
    /\ d \in Displays /\ Len(d.history) <= MaxHistory
    /\ reply \in [ text : Seq(Chars), sent : Nat ] /\ reply.sent <= Len(reply.text)

Status == state \in States /\ volume \in 0 .. 10 /\ volUntil \in Untils

\* What a row can be asked to show.
RowSlots == [ text : Seq(Inks), color : {"ai", "user", "black"}, caret : BOOLEAN ]

Grid == [ Slots -> [ 1 .. SubW + 1 -> Cells ] ]

PanelTypes ==
    /\ taken \in {"bars", "clearing", "taken"} /\ clear_row \in 0 .. Visible
    /\ ok \in BOOLEAN /\ failed \in BOOLEAN
    /\ pixels \in Grid /\ window.row \in 0 .. Visible
    /\ drawn \in [ Slots -> RowSlots ]

\* The picture of a bar under its key.
KeyPicture(key) ==
    [ state |-> key.state,
      texts |-> IF key.shown THEN <<key.volume>> ELSE <<key.minute, key.battery>> ]

\* The bar shows what its key says, or a write has failed.
BarShows == bar_key = NoKey \/ bar = KeyPicture(bar_key) \/ (failed /\ bar = TornBar)

\* A cell shows what the snapshot of its row says, or a write has failed.
CellShows(k, x) ==
    \/ pixels[k][x] = Picture(drawn[k])[x]
    \/ failed /\ pixels[k][x] \in {Torn, Boot}

\* Before the screen is taken over: nothing is on record, the rows cleared so
\* far are empty, and the others show the colour test, or a write has failed.
BeforeTaken ==
    taken # "taken" =>
        /\ drawn = [ k \in Slots |-> NoSlot ] /\ bar_key = NoKey
        /\ \A k \in Slots, x \in 1 .. SubW + 1 :
              IF k < clear_row THEN CellShows(k, x)
              ELSE pixels[k][x] = Boot \/ (failed /\ pixels[k][x] = Torn)

Rows == taken = "taken" => \A k \in Slots, x \in 1 .. SubW + 1 : CellShows(k, x)

PanelInv == Texts /\ Status /\ PanelTypes /\ BeforeTaken /\ Rows /\ BarShows

-----------------------------------------------------------------------------
(* Lines.                                                                  *)

\* The lines so far, and the one being filled.
Wrapping == [ out : Seq(Seq(Inks)), cur : Seq(Inks) ]

\* A character stays among them.
LEMMA WrapStays ==
    ASSUME NEW a \in Wrapping, NEW ch \in Inks
    PROVE  WrapChar(a, ch) \in Wrapping
<1>1. Append(a.out, a.cur) \in Seq(Seq(Inks)) /\ Append(a.cur, ch) \in Seq(Inks)
  BY DEF Wrapping
<1>2. <<>> \in Seq(Inks) /\ <<ch>> \in Seq(Inks)
  OBVIOUS
<1>3. [ a EXCEPT !.cur = Append(@, ch) ] \in Wrapping
  BY <1>1 DEF Wrapping
<1> QED BY <1>1, <1>2, <1>3 DEF WrapChar, Wrapping

\* The states of the wrapping, from before the first character to behind the last.
Wraps(g, start, text) ==
    /\ g[0] = start /\ g[Len(text)] = FoldLeft(WrapChar, start, text)
    /\ \A i \in 1 .. Len(text) : g[i] = WrapChar(g[i - 1], text[i])

\* All characters of a text do, one after the other.
LEMMA WrapFold ==
    ASSUME NEW text \in Seq(Inks), NEW start \in Wrapping
    PROVE  \E g \in [ 0 .. Len(text) -> Wrapping ] : Wraps(g, start, text)
<1> DEFINE A == Wrapping
           n == Len(text)
           Rec(h) == [ s \in SUBSET (DOMAIN text) |->
                         IF s = {} THEN start ELSE WrapChar(h[s \ {Max(s)}], text[Max(s)]) ]
           I == CHOOSE iter : iter = Rec(iter)
           step == [ p \in (1 .. n) \X A |-> WrapChar(p[2], text[p[1]]) ]
<1>1. FoldLeft(WrapChar, start, text) = I[DOMAIN text]
  BY Zenon DEF FoldLeft, MapThenFoldSet
<1>2. n \in Nat /\ DOMAIN text = 1 .. n
  OBVIOUS
<1>3. step \in [ (1 .. n) \X A -> A ]
  <2>1. ASSUME NEW i \in 1 .. n, NEW a \in A PROVE WrapChar(a, text[i]) \in A
    <3>1. text[i] \in Inks
      BY <1>2
    <3> HIDE DEF A
    <3> QED BY <3>1, WrapStays DEF A
  <2> QED BY <2>1
<1>4. PICK h \in [ SUBSET (1 .. n) -> A ] : Folds(h, start, n, step)
  <2>1. start \in A
    OBVIOUS
  <2> HIDE DEF step, A, n
  <2> QED BY <1>2, <1>3, <2>1, FoldExists
<1>5. h = Rec(h)
  <2>1. ASSUME NEW s \in SUBSET (1 .. n), s # {}
        PROVE  step[<<Max(s), h[s \ {Max(s)}]>>] = WrapChar(h[s \ {Max(s)}], text[Max(s)])
    <3>1. Max(s) \in 1 .. n
      <4> HIDE DEF n
      <4> QED BY <2>1, <1>2, MaxOf
    <3>2. h[s \ {Max(s)}] \in A
      BY <1>4
    <3> HIDE DEF A
    <3> QED BY <3>1, <3>2
  <2>2. ASSUME NEW s \in SUBSET (1 .. n)
        PROVE  h[s] = IF s = {} THEN start ELSE WrapChar(h[s \ {Max(s)}], text[Max(s)])
    <3> HIDE DEF step, A, n
    <3> QED BY <1>4, <2>1 DEF Folds
  <2> HIDE DEF step, A, n
  <2> QED BY <1>2, <1>4, <2>2
<1>6. I = Rec(I)
  <2> HIDE DEF Rec
  <2> QED BY <1>5
<1>7. I[1 .. 0] = start
  <2>1. 1 .. 0 = {}
    OBVIOUS
  <2>2. {} \in SUBSET (DOMAIN text)
    OBVIOUS
  <2> HIDE DEF I
  <2> QED BY <1>6, <2>1, <2>2
<1>8. ASSUME NEW i \in 1 .. n, I[1 .. (i - 1)] \in A
      PROVE  I[1 .. i] = step[<<i, I[1 .. (i - 1)]>>]
  <2> HIDE DEF I
  <2>1. 1 .. i \in SUBSET (DOMAIN text) /\ 1 .. i # {}
    BY <1>2
  <2>2. Max(1 .. i) = i
    <3>1. i \in Nat /\ i \in 1 .. i /\ 1 .. i \in SUBSET (1 .. i)
      BY <1>2
    <3>2. Max(1 .. i) \in 1 .. i /\ i <= Max(1 .. i)
      BY <3>1, MaxOf
    <3> QED BY <3>1, <3>2
  <2>3. (1 .. i) \ {i} = 1 .. (i - 1)
    BY <1>2
  <2>4. I[1 .. i] = WrapChar(I[(1 .. i) \ {i}], text[i])
    BY <1>6, <2>1, <2>2, Zenon
  <2> QED BY <1>8, <2>3, <2>4
<1>9. PICK g \in [ 0 .. n -> A ] : Traces(g, start, I[1 .. n], n, step)
  <2>1. start \in A
    OBVIOUS
  <2> HIDE DEF I, step, A, n
  <2>2. Follows(I, A, start, n, step)
    BY <1>7, <1>8 DEF Follows
  <2> QED BY <1>2, <1>3, <2>1, <2>2, TraceOf
<1>10. ASSUME NEW i \in 1 .. n PROVE g[i] = WrapChar(g[i - 1], text[i])
  <2>1. i - 1 \in 0 .. n
    BY <1>2
  <2>2. g[i - 1] \in A
    BY <1>9, <2>1
  <2>3. g[i] = step[<<i, g[i - 1]>>]
    <3> HIDE DEF step
    <3> QED BY <1>9 DEF Traces
  <2> HIDE DEF A
  <2> QED BY <2>2, <2>3
<1>11. g[0] = start /\ g[n] = FoldLeft(WrapChar, start, text)
  <2> HIDE DEF I, step
  <2> QED BY <1>1, <1>2, <1>9 DEF Traces
<1> HIDE DEF I, step
<1> QED BY <1>9, <1>10, <1>11 DEF Wraps

\* The lines of a text.
LEMMA WrapTyped ==
    ASSUME NEW text \in Seq(Inks)
    PROVE  wrap_to_lines(text) \in Seq(Seq(Inks))
<1> DEFINE all == FoldLeft(WrapChar, [ out |-> <<>>, cur |-> <<>> ], text)
<1>1. [ out |-> <<>>, cur |-> <<>> ] \in Wrapping
  BY DEF Wrapping
<1>2. all \in Wrapping
  <2>1. PICK g \in [ 0 .. Len(text) -> Wrapping ] : Wraps(g, [ out |-> <<>>, cur |-> <<>> ], text)
    BY <1>1, WrapFold
  <2>2. Len(text) \in 0 .. Len(text)
    OBVIOUS
  <2>3. g[Len(text)] \in Wrapping
    BY <2>2
  <2> QED BY <2>1, <2>3, Zenon DEF Wraps
<1> HIDE DEF all
<1>3. Append(all.out, all.cur) \in Seq(Seq(Inks))
  BY <1>2 DEF Wrapping
<1> QED BY <1>3 DEF wrap_to_lines, all

\* The last m elements.
LEMMA Latest ==
    ASSUME NEW S, NEW s \in Seq(S), NEW m \in Nat, Len(s) > m
    PROVE  LET t == SubSeq(s, Len(s) - m + 1, Len(s)) IN t \in Seq(S) /\ Len(t) = m
<1> DEFINE a == Len(s) - m
<1>1. a \in Nat /\ a + m = Len(s)
  OBVIOUS
<1> HIDE DEF a
<1>2. SubSeq(s, a + 1, a + m) \in Seq(S) /\ Len(SubSeq(s, a + 1, a + m)) = m
  BY <1>1, SubSeqFacts
<1> QED BY <1>1, <1>2 DEF a

\* A line as it enters the history, an empty one as a space.
Entry(line, color) == [ text |-> IF line = <<>> THEN <<" ">> ELSE line, color |-> color ]

\* See Entry.
LEMMA EntryTyped ==
    ASSUME NEW line \in Seq(Inks), NEW color \in {"ai", "user"}
    PROVE  Entry(line, color) \in Line
<1>1. PICK space \in Inks : space = " "
  BY Zenon DEF Inks, Chars
<1>2. Entry(line, color) = [ text |-> IF line = <<>> THEN <<space>> ELSE line, color |-> color ]
  BY <1>1, Zenon DEF Entry
<1>3. <<space>> \in Seq(Inks) \ {<<>>}
  OBVIOUS
<1> QED BY <1>2, <1>3 DEF Line

\* A line pushed: no line is empty, and the history keeps its bound.
LEMMA PushTyped ==
    ASSUME NEW history \in Seq(Line), NEW text \in Seq(Inks), NEW color \in {"ai", "user"}
    PROVE  Push(history, text, color) \in Seq(Line) /\ Len(Push(history, text, color)) <= MaxHistory
<1> DEFINE lines == wrap_to_lines(text)
           new   == [ i \in 1 .. Len(lines) |-> Entry(lines[i], color) ]
           all   == history \o new
<1>1. lines \in Seq(Seq(Inks))
  BY WrapTyped
<1>2. Push(history, text, color) =
        IF Len(all) <= MaxHistory THEN all ELSE SubSeq(all, Len(all) - MaxHistory + 1, Len(all))
  BY Zenon DEF Push, Entry
<1> HIDE DEF lines
<1>3. Len(lines) \in Nat /\ \A i \in 1 .. Len(lines) : lines[i] \in Seq(Inks)
  BY <1>1
<1>4. \A i \in 1 .. Len(lines) : Entry(lines[i], color) \in Line
  BY <1>3, EntryTyped
<1>5. new \in Seq(Line)
  BY <1>3, <1>4
<1> HIDE DEF new
<1>6. all \in Seq(Line) /\ Len(all) \in Nat
  BY <1>5
<1> HIDE DEF all
<1>7. MaxHistory \in Nat
  BY SubtitlesAssumption, Zenon
<1>8. CASE Len(all) <= MaxHistory
  BY <1>2, <1>6, <1>8
<1>9. CASE ~(Len(all) <= MaxHistory)
  <2>1. Len(all) > MaxHistory
    BY <1>6, <1>7, <1>9
  <2> DEFINE t == SubSeq(all, Len(all) - MaxHistory + 1, Len(all))
  <2>2. t \in Seq(Line) /\ Len(t) = MaxHistory
    BY <1>6, <1>7, <2>1, Latest
  <2> QED BY <1>2, <1>7, <1>9, <2>2
<1> QED BY <1>8, <1>9

-----------------------------------------------------------------------------
(* The calls of the two tasks, and the typewriter, keep the Display's      *)
(* types and the bound of its history.                                     *)

Fits(disp) == disp \in Displays /\ Len(disp.history) <= MaxHistory

\* The text a line ends up with.
LEMMA CharsInked ==
    /\ <<>> \in Seq(Chars)
    /\ \A s \in Seq(Chars) : s \in Seq(Inks)
    /\ \A s \in Seq(Chars), t \in Seq(Chars) : s \o t \in Seq(Inks) /\ s \o t \in Seq(Chars)
<1>1. Chars \subseteq Inks
  BY DEF Inks
<1> QED BY <1>1

\* flush_typing ends the line.
LEMMA FlushTyped ==
    ASSUME NEW disp, Fits(disp)
    PROVE  LET f == flush_typing(disp) IN Fits(f) /\ f.stream = FALSE /\ f.queued = <<>>
<1>0. PICK none \in Seq(Chars) : none = <<>>
  BY CharsInked
<1>1. CASE ~IsTyping(disp)
  <2>1. flush_typing(disp) = [ disp EXCEPT !.stream = FALSE, !.queued = none ]
    BY <1>0, <1>1 DEF flush_typing
  <2>2. LET f == [ disp EXCEPT !.stream = FALSE, !.queued = none ] IN
        Fits(f) /\ f.stream = FALSE /\ f.queued = none
    BY DEF Fits, Displays
  <2> QED BY <1>0, <2>1, <2>2
<1>2. CASE IsTyping(disp)
  <2> DEFINE h == Push(disp.history, disp.line \o disp.rest, "ai")
  <2>1. disp.line \o disp.rest \in Seq(Inks) /\ disp.history \in Seq(Line)
    BY CharsInked DEF Fits, Displays
  <2>2. h \in Seq(Line) /\ Len(h) <= MaxHistory
    BY <2>1, PushTyped
  <2>3. flush_typing(disp) = [ Empty EXCEPT !.history = h ]
    BY <1>2 DEF flush_typing
  <2> HIDE DEF h
  <2>4. Empty \in Displays /\ Empty.stream = FALSE /\ Empty.queued = <<>>
    <3>1. Empty = [ history |-> none, rest |-> none, line |-> none, stream |-> FALSE, queued |-> none ]
      BY <1>0, Zenon DEF Empty
    <3>2. <<>> \in Seq(Line)
      OBVIOUS
    <3> QED BY <1>0, <3>1, <3>2 DEF Displays
  <2>5. LET f == [ Empty EXCEPT !.history = h ] IN Fits(f) /\ f.stream = FALSE /\ f.queued = <<>>
    BY <2>2, <2>4 DEF Fits, Displays
  <2> QED BY <2>3, <2>5
<1> QED BY <1>1, <1>2

\* add_user_line.
LEMMA UserTyped ==
    ASSUME NEW disp, Fits(disp)
    PROVE  Fits(add_user_line(disp, <<"u">>))
<1> DEFINE f == flush_typing(disp)
           h == Push(f.history, <<"u">>, "user")
<1>1. Fits(f)
  BY FlushTyped
<1> HIDE DEF f
<1>2. <<"u">> \in Seq(Inks)
  BY DEF Inks
<1>3. h \in Seq(Line) /\ Len(h) <= MaxHistory
  BY <1>1, <1>2, PushTyped DEF Fits, Displays
<1> HIDE DEF h
<1>4. Fits([ f EXCEPT !.history = h ])
  BY <1>1, <1>3 DEF Fits, Displays
<1> QED BY <1>4 DEF add_user_line, f, h

\* append_reply_delta.
LEMMA DeltaTyped ==
    ASSUME NEW disp, Fits(disp), NEW piece \in Seq(Chars)
    PROVE  Fits(append_reply_delta(disp, piece))
<1> DEFINE s == IF disp.stream THEN disp ELSE begin_reply_stream(disp)
<1>1. Fits(s)
  <2>1. CASE disp.stream
    BY <2>1
  <2>2. CASE ~disp.stream
    <3> DEFINE f == flush_typing(disp)
    <3>1. Fits(f)
      BY FlushTyped
    <3> HIDE DEF f
    <3>2. Fits([ f EXCEPT !.stream = TRUE ])
      BY <3>1 DEF Fits, Displays
    <3> QED BY <2>2, <3>2 DEF begin_reply_stream, f
  <2> QED BY <2>1, <2>2
<1> HIDE DEF s
<1>2. /\ s.rest \o piece \in Seq(Chars) /\ s.queued \o piece \in Seq(Chars)
  BY <1>1, CharsInked DEF Fits, Displays
<1>3. Fits([ s EXCEPT !.rest = @ \o piece, !.queued = @ \o piece ])
  <2>1. PICK r, q : r = s.rest \o piece /\ q = s.queued \o piece
    OBVIOUS
  <2>2. Fits([ s EXCEPT !.rest = r, !.queued = q ])
    BY <1>1, <1>2, <2>1 DEF Fits, Displays
  <2>3. [ s EXCEPT !.rest = @ \o piece, !.queued = @ \o piece ] = [ s EXCEPT !.rest = r, !.queued = q ]
    BY <2>1
  <2> QED BY <2>2, <2>3
<1> QED BY <1>3 DEF append_reply_delta, s

\* set_reply_full_text.
LEMMA FullTyped ==
    ASSUME NEW disp, Fits(disp), NEW full \in Seq(Chars)
    PROVE  Fits(set_reply_full_text(disp, full))
<1>1. CASE Agrees(disp, full)
  <2> DEFINE lacks == SubSeq(full, Len(disp.queued) + 1, Len(full))
             r == disp.rest \o lacks
  <2>1. disp.queued \in Seq(Chars) /\ disp.rest \in Seq(Chars) /\ Len(disp.queued) <= Len(full)
    BY <1>1 DEF Agrees, IsPrefix, Fits, Displays
  <2>2. lacks \in Seq(Chars)
    BY <2>1
  <2> HIDE DEF lacks
  <2>3. r \in Seq(Chars)
    BY <2>1, <2>2
  <2> HIDE DEF r
  <2>4. PICK none \in Seq(Chars) : none = <<>>
    BY CharsInked
  <2>5. Fits([ disp EXCEPT !.rest = r, !.stream = FALSE, !.queued = none ])
    BY <2>3 DEF Fits, Displays
  <2> QED BY <1>1, <2>4, <2>5 DEF set_reply_full_text, lacks, r
<1>2. CASE ~Agrees(disp, full)
  <2> DEFINE f == flush_typing(disp)
  <2>1. Fits(f)
    BY FlushTyped
  <2> HIDE DEF f
  <2>2. Fits([ f EXCEPT !.rest = full ])
    BY <2>1 DEF Fits, Displays
  <2> QED BY <1>2, <2>2 DEF set_reply_full_text, begin_reply_typewriter, f
<1> QED BY <1>1, <1>2

\* There is a first place behind the characters of S.
LEMMA BehindFound ==
    ASSUME NEW text \in Seq(Chars), NEW i \in 1 .. Len(text) + 1, NEW S
    PROVE  Behind(text, i, S) \in i .. Len(text) + 1
<1> DEFINE n == Len(text)
           T == { k \in i .. n + 1 : k = n + 1 \/ text[k] \notin S }
<1>1. n \in Nat /\ i \in 1 .. n + 1
  OBVIOUS
<1> HIDE DEF n
<1>2. T \subseteq Nat /\ T # {}
  <2>1. n + 1 \in T
    BY <1>1
  <2> QED BY <1>1, <2>1
<1>3. PICK k \in T : \A m \in T : k <= m
  BY <1>2, Least
<1>4. \A m \in i .. k - 1 : text[m] \in S
  <2> TAKE m \in i .. k - 1
  <2>1. m \in i .. n + 1 /\ ~(k <= m) /\ m # n + 1
    BY <1>1, <1>3
  <2> QED BY <1>3, <2>1
<1>5. \E j \in i .. n + 1 : (j = n + 1 \/ text[j] \notin S) /\ \A m \in i .. j - 1 : text[m] \in S
  BY <1>3, <1>4
<1> QED BY <1>5 DEF Behind, n

\* One unit is some of what is left to type.
LEMMA UnitFits ==
    ASSUME NEW text \in Seq(Chars)
    PROVE  UnitLen(text) \in 0 .. Len(text)
<1> DEFINE n == Len(text)
<1>1. n \in Nat /\ 1 \in 1 .. n + 1
  OBVIOUS
<1>2. PICK spaces : spaces = {" "}
  OBVIOUS
<1>3. PICK i : i = Behind(text, 1, spaces)
  OBVIOUS
<1>4. i \in 1 .. n + 1
  BY <1>1, <1>3, BehindFound
<1>5. PICK j : j = Behind(text, i, Letters)
  OBVIOUS
<1>6. j \in i .. n + 1
  BY <1>4, <1>5, BehindFound
<1>7. j \in 1 .. n + 1
  BY <1>1, <1>4, <1>6
<1>8. PICK k : k = Behind(text, j, spaces)
  OBVIOUS
<1>9. k \in j .. n + 1
  BY <1>7, <1>8, BehindFound
<1>10. UnitLen(text) = IF i > n THEN n ELSE IF text[i] \in Letters THEN k - 1 ELSE i
  BY <1>2, <1>3, <1>5, <1>8, Zenon DEF UnitLen
<1> HIDE DEF n
<1>11. UnitLen(text) \in 0 .. n
  BY <1>1, <1>4, <1>6, <1>7, <1>9, <1>10
<1> QED BY <1>11 DEF n

\* tick() of the Display.
LEMMA RevealTyped ==
    ASSUME NEW disp, Fits(disp)
    PROVE  Fits(Reveal(disp))
<1> DEFINE n    == UnitLen(disp.rest)
           unit == SubSeq(disp.rest, 1, n)
           left == SubSeq(disp.rest, n + 1, Len(disp.rest))
           full == Len(disp.line) + n > SubW /\ disp.line # <<>>
           h == IF full THEN Push(disp.history, disp.line, "ai") ELSE disp.history
           l == IF full THEN unit ELSE disp.line \o unit
<1>1. /\ disp.rest \in Seq(Chars) /\ disp.line \in Seq(Chars) /\ disp.line \in Seq(Inks)
      /\ disp.history \in Seq(Line) /\ Len(disp.history) <= MaxHistory
  BY CharsInked DEF Fits, Displays
<1>2. n \in 0 .. Len(disp.rest)
  BY <1>1, UnitFits
<1>3. Reveal(disp) = [ disp EXCEPT !.rest = left, !.history = h, !.line = l ]
  BY DEF Reveal
<1> HIDE DEF n, full
<1>4. unit \in Seq(Chars) /\ left \in Seq(Chars)
  BY <1>1, <1>2
<1> HIDE DEF unit, left
<1>5. h \in Seq(Line) /\ Len(h) <= MaxHistory
  BY <1>1, PushTyped
<1>6. l \in Seq(Chars)
  BY <1>1, <1>4
<1> HIDE DEF h, l
<1> QED BY <1>3, <1>4, <1>5, <1>6 DEF Fits, Displays

-----------------------------------------------------------------------------
(* Pictures.                                                               *)

\* The cells there are.
LEMMA CellsTyped ==
    /\ {Blank, Caret, Boot, Torn} \subseteq Cells
    /\ \A ch \in Inks, color \in {"ai", "user", "black"} : Inked(ch, color) \in Cells
<1>1. /\ \A ch \in Inks : ch \in Chars \union {"u", "_", "#", "?"}
      /\ {"_", "#", "?"} \subseteq Chars \union {"u", "_", "#", "?"}
  BY DEF Inks
<1>2. PICK space \in Chars : space = " "
  BY Zenon DEF Chars
<1>3. Blank = [ glyph |-> space, color |-> "black" ]
  BY <1>2, Zenon DEF Blank
<1>4. {Blank, Caret, Boot, Torn} \subseteq Cells
  <2>1. Blank \in Cells
    BY <1>3 DEF Cells
  <2>2. Caret \in Cells
    BY DEF Cells, Caret
  <2>3. Boot \in Cells
    BY DEF Cells, Boot
  <2>4. Torn \in Cells
    BY DEF Cells, Torn
  <2> QED BY <2>1, <2>2, <2>3, <2>4
<1>5. ASSUME NEW ch \in Inks, NEW color \in {"ai", "user", "black"} PROVE Inked(ch, color) \in Cells
  <2>1. Inked(ch, color) \in {Blank, [ glyph |-> ch, color |-> color ]}
    BY Zenon DEF Inked
  <2>2. [ glyph |-> ch, color |-> color ] \in Cells
    BY <1>1 DEF Cells
  <2> QED BY <1>4, <2>1, <2>2
<1> QED BY <1>4, <1>5

\* The picture of a row, column by column.
LEMMA PictureTyped ==
    ASSUME NEW slot \in RowSlots
    PROVE  /\ Picture(slot) \in [ 1 .. SubW + 1 -> Cells ]
           /\ \A x \in 1 .. SubW + 1 :
                 Picture(slot)[x] =
                     IF x <= Len(slot.text) /\ x <= SubW THEN Inked(slot.text[x], slot.color)
                     ELSE IF slot.caret /\ x = Len(slot.text) + 1 THEN Caret
                     ELSE Blank
<1>1. SubW \in Nat
  BY SubtitlesAssumption, Zenon
<1>2. slot.text \in Seq(Inks) /\ slot.color \in {"ai", "user", "black"}
  BY DEF RowSlots
<1>3. \A x \in 1 .. SubW + 1 : x <= Len(slot.text) => slot.text[x] \in Inks
  BY <1>1, <1>2
<1> QED BY <1>2, <1>3, CellsTyped DEF Picture

\* The row that shows nothing.
LEMMA NoSlotTyped == NoSlot \in RowSlots
<1>1. <<>> \in Seq(Inks)
  OBVIOUS
<1> QED BY <1>1 DEF NoSlot, RowSlots

\* What is on view can be drawn.
LEMMA DesiredTyped ==
    ASSUME NEW disp, Fits(disp), NEW st, NEW k \in Slots
    PROVE  Desired(disp, st, k) \in RowSlots
<1> DEFINE Views == [ text : Seq(Inks), color : {"ai", "user"} ]
           typed == [ text |-> disp.line, color |-> "ai" ]
           view  == View(disp)
           first == IF Len(view) > Visible THEN Len(view) - Visible ELSE 0
           listen == st = "Listening"
<1>1. view \in Seq(Views)
  <2>1. Line \subseteq Views
    BY DEF Line
  <2>2. disp.history \in Seq(Views)
    <3>1. disp.history \in Seq(Line)
      BY DEF Fits, Displays
    <3> HIDE DEF Views
    <3> QED BY <2>1, <3>1
  <2>3. typed \in Views
    BY CharsInked DEF Fits, Displays
  <2> HIDE DEF Views, typed
  <2>4. disp.history \o <<typed>> \in Seq(Views) /\ disp.history \o <<>> \in Seq(Views)
    BY <2>2, <2>3
  <2>5. view = disp.history \o <<typed>> \/ view = disp.history \o <<>>
    BY DEF View, typed
  <2> QED BY <2>4, <2>5
<1>2. Desired(disp, st, k) =
        IF view = <<>>
        THEN IF listen /\ k = 1 THEN [ NoSlot EXCEPT !.caret = TRUE ] ELSE NoSlot
        ELSE IF first + k > Len(view) THEN NoSlot
        ELSE [ text  |-> view[first + k].text, color |-> view[first + k].color,
               caret |-> listen /\ first + k = Len(view) ]
  BY DEF Desired
<1> HIDE DEF view
<1>3. first \in Nat /\ k \in Nat \ {0} /\ Len(view) \in Nat
  BY <1>1, PanelAssumption DEF Slots
<1> HIDE DEF first
<1>4. ASSUME ~(first + k > Len(view)) PROVE view[first + k] \in Views
  <2>1. first + k \in 1 .. Len(view)
    BY <1>3, <1>4
  <2> HIDE DEF Views
  <2> QED BY <1>1, <2>1
<1>5. [ NoSlot EXCEPT !.caret = TRUE ] \in RowSlots
  BY NoSlotTyped DEF RowSlots
<1> QED BY <1>2, <1>4, <1>5, NoSlotTyped DEF RowSlots

\* Where the drawn text goes on, the columns it has and those behind the new
\* text show the new picture already.
LEMMA ExtendKeeps ==
    ASSUME NEW old \in RowSlots, NEW new \in RowSlots, NEW x \in 1 .. SubW + 1,
           x \notin Columns(old, new)
    PROVE  Picture(old)[x] = Picture(new)[x]
<1>1. /\ CanExtend(old, new) /\ x \notin Len(old.text) + 1 .. Len(new.text)
  BY DEF Columns
<1>2. SubW \in Nat /\ old.text \in Seq(Inks) /\ new.text \in Seq(Inks)
  BY SubtitlesAssumption, Zenon DEF RowSlots
<1>3. /\ old.color = new.color /\ ~old.caret /\ ~new.caret
      /\ Len(old.text) <= Len(new.text) /\ Len(new.text) <= SubW
      /\ SubSeq(old.text, 1, Len(old.text)) = SubSeq(new.text, 1, Len(old.text))
  BY <1>1 DEF CanExtend, IsPrefix
<1>4. CASE x <= Len(old.text)
  <2>1. x \in 1 .. Len(old.text)
    BY <1>2, <1>4
  <2>2. SubSeq(old.text, 1, Len(old.text))[x] = old.text[x]
    BY <1>2, <2>1
  <2>3. SubSeq(new.text, 1, Len(old.text))[x] = new.text[x]
    BY <1>2, <1>3, <2>1
  <2>4. old.text[x] = new.text[x] /\ x <= Len(new.text) /\ x <= SubW
    BY <1>2, <1>3, <2>1, <2>2, <2>3
  <2> QED BY <1>3, <1>4, <2>4, PictureTyped
<1>5. CASE ~(x <= Len(old.text))
  <2>1. ~(x <= Len(new.text))
    BY <1>1, <1>2, <1>5
  <2> QED BY <1>3, <1>5, <2>1, PictureTyped
<1> QED BY <1>4, <1>5

-----------------------------------------------------------------------------
(* Writes.                                                                 *)

\* A band that went through.
LEMMA PaintedCells ==
    ASSUME NEW pix \in Grid, NEW k \in Slots, NEW new \in RowSlots, NEW xs
    PROVE  /\ Painted(pix, k, new, xs) \in Grid
           /\ \A j \in Slots, x \in 1 .. SubW + 1 :
                 Painted(pix, k, new, xs)[j][x] =
                     IF j = k /\ x \in xs THEN Picture(new)[x] ELSE pix[j][x]
<1> DEFINE row == [ x \in 1 .. SubW + 1 |-> IF x \in xs THEN Picture(new)[x] ELSE pix[k][x] ]
<1>1. row \in [ 1 .. SubW + 1 -> Cells ]
  BY PictureTyped DEF Grid
<1>2. Painted(pix, k, new, xs) = [ pix EXCEPT ![k] = row ]
  BY DEF Painted, Grid
<1>3. \A x \in 1 .. SubW + 1 : row[x] = IF x \in xs THEN Picture(new)[x] ELSE pix[k][x]
  OBVIOUS
<1> HIDE DEF row
<1> QED BY <1>1, <1>2, <1>3 DEF Grid

\* A band that was torn.
LEMMA NoiseCells ==
    ASSUME NEW pix \in Grid, NEW w
    PROVE  /\ Noise(pix, w) \in Grid
           /\ \A j \in Slots, x \in 1 .. SubW + 1 : Noise(pix, w)[j][x] \in {pix[j][x], Torn}
<1>1. CASE w.row \notin Slots
  BY <1>1 DEF Noise
<1>2. CASE w.row \in Slots
  <2> DEFINE row == [ x \in 1 .. SubW + 1 |-> IF x \in w.cols THEN Torn ELSE pix[w.row][x] ]
  <2>1. row \in [ 1 .. SubW + 1 -> Cells ]
    BY <1>2, CellsTyped DEF Grid
  <2>2. Noise(pix, w) = [ pix EXCEPT ![w.row] = row ]
    BY <1>2 DEF Noise, Grid
  <2>3. \A x \in 1 .. SubW + 1 : row[x] \in {pix[w.row][x], Torn}
    OBVIOUS
  <2> HIDE DEF row
  <2> QED BY <1>2, <2>1, <2>2, <2>3 DEF Grid
<1> QED BY <1>1, <1>2

\* What a write that fails can leave.
LEMMA GarbledCells ==
    ASSUME NEW pix \in Grid, NEW b, NEW w, Garbled(pix, b, w)
    PROVE  /\ pixels' \in Grid /\ bar' \in {b, TornBar}
           /\ \A j \in Slots, x \in 1 .. SubW + 1 : pixels'[j][x] \in {pix[j][x], Torn}
<1>1. CASE pixels' = pix /\ bar' = b
  BY <1>1
<1>2. CASE \E v : pixels' = Noise(pix, v) /\ bar' \in {b, TornBar}
  BY <1>2, NoiseCells
<1>3. \/ pixels' = pix /\ bar' = b
      \/ \E v : pixels' = Noise(pix, v) /\ bar' \in {b, TornBar}
  BY DEF Garbled
<1> QED BY <1>1, <1>2, <1>3

-----------------------------------------------------------------------------
(* The renderer's tick.                                                    *)

\* The part of the invariant that the tick maintains.
Shows == PanelTypes /\ BeforeTaken /\ Rows /\ BarShows

\* A tick that draws nothing.
LEMMA QuietTick ==
    ASSUME Shows, UNCHANGED <<clear_row, drawn, bar_key, pixels, bar, window, failed>>,
           ok' \in BOOLEAN, taken' = taken \/ (taken = "bars" /\ taken' = "clearing")
    PROVE  Shows'
<1>1. PanelTypes'
  BY DEF Shows, PanelTypes
<1>2. taken' = "taken" <=> taken = "taken"
  BY DEF Shows, PanelTypes
<1>3. \A k, x : CellShows(k, x)' <=> CellShows(k, x)
  BY DEF CellShows
<1>4. BeforeTaken' /\ Rows'
  BY <1>2, <1>3 DEF Shows, BeforeTaken, Rows
<1>5. BarShows'
  BY DEF Shows, BarShows
<1> QED BY <1>1, <1>4, <1>5 DEF Shows

\* One stripe of the takeover.
LEMMA ClearShows == Shows /\ ClearTick => Shows'
<1> SUFFICES ASSUME Shows, ClearTick PROVE Shows'
  OBVIOUS
<1> DEFINE w == [ row |-> clear_row, cols |-> 1 .. SubW + 1 ]
           Cols == 1 .. SubW + 1
<1>1. /\ taken = "clearing" /\ ok = TRUE /\ UNCHANGED <<drawn, bar_key>> /\ window' = w
      /\ IF clear_row = Visible THEN taken' = "taken" /\ clear_row' = clear_row
         ELSE clear_row' = clear_row + 1 /\ taken' = taken
  BY DEF ClearTick, Shows, PanelTypes
<1>2. /\ drawn = [ k \in Slots |-> NoSlot ] /\ bar_key = NoKey /\ pixels \in Grid
      /\ \A k \in Slots, x \in Cols :
            IF k < clear_row THEN CellShows(k, x)
            ELSE pixels[k][x] = Boot \/ (failed /\ pixels[k][x] = Torn)
  BY <1>1 DEF Shows, BeforeTaken, PanelTypes
<1>3. Visible \in Nat \ {0} /\ Slots = 1 .. Visible /\ clear_row \in 0 .. Visible
  BY PanelAssumption, Zenon DEF Slots, Shows, PanelTypes
<1>4. \/ /\ pixels' = IF clear_row = 0 THEN pixels ELSE Painted(pixels, clear_row, NoSlot, Cols)
         /\ ok' = ok /\ failed' = failed
      \/ failed' = TRUE /\ ok' = FALSE /\ Garbled(pixels, bar, w)
  BY DEF ClearTick
<1> HIDE DEF w
<1>5. /\ pixels' \in Grid /\ failed' \in BOOLEAN /\ ok' \in BOOLEAN
      /\ failed => failed'
      /\ \A k \in Slots, x \in Cols :
            \/ k # clear_row /\ pixels'[k][x] = pixels[k][x]
            \/ k = clear_row /\ pixels'[k][x] = Picture(NoSlot)[x]
            \/ failed' /\ pixels'[k][x] \in {pixels[k][x], Torn}
  <2>1. CASE /\ pixels' = IF clear_row = 0 THEN pixels ELSE Painted(pixels, clear_row, NoSlot, Cols)
             /\ ok' = ok /\ failed' = failed
    <3>1. CASE clear_row = 0
      <4>1. \A k \in Slots : k # clear_row
        BY <1>3, <3>1
      <4> QED BY <1>2, <2>1, <3>1, <4>1 DEF Shows, PanelTypes
    <3>2. CASE clear_row # 0
      <4>1. clear_row \in Slots
        BY <1>3, <3>2
      <4>2. /\ pixels' \in Grid
            /\ \A j \in Slots, x \in Cols :
                 pixels'[j][x] = IF j = clear_row /\ x \in Cols THEN Picture(NoSlot)[x] ELSE pixels[j][x]
        <5>1. PICK pix, old, xs, k : /\ pix = Painted(old, k, NoSlot, xs) /\ old = pixels
                                     /\ xs = Cols /\ k = clear_row
          OBVIOUS
        <5>2. old \in Grid /\ k \in Slots
          BY <1>2, <4>1, <5>1
        <5>3. /\ pix \in Grid
              /\ \A j \in Slots, x \in 1 .. SubW + 1 :
                   pix[j][x] = IF j = k /\ x \in xs THEN Picture(NoSlot)[x] ELSE old[j][x]
          <6> HIDE DEF Cols
          <6>1. pix = Painted(old, k, NoSlot, xs)
            BY <5>1
          <6> QED BY <5>2, <6>1, NoSlotTyped, PaintedCells
        <5> QED BY <2>1, <3>2, <5>1, <5>3
      <4> QED BY <2>1, <4>2 DEF Shows, PanelTypes
    <3> QED BY <3>1, <3>2
  <2>2. CASE failed' = TRUE /\ ok' = FALSE /\ Garbled(pixels, bar, w)
    BY <1>2, <2>2, GarbledCells
  <2> QED BY <1>4, <2>1, <2>2
<1>6. ASSUME NEW k \in Slots, NEW x \in Cols
      PROVE  /\ k <= clear_row => CellShows(k, x)'
             /\ k > clear_row => pixels'[k][x] = Boot \/ (failed' /\ pixels'[k][x] = Torn)
  <2>1. drawn'[k] = NoSlot /\ drawn[k] = NoSlot
    BY <1>1, <1>2
  <2>2. k \in Nat /\ clear_row \in Nat
    BY <1>3
  <2>3. CASE k < clear_row
    <3>1. CellShows(k, x)
      BY <1>2, <2>3
    <3>2. pixels'[k][x] = pixels[k][x] \/ (failed' /\ pixels'[k][x] \in {pixels[k][x], Torn})
      BY <1>5, <2>2, <2>3
    <3> QED BY <1>1, <1>5, <2>1, <2>2, <2>3, <3>1, <3>2 DEF CellShows
  <2>4. CASE ~(k < clear_row)
    <3>1. pixels[k][x] = Boot \/ (failed /\ pixels[k][x] = Torn)
      BY <1>2, <2>4
    <3> QED BY <1>1, <1>5, <2>1, <2>2, <2>4, <3>1 DEF CellShows
  <2> QED BY <2>3, <2>4
<1>7. PanelTypes'
  <2>1. window.row' = clear_row
    BY <1>1 DEF w
  <2>2. clear_row' \in 0 .. Visible /\ taken' \in {"bars", "clearing", "taken"}
    BY <1>1, <1>3
  <2> QED BY <1>1, <1>3, <1>5, <2>1, <2>2 DEF Shows, PanelTypes
<1>8. BeforeTaken'
  <2>1. CASE clear_row = Visible
    BY <1>1, <2>1 DEF BeforeTaken
  <2>2. CASE clear_row # Visible
    <3>1. clear_row' = clear_row + 1
      BY <1>1, <2>2
    <3>2. ASSUME NEW k \in Slots, NEW x \in Cols
          PROVE  IF k < clear_row' THEN CellShows(k, x)'
                 ELSE pixels'[k][x] = Boot \/ (failed' /\ pixels'[k][x] = Torn)
      <4>1. k \in Nat /\ clear_row \in Nat
        BY <1>3
      <4> QED BY <1>6, <3>1, <4>1
    <3> QED BY <1>1, <1>2, <3>2 DEF BeforeTaken
  <2> QED BY <2>1, <2>2
<1>9. Rows'
  <2>1. CASE clear_row = Visible
    <3>1. \A k \in Slots : k <= clear_row
      BY <1>3, <2>1
    <3> QED BY <1>6, <3>1 DEF Rows
  <2>2. CASE clear_row # Visible
    BY <1>1, <2>2 DEF Rows
  <2> QED BY <2>1, <2>2
<1>10. BarShows'
  BY <1>1, <1>2 DEF BarShows
<1> QED BY <1>7, <1>8, <1>9, <1>10 DEF Shows

\* The bands a pass pushes.
LEMMA TodoTyped ==
    ASSUME NEW want
    PROVE  Todo(want) \subseteq 0 .. Visible
<1>1. Visible \in Nat \ {0} /\ Slots \subseteq 0 .. Visible /\ {0} \subseteq 0 .. Visible
  <2>1. Visible \in Nat \ {0}
    BY PanelAssumption, Zenon
  <2> QED BY <2>1 DEF Slots
<1> QED BY <1>1 DEF Todo

\* The rows behind the bands that went through: the snapshots hold for them.
LEMMA AfterCells ==
    ASSUME Shows, taken = "taken", NEW want \in [ Slots -> RowSlots ], NEW done
    PROVE  /\ PixelsAfter(want, done) \in Grid
           /\ \A k \in Slots, x \in 1 .. SubW + 1 :
                 \/ PixelsAfter(want, done)[k][x] = Picture(IF k \in done THEN want[k] ELSE drawn[k])[x]
                 \/ failed /\ PixelsAfter(want, done)[k][x] \in {Torn, Boot}
<1> DEFINE Cols == 1 .. SubW + 1
           row(k) == Painted(pixels, k, want[k], Columns(drawn[k], want[k]))[k]
<1>1. pixels \in Grid /\ drawn \in [ Slots -> RowSlots ] /\ \A k \in Slots, x \in Cols : CellShows(k, x)
  BY DEF Shows, PanelTypes, Rows
<1>2. ASSUME NEW k \in Slots
      PROVE  /\ row(k) \in [ Cols -> Cells ]
             /\ \A x \in Cols : row(k)[x] = Picture(want[k])[x] \/ (failed /\ row(k)[x] \in {Torn, Boot})
  <2>1. drawn[k] \in RowSlots /\ want[k] \in RowSlots
    BY <1>1
  <2> DEFINE pix == Painted(pixels, k, want[k], Columns(drawn[k], want[k]))
  <2>2. /\ pix \in Grid
        /\ \A x \in Cols : pix[k][x] = IF x \in Columns(drawn[k], want[k])
                                       THEN Picture(want[k])[x] ELSE pixels[k][x]
    BY <1>1, <2>1, PaintedCells
  <2> HIDE DEF pix
  <2>3. ASSUME NEW x \in Cols, x \notin Columns(drawn[k], want[k])
        PROVE  pixels[k][x] = Picture(want[k])[x] \/ (failed /\ pixels[k][x] \in {Torn, Boot})
    <3>1. Picture(drawn[k])[x] = Picture(want[k])[x]
      BY <2>1, <2>3, ExtendKeeps
    <3> QED BY <1>1, <3>1 DEF CellShows
  <2>4. pix[k] \in [ Cols -> Cells ]
    BY <2>2 DEF Grid
  <2>5. \A x \in Cols : pix[k][x] = Picture(want[k])[x] \/ (failed /\ pix[k][x] \in {Torn, Boot})
    BY <2>2, <2>3
  <2> QED BY <2>4, <2>5 DEF pix
<1> HIDE DEF row
<1>3. PixelsAfter(want, done) = [ k \in Slots |-> IF k \in done THEN row(k) ELSE pixels[k] ]
  BY DEF PixelsAfter, row
<1>4. PixelsAfter(want, done) \in Grid
  BY <1>1, <1>2, <1>3 DEF Grid
<1>5. ASSUME NEW k \in Slots, NEW x \in Cols
      PROVE  \/ PixelsAfter(want, done)[k][x] = Picture(IF k \in done THEN want[k] ELSE drawn[k])[x]
             \/ failed /\ PixelsAfter(want, done)[k][x] \in {Torn, Boot}
  <2>1. CASE k \in done
    <3>1. PixelsAfter(want, done)[k] = row(k)
      BY <1>3, <2>1
    <3> QED BY <1>2, <2>1, <3>1
  <2>2. CASE k \notin done
    <3>1. PixelsAfter(want, done)[k] = pixels[k]
      BY <1>3, <2>2
    <3> QED BY <1>1, <2>2, <3>1 DEF CellShows
  <2> QED BY <2>1, <2>2
<1> QED BY <1>4, <1>5

\* The bar behind them: what its key says, for the key is that of the picture.
LEMMA BarKeyPicture == KeyPicture(BarKey) = BarPicture
<1>1. CASE show_volume
  BY <1>1 DEF KeyPicture, BarKey, BarPicture
<1>2. CASE ~show_volume
  BY <1>2 DEF KeyPicture, BarKey, BarPicture
<1> QED BY <1>1, <1>2

\* The snapshots after a pass, whose pixels are those of the bands done or
\* what a failing write has made of them.
LEMMA DrawnShows ==
    ASSUME Shows, taken = "taken", UNCHANGED <<taken, clear_row>>,
           NEW want \in [ Slots -> RowSlots ], NEW done, Recorded(want, done),
           ok' \in BOOLEAN, failed' \in BOOLEAN, failed => failed',
           window.row' \in 0 .. Visible, pixels' \in Grid,
           \A k \in Slots, x \in 1 .. SubW + 1 :
               \/ pixels'[k][x] = PixelsAfter(want, done)[k][x]
               \/ failed' /\ pixels'[k][x] = Torn,
           bar' = BarAfter(done) \/ (failed' /\ bar' = TornBar)
    PROVE  Shows'
<1>1. /\ drawn' = [ k \in Slots |-> IF k \in done THEN want[k] ELSE drawn[k] ]
      /\ bar_key' = IF 0 \in done THEN BarKey ELSE bar_key
  BY DEF Recorded
<1>2. drawn' \in [ Slots -> RowSlots ]
  BY <1>1 DEF Shows, PanelTypes
<1>3. PanelTypes'
  BY <1>2 DEF Shows, PanelTypes
<1>4. ASSUME NEW k \in Slots, NEW x \in 1 .. SubW + 1 PROVE CellShows(k, x)'
  <2>1. \/ PixelsAfter(want, done)[k][x] = Picture(IF k \in done THEN want[k] ELSE drawn[k])[x]
        \/ failed /\ PixelsAfter(want, done)[k][x] \in {Torn, Boot}
    BY AfterCells
  <2>2. drawn'[k] = IF k \in done THEN want[k] ELSE drawn[k]
    BY <1>1
  <2>3. \/ pixels'[k][x] = PixelsAfter(want, done)[k][x]
        \/ failed' /\ pixels'[k][x] = Torn
    OBVIOUS
  <2>4. pixels'[k][x] = Picture(drawn'[k])[x] \/ (failed' /\ pixels'[k][x] \in {Torn, Boot})
    BY <2>1, <2>2, <2>3
  <2> QED BY <2>4 DEF CellShows
<1>5. BeforeTaken' /\ Rows'
  BY <1>4 DEF BeforeTaken, Rows
<1>6. BarShows'
  <2>1. CASE 0 \in done
    BY <1>1, <2>1, BarKeyPicture DEF BarShows, BarAfter
  <2>2. CASE 0 \notin done
    BY <1>1, <2>2 DEF BarShows, BarAfter, Shows
  <2> QED BY <2>1, <2>2
<1> QED BY <1>3, <1>5, <1>6 DEF Shows

\* The pass draws.
LEMMA DrawShows ==
    ASSUME Shows, NEW want \in [ Slots -> RowSlots ], DrawTick(want)
    PROVE  Shows'
<1>1. taken = "taken" /\ ok = TRUE /\ UNCHANGED <<taken, clear_row>>
  BY DEF DrawTick, Shows, PanelTypes
<1>2. failed \in BOOLEAN /\ window.row \in 0 .. Visible /\ Visible \in Nat
  BY PanelAssumption, Zenon DEF Shows, PanelTypes
<1>3. ASSUME NEW todo, todo = Todo(want), Recorded(want, todo),
             pixels' = PixelsAfter(want, todo), bar' = BarAfter(todo),
             window' = IF todo = {} THEN window ELSE WindowOf(want, Max(todo)),
             UNCHANGED <<ok, failed, events>>
      PROVE  Shows'
  <2>1. todo \in SUBSET (0 .. Visible)
    BY <1>3, TodoTyped
  <2>2. todo # {} => Max(todo) \in 0 .. Visible
    BY <1>2, <2>1, Topmost
  <2>3. window.row' \in 0 .. Visible
    BY <1>2, <1>3, <2>2 DEF WindowOf
  <2>4. pixels' \in Grid
    BY <1>1, <1>3, AfterCells
  <2> QED BY <1>1, <1>2, <1>3, <2>3, <2>4, DrawnShows
<1>4. ASSUME NEW k \in Todo(want), NEW done, failed' = TRUE, ok' = FALSE, Recorded(want, done),
             Garbled(PixelsAfter(want, done), BarAfter(done), WindowOf(want, k)),
             window' = WindowOf(want, k)
      PROVE  Shows'
  <2>1. k \in 0 .. Visible
    BY TodoTyped
  <2>2. window.row' \in 0 .. Visible
    BY <1>4, <2>1 DEF WindowOf
  <2>3. PixelsAfter(want, done) \in Grid
    BY <1>1, AfterCells
  <2>4. /\ pixels' \in Grid /\ bar' \in {BarAfter(done), TornBar}
        /\ \A j \in Slots, x \in 1 .. SubW + 1 : pixels'[j][x] \in {PixelsAfter(want, done)[j][x], Torn}
    BY <1>4, <2>3, GarbledCells
  <2>5. /\ ok' \in BOOLEAN /\ failed' \in BOOLEAN /\ (failed => failed')
        /\ bar' = BarAfter(done) \/ (failed' /\ bar' = TornBar)
        /\ \A j \in Slots, x \in 1 .. SubW + 1 :
              \/ pixels'[j][x] = PixelsAfter(want, done)[j][x]
              \/ failed' /\ pixels'[j][x] = Torn
    BY <1>4, <2>4
  <2> QED BY <1>1, <1>4, <2>2, <2>4, <2>5, DrawnShows
<1> QED BY <1>3, <1>4 DEF DrawTick

-----------------------------------------------------------------------------
(* Every step.                                                             *)

\* A pass of app_loop.
LEMMA PassShows ==
    ASSUME PanelInv, NEW types \in BOOLEAN, Pass(types)
    PROVE  PanelInv'
<1>1. PICK disp : /\ disp = IF types THEN Reveal(d) ELSE d
                  /\ d' = disp
                  /\ RenderTick([ k \in Slots |-> Desired(disp, state, k) ])
  BY DEF Pass
<1> DEFINE want == [ k \in Slots |-> Desired(disp, state, k) ]
<1>2. UNCHANGED <<statusVars, talkVars>>
  BY DEF Pass
<1>3. Fits(disp)
  BY <1>1, RevealTyped DEF PanelInv, Texts, Fits
<1>4. want \in [ Slots -> RowSlots ]
  BY <1>3, DesiredTyped
<1>5. Texts' /\ Status'
  BY <1>1, <1>2, <1>3 DEF PanelInv, Texts, Fits, Status, statusVars, talkVars
<1>6. Shows
  BY DEF PanelInv, Shows
<1> HIDE DEF want
<1>7. CASE RecoverTick
  <2>1. UNCHANGED <<taken, clear_row, drawn, bar_key, pixels, bar, window, failed>> /\ ok' \in BOOLEAN
    BY <1>6, <1>7 DEF RecoverTick, Recover, Shows, PanelTypes
  <2> QED BY <1>5, <1>6, <2>1, QuietTick DEF PanelInv, Shows
<1>8. CASE HoldTick
  <2>1. /\ UNCHANGED <<clear_row, drawn, bar_key, pixels, bar, window, failed>> /\ ok' \in BOOLEAN
        /\ taken = "bars" /\ taken' = "clearing"
    BY <1>6, <1>8 DEF HoldTick, Shows, PanelTypes
  <2> QED BY <1>5, <1>6, <2>1, QuietTick DEF PanelInv, Shows
<1>9. CASE ClearTick
  BY <1>5, <1>6, <1>9, ClearShows DEF PanelInv, Shows
<1>10. CASE DrawTick(want)
  BY <1>4, <1>5, <1>6, <1>10, DrawShows DEF PanelInv, Shows
<1> QED BY <1>1, <1>7, <1>8, <1>9, <1>10 DEF RenderTick, want

\* What does not draw leaves the panel and its snapshots alone.
LEMMA ElsewhereShows ==
    ASSUME PanelInv, UNCHANGED panelVars, Texts', Status'
    PROVE  PanelInv'
<1>1. Shows
  BY DEF PanelInv, Shows
<1>2. ok' \in BOOLEAN
  BY <1>1 DEF panelVars, Shows, PanelTypes
<1>3. Shows'
  BY <1>1, <1>2, QuietTick DEF panelVars
<1> QED BY <1>3 DEF PanelInv, Shows

\* The keys, the link, the clock and the battery.
LEMMA ChangeShows ==
    ASSUME PanelInv,
           \/ \E st \in States : SetState(st)
           \/ \E step \in {"up", "down"} : VolumeKey(step)
           \/ MinutePasses \/ BatteryTick \/ VolumeTimeUp
    PROVE  PanelInv'
<1>1. UNCHANGED <<d, talkVars, panelVars>>
  BY DEF SetState, VolumeKey, MinutePasses, BatteryTick, VolumeTimeUp, Change
<1>2. Texts'
  BY <1>1 DEF talkVars, PanelInv, Texts
<1>3. state \in States /\ volume \in 0 .. 10 /\ volUntil \in Untils
  BY DEF PanelInv, Status
<1>4. state' \in States
  BY <1>3 DEF SetState, VolumeKey, MinutePasses, BatteryTick, VolumeTimeUp
<1>5. volume' \in 0 .. 10
  BY <1>3 DEF SetState, VolumeKey, MinutePasses, BatteryTick, VolumeTimeUp
<1>6. volUntil' \in Untils
  BY <1>3 DEF SetState, VolumeKey, MinutePasses, BatteryTick, VolumeTimeUp, Untils
<1> QED BY <1>1, <1>2, <1>4, <1>5, <1>6, ElsewhereShows DEF Status

\* The calls of voice_task.
LEMMA VoiceShows == PanelInv /\ Voice => PanelInv'
<1> SUFFICES ASSUME PanelInv, Voice PROVE PanelInv'
  OBVIOUS
<1>1. /\ Fits(d) /\ reply.text \in Seq(Chars) /\ reply.sent \in Nat /\ reply.sent <= Len(reply.text)
      /\ reply \in [ text : Seq(Chars), sent : Nat ]
  BY DEF PanelInv, Texts, Fits
<1>2. UNCHANGED panelVars /\ UNCHANGED statusVars
  BY DEF Voice, UserSays, Delta, Completed, Flush
<1>3. Status'
  BY <1>2 DEF statusVars, PanelInv, Status
<1>4. <<>> \in Seq(Chars) /\ Len(<<>>) = 0
  BY CharsInked
<1>5. \A r \in Replies \union Altered : r \in Seq(Chars)
  BY PanelAssumption, Zenon
<1>6. ASSUME NEW r \in Replies, UserSays(r) PROVE Texts'
  <2>1. Fits(d') /\ reply' = [ text |-> r, sent |-> 0 ] /\ r \in Seq(Chars)
    BY <1>1, <1>5, <1>6, UserTyped DEF UserSays
  <2> QED BY <2>1 DEF Texts, Fits
<1>7. ASSUME NEW n \in 1 .. 2, Delta(n) PROVE Texts'
  <2> DEFINE piece == SubSeq(reply.text, reply.sent + 1, reply.sent + n)
  <2>1. reply.sent + n <= Len(reply.text) /\ d' = append_reply_delta(d, piece)
        /\ reply' = [ reply EXCEPT !.sent = @ + n ]
    BY <1>7 DEF Delta
  <2>2. piece \in Seq(Chars)
    BY <1>1, <2>1, SubSeqFacts
  <2> HIDE DEF piece
  <2>3. Fits(d')
    BY <1>1, <2>1, <2>2, DeltaTyped
  <2> QED BY <1>1, <2>1, <2>3 DEF Texts, Fits
<1>8. ASSUME NEW full \in Seq(Chars), Completed(full) PROVE Texts'
  <2>1. Fits(d') /\ reply' = [ text |-> <<>>, sent |-> 0 ]
    BY <1>1, <1>8, FullTyped DEF Completed
  <2>2. reply'.text = <<>> /\ reply'.sent = 0 /\ reply' \in [ text : Seq(Chars), sent : Nat ]
    BY <1>4, <2>1
  <2> QED BY <1>4, <2>1, <2>2 DEF Texts, Fits
<1>9. ASSUME Flush PROVE Texts'
  <2>1. Fits(d') /\ reply' = reply
    BY <1>1, <1>9, FlushTyped DEF Flush
  <2> QED BY <1>1, <2>1 DEF Texts, Fits
<1>10. Texts'
  BY <1>1, <1>5, <1>6, <1>7, <1>8, <1>9 DEF Voice
<1> QED BY <1>2, <1>3, <1>10, ElsewhereShows

\* The colour test, and nothing said.
LEMMA PanelStarts == Init => PanelInv
<1> SUFFICES ASSUME Init PROVE PanelInv
  OBVIOUS
<1>1. Visible \in Nat \ {0} /\ MaxHistory \in Nat /\ "Idle" \in States
  BY PanelAssumption, SubtitlesAssumption, Zenon
<1>2. PICK none : none = <<>> /\ none \in Seq(Chars) /\ none \in Seq(Line) /\ Len(none) = 0
  <2>1. <<>> \in Seq(Line) /\ Len(<<>>) = 0
    OBVIOUS
  <2> QED BY <2>1, CharsInked
<1>3. Texts
  <2>1. Empty = [ history |-> none, rest |-> none, line |-> none, stream |-> FALSE, queued |-> none ]
    BY <1>2, Zenon DEF Empty
  <2>2. d = Empty /\ reply = [ text |-> none, sent |-> 0 ]
    BY <1>2 DEF Init
  <2> QED BY <1>1, <1>2, <2>1, <2>2 DEF Texts, Displays
<1>4. Status
  BY <1>1 DEF Init, Status, Untils
<1>5. /\ drawn = [ k \in Slots |-> NoSlot ] /\ bar_key = NoKey
      /\ pixels = [ k \in Slots |-> [ x \in 1 .. SubW + 1 |-> Boot ] ]
      /\ taken = "bars" /\ clear_row = 0 /\ ok = TRUE /\ failed = FALSE
      /\ window.row = Visible
  BY DEF Init
<1>6. pixels \in Grid
  BY <1>5, CellsTyped DEF Grid
<1>7. drawn \in [ Slots -> RowSlots ]
  BY <1>5, NoSlotTyped
<1>8. PanelTypes
  <2>1. 0 \in 0 .. Visible /\ Visible \in 0 .. Visible
    BY <1>1
  <2> QED BY <1>5, <1>6, <1>7, <2>1 DEF PanelTypes
<1>9. BeforeTaken /\ Rows /\ BarShows
  <2>1. \A k \in Slots : ~(k < clear_row)
    BY <1>1, <1>5 DEF Slots
  <2> QED BY <1>5, <2>1 DEF BeforeTaken, Rows, BarShows
<1> QED BY <1>3, <1>4, <1>8, <1>9 DEF PanelInv

\* The invariant over every step.
LEMMA PanelStep == PanelInv /\ [Next]_vars => PanelInv'
<1> SUFFICES ASSUME PanelInv, [Next]_vars PROVE PanelInv'
  OBVIOUS
<1>1. CASE UNCHANGED vars
  <2>1. Texts' /\ Status' /\ UNCHANGED panelVars
    BY <1>1 DEF vars, statusVars, talkVars, PanelInv, Texts, Status
  <2> QED BY <2>1, ElsewhereShows
<1>2. CASE \E types \in BOOLEAN : Pass(types)
  BY <1>2, PassShows
<1>3. CASE Voice
  BY <1>3, VoiceShows
<1>4. CASE \/ \E st \in States : SetState(st)
           \/ \E step \in {"up", "down"} : VolumeKey(step)
           \/ MinutePasses \/ BatteryTick \/ VolumeTimeUp
  BY <1>4, ChangeShows
<1> QED BY <1>1, <1>2, <1>3, <1>4 DEF Next

\* The snapshots are what the panel shows.
LEMMA PanelSays == PanelInv => ScreenTrue
<1> SUFFICES ASSUME PanelInv PROVE ScreenTrue
  OBVIOUS
<1>1. TypeOK
  <2>1. /\ Len(d.history) <= MaxHistory
        /\ \A i \in 1 .. Len(d.history) : d.history[i].text \in Seq(Chars \union {"u"}) \ {<<>>}
        /\ {d.rest, d.line, d.queued} \subseteq Seq(Chars) /\ d.stream \in BOOLEAN
    <3>1. \A i \in 1 .. Len(d.history) : d.history[i] \in Line
      BY DEF PanelInv, Texts, Displays
    <3> QED BY <3>1 DEF PanelInv, Texts, Displays, Line, Inks
  <2> QED BY <2>1 DEF TypeOK, PanelInv, Status, PanelTypes, Grid
<1>2. PanelTrue
  BY DEF PanelTrue, PanelInv, Rows, CellShows
<1>3. BarCurrent
  <2>1. "none" \notin States
    BY PanelAssumption, Zenon
  <2>2. BarKey # NoKey
    <3>1. BarKey.state # "none"
      BY <2>1 DEF BarKey, PanelInv, Status
    <3> QED BY <3>1 DEF NoKey
  <2> QED BY <2>2, BarKeyPicture DEF BarCurrent, PanelInv, BarShows
<1> QED BY <1>1, <1>2, <1>3 DEF ScreenTrue

\* For every script of texts, key presses and failing writes, any width of a
\* row, number of rows and of rectangles per pass: once the screen is taken
\* over, each cell shows what the renderer has on record for its row, and the
\* bar what its key says; where they do not, a write has failed.
THEOREM ScreenKept == Spec => []ScreenTrue
<1>1. Spec => []PanelInv
  BY PanelStarts, PanelStep, PTL DEF Spec
<1> QED BY <1>1, PanelSays, PTL

-----------------------------------------------------------------------------
(* Ink.                                                                    *)

\* A character has one character of ink or none.
LEMMA Inkings ==
    /\ \A ch \in Inks : Inking(ch) \in Seq(Inks)
    /\ Inking(" ") = <<>> /\ Inking("\n") = <<>> /\ Inking("u") = <<"u">>
<1>1. ASSUME NEW ch \in Inks PROVE Inking(ch) \in Seq(Inks)
  <2>1. <<>> \in Seq(Inks) /\ <<ch>> \in Seq(Inks)
    OBVIOUS
  <2>2. Inking(ch) \in {<<>>, <<ch>>}
    BY Zenon DEF Inking
  <2> QED BY <2>1, <2>2
<1>2. Inking(" ") = <<>> /\ Inking("\n") = <<>>
  BY Zenon DEF Inking
<1>3. Inking("u") = <<"u">>
  <2>1. "u" \notin {" ", "\n"}
    OBVIOUS
  <2> QED BY <2>1, Zenon DEF Inking
<1> QED BY <1>1, <1>2, <1>3

\* The ink of a text, character by character.
Inkeds(text) == [ i \in 1 .. Len(text) |-> Inking(text[i]) ]

\* It is a sequence of sequences, ...
LEMMA InkedsTyped ==
    ASSUME NEW text \in Seq(Inks)
    PROVE  Inkeds(text) \in Seq(Seq(Inks)) /\ Len(Inkeds(text)) = Len(text)
<1>1. \A i \in 1 .. Len(text) : Inking(text[i]) \in Seq(Inks)
  <2>1. \A i \in 1 .. Len(text) : text[i] \in Inks
    OBVIOUS
  <2> QED BY <2>1, Inkings
<1> DEFINE A == Seq(Inks)
<1>2. Len(text) \in Nat /\ \A i \in 1 .. Len(text) : Inking(text[i]) \in A
  BY <1>1
<1> HIDE DEF A
<1>3. Inkeds(text) \in Seq(A) /\ Len(Inkeds(text)) = Len(text)
  BY <1>2 DEF Inkeds
<1> QED BY <1>3 DEF A

\* ... and the ink of two texts one behind the other lies one behind the other.
LEMMA InkConcat ==
    ASSUME NEW s \in Seq(Inks), NEW t \in Seq(Inks)
    PROVE  Ink(s \o t) = Ink(s) \o Ink(t) /\ Ink(s \o t) \in Seq(Inks)
<1> DEFINE A == Seq(Inks)
<1>1. /\ s \o t \in Seq(Inks) /\ Len(s \o t) = Len(s) + Len(t)
      /\ \A i \in 1 .. Len(s) : (s \o t)[i] = s[i]
      /\ \A i \in 1 .. Len(t) : (s \o t)[Len(s) + i] = t[i]
      /\ Len(s) \in Nat /\ Len(t) \in Nat
  BY ConcatFacts
<1>2. PICK st : st = s \o t
  OBVIOUS
<1>3. PICK a \in Seq(A), b \in Seq(A), c \in Seq(A) :
          a = Inkeds(s) /\ b = Inkeds(t) /\ c = Inkeds(st)
  BY <1>1, <1>2, InkedsTyped
<1>4. Len(a) = Len(s) /\ Len(b) = Len(t) /\ Len(c) = Len(s) + Len(t)
  BY <1>1, <1>2, <1>3, InkedsTyped
<1>5. ASSUME NEW i \in 1 .. Len(a) PROVE c[i] = a[i]
  <2>1. i \in 1 .. Len(s) /\ i \in 1 .. Len(st)
    BY <1>1, <1>2, <1>4
  <2> QED BY <1>1, <1>2, <1>3, <2>1 DEF Inkeds
<1>6. ASSUME NEW i \in 1 .. Len(b) PROVE c[Len(a) + i] = b[i]
  <2>1. i \in 1 .. Len(t) /\ Len(s) + i \in 1 .. Len(st)
    BY <1>1, <1>2, <1>4
  <2>2. c[Len(s) + i] = Inking(st[Len(s) + i]) /\ b[i] = Inking(t[i])
    BY <1>3, <2>1 DEF Inkeds
  <2> QED BY <1>1, <1>2, <1>4, <2>1, <2>2
<1>7. c = a \o b
  <2> HIDE DEF A
  <2> QED BY <1>4, <1>5, <1>6, IsConcat
<1>8. FlattenSeq(c) = FlattenSeq(a) \o FlattenSeq(b) /\ FlattenSeq(c) \in Seq(Inks)
  BY <1>7, FlattenConcat, FlattenTyped
<1>9. Ink(s) = FlattenSeq(a) /\ Ink(t) = FlattenSeq(b) /\ Ink(st) = FlattenSeq(c)
  BY <1>3, Zenon DEF Ink, Inkeds
<1> QED BY <1>2, <1>8, <1>9

\* The ink of short texts.
LEMMA InkShort ==
    /\ Ink(<<>>) = <<>> /\ Ink(<<" ">>) = <<>> /\ Ink(<<"u">>) = <<"u">>
    /\ Ink(<<"\n">>) = <<>>
<1>1. ASSUME NEW t, t = <<>> PROVE Ink(t) = <<>>
  <2>1. Len(t) = 0
    BY <1>1
  <2>2. Inkeds(t) = <<>>
    BY <2>1 DEF Inkeds
  <2> QED BY <2>2, FlattenNone, Zenon DEF Ink, Inkeds
<1>2. ASSUME NEW ch \in Inks PROVE Ink(<<ch>>) = Inking(ch)
  <2>1. PICK a \in Seq(Inks) : a = Inking(ch)
    BY Inkings
  <2>2. Inkeds(<<ch>>) = <<a>>
    BY <2>1 DEF Inkeds
  <2>3. <<a>> = Append(<<>>, a) /\ <<>> \in Seq(Seq(Inks)) /\ <<>> \o a = a
    OBVIOUS
  <2>4. FlattenSeq(<<a>>) = a
    BY <2>3, FlattenPiece, FlattenNone
  <2> QED BY <2>1, <2>2, <2>4, Zenon DEF Ink, Inkeds
<1>3. " " \in Inks /\ "\n" \in Inks /\ "u" \in Inks
  BY Zenon DEF Inks, Chars
<1> QED BY <1>1, <1>2, <1>3, Inkings, Zenon

\* A text has a sequence of ink.
LEMMA InkTyped ==
    ASSUME NEW s \in Seq(Inks)
    PROVE  Ink(s) \in Seq(Inks)
<1> QED BY InkedsTyped, FlattenTyped DEF Ink, Inkeds

\* The ink of lines, one after the other.
Inklines(lines) == [ i \in 1 .. Len(lines) |-> Ink(lines[i]) ]
LinesInk(lines) == FlattenSeq(Inklines(lines))

\* One more line.
LEMMA LineMore ==
    ASSUME NEW lines \in Seq(Seq(Inks)), NEW s \in Seq(Inks)
    PROVE  /\ LinesInk(Append(lines, s)) = LinesInk(lines) \o Ink(s)
           /\ LinesInk(lines) \in Seq(Inks)
<1> DEFINE A == Seq(Inks)
           n == Len(lines)
<1>1. /\ n \in Nat /\ Append(lines, s) \in Seq(A) /\ Len(Append(lines, s)) = n + 1
      /\ Append(lines, s)[n + 1] = s
      /\ \A i \in 1 .. n : Append(lines, s)[i] = lines[i] /\ lines[i] \in A
  <2> HIDE DEF A
  <2>1. lines \in Seq(A) /\ s \in A
    BY DEF A
  <2> QED BY <2>1
<1>2. PICK more : more = Append(lines, s)
  OBVIOUS
<1>3. Ink(s) \in A /\ \A i \in 1 .. n : Ink(lines[i]) \in A
  BY <1>1, InkTyped
<1>4. Inklines(lines) \in Seq(A) /\ Len(Inklines(lines)) = n
  <2> HIDE DEF A
  <2> QED BY <1>1, <1>3 DEF Inklines
<1>5. PICK a \in Seq(A) : a = Inklines(lines)
  BY <1>4
<1>6. PICK e \in A : e = Ink(s)
  BY <1>3
<1>7. Inklines(more) = Append(a, e)
  <2>1. Len(more) = n + 1 /\ Len(a) = n
    BY <1>1, <1>2, <1>4, <1>5
  <2> DEFINE b == Inklines(more)
  <2>2. \A i \in 1 .. n + 1 : b[i] = Ink(more[i])
    BY <2>1 DEF Inklines
  <2>3. \A i \in 1 .. n : a[i] = Ink(lines[i])
    BY <1>5 DEF Inklines
  <2>4. \A i \in 1 .. n + 1 : Ink(more[i]) \in A
    <3>1. \A i \in 1 .. n + 1 : more[i] \in A
      <4> HIDE DEF A
      <4> QED BY <1>1, <1>2
    <3> QED BY <3>1, InkTyped
  <2>5. b \in Seq(A) /\ Len(b) = n + 1
    <3> HIDE DEF A
    <3> QED BY <1>1, <2>1, <2>4 DEF Inklines
  <2>6. /\ Append(a, e) \in Seq(A) /\ Len(Append(a, e)) = n + 1 /\ Append(a, e)[n + 1] = e
        /\ \A i \in 1 .. n : Append(a, e)[i] = a[i]
    <3> HIDE DEF A
    <3> QED BY <2>1
  <2> HIDE DEF b
  <2>7. ASSUME NEW i \in 1 .. n + 1 PROVE b[i] = Append(a, e)[i]
    <3>1. CASE i = n + 1
      <4>1. more[i] = s
        BY <1>1, <1>2, <3>1
      <4> QED BY <1>6, <2>2, <2>6, <3>1, <4>1
    <3>2. CASE i # n + 1
      <4>1. i \in 1 .. n
        BY <1>1, <3>2
      <4>2. more[i] = lines[i]
        BY <1>1, <1>2, <4>1
      <4> QED BY <2>2, <2>3, <2>6, <4>1, <4>2
    <3> QED BY <3>1, <3>2
  <2>8. b = Append(a, e)
    <3> HIDE DEF A
    <3> QED BY <2>5, <2>6, <2>7, SameElements
  <2> QED BY <2>8 DEF b
<1>8. FlattenSeq(Append(a, e)) = FlattenSeq(a) \o e /\ FlattenSeq(a) \in Seq(Inks)
  BY FlattenPiece, FlattenTyped
<1>9. LinesInk(lines) = FlattenSeq(a) /\ LinesInk(more) = FlattenSeq(Append(a, e))
  BY <1>5, <1>7, Zenon DEF LinesInk
<1> QED BY <1>2, <1>6, <1>8, <1>9

\* The ink of the lines so far.
WrapInk(a) == LinesInk(a.out) \o Ink(a.cur)

\* One character has its ink, whether it is added, ends a line or starts one.
LEMMA CharInk ==
    ASSUME NEW a \in Wrapping, NEW ch \in Inks
    PROVE  WrapInk(WrapChar(a, ch)) = WrapInk(a) \o Ink(<<ch>>) /\ WrapInk(a) \in Seq(Inks)
<1>1. a.out \in Seq(Seq(Inks)) /\ a.cur \in Seq(Inks) /\ <<ch>> \in Seq(Inks) /\ <<>> \in Seq(Inks)
  BY DEF Wrapping
<1>2. PICK x \in Seq(Inks), y \in Seq(Inks), z \in Seq(Inks) :
          x = LinesInk(a.out) /\ y = Ink(a.cur) /\ z = Ink(<<ch>>)
  BY <1>1, LineMore, InkTyped
<1>3. LinesInk(Append(a.out, a.cur)) = x \o y
  BY <1>1, <1>2, LineMore
<1>4. WrapInk(a) = x \o y /\ x \o y \in Seq(Inks)
  BY <1>2 DEF WrapInk
<1>5. CASE ch = "\n"
  <2>1. WrapChar(a, ch) = [ out |-> Append(a.out, a.cur), cur |-> <<>> ]
    BY <1>5, Zenon DEF WrapChar
  <2>2. WrapInk(WrapChar(a, ch)) = (x \o y) \o Ink(<<>>)
    <3>1. WrapChar(a, ch).out = Append(a.out, a.cur) /\ WrapChar(a, ch).cur = <<>>
      BY <2>1
    <3> QED BY <1>3, <3>1, Zenon DEF WrapInk
  <2>3. Ink(<<>>) = <<>> /\ z = <<>>
    BY <1>2, <1>5, InkShort, Zenon
  <2>4. (x \o y) \o <<>> = (x \o y) \o z
    BY <2>3, Zenon
  <2> QED BY <1>2, <1>4, <2>2, <2>3, <2>4, Zenon
<1>6. CASE ch # "\n" /\ Len(a.cur) + 1 > SubW /\ a.cur # <<>>
  <2>1. WrapChar(a, ch) = [ out |-> Append(a.out, a.cur), cur |-> <<ch>> ]
    BY <1>6, Zenon DEF WrapChar
  <2>2. WrapInk(WrapChar(a, ch)) = (x \o y) \o z
    <3>1. WrapChar(a, ch).out = Append(a.out, a.cur) /\ WrapChar(a, ch).cur = <<ch>>
      BY <2>1
    <3> QED BY <1>2, <1>3, <3>1, Zenon DEF WrapInk
  <2> QED BY <1>2, <1>4, <2>2
<1>7. CASE ch # "\n" /\ ~(Len(a.cur) + 1 > SubW /\ a.cur # <<>>)
  <2>1. WrapChar(a, ch) = [ a EXCEPT !.cur = Append(@, ch) ]
    BY <1>7, Zenon DEF WrapChar
  <2>2. WrapChar(a, ch).out = a.out /\ WrapChar(a, ch).cur = a.cur \o <<ch>>
    BY <1>1, <2>1 DEF Wrapping
  <2>3. Ink(a.cur \o <<ch>>) = y \o z
    BY <1>1, <1>2, InkConcat
  <2>4. WrapInk(WrapChar(a, ch)) = x \o (y \o z)
    BY <1>2, <2>2, <2>3 DEF WrapInk
  <2>5. x \o (y \o z) = (x \o y) \o z
    OBVIOUS
  <2> QED BY <1>2, <1>4, <2>4, <2>5
<1> QED BY <1>4, <1>5, <1>6, <1>7

\* The lines of a text have its ink, and there is at least one.
LEMMA LinesOfText ==
    ASSUME NEW text \in Seq(Inks)
    PROVE  /\ wrap_to_lines(text) \in Seq(Seq(Inks)) /\ Len(wrap_to_lines(text)) > 0
           /\ LinesInk(wrap_to_lines(text)) = Ink(text)
<1> DEFINE n == Len(text)
           start == [ out |-> <<>>, cur |-> <<>> ]
           pre(k) == SubSeq(text, 1, k)
<1>1. n \in Nat /\ \A i \in 1 .. n : text[i] \in Inks
  OBVIOUS
<1>2. start \in Wrapping
  BY DEF Wrapping
<1>3. PICK g \in [ 0 .. n -> Wrapping ] : Wraps(g, start, text)
  <2> HIDE DEF start
  <2> QED BY <1>2, WrapFold
<1>4. g[0] = start /\ \A i \in 1 .. n : g[i] = WrapChar(g[i - 1], text[i])
  <2> HIDE DEF start
  <2> QED BY <1>3 DEF Wraps
<1> DEFINE U == { k \in Nat : k <= n => WrapInk(g[k]) = Ink(pre(k)) }
<1>5. 0 \in U
  <2>1. pre(0) = <<>>
    OBVIOUS
  <2>2. LinesInk(<<>>) = <<>>
    <3>1. Inklines(<<>>) = <<>>
      BY DEF Inklines
    <3> QED BY <3>1, FlattenNone, Zenon DEF LinesInk
  <2>3. Ink(<<>>) = <<>>
    BY InkShort
  <2>4. WrapInk(start) = LinesInk(<<>>) \o Ink(<<>>)
    BY DEF WrapInk
  <2>5. <<>> \o <<>> = <<>>
    OBVIOUS
  <2>6. WrapInk(g[0]) = Ink(pre(0))
    <3> HIDE DEF start, pre
    <3> QED BY <1>4, <2>1, <2>2, <2>3, <2>4, <2>5, Zenon
  <2> HIDE DEF pre
  <2> QED BY <2>6
<1>6. ASSUME NEW k \in U PROVE k + 1 \in U
  <2>1. CASE k + 1 <= n
    <3>1. k \in Nat /\ k <= n /\ k + 1 \in 1 .. n /\ k \in 0 .. n /\ (k + 1) - 1 = k
      BY <1>1, <2>1
    <3>2. PICK ch \in Inks : ch = text[k + 1]
      BY <1>1, <3>1
    <3>3. pre(k) \in Seq(Inks) /\ pre(k + 1) = pre(k) \o <<ch>> /\ <<ch>> \in Seq(Inks)
      BY <1>1, <3>1, <3>2
    <3>4. WrapInk(g[k]) = Ink(pre(k))
      <4> HIDE DEF pre
      <4> QED BY <3>1
    <3> HIDE DEF pre, start
    <3>5. g[k] \in Wrapping /\ g[k + 1] = WrapChar(g[k], ch)
      BY <1>4, <3>1, <3>2
    <3>6. WrapInk(g[k + 1]) = WrapInk(g[k]) \o Ink(<<ch>>)
      BY <3>5, CharInk
    <3>7. Ink(pre(k + 1)) = Ink(pre(k)) \o Ink(<<ch>>)
      BY <3>3, InkConcat
    <3>8. WrapInk(g[k + 1]) = Ink(pre(k + 1))
      BY <3>4, <3>6, <3>7, Zenon
    <3> QED BY <3>1, <3>8
  <2>2. CASE ~(k + 1 <= n)
    <3> HIDE DEF pre
    <3> QED BY <2>2
  <2> QED BY <2>1, <2>2
<1>7. U = Nat
  <2> HIDE DEF U
  <2>1. U \subseteq Nat
    BY DEF U
  <2> QED BY <1>5, <1>6, <2>1, Induct
<1>8. WrapInk(g[n]) = Ink(text)
  <2>1. pre(n) = text
    OBVIOUS
  <2> HIDE DEF pre
  <2>2. n \in U
    <3> HIDE DEF U
    <3> QED BY <1>1, <1>7
  <2> QED BY <1>1, <2>1, <2>2
<1>9. PICK all \in Wrapping : all = g[n] /\ all = FoldLeft(WrapChar, start, text)
  <2> HIDE DEF start
  <2>1. n \in 0 .. n
    BY <1>1
  <2> QED BY <1>3, <2>1, Zenon DEF Wraps
<1>10. wrap_to_lines(text) = Append(all.out, all.cur)
  BY <1>9, Zenon DEF wrap_to_lines
<1>11. all.out \in Seq(Seq(Inks)) /\ all.cur \in Seq(Inks)
  BY DEF Wrapping
<1>12. LinesInk(Append(all.out, all.cur)) = WrapInk(all)
  BY <1>11, LineMore DEF WrapInk
<1>13. Append(all.out, all.cur) \in Seq(Seq(Inks)) /\ Len(Append(all.out, all.cur)) > 0
  <2> DEFINE A == Seq(Inks)
  <2>1. all.out \in Seq(A) /\ all.cur \in A
    BY <1>11
  <2> HIDE DEF A
  <2>2. Append(all.out, all.cur) \in Seq(A) /\ Len(Append(all.out, all.cur)) > 0
    BY <2>1
  <2> QED BY <2>2 DEF A
<1> HIDE DEF start
<1> QED BY <1>8, <1>9, <1>10, <1>12, <1>13

-----------------------------------------------------------------------------
(* The history.                                                            *)

\* The ink of its lines, one after the other.
Entries(history) == [ i \in 1 .. Len(history) |-> Ink(history[i].text) ]

\* It is a sequence of sequences.
LEMMA EntriesTyped ==
    ASSUME NEW h \in Seq(Line)
    PROVE  /\ Entries(h) \in Seq(Seq(Inks)) /\ Len(Entries(h)) = Len(h)
           /\ HistoryInk(h) = FlattenSeq(Entries(h)) /\ HistoryInk(h) \in Seq(Inks)
<1> DEFINE A == Seq(Inks)
<1>1. \A i \in 1 .. Len(h) : h[i] \in Line
  OBVIOUS
<1>2. \A i \in 1 .. Len(h) : h[i].text \in Seq(Inks)
  BY <1>1 DEF Line
<1>3. Len(h) \in Nat /\ \A i \in 1 .. Len(h) : Ink(h[i].text) \in A
  BY <1>2, InkTyped
<1>4. Entries(h) \in Seq(A) /\ Len(Entries(h)) = Len(h)
  <2> HIDE DEF A
  <2> QED BY <1>3 DEF Entries
<1>5. HistoryInk(h) = FlattenSeq(Entries(h))
  BY Zenon DEF HistoryInk, Entries
<1> QED BY <1>4, <1>5, FlattenTyped

\* Lines behind lines.
LEMMA HistoryConcat ==
    ASSUME NEW h \in Seq(Line), NEW k \in Seq(Line)
    PROVE  HistoryInk(h \o k) = HistoryInk(h) \o HistoryInk(k)
<1> DEFINE A == Seq(Inks)
<1>1. /\ h \o k \in Seq(Line) /\ Len(h \o k) = Len(h) + Len(k)
      /\ \A i \in 1 .. Len(h) : (h \o k)[i] = h[i]
      /\ \A i \in 1 .. Len(k) : (h \o k)[Len(h) + i] = k[i]
      /\ Len(h) \in Nat /\ Len(k) \in Nat
  BY ConcatFacts
<1>2. PICK hk : hk = h \o k
  OBVIOUS
<1>3. PICK a \in Seq(A), b \in Seq(A), c \in Seq(A) :
          a = Entries(h) /\ b = Entries(k) /\ c = Entries(hk)
  BY <1>1, <1>2, EntriesTyped
<1>4. Len(a) = Len(h) /\ Len(b) = Len(k) /\ Len(c) = Len(h) + Len(k)
  BY <1>1, <1>2, <1>3, EntriesTyped
<1>5. ASSUME NEW i \in 1 .. Len(a) PROVE c[i] = a[i]
  <2>1. i \in 1 .. Len(h) /\ i \in 1 .. Len(hk)
    BY <1>1, <1>2, <1>4
  <2> QED BY <1>1, <1>2, <1>3, <2>1 DEF Entries
<1>6. ASSUME NEW i \in 1 .. Len(b) PROVE c[Len(a) + i] = b[i]
  <2>1. i \in 1 .. Len(k) /\ Len(h) + i \in 1 .. Len(hk)
    BY <1>1, <1>2, <1>4
  <2>2. c[Len(h) + i] = Ink(hk[Len(h) + i].text) /\ b[i] = Ink(k[i].text)
    BY <1>3, <2>1 DEF Entries
  <2> QED BY <1>1, <1>2, <1>4, <2>1, <2>2
<1>7. c = a \o b
  <2> HIDE DEF A
  <2> QED BY <1>4, <1>5, <1>6, IsConcat
<1>8. FlattenSeq(c) = FlattenSeq(a) \o FlattenSeq(b)
  BY <1>7, FlattenConcat
<1>9. HistoryInk(h) = FlattenSeq(a) /\ HistoryInk(k) = FlattenSeq(b) /\ HistoryInk(hk) = FlattenSeq(c)
  BY <1>1, <1>2, <1>3, EntriesTyped
<1> QED BY <1>2, <1>8, <1>9

\* Lines as they enter the history have the ink they had.
LEMMA EntriesInk ==
    ASSUME NEW lines \in Seq(Seq(Inks)), NEW color \in {"ai", "user"}, NEW new \in Seq(Line),
           new = [ i \in 1 .. Len(lines) |-> Entry(lines[i], color) ]
    PROVE  HistoryInk(new) = LinesInk(lines) /\ Len(new) = Len(lines)
<1>1. Len(lines) \in Nat /\ Len(new) = Len(lines)
  OBVIOUS
<1>2. ASSUME NEW i \in 1 .. Len(lines) PROVE Ink(new[i].text) = Ink(lines[i])
  <2>1. new[i] = Entry(lines[i], color)
    OBVIOUS
  <2>2. PICK space : space = <<" ">>
    OBVIOUS
  <2>3. new[i] = [ text |-> IF lines[i] = <<>> THEN space ELSE lines[i], color |-> color ]
    BY <2>1, <2>2, Zenon DEF Entry
  <2>4. new[i].text = IF lines[i] = <<>> THEN space ELSE lines[i]
    BY <2>3
  <2>5. Ink(space) = <<>> /\ Ink(<<>>) = <<>>
    BY <2>2, InkShort, Zenon
  <2> QED BY <2>4, <2>5, Zenon
<1>3. Entries(new) = Inklines(lines)
  BY <1>1, <1>2 DEF Entries, Inklines
<1> QED BY <1>1, <1>3, EntriesTyped DEF LinesInk

\* The beginning and the rest of a sequence.
LEMMA CutAt ==
    ASSUME NEW S, NEW s \in Seq(S), NEW m \in Nat, m <= Len(s)
    PROVE  LET a == SubSeq(s, 1, m)
               b == SubSeq(s, m + 1, Len(s))
           IN  /\ a \in Seq(S) /\ b \in Seq(S) /\ s = a \o b
               /\ Len(a) = m /\ Len(b) = Len(s) - m
<1> DEFINE a == SubSeq(s, 1, m)
           b == SubSeq(s, m + 1, Len(s))
<1>1. /\ a \in Seq(S) /\ Len(a) = m /\ b \in Seq(S) /\ Len(b) = Len(s) - m
      /\ \A i \in 1 .. m : a[i] = s[i]
      /\ \A i \in 1 .. Len(s) - m : b[i] = s[m + i]
  OBVIOUS
<1> HIDE DEF a, b
<1>2. Len(s) = Len(a) + Len(b)
  BY <1>1
<1>3. s = a \o b
  BY <1>1, <1>2, IsConcat
<1> QED BY <1>1, <1>3 DEF a, b

\* A text pushed: its ink follows that of the history, and what is missing is
\* at the front, and nothing unless the history is full.
LEMMA PushInk ==
    ASSUME NEW history \in Seq(Line), NEW text \in Seq(Inks), NEW color \in {"ai", "user"}
    PROVE  \E u \in Seq(Inks) :
              /\ HistoryInk(history) \o Ink(text) = u \o HistoryInk(Push(history, text, color))
              /\ Len(Push(history, text, color)) < MaxHistory => u = <<>> /\ Len(history) < MaxHistory
<1> DEFINE lines == wrap_to_lines(text)
           new   == [ i \in 1 .. Len(lines) |-> Entry(lines[i], color) ]
           all   == history \o new
<1>1. lines \in Seq(Seq(Inks)) /\ Len(lines) > 0 /\ LinesInk(lines) = Ink(text)
  BY LinesOfText
<1>2. Push(history, text, color) =
        IF Len(all) <= MaxHistory THEN all ELSE SubSeq(all, Len(all) - MaxHistory + 1, Len(all))
  BY Zenon DEF Push, Entry
<1> HIDE DEF lines
<1>3. Len(lines) \in Nat /\ \A i \in 1 .. Len(lines) : lines[i] \in Seq(Inks)
  BY <1>1
<1>4. \A i \in 1 .. Len(lines) : Entry(lines[i], color) \in Line
  BY <1>3, EntryTyped
<1>5. new \in Seq(Line)
  BY <1>3, <1>4
<1>6. HistoryInk(new) = Ink(text) /\ Len(new) = Len(lines)
  <2>1. PICK n \in Seq(Line) : n = new
    BY <1>5
  <2>2. n = [ i \in 1 .. Len(lines) |-> Entry(lines[i], color) ]
    BY <2>1
  <2> HIDE DEF new
  <2>3. HistoryInk(n) = LinesInk(lines) /\ Len(n) = Len(lines)
    BY <1>1, <2>2, EntriesInk
  <2> QED BY <1>1, <2>1, <2>3
<1> HIDE DEF new
<1>7. /\ all \in Seq(Line) /\ Len(all) \in Nat /\ Len(history) \in Nat
      /\ Len(all) = Len(history) + Len(new) /\ Len(all) > Len(history)
  <2>1. all \in Seq(Line) /\ Len(all) = Len(history) + Len(new)
    BY <1>5, ConcatFacts
  <2>2. Len(history) \in Nat /\ Len(new) \in Nat /\ Len(new) > 0
    BY <1>1, <1>5, <1>6
  <2> HIDE DEF all
  <2> QED BY <2>1, <2>2
<1>8. HistoryInk(all) = HistoryInk(history) \o Ink(text) /\ HistoryInk(all) \in Seq(Inks)
  BY <1>5, <1>6, <1>7, HistoryConcat, EntriesTyped
<1> HIDE DEF all
<1>9. MaxHistory \in Nat
  BY SubtitlesAssumption, Zenon
<1>10. CASE Len(all) <= MaxHistory
  <2>1. Push(history, text, color) = all
    BY <1>2, <1>10
  <2>2. <<>> \in Seq(Inks) /\ <<>> \o HistoryInk(all) = HistoryInk(all)
    BY <1>8
  <2>3. Len(all) < MaxHistory => Len(history) < MaxHistory
    BY <1>7, <1>9
  <2> QED BY <1>8, <2>1, <2>2, <2>3
<1>11. CASE ~(Len(all) <= MaxHistory)
  <2> DEFINE m == Len(all) - MaxHistory
  <2>1. m \in Nat /\ m <= Len(all) /\ Len(all) - m = MaxHistory
    BY <1>7, <1>9, <1>11
  <2>2. Push(history, text, color) = SubSeq(all, m + 1, Len(all))
    BY <1>2, <1>11
  <2> HIDE DEF m
  <2>3. PICK a \in Seq(Line), b \in Seq(Line) :
           b = SubSeq(all, m + 1, Len(all)) /\ all = a \o b /\ Len(b) = MaxHistory
    <3> DEFINE a == SubSeq(all, 1, m)
               b == SubSeq(all, m + 1, Len(all))
    <3>1. a \in Seq(Line) /\ b \in Seq(Line) /\ all = a \o b /\ Len(b) = Len(all) - m
      BY <1>7, <2>1, CutAt
    <3> HIDE DEF a
    <3> QED BY <2>1, <3>1
  <2>4. HistoryInk(all) = HistoryInk(a) \o HistoryInk(b) /\ HistoryInk(a) \in Seq(Inks)
    BY <2>3, HistoryConcat, EntriesTyped
  <2>5. ~(Len(b) < MaxHistory)
    BY <1>9, <2>3
  <2> QED BY <1>8, <2>2, <2>3, <2>4, <2>5
<1> QED BY <1>10, <1>11

-----------------------------------------------------------------------------
(* What was said is the ink of the history and behind it t, except for what *)
(* a full history has dropped at its front.                                 *)

Kept(h, t, g) ==
    \E u \in Seq(Inks) : /\ g = u \o (HistoryInk(h) \o t)
                         /\ Len(h) < MaxHistory => u = <<>>

\* A part in the middle, cut at another place.
Regroups(u, a, b, t, v, c) ==
    /\ a \o b = v \o c => u \o (a \o (b \o t)) = (u \o v) \o (c \o t)
    /\ u \o v \in Seq(Inks)

\* It joins up again.
LEMMA Regroup ==
    ASSUME NEW u \in Seq(Inks), NEW a \in Seq(Inks), NEW b \in Seq(Inks), NEW t \in Seq(Inks),
           NEW v \in Seq(Inks), NEW c \in Seq(Inks)
    PROVE  Regroups(u, a, b, t, v, c)
<1>1. a \o (b \o t) = (a \o b) \o t
  OBVIOUS
<1>2. (v \o c) \o t = v \o (c \o t) /\ c \o t \in Seq(Inks)
  OBVIOUS
<1>3. PICK ct \in Seq(Inks) : ct = c \o t
  BY <1>2
<1>4. u \o (v \o ct) = (u \o v) \o ct /\ u \o v \in Seq(Inks)
  OBVIOUS
<1> QED BY <1>1, <1>2, <1>3, <1>4, Zenon DEF Regroups

\* A text moves to the history.
LEMMA PushKeeps ==
    ASSUME NEW h \in Seq(Line), NEW text \in Seq(Inks), NEW color \in {"ai", "user"},
           NEW t \in Seq(Inks), NEW g, Kept(h, Ink(text) \o t, g)
    PROVE  Kept(Push(h, text, color), t, g)
<1>1. PICK u \in Seq(Inks) : /\ g = u \o (HistoryInk(h) \o (Ink(text) \o t))
                             /\ Len(h) < MaxHistory => u = <<>>
  BY DEF Kept
<1>2. PICK p \in Seq(Line) : p = Push(h, text, color)
  BY PushTyped
<1>3. PICK a \in Seq(Inks), b \in Seq(Inks), c \in Seq(Inks) :
          a = HistoryInk(h) /\ b = Ink(text) /\ c = HistoryInk(p)
  BY EntriesTyped, InkTyped
<1>4. PICK v \in Seq(Inks) : /\ a \o b = v \o c
                             /\ Len(p) < MaxHistory => v = <<>> /\ Len(h) < MaxHistory
  <2>1. \E v \in Seq(Inks) :
            /\ HistoryInk(h) \o Ink(text) = v \o HistoryInk(Push(h, text, color))
            /\ Len(Push(h, text, color)) < MaxHistory => v = <<>> /\ Len(h) < MaxHistory
    BY PushInk
  <2> QED BY <1>2, <1>3, <2>1, Zenon
<1>5. u \o (a \o (b \o t)) = (u \o v) \o (c \o t) /\ u \o v \in Seq(Inks)
  <2>1. Regroups(u, a, b, t, v, c)
    BY Regroup
  <2> QED BY <1>4, <2>1, Zenon DEF Regroups
<1>7. g = (u \o v) \o (c \o t)
  BY <1>1, <1>3, <1>5, Zenon
<1>8. Len(p) < MaxHistory => u \o v = <<>>
  <2>1. <<>> \o <<>> = <<>>
    OBVIOUS
  <2> QED BY <1>1, <1>4, <2>1
<1> QED BY <1>2, <1>3, <1>5, <1>7, <1>8 DEF Kept

\* More is said.
LEMMA MoreKept ==
    ASSUME NEW h \in Seq(Line), NEW t \in Seq(Inks), NEW g, NEW s \in Seq(Inks), Kept(h, t, g)
    PROVE  Kept(h, t \o s, g \o s)
<1>1. PICK u \in Seq(Inks) : /\ g = u \o (HistoryInk(h) \o t)
                             /\ Len(h) < MaxHistory => u = <<>>
  BY DEF Kept
<1>2. PICK a \in Seq(Inks) : a = HistoryInk(h)
  BY EntriesTyped
<1>3. (u \o (a \o t)) \o s = u \o (a \o (t \o s))
  OBVIOUS
<1> QED BY <1>1, <1>2, <1>3 DEF Kept

\* The transcript of a Display holds what was said.
Keeps(disp, g) == Kept(disp.history, Ink(disp.line \o disp.rest), g)

\* The two texts of the typewriter.
LEMMA FitsTexts ==
    ASSUME NEW disp, Fits(disp)
    PROVE  /\ disp.history \in Seq(Line) /\ disp.line \in Seq(Inks) /\ disp.rest \in Seq(Inks)
           /\ disp.line \o disp.rest \in Seq(Inks) /\ disp.line \in Seq(Chars) /\ disp.rest \in Seq(Chars)
           /\ disp.queued \in Seq(Chars) /\ disp.queued \in Seq(Inks)
BY CharsInked DEF Fits, Displays

\* flush_typing.
LEMMA FlushKeeps ==
    ASSUME NEW disp, Fits(disp), NEW g, Keeps(disp, g)
    PROVE  /\ Keeps(flush_typing(disp), g)
           /\ flush_typing(disp).line = <<>> /\ flush_typing(disp).rest = <<>>
<1> DEFINE f == flush_typing(disp)
<1>1. CASE ~IsTyping(disp)
  <2>1. disp.line = <<>> /\ disp.rest = <<>>
    BY <1>1 DEF IsTyping
  <2>2. f = [ disp EXCEPT !.stream = FALSE, !.queued = <<>> ]
    BY <1>1 DEF flush_typing
  <2>3. f.history = disp.history /\ f.line = disp.line /\ f.rest = disp.rest
    BY <2>2 DEF Fits, Displays
  <2> HIDE DEF f
  <2> QED BY <2>1, <2>3 DEF Keeps, f
<1>2. CASE IsTyping(disp)
  <2> DEFINE h == Push(disp.history, disp.line \o disp.rest, "ai")
  <2>1. f = [ Empty EXCEPT !.history = h ]
    BY <1>2 DEF flush_typing
  <2>2. f.history = h /\ f.line = <<>> /\ f.rest = <<>>
    <3> HIDE DEF h
    <3> QED BY <2>1 DEF Empty
  <2>3. disp.history \in Seq(Line) /\ disp.line \o disp.rest \in Seq(Inks)
    BY FitsTexts
  <2>4. PICK text \in Seq(Inks) : text = disp.line \o disp.rest
    BY <2>3
  <2>5. Ink(text) \o <<>> = Ink(text) /\ <<>> \in Seq(Inks)
    BY InkTyped
  <2>6. Kept(disp.history, Ink(text) \o <<>>, g)
    BY <2>4, <2>5 DEF Keeps
  <2>7. Kept(h, <<>>, g)
    BY <2>3, <2>4, <2>5, <2>6, PushKeeps
  <2>8. Ink(<<>> \o <<>>) = <<>>
    <3>1. <<>> \o <<>> = <<>>
      OBVIOUS
    <3> QED BY <3>1, InkShort, Zenon
  <2> HIDE DEF f, h
  <2> QED BY <2>2, <2>7, <2>8 DEF Keeps, f
<1> QED BY <1>1, <1>2

\* add_user_line.
LEMMA UserKeeps ==
    ASSUME NEW disp, Fits(disp), NEW g \in Seq(Inks), Keeps(disp, g)
    PROVE  Keeps(add_user_line(disp, <<"u">>), Append(g, "u"))
<1> DEFINE f == flush_typing(disp)
           h == Push(f.history, <<"u">>, "user")
<1>1. Fits(f) /\ Keeps(f, g) /\ f.line = <<>> /\ f.rest = <<>>
  BY FlushTyped, FlushKeeps
<1> HIDE DEF f
<1>2. <<"u">> \in Seq(Inks) /\ <<>> \in Seq(Inks) /\ f.history \in Seq(Line)
  BY <1>1, FitsTexts DEF Inks
<1>3. Ink(<<>> \o <<>>) = <<>> /\ Ink(<<"u">>) = <<"u">>
  <2>1. <<>> \o <<>> = <<>>
    OBVIOUS
  <2> QED BY <2>1, InkShort, Zenon
<1>4. Kept(f.history, <<>>, g)
  BY <1>1, <1>3 DEF Keeps
<1>5. Kept(f.history, <<>> \o <<"u">>, g \o <<"u">>)
  BY <1>2, <1>4, MoreKept
<1>6. <<>> \o <<"u">> = <<"u">> \o <<>> /\ g \o <<"u">> = Append(g, "u")
  OBVIOUS
<1>7. Kept(f.history, Ink(<<"u">>) \o <<>>, Append(g, "u"))
  BY <1>3, <1>5, <1>6
<1>8. Kept(h, <<>>, Append(g, "u"))
  BY <1>2, <1>7, PushKeeps
<1>9. add_user_line(disp, <<"u">>) = [ f EXCEPT !.history = h ]
  BY DEF add_user_line, f
<1> HIDE DEF h
<1>10. /\ add_user_line(disp, <<"u">>).history = h
       /\ add_user_line(disp, <<"u">>).line = <<>> /\ add_user_line(disp, <<"u">>).rest = <<>>
  BY <1>1, <1>9 DEF Fits, Displays
<1> QED BY <1>3, <1>8, <1>10 DEF Keeps

\* More to type.
LEMMA RestKeeps ==
    ASSUME NEW disp, Fits(disp), NEW g, Keeps(disp, g), NEW piece \in Seq(Chars),
           NEW new, new.history = disp.history, new.line = disp.line, new.rest = disp.rest \o piece
    PROVE  Keeps(new, g \o Ink(piece))
<1>1. PICK l \in Seq(Inks), r \in Seq(Inks), p \in Seq(Inks) : l = disp.line /\ r = disp.rest /\ p = piece
  BY FitsTexts, CharsInked
<1>2. l \o (r \o p) = (l \o r) \o p /\ l \o r \in Seq(Inks)
  OBVIOUS
<1>3. Ink((l \o r) \o p) = Ink(l \o r) \o Ink(p)
  BY <1>2, InkConcat
<1>4. disp.history \in Seq(Line) /\ Ink(l \o r) \in Seq(Inks) /\ Ink(p) \in Seq(Inks)
  BY <1>2, FitsTexts, InkTyped
<1>5. Kept(disp.history, Ink(l \o r) \o Ink(p), g \o Ink(p))
  BY <1>1, <1>4, MoreKept DEF Keeps
<1> QED BY <1>1, <1>2, <1>3, <1>5 DEF Keeps

\* The typewriter moves a unit.
LEMMA RevealKeeps ==
    ASSUME NEW disp, Fits(disp), NEW g, Keeps(disp, g)
    PROVE  Keeps(Reveal(disp), g)
<1> DEFINE n    == UnitLen(disp.rest)
           unit == SubSeq(disp.rest, 1, n)
           left == SubSeq(disp.rest, n + 1, Len(disp.rest))
           full == Len(disp.line) + n > SubW /\ disp.line # <<>>
<1>1. /\ disp.history \in Seq(Line) /\ disp.line \in Seq(Inks)
      /\ disp.rest \in Seq(Chars) /\ disp.rest \in Seq(Inks)
  BY FitsTexts
<1>2. n \in Nat /\ n <= Len(disp.rest)
  BY <1>1, UnitFits
<1>3. Reveal(disp) = [ disp EXCEPT !.rest = left,
                                   !.history = IF full THEN Push(disp.history, disp.line, "ai") ELSE disp.history,
                                   !.line = IF full THEN unit ELSE disp.line \o unit ]
  BY DEF Reveal
<1> HIDE DEF n, full
<1>4. unit \in Seq(Inks) /\ left \in Seq(Inks) /\ disp.rest = unit \o left
  BY <1>1, <1>2, CutAt
<1> HIDE DEF unit, left
<1>5. PICK l \in Seq(Inks) : l = disp.line
  BY <1>1
<1>6. /\ Reveal(disp).rest = left
      /\ Reveal(disp).history = IF full THEN Push(disp.history, l, "ai") ELSE disp.history
      /\ Reveal(disp).line = IF full THEN unit ELSE l \o unit
  BY <1>3, <1>5 DEF Fits, Displays
<1>7. CASE full
  <2>1. unit \o left \in Seq(Inks)
    BY <1>4
  <2>2. Ink(l \o (unit \o left)) = Ink(l) \o Ink(unit \o left) /\ Ink(unit \o left) \in Seq(Inks)
    BY <2>1, InkConcat, InkTyped
  <2>3. Kept(disp.history, Ink(l) \o Ink(unit \o left), g)
    BY <1>4, <1>5, <2>2 DEF Keeps
  <2>4. Kept(Push(disp.history, l, "ai"), Ink(unit \o left), g)
    BY <1>1, <2>2, <2>3, PushKeeps
  <2> QED BY <1>6, <1>7, <2>4 DEF Keeps
<1>8. CASE ~full
  <2>1. l \o (unit \o left) = (l \o unit) \o left
    BY <1>4
  <2> QED BY <1>4, <1>5, <1>6, <1>8, <2>1 DEF Keeps
<1> QED BY <1>7, <1>8

-----------------------------------------------------------------------------
(* What was said and what the deltas of this reply have added to it.       *)

Telling ==
    /\ given \in Seq(Inks) /\ base \in Seq(Inks)
    /\ Keeps(d, given)
    /\ d.stream => given = base \o Ink(d.queued)
    /\ ~d.stream /\ reply.text # <<>> => given = base

\* Ink behind something.
LEMMA InkBehind ==
    ASSUME NEW b \in Seq(Inks), NEW q \in Seq(Inks), NEW l \in Seq(Inks)
    PROVE  b \o Ink(q \o l) = (b \o Ink(q)) \o Ink(l)
<1>1. PICK k \in Seq(Inks), m \in Seq(Inks) : k = Ink(q) /\ m = Ink(l)
  BY InkTyped
<1>2. Ink(q \o l) = k \o m
  BY <1>1, InkConcat
<1>3. b \o (k \o m) = (b \o k) \o m
  OBVIOUS
<1> QED BY <1>1, <1>2, <1>3, Zenon

\* The next piece of the reply: it goes on, or it starts a stream.
LEMMA DeltaTells ==
    ASSUME Fits(d), Telling, NEW piece \in Seq(Chars), reply.text # <<>>,
           d' = append_reply_delta(d, piece), given' = given \o Ink(piece), base' = base
    PROVE  /\ given' \in Seq(Inks) /\ Keeps(d', given')
           /\ d'.stream => given' = base' \o Ink(d'.queued)
           /\ ~d'.stream => given' = base'
<1>1. PICK p \in Seq(Inks), i \in Seq(Inks) : p = piece /\ i = Ink(piece)
  BY CharsInked, InkTyped
<1>2. given \in Seq(Inks) /\ base \in Seq(Inks) /\ given \o i \in Seq(Inks)
  BY DEF Telling
<1>3. CASE piece = <<>>
  <2>1. d' = d
    BY <1>3 DEF append_reply_delta
  <2>2. i = <<>>
    BY <1>1, <1>3, InkShort, Zenon
  <2>3. given' = given
    BY <1>1, <1>2, <2>2
  <2> QED BY <1>2, <2>1, <2>3 DEF Telling
<1>4. CASE piece # <<>>
  <2> DEFINE f == flush_typing(d)
             s == IF d.stream THEN d ELSE [ f EXCEPT !.stream = TRUE ]
  <2>1. Fits(f) /\ f.queued = <<>> /\ Keeps(f, given)
    BY FlushTyped, FlushKeeps DEF Telling
  <2>2. d' = [ s EXCEPT !.rest = @ \o piece, !.queued = @ \o piece ]
    BY <1>4 DEF append_reply_delta, begin_reply_stream
  <2> HIDE DEF f
  <2>3. /\ Fits(s) /\ s.stream = TRUE /\ Keeps(s, given) /\ s.queued \in Seq(Inks)
        /\ given = base \o Ink(s.queued)
    <3>1. CASE d.stream
      <4>1. d.stream = TRUE
        BY <3>1 DEF Fits, Displays
      <4> QED BY <3>1, <4>1, FitsTexts DEF Telling
    <3>2. CASE ~d.stream
      <4>1. s = [ f EXCEPT !.stream = TRUE ]
        BY <3>2
      <4>2. /\ Fits(s) /\ s.stream = TRUE /\ s.queued = f.queued
            /\ s.history = f.history /\ s.line = f.line /\ s.rest = f.rest
        BY <2>1, <4>1 DEF Fits, Displays
      <4> HIDE DEF s
      <4>3. Keeps(s, given)
        BY <2>1, <4>2 DEF Keeps
      <4>4. s.queued = <<>> /\ Ink(s.queued) = <<>>
        BY <2>1, <4>2, InkShort, Zenon
      <4>5. given = base /\ base \o <<>> = base
        BY <1>2, <3>2 DEF Telling
      <4> QED BY <4>2, <4>3, <4>4, <4>5, FitsTexts
    <3> QED BY <3>1, <3>2
  <2> HIDE DEF s
  <2>4. /\ d'.history = s.history /\ d'.line = s.line /\ d'.rest = s.rest \o piece
        /\ d'.queued = s.queued \o piece /\ d'.stream = TRUE
    BY <2>2, <2>3 DEF Fits, Displays
  <2>5. Keeps(d', given \o Ink(piece))
    BY <2>3, <2>4, RestKeeps
  <2>6. given' = base' \o Ink(d'.queued)
    <3>1. PICK q \in Seq(Inks), b \in Seq(Inks) : q = s.queued /\ b = base
      BY <1>2, <2>3
    <3>2. b \o Ink(q \o p) = (b \o Ink(q)) \o Ink(p)
      BY InkBehind
    <3> QED BY <1>1, <2>3, <2>4, <3>1, <3>2, Zenon
  <2> QED BY <1>1, <1>2, <2>4, <2>5, <2>6
<1> QED BY <1>3, <1>4

\* The full text: what the deltas lack, or all of it behind them.
LEMMA FullTells ==
    ASSUME Fits(d), Telling, NEW full \in Seq(Chars), d' = set_reply_full_text(d, full),
           given' = (IF Agrees(d, full) THEN base ELSE given) \o Ink(full)
    PROVE  given' \in Seq(Inks) /\ Keeps(d', given') /\ d'.stream = FALSE
<1>1. PICK t \in Seq(Inks), i \in Seq(Inks) : t = full /\ i = Ink(full)
  BY CharsInked, InkTyped
<1>2. given \in Seq(Inks) /\ base \in Seq(Inks) /\ given \o i \in Seq(Inks) /\ base \o i \in Seq(Inks)
  BY DEF Telling
<1>3. CASE Agrees(d, full)
  <2> DEFINE lacks == SubSeq(full, Len(d.queued) + 1, Len(full))
  <2>1. /\ d.stream /\ d.queued \in Seq(Chars) /\ Len(d.queued) <= Len(full) /\ Len(d.queued) \in Nat
        /\ SubSeq(d.queued, 1, Len(d.queued)) = SubSeq(full, 1, Len(d.queued))
    BY <1>3, FitsTexts DEF Agrees, IsPrefix
  <2>2. SubSeq(d.queued, 1, Len(d.queued)) = d.queued
    BY <2>1
  <2>3. lacks \in Seq(Chars) /\ full = SubSeq(full, 1, Len(d.queued)) \o lacks
    BY <2>1, CutAt
  <2> HIDE DEF lacks
  <2>4. PICK q \in Seq(Inks), l \in Seq(Inks), b \in Seq(Inks) : q = d.queued /\ l = lacks /\ b = base
    BY <1>2, <2>3, FitsTexts, CharsInked
  <2>5. t = q \o l
    BY <1>1, <2>1, <2>2, <2>3, <2>4
  <2>6. b \o Ink(q \o l) = (b \o Ink(q)) \o Ink(l)
    BY InkBehind
  <2>7. given = b \o Ink(q)
    BY <2>1, <2>4 DEF Telling
  <2>8. given' = b \o Ink(full)
    BY <1>3, <2>4
  <2>9. Ink(full) = Ink(q \o l)
    BY <1>1, <2>5, Zenon
  <2>10. given' = given \o Ink(lacks)
    BY <2>4, <2>6, <2>7, <2>8, <2>9, Zenon
  <2>11. d' = [ d EXCEPT !.rest = @ \o lacks, !.stream = FALSE, !.queued = <<>> ]
    BY <1>3 DEF set_reply_full_text, lacks
  <2>12. d'.history = d.history /\ d'.line = d.line /\ d'.rest = d.rest \o lacks /\ d'.stream = FALSE
    BY <2>11 DEF Fits, Displays
  <2>13. Keeps(d', given \o Ink(lacks))
    BY <2>3, <2>12, RestKeeps DEF Telling
  <2> QED BY <1>1, <1>2, <1>3, <2>10, <2>12, <2>13
<1>4. CASE ~Agrees(d, full)
  <2> DEFINE f == flush_typing(d)
  <2>1. Fits(f) /\ f.stream = FALSE /\ Keeps(f, given) /\ f.line = <<>> /\ f.rest = <<>>
    BY FlushTyped, FlushKeeps DEF Telling
  <2>2. d' = [ f EXCEPT !.rest = full ]
    BY <1>4 DEF set_reply_full_text, begin_reply_typewriter
  <2> HIDE DEF f
  <2>3. d'.history = f.history /\ d'.line = f.line /\ d'.rest = full /\ d'.stream = FALSE
    BY <2>1, <2>2 DEF Fits, Displays
  <2>4. full = <<>> \o full
    OBVIOUS
  <2>5. d'.rest = f.rest \o full
    BY <2>1, <2>3, <2>4, Zenon
  <2>6. Keeps(d', given \o Ink(full))
    BY <2>1, <2>3, <2>5, RestKeeps
  <2> QED BY <1>1, <1>2, <1>4, <2>3, <2>6
<1> QED BY <1>3, <1>4

\* Every call of voice_task.
LEMMA VoiceTells == PanelInv /\ Telling /\ Voice => Telling'
<1> SUFFICES ASSUME PanelInv, Telling, Voice PROVE Telling'
  OBVIOUS
<1>1. /\ Fits(d) /\ reply.text \in Seq(Chars) /\ reply.sent \in Nat /\ reply.sent <= Len(reply.text)
  BY DEF PanelInv, Texts, Fits
<1>2. given \in Seq(Inks) /\ base \in Seq(Inks) /\ Keeps(d, given)
  BY DEF Telling
<1>3. \A r \in Replies \union Altered : r \in Seq(Chars)
  BY PanelAssumption, Zenon
<1>4. ASSUME NEW r \in Replies, UserSays(r) PROVE Telling'
  <2>1. d' = add_user_line(d, <<"u">>) /\ given' = Append(given, "u") /\ base' = given'
    BY <1>4 DEF UserSays
  <2>2. Keeps(d', given')
    BY <1>1, <1>2, <2>1, UserKeeps
  <2>3. given' \in Seq(Inks)
    <3>1. "u" \in Inks
      BY DEF Inks
    <3> QED BY <1>2, <2>1, <3>1
  <2>4. d'.stream = FALSE
    <3> DEFINE f == flush_typing(d)
               h == Push(f.history, <<"u">>, "user")
    <3>1. Fits(f) /\ f.stream = FALSE
      BY <1>1, FlushTyped
    <3>2. d' = [ f EXCEPT !.history = h ]
      BY <2>1 DEF add_user_line
    <3> HIDE DEF f, h
    <3> QED BY <3>1, <3>2 DEF Fits, Displays
  <2> QED BY <2>1, <2>2, <2>3, <2>4 DEF Telling
<1>5. ASSUME NEW n \in 1 .. 2, Delta(n) PROVE Telling'
  <2> DEFINE piece == SubSeq(reply.text, reply.sent + 1, reply.sent + n)
  <2>1. /\ reply.sent + n <= Len(reply.text) /\ d' = append_reply_delta(d, piece)
        /\ given' = given \o Ink(piece) /\ base' = base
    BY <1>5 DEF Delta
  <2>2. piece \in Seq(Chars)
    BY <1>1, <2>1, SubSeqFacts
  <2>3. reply.text # <<>>
    BY <1>1, <2>1
  <2> HIDE DEF piece
  <2>4. /\ given' \in Seq(Inks) /\ Keeps(d', given')
        /\ d'.stream => given' = base' \o Ink(d'.queued)
        /\ ~d'.stream => given' = base'
    BY <1>1, <2>1, <2>2, <2>3, DeltaTells
  <2> QED BY <1>2, <2>1, <2>4 DEF Telling
<1>6. ASSUME NEW full \in Seq(Chars), Completed(full) PROVE Telling'
  <2>1. /\ d' = set_reply_full_text(d, full)
        /\ given' = (IF Agrees(d, full) THEN base ELSE given) \o Ink(full)
        /\ reply' = [ text |-> <<>>, sent |-> 0 ] /\ base' = base
    BY <1>6 DEF Completed
  <2>2. given' \in Seq(Inks) /\ Keeps(d', given') /\ d'.stream = FALSE
    BY <1>1, <2>1, FullTells
  <2>3. reply'.text = <<>>
    BY <2>1
  <2> QED BY <1>2, <2>1, <2>2, <2>3 DEF Telling
<1>7. ASSUME Flush PROVE Telling'
  <2>1. d' = flush_typing(d) /\ base' = given /\ UNCHANGED <<reply, given>>
    BY <1>7 DEF Flush
  <2>2. Keeps(d', given) /\ d'.stream = FALSE
    BY <1>1, <1>2, <2>1, FlushTyped, FlushKeeps
  <2> QED BY <1>2, <2>1, <2>2 DEF Telling
<1> QED BY <1>1, <1>3, <1>4, <1>5, <1>6, <1>7 DEF Voice

\* Every step.
LEMMA TellsStep == PanelInv /\ Telling /\ [Next]_vars => Telling'
<1> SUFFICES ASSUME PanelInv, Telling, [Next]_vars PROVE Telling'
  OBVIOUS
<1>1. CASE UNCHANGED <<d, talkVars>>
  BY <1>1 DEF talkVars, Telling, Keeps
<1>2. CASE \E types \in BOOLEAN : Pass(types)
  <2>1. PICK types \in BOOLEAN : Pass(types)
    BY <1>2
  <2>2. d' = (IF types THEN Reveal(d) ELSE d) /\ UNCHANGED talkVars
    BY <2>1 DEF Pass
  <2>3. CASE types
    <3>1. d' = Reveal(d) /\ Fits(d) /\ UNCHANGED <<given, base, reply>>
      BY <2>2, <2>3 DEF PanelInv, Texts, Fits, talkVars
    <3>2. Keeps(d', given)
      BY <3>1, RevealKeeps DEF Telling
    <3>3. d'.stream = d.stream /\ d'.queued = d.queued
      BY <3>1 DEF Reveal, Fits, Displays
    <3> QED BY <3>1, <3>2, <3>3 DEF Telling
  <2>4. CASE ~types
    BY <1>1, <2>2, <2>4
  <2> QED BY <2>3, <2>4
<1>3. CASE Voice
  BY <1>3, VoiceTells
<1>4. CASE \/ \E st \in States : SetState(st)
           \/ \E step \in {"up", "down"} : VolumeKey(step)
           \/ MinutePasses \/ BatteryTick \/ VolumeTimeUp
  <2>1. UNCHANGED <<d, talkVars>>
    BY <1>4 DEF SetState, VolumeKey, MinutePasses, BatteryTick, VolumeTimeUp, Change
  <2> QED BY <1>1, <2>1
<1>5. CASE UNCHANGED vars
  BY <1>1, <1>5 DEF vars
<1> QED BY <1>2, <1>3, <1>4, <1>5 DEF Next

\* Nothing said.
LEMMA TellsStart == Init => Telling
<1> SUFFICES ASSUME Init PROVE Telling
  OBVIOUS
<1>1. d = Empty /\ given = <<>> /\ base = <<>> /\ reply = [ text |-> <<>>, sent |-> 0 ]
  BY DEF Init
<1>2. /\ d.history = <<>> /\ d.line = <<>> /\ d.rest = <<>> /\ d.stream = FALSE /\ d.queued = <<>>
  BY <1>1 DEF Empty
<1>3. HistoryInk(<<>>) = <<>>
  <2>1. <<>> \in Seq(Line) /\ Len(<<>>) = 0
    OBVIOUS
  <2>2. Entries(<<>>) = <<>>
    BY <2>1 DEF Entries
  <2> QED BY <2>1, <2>2, EntriesTyped, FlattenNone
<1>4. <<>> \o <<>> = <<>> /\ <<>> \in Seq(Inks)
  OBVIOUS
<1>5. Ink(<<>> \o <<>>) = <<>>
  BY <1>4, InkShort, Zenon
<1>6. Keeps(d, given)
  <2>1. given = <<>> \o (HistoryInk(<<>>) \o Ink(<<>> \o <<>>))
    BY <1>1, <1>3, <1>4, <1>5, Zenon
  <2>2. Kept(<<>>, Ink(<<>> \o <<>>), given)
    BY <1>4, <2>1, Zenon DEF Kept
  <2> QED BY <1>2, <2>2, Zenon DEF Keeps
<1> QED BY <1>1, <1>2, <1>4, <1>6 DEF Telling

\* What stands behind something is a suffix of the whole.
LEMMA BehindIsSuffix ==
    ASSUME NEW S, NEW u \in Seq(S), NEW s \in Seq(S)
    PROVE  IsSuffix(s, u \o s)
<1> DEFINE w == u \o s
           a == Reverse(s)
           b == Reverse(w)
<1>1. /\ w \in Seq(S) /\ Len(w) = Len(u) + Len(s) /\ Len(u) \in Nat /\ Len(s) \in Nat
      /\ \A i \in 1 .. Len(s) : w[Len(u) + i] = s[i]
  BY ConcatFacts
<1> HIDE DEF w
<1>2. a \in Seq(S) /\ Len(a) = Len(s) /\ \A i \in 1 .. Len(s) : a[i] = s[(Len(s) - i) + 1]
  BY <1>1 DEF Reverse
<1>3. b \in Seq(S) /\ Len(b) = Len(w) /\ \A i \in 1 .. Len(w) : b[i] = w[(Len(w) - i) + 1]
  BY <1>1 DEF Reverse
<1> HIDE DEF a, b
<1>4. ASSUME NEW i \in 1 .. Len(a) PROVE a[i] = b[i]
  <2>1. PICK j \in 1 .. Len(s) : j = (Len(s) - i) + 1
    <3>1. (Len(s) - i) + 1 \in 1 .. Len(s)
      BY <1>1, <1>2
    <3> QED BY <3>1
  <2>2. i \in 1 .. Len(w) /\ (Len(w) - i) + 1 = Len(u) + j
    BY <1>1, <1>2, <2>1
  <2> QED BY <1>1, <1>2, <1>3, <2>1, <2>2
<1>5. Len(a) <= Len(b)
  BY <1>1, <1>2, <1>3
<1>6. IsPrefix(a, b)
  BY <1>2, <1>3, <1>4, <1>5, PrefixByElements
<1> QED BY <1>6 DEF IsSuffix, a, b, w

\* The transcript is the end of what was said, and all of it while there is room.
LEMMA TranscriptSays == PanelInv /\ Telling => TranscriptKept
<1> SUFFICES ASSUME PanelInv, Telling PROVE TranscriptKept
  OBVIOUS
<1>1. Fits(d)
  BY DEF PanelInv, Texts, Fits
<1>2. PICK h \in Seq(Inks), l \in Seq(Inks), r \in Seq(Inks) :
          h = HistoryInk(d.history) /\ l = Ink(d.line) /\ r = Ink(d.rest)
  BY <1>1, FitsTexts, EntriesTyped, InkTyped
<1>3. Ink(d.line \o d.rest) = l \o r
  BY <1>1, <1>2, FitsTexts, InkConcat
<1>4. h \o (l \o r) = (h \o l) \o r /\ (h \o l) \o r \in Seq(Inks)
  OBVIOUS
<1>5. Transcript(d) = (h \o l) \o r
  BY <1>2, Zenon DEF Transcript
<1>6. PICK u \in Seq(Inks) : /\ given = u \o (HistoryInk(d.history) \o Ink(d.line \o d.rest))
                             /\ Len(d.history) < MaxHistory => u = <<>>
  BY DEF Telling, Keeps, Kept
<1>7. PICK t \in Seq(Inks) : t = Transcript(d)
  BY <1>4, <1>5
<1>8. given = u \o t
  BY <1>2, <1>3, <1>4, <1>5, <1>6, <1>7
<1>9. IsSuffix(t, given)
  BY <1>8, BehindIsSuffix
<1>10. <<>> \o t = t
  OBVIOUS
<1> QED BY <1>6, <1>7, <1>8, <1>9, <1>10, Zenon DEF TranscriptKept

\* For every script of replies, streamed in pieces, completed, altered or
\* interrupted, any width of a row and any length of the history: the
\* transcript is the end of all that was said, each character once and in
\* order, and all of it until the history is full.
THEOREM TranscriptHolds == Spec => []TranscriptKept
<1>1. Init => PanelInv /\ Telling
  BY PanelStarts, TellsStart
<1>2. PanelInv /\ Telling /\ [Next]_vars => (PanelInv /\ Telling)'
  BY PanelStep, TellsStep
<1> QED BY <1>1, <1>2, TranscriptSays, PTL DEF Spec
=============================================================================
