------------------------------ MODULE Subtitles ------------------------------
(***************************************************************************)
(* The subtitle model (display.rs): history of finished lines, the line    *)
(* being typed, and the text still to be typed, as the record of a Display.*)
(*                                                                         *)
(* A text is a sequence of characters, each one column wide; what matters  *)
(* of a character is whether it belongs to a word (ASCII), is a space, a   *)
(* line break, or stands alone (everything else).                          *)
(***************************************************************************)
EXTENDS Naturals, SequencesExt

CONSTANTS
    Letters,     \* ASCII visible characters
    Hanzi,       \* characters that are revealed one by one
    SubW,        \* columns of a line                               (SUB_W)
    MaxHistory   \* lines kept                          (MAX_HISTORY_LINES)

ASSUME SubtitlesAssumption ==
    /\ SubW \in Nat \ {0}
    /\ MaxHistory \in Nat \ {0}
    /\ Letters \cap Hanzi = {}
    /\ {" ", "\n"} \cap (Letters \union Hanzi) = {}

Chars == Letters \union Hanzi \union {" ", "\n"}

Empty ==
    [ history |-> <<>>,     \* finished lines, oldest first
      rest    |-> <<>>,     \* typing_rest
      line    |-> <<>>,     \* cur_line
      stream  |-> FALSE,    \* stream_mode
      queued  |-> <<>> ]    \* stream_queued

IsTyping(d) == d.rest # <<>> \/ d.line # <<>>

-----------------------------------------------------------------------------
(* Lines.                                                                  *)

WrapChar(acc, c) ==
    IF c = "\n"
    THEN [ out |-> Append(acc.out, acc.cur), cur |-> <<>> ]
    ELSE IF Len(acc.cur) + 1 > SubW /\ acc.cur # <<>>
    THEN [ out |-> Append(acc.out, acc.cur), cur |-> <<c>> ]
    ELSE [ acc EXCEPT !.cur = Append(@, c) ]

wrap_to_lines(text) ==
    LET all == FoldLeft(WrapChar, [ out |-> <<>>, cur |-> <<>> ], text)
    IN  Append(all.out, all.cur)

\* push_line: wrapped, an empty line shown as a space, the oldest dropped.
Push(history, text, color) ==
    LET lines == wrap_to_lines(text)
        new   == [ i \in 1 .. Len(lines) |->
                     [ text  |-> IF lines[i] = <<>> THEN <<" ">> ELSE lines[i],
                       color |-> color ] ]
        all   == history \o new
    IN  IF Len(all) <= MaxHistory THEN all
        ELSE SubSeq(all, Len(all) - MaxHistory + 1, Len(all))

-----------------------------------------------------------------------------
(* Calls of the two tasks.                                                 *)

flush_typing(d) ==
    IF ~IsTyping(d) THEN [ d EXCEPT !.stream = FALSE, !.queued = <<>> ]
    ELSE [ Empty EXCEPT !.history = Push(d.history, d.line \o d.rest, "ai") ]

add_user_line(d, text) ==
    LET f == flush_typing(d)
    IN  [ f EXCEPT !.history = Push(f.history, text, "user") ]

begin_reply_typewriter(d, text) == [ flush_typing(d) EXCEPT !.rest = text ]

begin_reply_stream(d) == [ flush_typing(d) EXCEPT !.stream = TRUE ]

append_reply_delta(d, delta) ==
    LET s == IF d.stream THEN d ELSE begin_reply_stream(d)
    IN  IF delta = <<>> THEN d
        ELSE [ s EXCEPT !.rest = @ \o delta, !.queued = @ \o delta ]

Agrees(d, full) == d.stream /\ IsPrefix(d.queued, full)

\* Variant: the full text is queued behind the deltas.
FullTextAgain(d, full) == [ d EXCEPT !.rest = @ \o full, !.stream = FALSE, !.queued = <<>> ]

\* The full text counts: only what the deltas lack is added, and a text
\* they do not agree with is typed as a whole.
set_reply_full_text(d, full) ==
    IF Agrees(d, full)
    THEN [ d EXCEPT !.rest = @ \o SubSeq(full, Len(d.queued) + 1, Len(full)),
                    !.stream = FALSE, !.queued = <<>> ]
    ELSE begin_reply_typewriter(d, full)

-----------------------------------------------------------------------------
(* The typewriter.                                                         *)

\* The first place at or behind i whose character is not in S.
Behind(text, i, S) ==
    CHOOSE k \in i .. Len(text) + 1 :
        /\ k = Len(text) + 1 \/ text[k] \notin S
        /\ \A m \in i .. k - 1 : text[m] \in S

\* One unit: a word with the spaces around it, or one other character.
UnitLen(text) ==
    LET i == Behind(text, 1, {" "})
    IN  IF i > Len(text) THEN Len(text)
        ELSE IF text[i] \in Letters
        THEN Behind(text, Behind(text, i, Letters), {" "}) - 1
        ELSE i

\* tick() when the interval has passed: one unit moves to the line, which is
\* finished first if the unit does not fit.  (unit.trim() == "\n" never holds,
\* as trim() takes the line break away: it is typed like any character.)
Reveal(d) ==
    LET n    == UnitLen(d.rest)
        unit == SubSeq(d.rest, 1, n)
        full == Len(d.line) + n > SubW /\ d.line # <<>>
    IN  [ d EXCEPT !.rest = SubSeq(@, n + 1, Len(@)),
                   !.history = IF full THEN Push(@, d.line, "ai") ELSE @,
                   !.line = IF full THEN unit ELSE @ \o unit ]

-----------------------------------------------------------------------------
(* What is on view: the last `rows` lines, the line being typed among them.*)

View(d) ==
    d.history \o IF IsTyping(d) THEN << [ text |-> d.line, color |-> "ai" ] >> ELSE <<>>

\* What of a text has ink, ...
Inking(c) == IF c \in {" ", "\n"} THEN <<>> ELSE <<c>>

Ink(text) == FlattenSeq([ i \in 1 .. Len(text) |-> Inking(text[i]) ])

\* ... and of the whole transcript, in order.
HistoryInk(history) == FlattenSeq([ i \in 1 .. Len(history) |-> Ink(history[i].text) ])

Transcript(d) == HistoryInk(d.history) \o Ink(d.line) \o Ink(d.rest)
=============================================================================
