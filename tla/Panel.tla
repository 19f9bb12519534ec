-------------------------------- MODULE Panel --------------------------------
(***************************************************************************)
(* What the user sees: app_loop's drawing pass (main.rs), the Renderer     *)
(* with its snapshots of what it has drawn (render.rs) and the ST7789      *)
(* behind it (screen.rs), over the subtitles of display.rs and the status  *)
(* bar.  The panel keeps its pixels through everything, a reset included;  *)
(* the renderer cannot read them back.                                     *)
(*                                                                         *)
(* The panel is a grid of cells, one per character.  Times are abstracted  *)
(* to whether an interval has run out.                                     *)
(***************************************************************************)
EXTENDS Subtitles, FiniteSets

CONSTANTS
    Visible,     \* subtitle rows                                  (VISIBLE)
    MaxPush,     \* rectangles pushed in one pass                 (MAX_PUSH)
    Replies,     \* texts of the assistant
    Altered,     \* full texts that differ from what was streamed
    States,      \* DisplayState: Idle, Listening, Playing, Offline
    Minutes, Readings,   \* what the clock and the battery may show
    MaxEvents    \* bound: rounds begun, changes of the status and failing writes

ASSUME PanelAssumption ==
    /\ {Visible, MaxPush} \subseteq Nat \ {0}
    /\ MaxEvents \in Nat
    /\ "Idle" \in States /\ States \subseteq {"Idle", "Listening", "Playing", "Offline"}
    /\ Replies \union Altered \subseteq Seq(Chars)

VARIABLES
    d,          \* the Display's texts
    state,      \* DisplayState
    volume,     \* in steps of 10 %
    volUntil,   \* volume_until_ms as seen from now
    minute,     \* clock_hm: minutes of the day, or "--" before the first sync
    battery,    \* level and charging, as battery.rs last read them
    taken,      \* "bars" (start_ms), "clearing", "taken"
    clear_row,  \* the next stripe to clear, 0 standing for the bar's
    drawn,      \* Renderer.drawn
    bar_key,    \* Renderer.bar_key
    ok,         \* Screen.ok
    pixels,     \* the panel's subtitle rows
    bar,        \* the panel's status bar
    window,     \* the panel's last address window
    reply,      \* server: the text of the round and how much of it was sent
    given,      \* history: all the text the transcript ought to hold ...
    base,       \* ... and what of it was there before this reply
    failed,     \* history: a write has failed
    events      \* history: against their bound

statusVars == <<state, volume, volUntil, minute, battery>>
panelVars  == <<taken, clear_row, drawn, bar_key, ok, pixels, bar, window, failed>>
talkVars   == <<reply, given, base>>
vars == <<d, statusVars, panelVars, talkVars, events>>

\* "ahead": within the 1.5 s; "past": behind them; a u32 of milliseconds
\* makes "past" look "ahead" again after 24.8 days.
Untils == {"never", "ahead", "past"}

Slots == 1 .. Visible

Event == events < MaxEvents /\ events' = events + 1

-----------------------------------------------------------------------------
(* Pictures.                                                               *)

Blank == [ glyph |-> " ", color |-> "black" ]
Boot  == [ glyph |-> "#", color |-> "test" ]      \* self_test_bars
Torn  == [ glyph |-> "?", color |-> "noise" ]     \* what a failed push leaves
Caret == [ glyph |-> "_", color |-> "caret" ]

NoSlot == [ text |-> <<>>, color |-> "black", caret |-> FALSE ]

Inked(c, color) ==
    IF c \in {" ", "\n"} THEN Blank ELSE [ glyph |-> c, color |-> color ]

\* paint_row over the whole width: text up to SUB_W, then the caret.
Picture(slot) ==
    [ x \in 1 .. SubW + 1 |->
        IF x <= Len(slot.text) /\ x <= SubW THEN Inked(slot.text[x], slot.color)
        ELSE IF slot.caret /\ x = Len(slot.text) + 1 THEN Caret
        ELSE Blank ]

\* desired_row: the last lines, the caret behind the last one while listening.
Desired(disp, st, k) ==
    LET view  == View(disp)
        first == IF Len(view) > Visible THEN Len(view) - Visible ELSE 0
        listen == st = "Listening"
    IN  IF view = <<>>
        THEN IF listen /\ k = 1 THEN [ NoSlot EXCEPT !.caret = TRUE ] ELSE NoSlot
        ELSE IF first + k > Len(view) THEN NoSlot
        ELSE [ text  |-> view[first + k].text, color |-> view[first + k].color,
               caret |-> listen /\ first + k = Len(view) ]

\* A slot that should be empty and shows nothing is left alone.
SameSlot(a, b) == a = b \/ (b = NoSlot /\ a.text = <<>> /\ ~a.caret)

\* Variant: any longer text extends the drawn one.
ExtendsByLength(old, new) ==
    /\ ~new.caret /\ ~old.caret /\ old.text # <<>>
    /\ Len(new.text) > Len(old.text) /\ Len(new.text) <= SubW

\* can_extend: the drawn text goes on, in the same colour and without caret.
CanExtend(old, new) ==
    /\ ~new.caret /\ ~old.caret
    /\ old.color = new.color
    /\ old.text # <<>> /\ IsPrefix(old.text, new.text)
    /\ Len(new.text) > Len(old.text) /\ Len(new.text) <= SubW

\* The columns paint_row is asked to draw.
Columns(old, new) ==
    IF CanExtend(old, new) THEN Len(old.text) + 1 .. Len(new.text)
    ELSE 1 .. SubW + 1

-----------------------------------------------------------------------------
(* The status bar.                                                         *)

\* The code compares the other way round: the bar shows once the time is up.
show_volume == volUntil = "past"

NoKey == [ state |-> "none", shown |-> FALSE, volume |-> 0, minute |-> "--", battery |-> "--" ]

\* bar_key: the fields of the u64; clock and battery are left out while the
\* volume is shown.
BarKey ==
    [ state |-> state, shown |-> show_volume, volume |-> volume,
      minute  |-> IF show_volume THEN "--" ELSE minute,
      battery |-> IF show_volume THEN "--" ELSE battery ]

\* What push_bar draws: the state, and volume or clock and battery.
BarPicture ==
    [ state |-> state,
      texts |-> IF show_volume THEN <<volume>> ELSE <<minute, battery>> ]

BootBar  == [ state |-> "test",  texts |-> <<>> ]
BlankBar == [ state |-> "blank", texts |-> <<>> ]
TornBar  == [ state |-> "noise", texts |-> <<>> ]

-----------------------------------------------------------------------------
(* The Screen.                                                             *)

\* push_band of columns xs of row k went through: pix is what it shows there.
Painted(pix, k, new, xs) ==
    [ pix EXCEPT ![k] = [ x \in 1 .. SubW + 1 |->
                            IF x \in xs THEN Picture(new)[x] ELSE @[x] ] ]

Noise(pix, w) ==
    IF w.row \notin Slots THEN pix
    ELSE [ pix EXCEPT ![w.row] = [ x \in 1 .. SubW + 1 |->
                                     IF x \in w.cols THEN Torn ELSE @[x] ] ]

\* A write of push_band fails: the writes behind it go on, so that pixels may
\* end up in the window asked for, in the one before, or nowhere.
Garbled(pix, b, w) ==
    \/ pixels' = pix /\ bar' = b
    \/ \E v \in {w, window} :
          /\ pixels' = Noise(pix, v)
          /\ bar' = IF v.row = 0 THEN TornBar ELSE b

\* Variant: the initialisation is sent, and the panel stays marked as failed.
RecoverStaysFailed == ~ok /\ UNCHANGED <<ok, failed, events>>

\* try_recover: the whole initialisation again, at most every 2 s.
Recover ==
    /\ ~ok
    /\ \/ ok' = TRUE /\ UNCHANGED events
       \/ Event /\ UNCHANGED ok
    /\ UNCHANGED failed

-----------------------------------------------------------------------------
(* The Renderer: one tick(), with want[k] to show in row k.                *)

RecoverTick ==
    /\ Recover
    /\ UNCHANGED <<taken, clear_row, drawn, bar_key, pixels, bar, window>>

\* The colour test is kept for 800 ms ...
HoldTick ==
    /\ ok /\ taken = "bars"
    /\ taken' = "clearing"
    /\ UNCHANGED <<clear_row, drawn, bar_key, ok, pixels, bar, window, failed, events>>

\* ... and cleared one stripe per pass, 0 standing for the bar's.  Whether
\* the stripe was cleared is not looked at.
ClearTick ==
    /\ ok /\ taken = "clearing"
    /\ LET w == [ row |-> clear_row, cols |-> 1 .. SubW + 1 ]
       IN  \/ /\ pixels' = IF clear_row = 0 THEN pixels
                           ELSE Painted(pixels, clear_row, NoSlot, w.cols)
              /\ bar' = IF clear_row = 0 THEN BlankBar ELSE bar
              /\ window' = w
              /\ UNCHANGED <<ok, failed, events>>
           \/ /\ Event /\ failed' = TRUE
              /\ ok' = FALSE
              /\ Garbled(pixels, bar, w)
              /\ window' = w
    /\ IF clear_row = Visible THEN taken' = "taken" /\ UNCHANGED clear_row
       ELSE clear_row' = clear_row + 1 /\ UNCHANGED taken
    /\ UNCHANGED <<drawn, bar_key>>

\* The bands that differ from their snapshot, as many as one pass pushes: the
\* bar (0) first, then the rows from the top.
Todo(want) ==
    LET stale == (IF bar_key # BarKey THEN {0} ELSE {})
                 \union { k \in Slots : ~SameSlot(drawn[k], want[k]) }
    IN  { k \in stale : Cardinality({ j \in stale : j < k }) < MaxPush }

\* What the bands in done leave behind.
PixelsAfter(want, done) ==
    [ k \in Slots |-> IF k \in done THEN Painted(pixels, k, want[k], Columns(drawn[k], want[k]))[k]
                      ELSE pixels[k] ]

BarAfter(done) == IF 0 \in done THEN BarPicture ELSE bar

\* The snapshots follow the bands that went through.
Recorded(want, done) ==
    /\ drawn' = [ k \in Slots |-> IF k \in done THEN want[k] ELSE drawn[k] ]
    /\ bar_key' = IF 0 \in done THEN BarKey ELSE bar_key

WindowOf(want, k) ==
    [ row |-> k, cols |-> IF k = 0 THEN {} ELSE Columns(drawn[k], want[k]) ]

\* All go through, or one of them fails and ends the pass.
DrawTick(want) ==
    /\ ok /\ taken = "taken"
    /\ \E todo \in {Todo(want)} :
          \/ /\ Recorded(want, todo)
             /\ pixels' = PixelsAfter(want, todo)
             /\ bar' = BarAfter(todo)
             /\ window' = IF todo = {} THEN window ELSE WindowOf(want, Max(todo))
             /\ UNCHANGED <<ok, failed, events>>
          \/ \E k \in todo : \E done \in {{ j \in todo : j < k }} :
                /\ Event /\ failed' = TRUE
                /\ ok' = FALSE
                /\ Recorded(want, done)
                /\ Garbled(PixelsAfter(want, done), BarAfter(done), WindowOf(want, k))
                /\ window' = WindowOf(want, k)
    /\ UNCHANGED <<taken, clear_row>>

RenderTick(want) == RecoverTick \/ HoldTick \/ ClearTick \/ DrawTick(want)

-----------------------------------------------------------------------------
(* app_loop: the display's tick and the renderer's, with nothing between.  *)

\* (The singletons make TLC evaluate what they hold once.)
Pass(types) ==
    /\ types => d.rest # <<>>
    /\ \E disp \in {IF types THEN Reveal(d) ELSE d} :
          /\ d' = disp
          /\ \E want \in {[ k \in Slots |-> Desired(disp, state, k) ]} : RenderTick(want)
    /\ UNCHANGED <<statusVars, talkVars>>

-----------------------------------------------------------------------------
(* What changes the status bar.                                            *)

Change ==
    /\ Event
    /\ UNCHANGED <<d, panelVars, talkVars>>

\* set_state, from the conversation and the link.
SetState(st) ==
    /\ Change /\ state # st
    /\ state' = st
    /\ UNCHANGED <<volume, volUntil, minute, battery>>

\* The volume keys: clamped, and the same volume again shows nothing.
VolumeKey(step) ==
    LET v == IF step = "up" THEN IF volume < 10 THEN volume + 1 ELSE 10
                            ELSE IF volume > 0 THEN volume - 1 ELSE 0
    IN  /\ Change
        /\ volume' = v
        /\ volUntil' = IF v = volume THEN volUntil ELSE "ahead"
        /\ UNCHANGED <<state, minute, battery>>

MinutePasses ==
    /\ Change
    /\ minute' \in Minutes \ {minute}
    /\ UNCHANGED <<state, volume, volUntil, battery>>

\* Battery.tick: a reading, or none in time, which keeps the one before.
BatteryTick ==
    /\ Change
    /\ battery' \in Readings \ {battery}
    /\ UNCHANGED <<state, volume, volUntil, minute>>

\* 1.5 s after the last change of volume.
VolumeTimeUp ==
    /\ volUntil = "ahead"
    /\ volUntil' = "past"
    /\ UNCHANGED <<d, panelVars, talkVars, events, state, volume, minute, battery>>

-----------------------------------------------------------------------------
(* voice_task's calls.  The server sends the pieces of a reply and then    *)
(* its full text, which may have been changed, or only the full text.      *)

UserSays(r) ==
    /\ Event
    /\ d' = add_user_line(d, <<"u">>)
    /\ reply' = [ text |-> r, sent |-> 0 ]
    /\ given' = Append(given, "u")
    /\ base' = given'
    /\ UNCHANGED <<statusVars, panelVars>>

Delta(n) ==
    LET piece == SubSeq(reply.text, reply.sent + 1, reply.sent + n)
    IN  /\ reply.sent + n <= Len(reply.text)
        /\ d' = append_reply_delta(d, piece)
        /\ reply' = [ reply EXCEPT !.sent = @ + n ]
        /\ given' = given \o Ink(piece)
        /\ UNCHANGED <<statusVars, panelVars, base, events>>

\* The reply as it stands is replaced by the full text, if that goes on
\* where the deltas ended, and followed by it otherwise.
Completed(full) ==
    /\ reply.text # <<>>
    /\ d' = set_reply_full_text(d, full)
    /\ given' = (IF Agrees(d, full) THEN base ELSE given) \o Ink(full)
    /\ reply' = [ text |-> <<>>, sent |-> 0 ]
    /\ UNCHANGED <<statusVars, panelVars, base, events>>

\* BOOT in Listening and in Playing, and an error: the rest at once.  A delta
\* behind it starts another stream.
Flush ==
    /\ IsTyping(d)
    /\ d' = flush_typing(d)
    /\ base' = given
    /\ UNCHANGED <<statusVars, panelVars, reply, given, events>>

Voice ==
    \/ \E r \in Replies : UserSays(r)
    \/ \E n \in 1 .. 2 : Delta(n)
    \/ Completed(reply.text)
    \/ \E full \in Altered : Completed(full)
    \/ Flush

-----------------------------------------------------------------------------
Init ==
    /\ d = Empty
    /\ state = "Idle" /\ volume = 8 /\ volUntil = "never"
    /\ minute = "--" /\ battery = "--%"
    /\ taken = "bars" /\ clear_row = 0 /\ ok = TRUE
    /\ drawn = [ k \in Slots |-> NoSlot ] /\ bar_key = NoKey
    /\ pixels = [ k \in Slots |-> [ x \in 1 .. SubW + 1 |-> Boot ] ]
    /\ bar = BootBar
    /\ window = [ row |-> Visible, cols |-> 1 .. SubW + 1 ]
    /\ reply = [ text |-> <<>>, sent |-> 0 ]
    /\ given = <<>> /\ base = <<>>
    /\ failed = FALSE /\ events = 0

Next ==
    \/ \E types \in BOOLEAN : Pass(types)
    \/ \E st \in States : SetState(st)
    \/ \E step \in {"up", "down"} : VolumeKey(step)
    \/ MinutePasses
    \/ BatteryTick
    \/ VolumeTimeUp
    \/ Voice

Spec == Init /\ [][Next]_vars

\* app_loop passes for ever, and time goes on.
FairSpec ==
    Spec /\ WF_vars(\E types \in BOOLEAN : Pass(types)) /\ WF_vars(Pass(TRUE))

-----------------------------------------------------------------------------
(* Properties.                                                             *)

Cells == [ glyph : Chars \union {"u", "_", "#", "?"},
           color : {"ai", "user", "black", "test", "caret", "noise"} ]

\* Types, and the bounds of the history, the queue of deltas and a row.
TypeOK ==
    /\ Len(d.history) <= MaxHistory
    /\ \A i \in 1 .. Len(d.history) : d.history[i].text \in Seq(Chars \union {"u"}) \ {<<>>}
    /\ {d.rest, d.line, d.queued} \subseteq Seq(Chars) /\ d.stream \in BOOLEAN
    /\ state \in States /\ volume \in 0 .. 10 /\ volUntil \in Untils
    /\ taken \in {"bars", "clearing", "taken"} /\ clear_row \in 0 .. Visible
    /\ ok \in BOOLEAN
    /\ pixels \in [Slots -> [1 .. SubW + 1 -> Cells]]
    /\ window.row \in 0 .. Visible

\* render.rs:183-197, the fast path that pushes only the added columns: once
\* the screen is taken over, every cell shows what the snapshot of its row
\* says; where it does not, a write has failed.
PanelTrue ==
    taken = "taken" =>
        \A k \in Slots, x \in 1 .. SubW + 1 :
            \/ pixels[k][x] = Picture(drawn[k])[x]
            \/ failed /\ pixels[k][x] \in {Torn, Boot}

\* render.rs:262-285, the key of the bar: when it has not changed, the bar
\* shows the state, volume, clock and battery of now, or a failed write.
BarCurrent ==
    bar_key = BarKey => bar = BarPicture \/ (failed /\ bar = TornBar)

\* What the renderer has on record is what the panel shows, in the rows and
\* in the bar.
ScreenTrue == TypeOK /\ PanelTrue /\ BarCurrent

\* display.rs: across streaming, the full text, interrupts and the history,
\* every character of what was said is there once and in order; only the
\* oldest leaves, and only when the history is full.
TranscriptKept ==
    /\ IsSuffix(Transcript(d), given)
    /\ Len(d.history) < MaxHistory => Transcript(d) = given

\* The renderer has nothing left to do and the typewriter nothing to type.
Settled ==
    /\ taken = "taken" /\ ok
    /\ d.rest = <<>>
    /\ \A k \in Slots : SameSlot(drawn[k], Desired(d, state, k))
    /\ bar_key = BarKey

\* Liveness of app_loop's pass: however many rectangles a change needs, and
\* whatever writes fail on the way, the picture comes to rest on the text and
\* the status of the moment.
Settles == <>[]Settled

\* render.rs:285 "shown within 1.5 s of the change": a bar at rest shows the
\* volume during that time, and the clock before and after it.
VolumeBarTimely ==
    Settled /\ bar = BarPicture =>
        (bar.texts = <<volume>> <=> volUntil = "ahead")
=============================================================================
