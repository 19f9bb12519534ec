------------------------------ MODULE Messages ------------------------------
(***************************************************************************)
(* The text frames of the voice protocol (voice_client.rs): the messages   *)
(* the device builds, the tolerant scanner it reads the server's with, and *)
(* the audio in them.                                                      *)
(*                                                                         *)
(* A payload is a sequence of symbols.  A structural character, a letter   *)
(* after a backslash and a digit stand for themselves; a key, the name of  *)
(* a message type, true, false and null are one symbol each; "L" and "C"   *)
(* are the two bytes of a character outside ASCII, "nl", "cr" and "tab"    *)
(* the white space of those names, "ctl" the control character 1 and       *)
(* "fffd" the replacement character.  Positions count from 1; a position   *)
(* behind a string or value is the end Rust would report plus one.         *)
(***************************************************************************)
EXTENDS Integers, SequencesExt

Quote == "\""
Bs    == "\\"
Blank == {" ", "tab", "cr", "nl"}
Digit == <<"0", "1", "2", "3", "4", "5", "6", "7", "8", "9">>
HexDigit == Digit \o <<"a", "b", "c", "d", "e", "f">>
InNumber == ToSet(Digit) \union {"-", "+", ".", "e", "E"}
Nowhere == 0           \* None of a position
Missing == <<"missing">>  \* None of a value

\* The first position from i on whose symbol passes, or the one behind the payload.
From(p, i, Test(_)) == Min({ j \in i .. Len(p) : Test(p[j]) } \union {Len(p) + 1})

At(p, i, symbol) == i \in 1 .. Len(p) /\ p[i] = symbol

------------------------------------------------------------------------------
(* The scanner *)

skip_ws(p, i) ==
    LET j == From(p, i, LAMBDA s : s \notin Blank) IN IF j > Len(p) THEN Nowhere ELSE j

\* Variant: a backslash does not protect the quote behind it.
scan_string_bare(p, i) ==
    LET j == From(p, i + 1, LAMBDA s : s = Quote)
    IN IF At(p, i, Quote) /\ j <= Len(p) THEN j + 1 ELSE Nowhere

\* The position behind the string that starts at i.
scan_string(p, i) ==
    LET f[j \in 1 .. Len(p) + 2] ==
            CASE j > Len(p)   -> Nowhere
              [] At(p, j, Bs) -> f[j + 2]
              [] At(p, j, Quote) -> j + 1
              [] OTHER -> f[j + 1]
    IN IF At(p, i, Quote) THEN f[i + 1] ELSE Nowhere

\* Brackets of the kind that opened the value are counted, outside strings.
scan_nested(p, i) ==
    LET open  == p[i]
        close == IF open = "{" THEN "}" ELSE "]"
        f[at \in (1 .. Len(p) + 1) \X Int] ==
            LET j == at[1]
                depth == at[2]
            IN CASE j > Len(p) -> Nowhere
                 [] At(p, j, Quote) ->
                       IF scan_string(p, j) = Nowhere THEN Nowhere ELSE f[<<scan_string(p, j), depth>>]
                 [] At(p, j, open) -> f[<<j + 1, depth + 1>>]
                 [] At(p, j, close) -> IF depth = 1 THEN j + 1 ELSE f[<<j + 1, depth - 1>>]
                 [] OTHER -> f[<<j + 1, depth>>]
    IN f[<<i, 0>>]

scan_value(p, i) ==
    LET number == From(p, i, LAMBDA s : s \notin InNumber)
    IN CASE p[i] = Quote -> scan_string(p, i)
         [] p[i] \in {"{", "["} -> scan_nested(p, i)
         [] p[i] \in {"true", "false", "null"} -> i + 1
         [] OTHER -> IF number > i THEN number ELSE Nowhere

\* for_each_entry: the keys and values it reports.  A value is reported
\* before what comes behind it is looked at.
Entries(p) ==
    LET f[i \in 1 .. Len(p) + 1] ==
            LET More(k) == IF At(p, k, ",") THEN f[k + 1] ELSE <<>>
                Value(key, v, end) ==
                    IF end = Nowhere THEN <<>>
                    ELSE <<[key |-> key, value |-> SubSeq(p, v, end - 1)]>> \o More(skip_ws(p, end))
                Colon(key, k) ==
                    LET v == skip_ws(p, k + 1)
                    IN IF At(p, k, ":") /\ v # Nowhere THEN Value(key, v, scan_value(p, v)) ELSE <<>>
                Key(j, end) ==
                    IF end = Nowhere THEN <<>> ELSE Colon(SubSeq(p, j + 1, end - 2), skip_ws(p, end))
                j == skip_ws(p, i)
            IN Key(j, scan_string(p, j))
        start == skip_ws(p, 1)
    IN IF At(p, start, "{") THEN f[start + 1] ELSE <<>>

\* The value of the first entry with this key.
json_raw(p, key) ==
    LET First(entries) ==
            LET i == SelectInSeq(entries, LAMBDA e : e.key = <<key>>)
            IN IF i = 0 THEN Missing ELSE entries[i].value
    IN First(Entries(p))

------------------------------------------------------------------------------
(* Strings *)

\* Bytes that are no whole character are dropped.
append_utf8_lossy(bytes) ==
    FlattenSeq([i \in 1 .. Len(bytes) |->
        IF \/ bytes[i] = "L" /\ ~At(bytes, i + 1, "C")
           \/ bytes[i] = "C" /\ ~At(bytes, i - 1, "L")
        THEN <<>> ELSE <<bytes[i]>>])

HexValue(s) ==
    FoldLeft(LAMBDA v, d : v * 16 + SelectInSeq(HexDigit, LAMBDA h : h = d) - 1, 0, s)
\* The value of four hexadecimal digits from i on, or -1.
parse_u16_hex(s, i) ==
    IF i + 3 <= Len(s) /\ \A j \in i .. i + 3 : s[j] \in ToSet(HexDigit)
    THEN HexValue(SubSeq(s, i, i + 3)) ELSE -1

\* char::from_u32 of the code units the model has characters for.
Char(cp) ==
    CASE cp \in \hD800 .. \hDFFF -> <<"fffd">>
      [] cp = 1 -> <<"ctl">>
      [] cp = \hE9 -> <<"L", "C">>
      [] OTHER -> <<"other">>

\* The characters of the escapes that are one letter; any other is dropped.
Escaped(c) ==
    CASE c \in {Quote, Bs, "/"} -> <<c>>
      [] c = "n" -> <<"nl">>
      [] c = "r" -> <<"cr">>
      [] c = "t" -> <<"tab">>
      [] c \in {"b", "f"} -> <<"form">>
      [] OTHER -> <<>>

\* The result ends in "stuck" where the loop of the code would turn for ever:
\* at a backslash that is the last byte.
unescape(s) ==
    LET f[i \in 1 .. Len(s) + 1] ==
            LET j == From(s, i, LAMBDA c : c = Bs)
                cp == parse_u16_hex(s, i + 2)
            IN CASE i > Len(s) -> <<>>
                 [] j > i -> append_utf8_lossy(SubSeq(s, i, j - 1)) \o f[j]
                 [] i = Len(s) /\ j = i -> <<"stuck">>
                 [] OTHER ->
                       IF s[i + 1] # "u" THEN Escaped(s[i + 1]) \o f[i + 2]
                       ELSE IF cp >= 0 THEN Char(cp) \o f[i + 6] ELSE f[i + 2]
    IN f[1]

\* Variant: quotes and backslashes are passed on as they are.
append_json_string_raw(s) == <<Quote>> \o s \o <<Quote>>

append_json_string(s) ==
    LET Escape(c) ==
            CASE c \in {Quote, Bs} -> <<Bs, c>>
              [] c = "nl" -> <<Bs, "n">>
              [] c = "cr" -> <<Bs, "r">>
              [] c = "tab" -> <<Bs, "t">>
              [] c = "ctl" -> <<Bs, "u", "0", "0", "0", "1">>
              [] OTHER -> <<c>>
    IN <<Quote>> \o FlattenSeq([i \in 1 .. Len(s) |-> Escape(s[i])]) \o <<Quote>>

------------------------------------------------------------------------------
(* Fields and messages *)

json_string(p, key) ==
    LET Meaning(raw) == IF raw # Missing /\ raw[1] = Quote
                        THEN unescape(SubSeq(raw, 2, Len(raw) - 1)) ELSE Missing
    IN Meaning(json_raw(p, key))

\* A number of few enough digits not to overflow.
json_u32(p, key) ==
    LET Unsigned(raw) == IF At(raw, 1, "+") THEN Tail(raw) ELSE raw
        Value(digits) ==
            IF digits # <<>> /\ ToSet(digits) \subseteq ToSet(Digit)
            THEN FoldLeft(LAMBDA v, d : v * 10 + SelectInSeq(Digit, LAMBDA h : h = d) - 1, 0, digits)
            ELSE -1
    IN Value(Unsigned(json_raw(p, key)))

json_bool(p, key) == json_raw(p, key) = <<"true">>

OrDefault(value) == IF value = Missing THEN <<>> ELSE value
Or(value, other) == IF value = Missing THEN other ELSE value

\* <<type, event, key of the text it carries>>.
TextEvents ==
    { <<"asr.result", "AsrResult", "text">>, <<"assistant.delta", "AssistantDelta", "text">>,
      <<"audio.chunk", "AudioChunk", "data">>, <<"assistant.completed", "AssistantCompleted", "text">>,
      <<"assistant.error", "AssistantError", "message">>, <<"audio.file", "AudioFile", "path">> }
\* <<type, event>> of those that carry nothing.
BareEvents ==
    { <<"server.ready", "ServerReady">>, <<"session.ready", "SessionReady">>, <<"audio.done", "AudioDone">>,
      <<"interrupt.ack", "InterruptAck">>, <<"session.closed", "SessionClosed">> }

\* The event of a payload of the given type, and what it carries.
EventOf(ty, p) ==
    LET text == { e \in TextEvents : <<e[1]>> = ty }
        bare == { e \in BareEvents : <<e[1]>> = ty }
    IN CASE text # {} -> LET e == CHOOSE x \in text : TRUE
                         IN <<e[2], OrDefault(json_string(p, e[3]))>>
         [] bare # {} -> <<(CHOOSE x \in bare : TRUE)[2]>>
         [] ty = <<"vad.speaking">> -> <<"VadSpeaking", json_bool(p, "speaking")>>
         [] ty = <<"audio.start">> -> <<"AudioStart", json_u32(p, "sample_rate")>>
         [] ty \in {<<"error">>, <<"asr.error">>} ->
                <<"Error", OrDefault(Or(json_string(p, "message"), json_string(p, "error")))>>
         [] OTHER -> <<"Unknown">>
parse_server_message(p) == EventOf(json_string(p, "type"), p)

Field(key, value) == <<Quote, key, Quote, ":">> \o value
Str(name) == <<Quote, name, Quote>>

build_session_start == <<"{">> \o Field("type", Str("session.start")) \o <<",">> \o Field("mode", Str("chat")) \o <<"}">>
build_interrupt     == <<"{">> \o Field("type", Str("interrupt")) \o <<"}">>
build_session_stop  == <<"{">> \o Field("type", Str("session.stop")) \o <<"}">>

\* The digits of a number (write! of a u32).
Decimal(n) ==
    LET f[k \in 0 .. n] == IF k < 10 THEN <<Digit[k + 1]>> ELSE f[k \div 10] \o <<Digit[(k % 10) + 1]>>
    IN f[n]

build_client_stats(ms) ==
    <<"{">> \o Field("type", Str("client_stats")) \o <<",">>
    \o Field("llm_first_token_to_audio_ms", Decimal(ms)) \o <<"}">>
build_tts_request(text, sample_rate) ==
    <<"{">> \o Field("text", append_json_string(text)) \o <<",">>
    \o Field("sample_rate", Decimal(sample_rate)) \o <<"}">>

------------------------------------------------------------------------------
(* Audio *)

\* The value of an ASCII code, or -1: any other byte is skipped, the padding
\* and line breaks among them.
val(c) ==
    CASE c \in 65 .. 90  -> c - 65
      [] c \in 97 .. 122 -> c - 97 + 26
      [] c \in 48 .. 57  -> c - 48 + 52
      [] c = 43 -> 62
      [] c = 47 -> 63
      [] OTHER -> -1

\* Variant: the bits of a byte that was put out stay counted.
decode_base64_late(input) ==
    FoldLeft(LAMBDA st, c :
        IF val(c) = -1 THEN st
        ELSE LET acc == (st.acc * 64 + val(c)) % 2 ^ 14
             IN IF st.bits + 6 > 8
                THEN [acc |-> acc, bits |-> st.bits - 2, out |-> Append(st.out, (acc \div 2 ^ (st.bits - 2)) % 256)]
                ELSE [st EXCEPT !.acc = acc, !.bits = @ + 6],
        [acc |-> 0, bits |-> 0, out |-> <<>>], input).out

\* The accumulator is 32 bits wide; of them at most the 12 lowest are ever
\* read, here it keeps 14.
decode_base64(input) ==
    FoldLeft(LAMBDA st, c :
        IF val(c) = -1 THEN st
        ELSE LET acc == (st.acc * 64 + val(c)) % 2 ^ 14
             IN IF st.bits + 6 >= 8
                THEN [acc |-> acc, bits |-> st.bits - 2, out |-> Append(st.out, (acc \div 2 ^ (st.bits - 2)) % 256)]
                ELSE [st EXCEPT !.acc = acc, !.bits = @ + 6],
        [acc |-> 0, bits |-> 0, out |-> <<>>], input).out
=============================================================================
