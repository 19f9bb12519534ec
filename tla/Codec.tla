------------------------------- MODULE Codec -------------------------------
(***************************************************************************)
(* What the device writes and what it reads, against what was meant: one   *)
(* behaviour builds one thing the device or the server has to say, step by *)
(* step, and at every step its bytes are compared with a rendering that    *)
(* does not come from the code.                                            *)
(*                                                                         *)
(* The subjects: "json", a message of the server; "literal", any symbols   *)
(* between two quotes; "text", a text for the fallback synthesis; "audio", *)
(* the samples of an audio.chunk; "record", a message of the client's      *)
(* handshake; "alert", an alert; "flight", a message of the server's.      *)
(***************************************************************************)
EXTENDS TlsMessages, Messages

CONSTANTS
    MaxMembers,    \* members of a message
    MaxLiteral,    \* symbols of a literal
    MaxText,       \* characters of a text
    MaxAudio,      \* bytes of a chunk
    MaxParts       \* extensions or certificates of a message

VARIABLES
    subject,       \* what is being built
    item           \* it

vars == <<subject, item>>

------------------------------------------------------------------------------
(* The server's JSON *)

\* A string as the server writes it: escaped, with or without \u for
\* characters outside ASCII.
Literal(s, ascii) ==
    LET Sym(c) ==
            CASE c \in {Quote, Bs} -> <<Bs, c>>
              [] c = "nl" -> <<Bs, "n">>
              [] c = "ctl" -> <<Bs, "u", "0", "0", "0", "1">>
              [] c = "L" /\ ascii -> <<Bs, "u", "0", "0", "e", "9">>
              [] c = "C" /\ ascii -> <<>>
              [] OTHER -> <<c>>
    IN <<Quote>> \o FlattenSeq([i \in 1 .. Len(s) |-> Sym(s[i])]) \o <<Quote>>

Texts == {<<>>, <<Quote>>, <<"a", Bs>>, <<"L", "C", "nl">>, <<"}", ",", "ctl">>}

\* A value with the keys, brackets and quotes of a message inside.
Nested == <<"{", Quote, "type", Quote, ":", Quote, "}", Bs, Quote, Quote, ",",
            Quote, "text", Quote, ":", "[", "{", "}", "]", "}">>

\* A member: its key, its value as it is written, and the string it means.
Member(key, written, meant) == [key |-> key, written |-> written, meant |-> meant]
Members ==
    { Member("type", Str(t), <<t>>) : t \in {"asr.result", "audio.start", "vad.speaking", "error", "new"} }
    \union { Member("text", Literal(s, ascii), s) : s \in Texts, ascii \in BOOLEAN }
    \union { Member("message", v, Missing) : v \in {Nested, <<"null">>} }
    \union { Member("error", Literal(<<"L", "C">>, FALSE), <<"L", "C">>) }
    \union { Member("sample_rate", n, Missing) : n \in {<<"1", "6">>, <<"-", "1">>} }
    \union { Member("speaking", <<b>>, Missing) : b \in {"true", "false"} }

Payload(members, pretty) ==
    LET blank == IF pretty THEN <<" ">> ELSE <<>>
        M(m) == <<Quote, m.key, Quote, ":">> \o blank \o m.written
    IN <<"{">> \o FlattenSeq([i \in 1 .. Len(members) |->
                    (IF i = 1 THEN <<>> ELSE <<",">> \o blank) \o M(members[i])]) \o <<"}">>

Keys == {"type", "text", "message", "error"}
Meant(members, key) ==
    LET i == SelectInSeq(members, LAMBDA m : m.key = key)
    IN IF i = 0 THEN Missing ELSE members[i].meant

\* The rate of the speech the fallback synthesis is asked for.
SPK_SAMPLE_RATE == 16000

\* The same members in another order, nothing between them.
Reordered(members) == Payload(Reverse(members), FALSE)

------------------------------------------------------------------------------
(* Base64 of the server, after RFC 4648: bit by bit *)

Bit(bytes, i) == IF i \div 8 < Len(bytes) THEN (bytes[(i \div 8) + 1] \div 2 ^ (7 - (i % 8))) % 2 ELSE 0
Sextet(bytes, i) ==
    LET b(j) == Bit(bytes, i + j) IN 32 * b(0) + 16 * b(1) + 8 * b(2) + 4 * b(3) + 2 * b(4) + b(5)
Ascii(d) == CASE d < 26 -> 65 + d [] d \in 26 .. 51 -> 71 + d [] d \in 52 .. 61 -> d - 4
              [] d = 62 -> 43 [] d = 63 -> 47
Base64(bytes) ==
    LET digits == (8 * Len(bytes) + 5) \div 6
    IN [k \in 1 .. 4 * ((digits + 3) \div 4) |->
           IF k > digits THEN 61   \* =
           ELSE Ascii(Sextet(bytes, 6 * (k - 1)))]
\* Broken into lines of four.
Lines(s) == FlattenSeq([i \in 1 .. Len(s) |-> IF i % 4 = 0 THEN <<s[i], 13, 10>> ELSE <<s[i]>>])

------------------------------------------------------------------------------
(* The wire format of TLS 1.3, after RFC 8446 *)

\* A vector: its length, then its bytes.
Vec(width, bytes) == BE(Len(bytes), width) \o bytes
Codes(table, names) == FlattenSeq([i \in 1 .. Len(names) |-> BE(Code(table, names[i]), 2)])
Typed(type, data) == BE(type, 2) \o Vec(2, data)
VecsOf(width, xs) == FlattenSeq([i \in 1 .. Len(xs) |-> Vec(width, xs[i])])

HelloBytes(m) ==
    LET c == m.config
        Option(value, bytes) == IF value = <<>> THEN <<>> ELSE bytes
    IN <<3, 3>> \o m.random \o <<0>> \o Vec(2, <<19, 1>>) \o Vec(1, <<0>>)
       \o Vec(2, Typed(43, Vec(1, <<3, 4>>))
                 \o Typed(13, Vec(2, Codes(SchemesRead, c.signature_schemes)))
                 \o Option(c.max_fragment_length, Typed(1, c.max_fragment_length))
                 \o Typed(10, Vec(2, Codes(GroupsRead, c.named_groups)))
                 \o Typed(45, Vec(1, <<1>>))
                 \o Typed(51, Vec(2, <<0, 23>> \o Vec(2, c.public_key)))
                 \o Option(c.server_name, Typed(0, Vec(2, <<0>> \o VecsOf(2, c.server_name[1]))))
                 \o Option(c.alpn_protocols, Typed(16, Vec(2, VecsOf(1, c.alpn_protocols[1]))))
                 \o Option(c.psk, Typed(41,
                        Vec(2, FlattenSeq([i \in 1 .. Len(c.psk) |-> Vec(2, c.psk[i]) \o <<0, 0, 0, 0>>]))
                        \o Vec(2, [i \in 1 .. (1 + HashLen) * Len(c.psk) |-> 0]))))

BodyBytes(m) ==
    CASE m.type = "ClientHello" -> HelloBytes(m)
      [] m.type = "Certificate" ->
            Vec(1, m.request_context)
            \o Vec(3, FlattenSeq([i \in 1 .. Len(m.entries) |-> Vec(3, m.entries[i]) \o <<0, 0>>]))
      [] m.type = "CertificateVerify" -> Codes(SchemesRead, <<m.scheme>>) \o Vec(2, m.signature)
      [] m.type = "Finished" -> m.verify

MessageBytes(m) == <<Code(HandshakeTypesRead, m.type)>> \o Vec(3, BodyBytes(m))
RecordBytes(m) == <<22, 3, 1>> \o Vec(2, MessageBytes(m))

\* The library's own parsers read these extensions from a hello; of the
\* protocol names they check the form alone.
ReadsBack(exts, bytes) ==
    LET Same(got) ==
            Len(got) = Len(exts) /\ \A i \in 1 .. Len(exts) :
                /\ got[i].type = exts[i].type
                /\ exts[i].type # "ApplicationLayerProtocolNegotiation" => got[i].data = exts[i].data
    IN Same(ReadExtensions("ClientHello", Len(exts), ParseBuffer(bytes)).val)

\* The messages of the client: the hello of every configuration, a chain of
\* certificates, a signature, and Finished.
Random == [i \in 1 .. RandomLen |-> 200 + i]
Hash   == [i \in 1 .. HashLen |-> 100 + i]
Hello(c) == [type |-> "ClientHello", random |-> Random, config |-> c]
NewConfig ==
    [signature_schemes |-> <<"EcdsaSecp256r1Sha256", "EcdsaSecp384r1Sha384", "Ed25519">>,
     named_groups |-> <<"Secp256r1">>, max_fragment_length |-> <<>>, public_key |-> <<4, 7, 8>>,
     server_name |-> <<>>, alpn_protocols |-> <<>>, psk |-> <<>>]
enable_rsa_signatures ==
    <<"RsaPkcs1Sha256", "RsaPkcs1Sha384", "RsaPkcs1Sha512",
      "RsaPssRsaeSha256", "RsaPssRsaeSha384", "RsaPssRsaeSha512">>

------------------------------------------------------------------------------
(* The server's flight *)

\* An extension the server sends: its type, its data, and what it is to the
\* client that reads this message: "kept", "unknown", "foreign" or "broken".
Sent(type, data, fate) == [type |-> type, data |-> data, fate |-> fate]
Grease == 2570
Extensions(message) ==
    {Sent(Grease, <<1>>, "unknown"), Sent(21, <<0, 0>>, "foreign")} \union
    CASE message = "ServerHello" ->
            {Sent(51, <<0, 23>> \o Vec(2, <<4, 9>>), "kept"), Sent(43, <<3, 4>>, "kept"),
             Sent(51, BE(Grease, 2) \o Vec(2, <<4>>), "broken")}
      [] message = "EncryptedExtensions" ->
            {Sent(0, <<>>, "kept"), Sent(10, Vec(2, <<0, 23>>), "kept"), Sent(0, <<0>>, "broken"),
             Sent(16, Vec(2, Vec(1, <<104>>)), "kept"), Sent(10, Vec(2, BE(Grease, 2)), "broken")}
      [] message = "CertificateRequest" ->
            {Sent(13, Vec(2, <<4, 3>>), "kept"), Sent(13, Vec(2, BE(Grease, 2)), "broken"), Sent(48, <<>>, "kept")}
      [] message = "Certificate" -> {Sent(5, <<1>>, "kept"), Sent(18, <<>>, "kept")}
      [] message = "NewSessionTicket" -> {Sent(42, <<0, 0, 0, 0>>, "kept")}
Room(message) ==
    CASE message = "ServerHello" -> 4 [] message = "EncryptedExtensions" -> 16
      [] message = "CertificateRequest" -> 6 [] message = "Certificate" -> 2
      [] message = "NewSessionTicket" -> 1

\* What reading the extensions must come to.
Fate(message, exts) ==
    LET Kept(i) == Cardinality({j \in 1 .. i : exts[j].fate = "kept"})
        bad == SelectInSeq([i \in 1 .. Len(exts) |->
                   exts[i].fate \in {"foreign", "broken"} \/ Kept(i) > Room(message)], LAMBDA b : b)
    IN IF bad = 0 THEN None
       ELSE IF exts[bad].fate = "foreign" THEN "AbortHandshake" ELSE "DecodeError"

ExtBytes(exts) == Vec(2, FlattenSeq([i \in 1 .. Len(exts) |-> Typed(exts[i].type, exts[i].data)]))
Cert == <<48, 1>>
FlightBytes(message, exts) ==
    Vec(3, CASE message = "ServerHello" ->
                  <<3, 3>> \o Random \o Vec(1, <<>>) \o <<19, 1, 0>> \o ExtBytes(exts)
             [] message = "EncryptedExtensions" -> ExtBytes(exts)
             [] message = "CertificateRequest" -> Vec(1, <<7>>) \o ExtBytes(exts)
             [] message = "Certificate" -> Vec(1, <<>>) \o Vec(3, Vec(3, Cert) \o ExtBytes(exts))
             [] message = "NewSessionTicket" ->
                  <<0, 0, 0, 9, 0, 0, 0, 8>> \o Vec(1, <<1>>) \o Vec(2, <<2, 2>>) \o ExtBytes(exts))

------------------------------------------------------------------------------
(* The behaviours *)

Flights == {"ServerHello", "EncryptedExtensions", "CertificateRequest", "Certificate", "NewSessionTicket"}

Init ==
    \/ subject = "json" /\ \E pretty \in BOOLEAN : item = [members |-> <<>>, pretty |-> pretty]
    \/ subject \in {"literal", "text", "audio"} /\ item = <<>>
    \/ subject = "record" /\ item = Hello(NewConfig)
    \/ subject = "record" /\ \E context \in {<<>>, <<7>>} :
          item = [type |-> "Certificate", request_context |-> context, entries |-> <<>>]
    \/ subject = "record" /\ \E e \in SchemesRead :
          item = [type |-> "CertificateVerify", scheme |-> e[2], signature |-> <<5, 6>>]
    \/ subject = "record" /\ item = [type |-> "Finished", verify |-> Hash]
    \/ subject = "alert" /\ \E l \in AlertLevels, d \in AlertDescriptions :
          item = [kind |-> "Alert", level |-> l[2], description |-> d[2]]
    \/ subject = "flight" /\ \E message \in Flights : item = [message |-> message, exts |-> <<>>]

AddMember ==
    /\ subject = "json" /\ Len(item.members) < MaxMembers
    /\ \E m \in Members :
          /\ \A i \in 1 .. Len(item.members) : item.members[i].key # m.key
          /\ item' = [item EXCEPT !.members = Append(@, m)]
    /\ UNCHANGED subject

Longer(name, alphabet, max) ==
    /\ subject = name /\ Len(item) < max
    /\ \E s \in alphabet : item' = item \o s
    /\ UNCHANGED subject

AddSymbol == Longer("literal", {<<Quote>>, <<Bs>>, <<"u">>, <<"0">>, <<"d">>, <<"8">>, <<"L">>, <<"C">>, <<"n">>}, MaxLiteral)
AddChar   == Longer("text", {<<"a">>, <<Quote>>, <<Bs>>, <<"nl">>, <<"ctl">>, <<"L", "C">>, <<"}">>}, MaxText)
AddByte   == Longer("audio", {<<0>>, <<255>>, <<77>>, <<128>>}, MaxAudio)

\* TlsConfig: an option more.
Configure ==
    /\ subject = "record" /\ item.type = "ClientHello"
    /\ \/ item.config.max_fragment_length = <<>> /\ item' = [item EXCEPT !.config.max_fragment_length = <<2>>]
       \/ item.config.server_name = <<>> /\ item' = [item EXCEPT !.config.server_name = <<<<<<104, 46>>>>>>]
       \/ item.config.alpn_protocols = <<>> /\ item' = [item EXCEPT !.config.alpn_protocols = <<<<<<104, 50>>, <<104>>>>>>]
       \/ Len(item.config.signature_schemes) = 3
          /\ item' = [item EXCEPT !.config.signature_schemes = @ \o enable_rsa_signatures]
       \/ Len(item.config.psk) < 2 /\ item' = [item EXCEPT !.config.psk = Append(@, <<9, Len(@)>>)]
    /\ UNCHANGED subject

AddCertificate ==
    /\ subject = "record" /\ item.type = "Certificate" /\ Len(item.entries) < MaxParts
    /\ item' = [item EXCEPT !.entries = Append(@, Cert)]
    /\ UNCHANGED subject

AddExtension ==
    /\ subject = "flight" /\ Len(item.exts) < MaxParts
    /\ \E e \in Extensions(item.message) : item' = [item EXCEPT !.exts = Append(@, e)]
    /\ UNCHANGED subject

Next ==
    \/ AddMember \/ AddSymbol \/ AddChar \/ AddByte
    \/ Configure \/ AddCertificate \/ AddExtension

Spec == Init /\ [][Next]_vars

------------------------------------------------------------------------------
(* Properties *)

\* voice_client.rs:392 "tolerant JSON scanner": whatever the order of the
\* members, the blanks, the escapes and the values in between, a string is
\* found and is what the server meant, and the event is the same; of a
\* payload cut short a string is found whole or not at all.
PayloadRead ==
    subject = "json" =>
        LET p == Payload(item.members, item.pretty)
        IN /\ \A k \in Keys : json_string(p, k) = Meant(item.members, k)
           /\ parse_server_message(p) = parse_server_message(Reordered(item.members))
           /\ \A n \in 0 .. Len(p) - 1, k \in Keys :
                 json_string(SubSeq(p, 1, n), k) \in {Missing, Meant(item.members, k)}

\* voice_client.rs:341, 539: the text the fallback synthesis is asked for is
\* read as it was; and no bytes between two quotes, well escaped or not, keep
\* unescape from ending or make it put out half a character.
TextDecoded ==
    /\ subject = "text" =>
          LET p == build_tts_request(item, SPK_SAMPLE_RATE)
          IN json_string(p, "text") = item /\ json_u32(p, "sample_rate") = SPK_SAMPLE_RATE
    /\ subject = "literal" =>
          LET t == json_string(<<"{", Quote, "text", Quote, ":", Quote>> \o item \o <<Quote, "}">>, "text")
          IN \A i \in 1 .. Len(t) :
                /\ t[i] # "stuck"
                /\ t[i] = "L" => At(t, i + 1, "C")
                /\ t[i] = "C" => At(t, i - 1, "L")

\* voice_client.rs:363 "standard base64, tolerant of padding": the samples of
\* an audio.chunk come out as they went in, in one line or in many.
AudioDecoded ==
    subject = "audio" =>
        decode_base64(Base64(item)) = item /\ decode_base64(Lines(Base64(item))) = item

\* The lengths that are written before what they count are right, however the
\* vectors nest; a record that does not fit is an error and not a shorter
\* record; a server that reads as this client does reads what was written;
\* with a PSK, what is hashed before the binders is the hello without them;
\* an alert is read as it was written.
RecordsWellFormed ==
    /\ subject = "alert" =>
          ReadAlert(ParseBuffer(as_slice(WriteAlert(wrap(2), item)))).val
              = [level |-> item.level, description |-> item.description]
    /\ subject = "record" =>
        LET Written(w, cap, bytes) == (w.ok <=> cap >= Len(bytes)) /\ (w.ok => w.all = bytes)
            Read(got) ==
                /\ item.type = "Certificate" /\ Len(item.entries) <= MaxEntries =>
                      got = [request_context |-> item.request_context, entries |-> item.entries]
                /\ item.type = "CertificateVerify" => got = [scheme |-> item.scheme, signature |-> item.signature]
            Hashed(final, length, binders) ==
                /\ final.hashed = <<SubSeq(final.enc, 1, length - Len(binders)), binders>>
                /\ Len(final.enc) = length
            Greeting(bytes) ==      \* with the 4 bytes of the message's own header
                IF item.config.psk = <<>>
                THEN ReadsBack(HelloExtensions(item.config), SubSeq(bytes, RandomLen + 14, Len(bytes)))
                ELSE Hashed(Finalize(bytes, item.config, Hash[1]), Len(bytes),
                            Vec(2, FlattenSeq([i \in 1 .. Len(item.config.psk) |->
                                                   Vec(1, [j \in 1 .. HashLen |-> Hash[1]])])))
            AsMeant(bytes) ==
                \A cap \in {0, 5, 9, Len(bytes) - 1, Len(bytes), Len(bytes) + 9} :
                    Written(WriteRecord(cap, [kind |-> "Handshake", message |-> item]), cap, bytes)
        IN /\ AsMeant(RecordBytes(item))
           /\ item.type \in {"Certificate", "CertificateVerify"} => Read(ReadMessage(MessageBytes(item)).val)
           /\ item.type = "ClientHello" => Greeting(MessageBytes(item))

\* A message of the server is read to its last byte, so that the transcript
\* has all of it; an extension nobody knows is skipped whole, one that does
\* not belong here or cannot be read aborts the handshake, as do more than
\* there is room for; and a message cut short is an error.
FlightReadable ==
    subject = "flight" =>
        LET bytes == <<Code(HandshakeTypesRead, item.message)>> \o FlightBytes(item.message, item.exts)
            kept  == SelectSeq(item.exts, LAMBDA e : e.fate = "kept")
            Whole(got) ==
                /\ got.err = Fate(item.message, item.exts)
                /\ got.err = None => got.hashed = bytes
                /\ got.err = None /\ item.message = "ServerHello" =>
                      [i \in 1 .. Len(got.val) |-> Code(ExtensionTypes, got.val[i].type)]
                          = [i \in 1 .. Len(kept) |-> kept[i].type]
        IN /\ Whole(ReadMessage(bytes))
           /\ \A n \in 0 .. Len(bytes) - 1 : ReadMessage(SubSeq(bytes, 1, n)).err # None
=============================================================================
