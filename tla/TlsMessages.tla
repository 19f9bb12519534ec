---------------------------- MODULE TlsMessages ----------------------------
(***************************************************************************)
(* The records the client writes and the handshake messages and alerts it  *)
(* reads (embedded-tls handshake/, alert.rs, record.rs, write_buffer.rs),  *)
(* byte by byte.  TlsHandshake has the order of the messages and the keys; *)
(* here is what each of them looks like on the wire.                       *)
(***************************************************************************)
EXTENDS TlsExtensions

CONSTANTS
    RandomLen,    \* length of the random of a hello   (32)
    HashLen,      \* output size of the hash            (32)
    MaxEntries    \* certificates in a chain            (16)

ASSUME MessagesAssumption == RandomLen \in Nat /\ HashLen \in Nat /\ MaxEntries \in Nat \ {0}

LEGACY_VERSION == \h0303
CODE_POINT == \h1301     \* Aes128GcmSha256

HandshakeTypesRead ==
    { <<1, "ClientHello">>, <<2, "ServerHello">>, <<4, "NewSessionTicket">>, <<5, "EndOfEarlyData">>,
      <<8, "EncryptedExtensions">>, <<11, "Certificate">>, <<13, "CertificateRequest">>,
      <<15, "CertificateVerify">>, <<20, "Finished">>, <<24, "KeyUpdate">>, <<254, "MessageHash">> }
HandshakeTypesWritten ==
    { <<1, "ClientHello">>, <<20, "Finished">>, <<11, "Certificate">>, <<15, "CertificateVerify">> }

CipherSuites ==
    { <<\h1301, "TlsAes128GcmSha256">>, <<\h1302, "TlsAes256GcmSha384">>,
      <<\h1303, "TlsChacha20Poly1305Sha256">>, <<\h1304, "TlsAes128CcmSha256">>,
      <<\h1305, "TlsAes128Ccm8Sha256">>, <<\h00A8, "TlsPskAes128GcmSha256">> }

AlertLevels == { <<1, "Warning">>, <<2, "Fatal">> }

AlertDescriptions ==
    { <<0, "CloseNotify">>, <<10, "UnexpectedMessage">>, <<20, "BadRecordMac">>,
      <<22, "RecordOverflow">>, <<40, "HandshakeFailure">>, <<42, "BadCertificate">>,
      <<43, "UnsupportedCertificate">>, <<44, "CertificateRevoked">>,
      <<45, "CertificateExpired">>, <<46, "CertificateUnknown">>, <<47, "IllegalParameter">>,
      <<48, "UnknownCa">>, <<49, "AccessDenied">>, <<50, "DecodeError">>, <<51, "DecryptError">>,
      <<70, "ProtocolVersion">>, <<71, "InsufficientSecurity">>, <<80, "InternalError">>,
      <<86, "InappropriateFallback">>, <<90, "UserCanceled">>, <<109, "MissingExtension">>,
      <<110, "UnsupportedExtension">>, <<112, "UnrecognizedName">>,
      <<113, "BadCertificateStatusResponse">>, <<115, "UnknownPskIdentity">>,
      <<116, "CertificateRequired">>, <<120, "NoApplicationProtocol">> }

------------------------------------------------------------------------------
(* What the client writes *)

\* The extensions of the hello, in order.  An option of the configuration is
\* the sequence of its value, or the empty one.
HelloExtensions(config) ==
    LET Ext(type, data) == [type |-> type, data |-> data]
        Option(type, value) == IF value = <<>> THEN <<>> ELSE <<Ext(type, value[1])>>
    IN <<Ext("SupportedVersions", <<\h0304>>),
         Ext("SignatureAlgorithms", config.signature_schemes)>>
       \o Option("MaxFragmentLength", config.max_fragment_length)
       \o <<Ext("SupportedGroups", config.named_groups),
            Ext("PskKeyExchangeModes", <<1>>),
            Ext("KeyShare", <<[group |-> "Secp256r1", opaque |-> config.public_key]>>)>>
       \o Option("ServerName", config.server_name)
       \o Option("ApplicationLayerProtocolNegotiation", config.alpn_protocols)
       \o (IF config.psk = <<>> THEN <<>>
           ELSE <<Ext("PreSharedKey", [identities |-> config.psk, hash_size |-> HashLen])>>)

WriteClientHello(b, hello) ==
    LET b1 == push(extend_from_slice(push_u16(b, LEGACY_VERSION), hello.random), 0)
        b2 == push_u16(push_u16(b1, 2), CODE_POINT)
        b3 == push(push(b2, 1), 0)
    IN with_length(b3, 2, LAMBDA c : EachOf(c, HelloExtensions(hello.config), WriteExtension))

\* Zero extensions behind each certificate.
WriteEntry(b, cert) ==
    push_u16(with_length(b, 3, LAMBDA c : extend_from_slice(c, cert)), 0)
WriteCertificate(b, m) ==
    with_length(with_length(b, 1, LAMBDA c : extend_from_slice(c, m.request_context)),
                3, LAMBDA c : EachOf(c, m.entries, WriteEntry))
WriteCertificateVerify(b, m) ==
    with_length(WriteScheme(b, m.scheme), 2, LAMBDA c : extend_from_slice(c, m.signature))
WriteFinished(b, m) == extend_from_slice(b, m.verify)

WriteInner(b, m) ==
    CASE m.type = "ClientHello"       -> WriteClientHello(b, m)
      [] m.type = "Certificate"       -> WriteCertificate(b, m)
      [] m.type = "CertificateVerify" -> WriteCertificateVerify(b, m)
      [] m.type = "Finished"          -> WriteFinished(b, m)

WriteHandshake(b, m) ==
    with_length(push(b, Code(HandshakeTypesWritten, m.type)), 3, LAMBDA c : WriteInner(c, m))
WriteAlert(b, alert) ==
    push(push(b, Code(AlertLevels, alert.level)), Code(AlertDescriptions, alert.description))

\* finalize: without a PSK the whole hello is hashed.  With one, first the
\* hello up to the list of binders; each binder, a hash of that, is written
\* where the zeros were; then the list is hashed.
Finalize(enc, config, hash) ==
    LET n  == Len(config.psk) * (1 + HashLen)
        at == Len(enc) - n
        binders == EachOf(wrap(n), config.psk, LAMBDA b, id :
                       extend_from_slice(push(b, HashLen), [i \in 1 .. HashLen |-> hash]))
        done == SubSeq(enc, 1, at) \o as_slice(binders)
    IN IF config.psk = <<>> THEN [hashed |-> <<enc>>, enc |-> enc]
       ELSE [hashed |-> <<SubSeq(done, 1, at - 2), SubSeq(done, at - 1, Len(done))>>, enc |-> done]

\* ClientRecordHeader of a record that is not encrypted: content type and version.
WriteHeader(b, record) ==
    extend_from_slice(push(b, IF record.kind = "Alert" THEN 20 ELSE 22), <<3, 1>>)

EncodePayload(b, record) ==
    IF record.kind = "Alert" THEN WriteAlert(b, record) ELSE WriteHandshake(b, record.message)

\* write_record into an empty buffer of the given capacity: the header with no
\* length, the payload counted from behind it, then the length.
WriteRecord(capacity, record) ==
    LET header  == push_u16(WriteHeader(wrap(capacity), record), 0)
        payload == EncodePayload(forward(header), record)
        closed  == rewind(payload)
    IN IF payload.ok
       THEN [closed EXCEPT !.all = SubSeq(@, 1, 3) \o BE(Len(@) - 5, 2) \o SubSeq(@, 6, Len(@))]
       ELSE closed

------------------------------------------------------------------------------
(* What the client reads *)

ReadServerHello(p) ==
    LET SessionId(q) == Then(read(q, 1), LAMBDA n, r : slice(r, n))
        Fixed(q) ==
            Then(MapErr(read(q, 2), "InvalidHandshake"), LAMBDA version, r :
                Then(fill(r, RandomLen), LAMBDA random, s :
                    MapErr(SessionId(s), "InvalidSessionIdLength")))
    IN Then(Fixed(p), LAMBDA session_id, q :
        Then(MapErr(Named(CipherSuites, 2, q), "InvalidCipherSuite"), LAMBDA cipher_suite, r :
            Then(read(r, 1), LAMBDA compression, s : ReadExtensions("ServerHello", 4, s))))

\* A context of at most 255 bytes, behind its length.
ReadContext(p) == Then(read(p, 1), LAMBDA n, q : fill(q, n))

ReadEntry(p) ==
    Then(MapErr(read(p, 3), "InvalidCertificateEntry"), LAMBDA n, q :
        Then(MapErr(fill(q, n), "InvalidCertificateEntry"), LAMBDA cert, r :
            Then(ReadExtensions("Certificate", 2, r), LAMBDA exts, s : Ok(cert, s))))
ReadCertificate(p) ==
    Then(MapErr(ReadContext(p), "InvalidCertificate"), LAMBDA context, q :
        Then(MapErr(read(q, 3), "InvalidCertificate"), LAMBDA n, r :
            Then(MapErr(slice(r, n), "InvalidCertificate"), LAMBDA raw_entries, s :
                Then(AllOf(raw_entries, MaxEntries, ReadEntry, "DecodeError"), LAMBDA entries, end :
                    Ok([request_context |-> context, entries |-> entries], s)))))

ReadCertificateRequest(p) ==
    Then(MapErr(ReadContext(p), "InvalidCertificateRequest"), LAMBDA context, q :
        Then(ReadExtensions("CertificateRequest", 6, q), LAMBDA exts, r : Ok(context, r)))

ReadCertificateVerify(p) ==
    Then(MapErr(ReadScheme(p), "InvalidSignatureScheme"), LAMBDA scheme, q :
        Then(MapErr(read(q, 2), "InvalidSignature"), LAMBDA n, r :
            Then(MapErr(fill(r, n), "InvalidSignature"), LAMBDA signature, s :
                Ok([scheme |-> scheme, signature |-> signature], s))))

\* The length of the message is not looked at: the hash has its own.
ReadFinished(p) == fill(p, HashLen)

\* Lifetime, age, nonce, ticket and extensions are read and dropped.
ReadNewSessionTicket(p) ==
    Then(fill(p, 8), LAMBDA times, q :
        Then(Then(read(q, 1), LAMBDA n, a : MapErr(slice(a, n), "InvalidNonceLength")), LAMBDA nonce, r :
            Then(Then(read(r, 2), LAMBDA n, a : MapErr(slice(a, n), "InvalidTicketLength")), LAMBDA ticket, s :
                Then(ReadExtensions("NewSessionTicket", 1, s), LAMBDA exts, t : Ok(<<>>, t)))))

ReadEncryptedExtensions(p) ==
    Then(ReadExtensions("EncryptedExtensions", 16, p), LAMBDA exts, q : Ok(<<>>, q))

\* ServerHandshake::parse: the length of the message is read and not used.
ReadHandshake(p) ==
    Then(MapErr(Named(HandshakeTypesRead, 1, p), "InvalidHandshake"), LAMBDA type, q :
        Then(MapErr(read(q, 3), "InvalidHandshake"), LAMBDA content_len, r :
            CASE type = "ServerHello"         -> ReadServerHello(r)
              [] type = "NewSessionTicket"    -> ReadNewSessionTicket(r)
              [] type = "EncryptedExtensions" -> ReadEncryptedExtensions(r)
              [] type = "Certificate"         -> ReadCertificate(r)
              [] type = "CertificateRequest"  -> ReadCertificateRequest(r)
              [] type = "CertificateVerify"   -> ReadCertificateVerify(r)
              [] type = "Finished"            -> ReadFinished(r)
              [] OTHER                        -> Err("Unimplemented", r)))

\* ServerHandshake::read: the transcript takes what the parser went over.
ReadMessage(bytes) ==
    LET Digested(r) == [err |-> r.err, val |-> r.val, hashed |-> SubSeq(bytes, 1, r.p.pos)]
    IN Digested(ReadHandshake(ParseBuffer(bytes)))

ReadAlert(p) ==
    Then(read(p, 1), LAMBDA level, q :
        Then(read(q, 1), LAMBDA desc, r :
            IF (\E e \in AlertLevels : e[1] = level) /\ (\E e \in AlertDescriptions : e[1] = desc)
            THEN Ok([level |-> (CHOOSE e \in AlertLevels : e[1] = level)[2],
                     description |-> (CHOOSE e \in AlertDescriptions : e[1] = desc)[2]], r)
            ELSE Err("DecodeError", r)))
=============================================================================
