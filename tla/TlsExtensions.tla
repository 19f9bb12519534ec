--------------------------- MODULE TlsExtensions ---------------------------
(***************************************************************************)
(* The extensions of TLS 1.3 messages as embedded-tls writes and reads     *)
(* them (extensions/): the code points, the data of each extension, which  *)
(* message may carry which, and the vector of extensions.  An extension is *)
(* [type, data]; its data is a number, a name, a sequence of them or raw   *)
(* bytes, as the type says.                                                *)
(***************************************************************************)
EXTENDS WireBuffers

\* <<code point, name>>; an enum that is matched on literals in one direction
\* and listed again in the other has one table for each.
ExtensionTypes ==
    { <<0, "ServerName">>, <<1, "MaxFragmentLength">>, <<5, "StatusRequest">>,
      <<10, "SupportedGroups">>, <<13, "SignatureAlgorithms">>, <<14, "UseSrtp">>,
      <<15, "Heartbeat">>, <<16, "ApplicationLayerProtocolNegotiation">>,
      <<18, "SignedCertificateTimestamp">>, <<19, "ClientCertificateType">>,
      <<20, "ServerCertificateType">>, <<21, "Padding">>, <<27, "CompressCertificate">>,
      <<41, "PreSharedKey">>, <<42, "EarlyData">>, <<43, "SupportedVersions">>,
      <<44, "Cookie">>, <<45, "PskKeyExchangeModes">>, <<47, "CertificateAuthorities">>,
      <<48, "OidFilters">>, <<49, "PostHandshakeAuth">>,
      <<50, "SignatureAlgorithmsCert">>, <<51, "KeyShare">> }

SchemesRead ==
    { <<\h0401, "RsaPkcs1Sha256">>, <<\h0501, "RsaPkcs1Sha384">>, <<\h0601, "RsaPkcs1Sha512">>,
      <<\h0403, "EcdsaSecp256r1Sha256">>, <<\h0503, "EcdsaSecp384r1Sha384">>,
      <<\h0603, "EcdsaSecp521r1Sha512">>, <<\h0804, "RsaPssRsaeSha256">>,
      <<\h0805, "RsaPssRsaeSha384">>, <<\h0806, "RsaPssRsaeSha512">>, <<\h0807, "Ed25519">>,
      <<\h0808, "Ed448">>, <<\h0809, "RsaPssPssSha256">>, <<\h080a, "RsaPssPssSha384">>,
      <<\h080b, "RsaPssPssSha512">>, <<\h0303, "Sha224Ecdsa">>, <<\h0301, "Sha224Rsa">>,
      <<\h0302, "Sha224Dsa">>, <<\h0201, "RsaPkcs1Sha1">>, <<\h0203, "EcdsaSha1">>,
      <<\h081A, "Sha256BrainpoolP256r1">>, <<\h081B, "Sha384BrainpoolP384r1">>,
      <<\h081C, "Sha512BrainpoolP512r1">>, <<\h0904, "MlDsa44">>, <<\h0905, "MlDsa65">>,
      <<\h0906, "MlDsa87">> }

SchemesWritten ==
    { <<\h0401, "RsaPkcs1Sha256">>, <<\h0501, "RsaPkcs1Sha384">>, <<\h0601, "RsaPkcs1Sha512">>,
      <<\h0403, "EcdsaSecp256r1Sha256">>, <<\h0503, "EcdsaSecp384r1Sha384">>,
      <<\h0603, "EcdsaSecp521r1Sha512">>, <<\h0804, "RsaPssRsaeSha256">>,
      <<\h0805, "RsaPssRsaeSha384">>, <<\h0806, "RsaPssRsaeSha512">>, <<\h0807, "Ed25519">>,
      <<\h0808, "Ed448">>, <<\h0809, "RsaPssPssSha256">>, <<\h080a, "RsaPssPssSha384">>,
      <<\h080b, "RsaPssPssSha512">>, <<\h0303, "Sha224Ecdsa">>, <<\h0301, "Sha224Rsa">>,
      <<\h0302, "Sha224Dsa">>, <<\h0201, "RsaPkcs1Sha1">>, <<\h0203, "EcdsaSha1">>,
      <<\h081A, "Sha256BrainpoolP256r1">>, <<\h081B, "Sha384BrainpoolP384r1">>,
      <<\h081C, "Sha512BrainpoolP512r1">>, <<\h0904, "MlDsa44">>, <<\h0905, "MlDsa65">>,
      <<\h0906, "MlDsa87">> }

GroupsRead ==
    { <<\h0017, "Secp256r1">>, <<\h0018, "Secp384r1">>, <<\h0019, "Secp521r1">>,
      <<\h001D, "X25519">>, <<\h001E, "X448">>, <<\h0100, "Ffdhe2048">>, <<\h0101, "Ffdhe3072">>,
      <<\h0102, "Ffdhe4096">>, <<\h0103, "Ffdhe6144">>, <<\h0104, "Ffdhe8192">>,
      <<\h11EB, "SecP256r1MLKEM768">>, <<\h11EC, "X25519MLKEM768">>, <<\h11ED, "SecP384r1MLKEM1024">> }

GroupsWritten ==
    { <<\h0017, "Secp256r1">>, <<\h0018, "Secp384r1">>, <<\h0019, "Secp521r1">>,
      <<\h001D, "X25519">>, <<\h001E, "X448">>, <<\h0100, "Ffdhe2048">>, <<\h0101, "Ffdhe3072">>,
      <<\h0102, "Ffdhe4096">>, <<\h0103, "Ffdhe6144">>, <<\h0104, "Ffdhe8192">>,
      <<\h11EB, "SecP256r1MLKEM768">>, <<\h11EC, "X25519MLKEM768">>, <<\h11ED, "SecP384r1MLKEM1024">> }

Names(table) == { e[2] : e \in table }
Code(table, name) == (CHOOSE e \in table : e[2] = name)[1]
\* match buf.read_uN()? { ... _ => Err(InvalidData) }
Named(table, width, p) ==
    Then(read(p, width), LAMBDA code, q :
        IF \E e \in table : e[1] = code
        THEN Ok((CHOOSE e \in table : e[1] = code)[2], q)
        ELSE Err("InvalidData", q))

------------------------------------------------------------------------------
(* The data of each extension *)

ReadScheme(p) == Named(SchemesRead, 2, p)
ReadGroup(p)  == Named(GroupsRead, 2, p)
\* ProtocolVersion, PreSharedKeyServerHello: any number.
ReadNumber(p) == read(p, 2)
ReadMode(p) == Then(read(p, 1), LAMBDA m, q : IF m \in {0, 1} THEN Ok(m, q) ELSE Err("InvalidData", q))

WriteScheme(b, scheme) == push_u16(b, Code(SchemesWritten, scheme))
WriteGroup(b, group)   == push_u16(b, Code(GroupsWritten, group))

ReadKeyShareEntry(p) ==
    Then(ReadGroup(p), LAMBDA group, q :
        Then(read(q, 2), LAMBDA n, r :
            Then(fill(r, n), LAMBDA opaque, s : Ok([group |-> group, opaque |-> opaque], s))))
WriteKeyShareEntry(b, e) ==
    with_length(WriteGroup(b, e.group), 2, LAMBDA c : extend_from_slice(c, e.opaque))

ReadServerName(p) ==
    Then(read(p, 1), LAMBDA name_type, q :
        IF name_type # 0 THEN Err("InvalidData", q)
        ELSE Then(read(q, 2), LAMBDA n, r :
            Then(fill(r, n), LAMBDA name, s :
                IF \A i \in 1 .. n : name[i] < 128 THEN Ok(name, s) ELSE Err("InvalidData", s))))
WriteServerName(b, name) ==
    with_length(push(b, 0), 2, LAMBDA c : extend_from_slice(c, name))

\* The names are checked and not kept.
ReadAlpn(p) ==
    Then(read(p, 2), LAMBDA n, q :
        Then(slice(q, n), LAMBDA list, r :
            Then(AllOf(list, n, LAMBDA d :
                     Then(read(d, 1), LAMBDA k, e :
                         IF k = 0 THEN Err("InvalidData", e) ELSE fill(e, k)), "none left"),
                 LAMBDA names, s : Ok(<<>>, r))))
WriteAlpn(b, protocols) ==
    with_length(b, 2, LAMBDA c :
        EachOf(c, protocols, LAMBDA d, name : extend_from_slice(push(d, Len(name) % 256), name)))

\* Identities, then zeros where the binders will be.
WritePreSharedKey(b, identities, hash_size) ==
    LET binders_len == (1 + hash_size) * Len(identities)
        listed == with_length(b, 2, LAMBDA c :
                      EachOf(c, identities, LAMBDA d, id :
                          push_u32(with_length(d, 2, LAMBDA e : extend_from_slice(e, id)), 0)))
    IN extend_from_slice(push_u16(listed, binders_len), [i \in 1 .. binders_len |-> 0])

\* A list behind a length of the given width, and the lists there are.
ReadList(p, width, max, elem(_)) ==
    Then(read(p, width), LAMBDA n, q : read_list(q, n, max, elem))
WriteList(b, width, xs, elem(_, _)) ==
    with_length(b, width, LAMBDA c : EachOf(c, xs, elem))

ReadVersions(p)    == ReadList(p, 1, 1, ReadNumber)
ReadSchemes(p)     == ReadList(p, 2, 25, ReadScheme)
ReadGroups(p)      == ReadList(p, 2, 13, ReadGroup)
ReadModes(p)       == ReadList(p, 1, 4, ReadMode)
ReadKeyShares(p)   == ReadList(p, 2, 1, ReadKeyShareEntry)
ReadServerNames(p) == ReadList(p, 2, 1, ReadServerName)

WriteVersions(b, xs)    == WriteList(b, 1, xs, push_u16)
WriteSchemes(b, xs)     == WriteList(b, 2, xs, WriteScheme)
WriteGroups(b, xs)      == WriteList(b, 2, xs, WriteGroup)
WriteModes(b, xs)       == WriteList(b, 1, xs, push)
WriteKeyShares(b, xs)   == WriteList(b, 2, xs, WriteKeyShareEntry)
WriteServerNames(b, xs) == WriteList(b, 2, xs, WriteServerName)

ReadMaxFragmentLength(p) ==
    Then(read(p, 1), LAMBDA n, q : IF n \in 1 .. 4 THEN Ok(n, q) ELSE Err("InvalidData", q))
ReadServerNameResponse(p) == IF is_empty(p) THEN Ok(<<>>, p) ELSE Err("InvalidData", p)
\* Unimplemented keeps its bytes.
ReadRaw(p) == Ok(p.buffer, p)

------------------------------------------------------------------------------
(* Extensions by message *)

Carried(message) ==
    CASE message = "ClientHello" -> Names(ExtensionTypes) \ {"CompressCertificate"}
      [] message = "ServerHello" -> {"KeyShare", "PreSharedKey", "Cookie", "SupportedVersions"}
      [] message = "EncryptedExtensions" ->
            {"ServerName", "MaxFragmentLength", "SupportedGroups", "UseSrtp", "Heartbeat",
             "ApplicationLayerProtocolNegotiation", "ClientCertificateType",
             "ServerCertificateType", "EarlyData"}
      [] message = "CertificateRequest" ->
            {"StatusRequest", "SignatureAlgorithms", "SignedCertificateTimestamp",
             "CertificateAuthorities", "OidFilters", "SignatureAlgorithmsCert",
             "CompressCertificate"}
      [] message = "Certificate" -> {"StatusRequest", "SignedCertificateTimestamp"}
      [] message = "NewSessionTicket" -> {"EarlyData"}

\* What the parser of a carried extension's data is.
ReadData(message, type, p) ==
    CASE type = "KeyShare" /\ message = "ServerHello" -> ReadKeyShareEntry(p)
      [] type \in {"PreSharedKey", "SupportedVersions"} /\ message = "ServerHello" -> ReadNumber(p)
      [] type = "ServerName" /\ message = "EncryptedExtensions" -> ReadServerNameResponse(p)
      [] type = "MaxFragmentLength" -> ReadMaxFragmentLength(p)
      [] type = "SupportedGroups" -> ReadGroups(p)
      [] type = "ApplicationLayerProtocolNegotiation" -> ReadAlpn(p)
      [] type = "SignatureAlgorithms" -> ReadSchemes(p)
      [] type = "SignatureAlgorithmsCert" /\ message = "ClientHello" -> ReadSchemes(p)
      [] type = "PreSharedKey" /\ message = "ClientHello" -> Err("unimplemented!()", p)
      [] type = "KeyShare" /\ message = "ClientHello" -> ReadKeyShares(p)
      [] type = "ServerName" /\ message = "ClientHello" -> ReadServerNames(p)
      [] type = "SupportedVersions" /\ message = "ClientHello" -> ReadVersions(p)
      [] type = "PskKeyExchangeModes" -> ReadModes(p)
      [] OTHER -> ReadRaw(p)

WriteData(b, ext) ==
    CASE ext.type = "SupportedVersions" -> WriteVersions(b, ext.data)
      [] ext.type = "SignatureAlgorithms" -> WriteSchemes(b, ext.data)
      [] ext.type = "MaxFragmentLength" -> push(b, ext.data)
      [] ext.type = "SupportedGroups" -> WriteGroups(b, ext.data)
      [] ext.type = "PskKeyExchangeModes" -> WriteModes(b, ext.data)
      [] ext.type = "KeyShare" -> WriteKeyShares(b, ext.data)
      [] ext.type = "ServerName" -> WriteServerNames(b, ext.data)
      [] ext.type = "ApplicationLayerProtocolNegotiation" -> WriteAlpn(b, ext.data)
      [] ext.type = "PreSharedKey" -> WritePreSharedKey(b, ext.data.identities, ext.data.hash_size)

\* encode of the macro: the type, then the data behind its length.
WriteExtension(b, ext) ==
    with_length(push_u16(b, Code(ExtensionTypes, ext.type)), 2, LAMBDA c : WriteData(c, ext))

\* Variant: the type is looked at before the data is taken off the vector.
ReadExtensionTypeFirst(message, p) ==
    Then(MapErr(Named(ExtensionTypes, 2, p), "UnknownExtensionType"), LAMBDA type, q :
        IF type \notin Carried(message) THEN Err("AbortHandshake", q)
        ELSE Then(MapErr(read(q, 2), "DecodeError"), LAMBDA data_len, r :
            Then(MapErr(slice(r, data_len), "DecodeError"), LAMBDA ext_data, end :
                Then(MapErr(ReadData(message, type, ext_data), "DecodeError"), LAMBDA data, over :
                    Ok([type |-> type, data |-> data], end)))))

\* parse of the macro: the data is taken off the vector before the type is looked at.
ReadExtension(message, p) ==
    LET type == Named(ExtensionTypes, 2, p)
    IN Then(MapErr(read(type.p, 2), "DecodeError"), LAMBDA data_len, q :
         Then(MapErr(slice(q, data_len), "DecodeError"), LAMBDA ext_data, r :
            CASE type.err = "InvalidData" -> Err("UnknownExtensionType", r)
              [] type.err = None /\ type.val \notin Carried(message) -> Err("AbortHandshake", r)
              [] type.err = None /\ type.val \in Carried(message) ->
                    Then(MapErr(ReadData(message, type.val, ext_data), "DecodeError"),
                         LAMBDA data, end : Ok([type |-> type.val, data |-> data], r))
              [] OTHER -> Err("DecodeError", r)))

\* parse_vector: an unknown type is skipped with its data; max extensions are kept.
ReadExtensions(message, max, p) ==
    Then(MapErr(read(p, 2), "InvalidExtensionsLength"), LAMBDA n, q :
      Then(slice(q, n), LAMBDA d, r :
        LET all[pos \in 0 .. n, kept \in 0 .. max] ==
                LET Collect(e) ==
                        CASE e.err = "UnknownExtensionType" -> all[e.p.pos, kept]
                          [] e.err = None /\ kept = max -> Err("DecodeError", r)
                          [] e.err = None /\ kept < max ->
                                Then(all[e.p.pos, kept + 1], LAMBDA es, end : Ok(<<e.val>> \o es, end))
                          [] OTHER -> Err(e.err, r)
                IN IF pos = n THEN Ok(<<>>, r) ELSE Collect(ReadExtension(message, [d EXCEPT !.pos = pos]))
        IN all[0, 0]))
=============================================================================
