---------------------------- MODULE TlsHandshake ----------------------------
(***************************************************************************)
(* Opening a TLS 1.3 connection: the states of TlsConnection::open, the    *)
(* key schedule and the transcript, against a server that follows RFC 8446 *)
(* over a socket that may die.                                             *)
(*                                                                         *)
(* Cryptography is symbolic: a secret is the history of what was mixed     *)
(* into it, a traffic key a label, a secret and the transcript it was      *)
(* derived over, and a record opens under the key and number it was sealed *)
(* with.  A transcript is the sequence of the messages hashed.             *)
(***************************************************************************)
EXTENDS LinkFaults, SequencesExt

CONSTANTS
    ClientCerts, \* what client_cert() may have: a certificate, or none
    MaxFrames    \* bound: WebSocket frames of each side on one connection

ASSUME HandshakeAssumption == ClientCerts \subseteq BOOLEAN /\ MaxFrames \in Nat

VARIABLES
    conn,   \* the TCP socket: "none", "open", or "dead" for the device
    up,     \* records on their way to the server
    down,   \* records on their way to the device
    c,      \* the TlsConnection with its Handshake and KeySchedule
    srv,    \* the server's side of the connection
    drawn,  \* EphemeralSecrets drawn so far
    sealed  \* history: the key and number of each record the device encrypted

tlsVars == <<conn, up, down, c, srv, drawn, sealed>>

-----------------------------------------------------------------------------
(* The key schedule.                                                       *)

Zero == 0
NoSecret == 0

Extract(secret, ikm) == Append(secret, [op |-> "extract", ikm |-> ikm])
Derived(secret) == Append(secret, [op |-> "derived", ikm |-> Zero])

NoKey == [label |-> "none", secret |-> <<>>, transcript |-> <<>>]
Traffic(label, secret, transcript) ==
    [label |-> label, secret |-> secret, transcript |-> transcript]

\* calculate_traffic_secret: a new key counts from zero.
Fresh(key) == [key |-> key, n |-> 0]

Bumped(schedule) == [schedule EXCEPT !.n = @ + 1]

\* A message that is named by its type; Hello carries a share, Finished a MAC.
Message(name) == [name |-> name, share |-> NoSecret, mac |-> <<>>]
Hello(name, share) == [name |-> name, share |-> share, mac |-> <<>>]
Finished(key, transcript) ==
    [name |-> "Finished", share |-> NoSecret, mac |-> <<key, transcript>>]

Names(record) == { record.body[i].name : i \in DOMAIN record.body }

Plain(type, body) ==
    [type |-> type, key |-> NoKey, n |-> 0, inner |-> type, body |-> body]
Cipher(schedule, inner, body) ==
    [type |-> "application_data", key |-> schedule.key, n |-> schedule.n,
     inner |-> inner, body |-> body]

\* Does the holder of this read schedule decrypt the record?
Opens(schedule, record) ==
    record.key = schedule.key /\ record.n = schedule.n

-----------------------------------------------------------------------------
(* The client.                                                             *)

TlsNew ==
    [state |-> "ClientHello", secret |-> <<>>, transcript |-> <<>>,
     traffic_hash |-> <<>>, ephemeral |-> NoSecret, request |-> FALSE,
     w |-> Fresh(NoKey), r |-> Fresh(NoKey), err |-> "none"]

\* Variant: the new write key goes on counting where the old one stopped.
WithTrafficCounting(cl, cLabel, sLabel, ikm) ==
    LET s == Extract(cl.secret, ikm) IN
    [cl EXCEPT !.w = [Fresh(Traffic(cLabel, s, cl.transcript)) EXCEPT !.n = cl.w.n],
               !.r = Fresh(Traffic(sLabel, s, cl.transcript)),
               !.secret = Derived(s)]

\* Both traffic keys, then the secret the next stage starts from.
WithTraffic(cl, cLabel, sLabel, ikm) ==
    LET s == Extract(cl.secret, ikm) IN
    [cl EXCEPT !.w = Fresh(Traffic(cLabel, s, cl.transcript)),
               !.r = Fresh(Traffic(sLabel, s, cl.transcript)),
               !.secret = Derived(s)]

Failed(cl, err) == [cl EXCEPT !.err = err]
Hashed(cl, message) == [cl EXCEPT !.transcript = Append(@, message)]

Working(state) == c.err = "none" /\ c.state = state

\* Variant: the counter is left to the next key.
RespondUncounted(cl) == cl

\* write_record and respond: the message enters the transcript, the record
\* goes out under the current key, and the counter moves on.
Respond(cl) == [cl EXCEPT !.w = Bumped(@)]

Sends(record) ==
    /\ conn = "open"
    /\ up' = Append(up, record)
    /\ sealed' = IF record.key = NoKey THEN sealed
                 ELSE Append(sealed, <<record.key, record.n>>)

ClientHello ==
    /\ Working("ClientHello")
    /\ drawn' = drawn + 1
    /\ LET hello == Hello("ClientHello", drawn')
           early == [c EXCEPT !.secret = Derived(Extract(@, Zero)),
                              !.ephemeral = drawn', !.state = "ServerHello"]
       IN
       /\ Sends(Plain("handshake", <<hello>>))
       /\ c' = Respond(Hashed(early, hello))
    /\ UNCHANGED <<conn, down, srv>>

\* process_server_hello.
AfterServerHello(record) ==
    CASE record.type = "alert" -> Failed(c, "HandshakeAborted")
      [] record.type = "handshake" /\ c.ephemeral # NoSecret ->
            [WithTraffic(Hashed(c, Head(record.body)),
                         "c_hs_traffic", "s_hs_traffic", c.ephemeral)
                EXCEPT !.state = "ServerVerify", !.ephemeral = NoSecret]
      [] OTHER -> Failed(c, "InvalidRecord")

\* One message of the server's flight: ServerHandshake::read and the callback.
Hear(cl, message) ==
    LET heard == Hashed(cl, message) IN
    IF cl.err # "none" THEN cl
    ELSE CASE message.name = "UnexpectedExtension" -> Failed(cl, "AbortHandshake")
           [] message.name = "CertificateRequest" -> [heard EXCEPT !.request = TRUE]
           [] message.name = "Finished" ->
                 IF message.mac # <<cl.r.key, cl.transcript>> THEN Failed(heard, "InvalidSignature")
                 ELSE IF heard.request THEN [heard EXCEPT !.state = "ClientCert"]
                 ELSE [heard EXCEPT !.state = "ClientFinished", !.traffic_hash = heard.transcript]
           [] message.name \in {"EncryptedExtensions", "Certificate", "CertificateVerify"} -> heard
           [] OTHER -> Failed(heard, "InvalidHandshake")

\* process_server_verify through decrypt_record, which hands on a handshake
\* record that is not encrypted, too, and counts only those that are.
AfterServerVerify(record) ==
    IF record.type = "change_cipher_spec" THEN c
    ELSE IF record.type = "handshake" THEN FoldLeft(Hear, c, record.body)
    ELSE IF record.type # "application_data" THEN Failed(c, "InvalidRecord")
    ELSE IF ~Opens(c.r, record) THEN Failed(c, "CryptoError")
    ELSE IF record.inner # "handshake" THEN Failed(c, "InvalidRecord")
    ELSE LET heard == FoldLeft(Hear, c, record.body) IN
         IF heard.err = "none" THEN [heard EXCEPT !.r = Bumped(@)] ELSE heard

\* handle_processing_error: an abort is told to the server, in a record that
\* header_content_type calls ChangeCipherSpec.
ReadHandshake ==
    /\ Working("ServerHello") \/ Working("ServerVerify")
    /\ down # <<>>
    /\ down' = Tail(down)
    /\ \E after \in {IF c.state = "ServerHello" THEN AfterServerHello(Head(down))
                                                ELSE AfterServerVerify(Head(down))} :
          IF after.err = "AbortHandshake" /\ conn = "open"
          THEN /\ Sends([Plain("change_cipher_spec", <<Message("Alert")>>) EXCEPT !.inner = "alert"])
               /\ c' = Respond(after)
          ELSE c' = after /\ UNCHANGED <<up, sealed>>
    /\ UNCHANGED <<conn, srv, drawn>>

\* client_cert.
ClientCert ==
    /\ Working("ClientCert")
    /\ \E certificate \in ClientCerts :
          c' = Respond(Hashed([c EXCEPT !.traffic_hash = c.transcript,
                                        !.state = IF certificate THEN "ClientCertVerify"
                                                                 ELSE "ClientFinished"],
                              Message("Certificate")))
    /\ Sends(Cipher(c.w, "handshake", <<Message("Certificate")>>))
    /\ UNCHANGED <<conn, down, srv, drawn>>

\* client_cert_verify, and the alert of a client without a signing key.
ClientCertVerify ==
    /\ Working("ClientCertVerify")
    /\ \/ /\ c' = Respond(Hashed([c EXCEPT !.state = "ClientFinished"],
                                 Message("CertificateVerify")))
          /\ Sends(Cipher(c.w, "handshake", <<Message("CertificateVerify")>>))
          /\ NoFault
       \/ /\ Fault
          /\ c' = Failed(Respond(c), "NoSigner")
          /\ Sends(Cipher(c.w, "alert", <<Message("CloseNotify")>>))
    /\ UNCHANGED <<conn, down, srv, drawn>>

\* client_finished_finalize.
Finalized(cl) ==
    [WithTraffic([cl EXCEPT !.transcript = cl.traffic_hash],
                 "c_ap_traffic", "s_ap_traffic", Zero)
        EXCEPT !.traffic_hash = <<>>, !.state = "ApplicationData"]

\* client_finished, respond, client_finished_finalize.
ClientFinished ==
    /\ Working("ClientFinished")
    /\ LET finished == Finished(c.w.key, c.transcript) IN
       /\ Sends(Cipher(c.w, "handshake", <<finished>>))
       /\ c' = Finalized(Respond(Hashed(c, finished)))
    /\ UNCHANGED <<conn, down, srv, drawn>>

ClientStep ==
    \/ NoFault /\ (ClientHello \/ ReadHandshake \/ ClientCert \/ ClientFinished)
    \/ ClientCertVerify

\* An open connection: a write that is flushed, and a read.
SendData(name) ==
    /\ Working("ApplicationData")
    /\ Sends(Cipher(c.w, "application_data", <<Message(name)>>))
    /\ c' = Respond(c)

Read(record) ==
    IF ~Opens(c.r, record) THEN Failed(c, "CryptoError")
    ELSE CASE record.inner = "handshake" ->
                 [c EXCEPT !.transcript = @ \o record.body, !.r = Bumped(@)]
           [] record.inner = "alert" -> Failed(c, "ConnectionClosed")
           [] OTHER -> [c EXCEPT !.r = Bumped(@)]

ReadData(names) ==
    /\ Working("ApplicationData")
    /\ down # <<>> /\ Names(Head(down)) \subseteq names
    /\ c' = Read(Head(down))
    /\ down' = Tail(down)

-----------------------------------------------------------------------------
(* The server (external), after RFC 8446: its own key schedule, a flight   *)
(* in records of any number of messages, and a check of all it is sent.    *)

SrvNew == [pc |-> "listen", todo |-> <<>>, share |-> NoSecret, transcript |-> <<>>,
           finished |-> <<>>, w |-> Fresh(NoKey), r |-> Fresh(NoKey), refused |-> FALSE,
           told |-> <<>>, frames |-> 0, ticket |-> FALSE]

HandshakeSecret(share) ==
    << [op |-> "extract", ikm |-> Zero], [op |-> "derived", ikm |-> Zero],
       [op |-> "extract", ikm |-> share] >>
MasterSecret(share) ==
    << [op |-> "extract", ikm |-> Zero], [op |-> "derived", ikm |-> Zero],
       [op |-> "extract", ikm |-> share], [op |-> "derived", ikm |-> Zero],
       [op |-> "extract", ikm |-> Zero] >>

Flights ==
    { <<"EncryptedExtensions">> \o request \o <<"Certificate", "CertificateVerify", "Finished">> :
        request \in {<<>>, <<"CertificateRequest">>} }

\* ServerHello, and the ChangeCipherSpec some servers add.
SrvHello ==
    /\ srv.pc = "listen" /\ conn = "open" /\ up # <<>>
    /\ \E flight \in Flights, ccs \in BOOLEAN :
       LET hello == Head(Head(up).body)
           t == <<hello, Message("ServerHello")>>
           s == HandshakeSecret(hello.share)
       IN
       /\ srv' = [srv EXCEPT !.pc = "flight", !.todo = flight, !.transcript = t,
                             !.share = hello.share,
                             !.w = Fresh(Traffic("s_hs_traffic", s, t)),
                             !.r = Fresh(Traffic("c_hs_traffic", s, t))]
       /\ down' = down \o <<Plain("handshake", <<Message("ServerHello")>>)>>
                       \o (IF ccs THEN <<Plain("change_cipher_spec", <<>>)>> ELSE <<>>)
    /\ up' = Tail(up)
    /\ UNCHANGED <<conn, c, drawn, sealed>>

\* The k next messages of the flight, which ends in Finished, in one record;
\* `odd`: with an extension the client does not expect.
SrvFlight(k, odd) ==
    /\ srv.pc = "flight" /\ conn = "open"
    /\ k \in 1 .. Len(srv.todo)
    /\ odd => Head(srv.todo) = "EncryptedExtensions"
    /\ LET said(i) == IF odd /\ srv.todo[i] = "EncryptedExtensions" THEN Message("UnexpectedExtension")
                      ELSE Message(srv.todo[i])
           done == k = Len(srv.todo)
           plain == [ i \in 1 .. (IF done THEN k - 1 ELSE k) |-> said(i) ]
           body == IF done THEN Append(plain, Finished(srv.w.key, srv.transcript \o plain)) ELSE plain
           t == srv.transcript \o body
           key == Traffic("s_ap_traffic", MasterSecret(srv.share), t)
       IN
       /\ down' = Append(down, Cipher(srv.w, "handshake", body))
       /\ srv' = [srv EXCEPT !.todo = SubSeq(@, k + 1, Len(@)), !.transcript = t,
                             !.pc = IF done THEN "client" ELSE "flight",
                             !.finished = IF done THEN t ELSE <<>>,
                             !.w = IF done THEN Fresh(key) ELSE Bumped(@)]
    /\ UNCHANGED <<conn, up, c, drawn, sealed>>

\* What the server makes of a record.
SrvHeard(record) ==
    LET message == Head(record.body)
        t == Append(srv.transcript, message)
        next == [srv EXCEPT !.r = Bumped(@)]
    IN
    IF record.type = "change_cipher_spec" THEN [srv EXCEPT !.pc = "closed"]
    ELSE IF ~Opens(srv.r, record) THEN [srv EXCEPT !.pc = "closed", !.refused = TRUE]
    ELSE IF record.inner = "alert" THEN [srv EXCEPT !.pc = "closed"]
    ELSE CASE message.name = "Finished" ->
                 IF message.mac = <<srv.r.key, srv.transcript>>
                 THEN [srv EXCEPT !.pc = "open",
                                  !.r = Fresh(Traffic("c_ap_traffic", MasterSecret(srv.share), srv.finished))]
                 ELSE [srv EXCEPT !.pc = "closed", !.refused = TRUE]
           [] message.name \in {"Certificate", "CertificateVerify"} -> [next EXCEPT !.transcript = t]
           [] OTHER -> [next EXCEPT !.told = IF message.name = "Request" THEN <<"Request">> ELSE @]

SrvReads ==
    /\ srv.pc \in {"flight", "client", "open"} /\ conn = "open" /\ up # <<>>
    /\ \E heard \in {SrvHeard(Head(up))} :
       /\ srv' = heard
       /\ conn' = IF heard.pc = "closed" THEN "dead" ELSE "open"
    /\ up' = Tail(up)
    /\ UNCHANGED <<down, c, drawn, sealed>>

SrvSends(inner, name) ==
    /\ down' = Append(down, Cipher(srv.w, inner, <<Message(name)>>))
    /\ UNCHANGED <<conn, up, c, drawn, sealed>>

\* A NewSessionTicket, the answer to the upgrade, and frames.
SrvTicket ==
    /\ srv.pc = "open" /\ ~srv.ticket /\ conn = "open"
    /\ srv' = [srv EXCEPT !.ticket = TRUE, !.w = Bumped(@)]
    /\ SrvSends("handshake", "NewSessionTicket")

SrvAnswer(name) ==
    /\ srv.pc = "open" /\ srv.told = <<"Request">> /\ conn = "open"
    /\ srv' = [srv EXCEPT !.told = <<"Request", name>>, !.w = Bumped(@)]
    /\ SrvSends("application_data", name)

SrvFrame ==
    /\ srv.pc = "open" /\ srv.told = <<"Request", "Answer">> /\ conn = "open"
    /\ srv.frames < MaxFrames
    /\ srv' = [srv EXCEPT !.frames = @ + 1, !.w = Bumped(@)]
    /\ SrvSends("application_data", "Frame")

\* The server gives up: an alert, in the clear until it has keys, and the end.
SrvAborts ==
    /\ srv.pc \in {"listen", "flight", "client", "open"} /\ conn = "open"
    /\ srv' = [srv EXCEPT !.pc = "closed"]
    /\ down' = Append(down, IF srv.w.key = NoKey THEN Plain("alert", <<Message("Alert")>>)
                            ELSE Cipher(srv.w, "alert", <<Message("Alert")>>))
    /\ conn' = "dead"
    /\ UNCHANGED <<up, c, drawn, sealed>>

SrvStep ==
    \/ /\ NoFault
       /\ \/ SrvHello \/ SrvReads \/ SrvTicket \/ SrvFrame \/ SrvAnswer("Answer")
          \/ \E k \in 1 .. Len(srv.todo) : SrvFlight(k, FALSE)
    \/ /\ Fault
       /\ \/ SrvAborts \/ SrvAnswer("Reject")
          \/ \E k \in 1 .. Len(srv.todo) : SrvFlight(k, TRUE)
=============================================================================
