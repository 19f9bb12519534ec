-------------------------------- MODULE Link --------------------------------
(***************************************************************************)
(* The device on the network: the WiFi task, the link half of voice_task   *)
(* (WsClient, TLS connection and reconnection) and the NTP task, over      *)
(* faults of the access point, the connection and the servers.             *)
(*                                                                         *)
(* Assumed: the device learns of a connection that died.  The socket has a *)
(* timeout of 10 s for data the peer does not acknowledge; a connection    *)
(* that dies silently while the device only reads is not detected.         *)
(***************************************************************************)
EXTENDS TlsHandshake, Clock

VARIABLES
    wifi,   \* wifi_conn: "connecting", "up" or "waiting" (5 s)
    lpc,    \* voice_task: "tcp", "tls", "answer", "start", "session", "pause" (3 s)
    client, \* WsClient.client is Some
    wsUp,   \* WS_UP
    spoken  \* frames voice_task has sent on this connection

linkVars == <<lpc, client, wsUp, spoken>>
vars == <<faults, tlsVars, clockVars, wifi, linkVars>>

-----------------------------------------------------------------------------
(* wifi_conn.                                                              *)

WifiUp == wifi = "connecting" /\ wifi' = "up" /\ NoFault /\ UNCHANGED conn
WifiFails == wifi = "connecting" /\ wifi' = "waiting" /\ Fault /\ UNCHANGED conn
WifiDrops ==
    /\ wifi = "up" /\ wifi' = "waiting" /\ Fault
    /\ conn' = IF conn = "open" THEN "dead" ELSE conn
WifiWaited == wifi = "waiting" /\ wifi' = "connecting" /\ NoFault /\ UNCHANGED conn

WifiTask ==
    /\ WifiUp \/ WifiFails \/ WifiDrops \/ WifiWaited
    /\ UNCHANGED <<up, down, c, srv, drawn, sealed, clockVars, linkVars>>

\* The connection breaks for a reason of its own.
ConnLost ==
    /\ conn = "open" /\ conn' = "dead" /\ Fault
    /\ UNCHANGED <<up, down, c, srv, drawn, sealed, clockVars, wifi, linkVars>>

-----------------------------------------------------------------------------
(* voice_task.                                                             *)

\* The transport is dropped: its buffers are free again, the socket is gone.
Drop == conn' = "none" /\ up' = <<>> /\ down' = <<>> /\ srv' = SrvNew

\* The socket can be neither written nor, once it is drained, read.
Broken == conn = "dead" /\ down = <<>>

\* build_transport: a new socket, connected, under a new TlsConnection.
Connect ==
    /\ lpc = "tcp" /\ wifi = "up"
    /\ conn' = "open" /\ c' = TlsNew /\ spoken' = 0
    /\ lpc' = "tls"
    /\ NoFault
    /\ UNCHANGED <<up, down, srv, drawn, sealed, client, wsUp>>

ConnectFails ==
    /\ lpc = "tcp"
    /\ (wifi # "up" /\ NoFault) \/ (wifi = "up" /\ Fault)
    /\ lpc' = "pause"
    /\ UNCHANGED <<tlsVars, client, wsUp, spoken>>

Open == lpc = "tls" /\ ClientStep /\ UNCHANGED linkVars

\* TlsConnection::open is done; CoreWsClient::handshake sends its request.
Upgrade ==
    /\ lpc = "tls"
    /\ SendData("Request")
    /\ lpc' = "answer"
    /\ NoFault
    /\ UNCHANGED <<conn, down, srv, drawn, client, wsUp, spoken>>

Answer ==
    /\ lpc = "answer"
    /\ ReadData({"Answer", "NewSessionTicket"})
    /\ IF c'.err = "none" /\ "Answer" \in Names(Head(down)) THEN lpc' = "start" /\ client' = TRUE
                                         ELSE UNCHANGED <<lpc, client>>
    /\ NoFault
    /\ UNCHANGED <<conn, up, srv, drawn, sealed, wsUp, spoken>>

\* open, the upgrade or its answer fails: the transport is dropped with it.
AttemptFails ==
    /\ lpc \in {"tls", "answer"}
    /\ \/ Broken \/ c.err # "none"
       \/ conn = "dead" /\ c.state \notin {"ServerHello", "ServerVerify"} /\ lpc = "tls"
       \/ lpc = "answer" /\ down # <<>> /\ Names(Head(down)) \cap {"Alert", "Reject"} # {}
    /\ lpc' = "pause"
    /\ Drop
    /\ NoFault
    /\ UNCHANGED <<c, drawn, sealed, client, wsUp, spoken>>

\* session.start.
Start ==
    /\ lpc = "start" /\ SendData("Frame")
    /\ wsUp' = TRUE /\ lpc' = "session" /\ spoken' = 1
    /\ NoFault
    /\ UNCHANGED <<conn, down, srv, drawn, client>>

Speak ==
    /\ lpc = "session" /\ spoken < MaxFrames
    /\ SendData("Frame")
    /\ spoken' = spoken + 1
    /\ NoFault
    /\ UNCHANGED <<conn, down, srv, drawn, lpc, client, wsUp>>

Listen ==
    /\ lpc = "session"
    /\ ReadData({"Frame", "NewSessionTicket", "Alert"})
    /\ NoFault
    /\ UNCHANGED <<conn, up, srv, drawn, sealed, linkVars>>

\* Variant: a session.start that fails is tried again on the same connection.
SessionEndsOnceStarted ==
    /\ lpc = "session" /\ (Broken \/ c.err # "none")
    /\ wsUp' = FALSE
    /\ lpc' = "pause"
    /\ NoFault
    /\ UNCHANGED <<tlsVars, client, spoken>>

\* A send or a read fails: the session is over, its client still there.
SessionEnds ==
    /\ \/ lpc = "session" /\ (Broken \/ c.err # "none")
       \/ lpc = "start" /\ conn = "dead"
    /\ wsUp' = FALSE
    /\ lpc' = "pause"
    /\ NoFault
    /\ UNCHANGED <<tlsVars, client, spoken>>

\* Variant: the old client lives on until a new one replaces it.
RetryKeepsClient ==
    /\ lpc = "pause"
    /\ lpc' = "tcp"
    /\ Drop
    /\ NoFault
    /\ UNCHANGED <<c, drawn, sealed, client, wsUp, spoken>>

\* The pause of 3 s, then reconnect (connect, before the first session): it
\* drops the old client before it builds a transport.
Retry ==
    /\ lpc = "pause"
    /\ client' = FALSE
    /\ lpc' = "tcp"
    /\ Drop
    /\ NoFault
    /\ UNCHANGED <<c, drawn, sealed, wsUp, spoken>>

VoiceStep ==
    \/ Connect \/ ConnectFails \/ Open \/ Upgrade \/ Answer \/ AttemptFails
    \/ Start \/ Speak \/ Listen \/ SessionEnds \/ Retry

VoiceTask == VoiceStep /\ UNCHANGED <<clockVars, wifi>>

Server == SrvStep /\ UNCHANGED <<clockVars, wifi, linkVars>>

-----------------------------------------------------------------------------
(* ntp_task.  Twelve hours are longer than any outage of the access point. *)

NtpTask ==
    /\ \/ /\ NoFault
          /\ \/ wifi = "up" /\ ConfigUp
             \/ Ask(wifi = "up") \/ AskFails(wifi = "up") \/ Reply \/ Sync
             \/ wifi = "up" /\ Sleep
             \/ wifi # "up" /\ TimedOut
       \/ Fault /\ (BadReply \/ (wifi = "up" /\ TimedOut))
    /\ UNCHANGED <<tlsVars, wifi, linkVars>>

-----------------------------------------------------------------------------

Init ==
    /\ faults = 0
    /\ conn = "none" /\ up = <<>> /\ down = <<>>
    /\ c = TlsNew /\ srv = SrvNew /\ drawn = 0 /\ sealed = <<>>
    /\ ClockInit
    /\ wifi = "connecting"
    /\ lpc = "tcp" /\ client = FALSE /\ wsUp = FALSE /\ spoken = 0

Next == WifiTask \/ ConnLost \/ VoiceTask \/ Server \/ NtpTask

\* The tasks of the device run when they can, the access point takes it back
\* and the servers answer; no fault need happen.
Faultless(A) == A /\ faults' = faults

Fairness ==
    /\ WF_vars(Faultless(WifiTask)) /\ WF_vars(Faultless(VoiceTask))
    /\ WF_vars(Faultless(Server)) /\ WF_vars(Faultless(NtpTask))

Spec == Init /\ [][Next]_vars /\ Fairness

-----------------------------------------------------------------------------

States == {"ClientHello", "ServerHello", "ServerVerify", "ClientCert",
           "ClientCertVerify", "ClientFinished", "ApplicationData"}
Errors == {"none", "HandshakeAborted", "AbortHandshake", "InvalidRecord", "InvalidHandshake",
           "InvalidSignature", "CryptoError", "NoSigner", "ConnectionClosed"}

TypeOK ==
    /\ conn \in {"none", "open", "dead"}
    /\ c.state \in States /\ c.err \in Errors
    /\ c.w.n \in Nat /\ c.r.n \in Nat
    /\ lpc \in {"tcp", "tls", "answer", "start", "session", "pause"}
    /\ wifi \in {"connecting", "up", "waiting"}
    /\ client \in BOOLEAN /\ wsUp \in BOOLEAN
    /\ npc \in {"config", "ask", "wait", "sleep"}
    /\ server \in 1 .. NTP_SERVERS /\ Len(rx) <= 1

\* Once both sides call the connection open they hold the same application
\* keys: the transcript, the saved traffic hash and the key schedule agree
\* with the server's, whatever it asked for and however it cut its flight.
KeysAgree ==
    conn # "none" /\ srv.pc = "open" /\ c.err = "none" =>
        c.state = "ApplicationData" /\ c.w.key = srv.r.key /\ c.r.key = srv.w.key

\* The two ends understand each other: they hold the same keys, no record is
\* refused by the other side, and no Finished fails to verify: every record
\* is sealed under the key and number its receiver expects.
Understood ==
    /\ TypeOK /\ KeysAgree
    /\ ~srv.refused /\ c.err \notin {"CryptoError", "InvalidSignature"}

\* No two records are encrypted under one key and number, in the handshake,
\* in the session or on a later connection.
NoNonceReuse == IsInjective(sealed)

\* The static buffers are lent out again only when the transport that held
\* them is gone.
BuffersLentOnce == lpc \in {"tcp", "tls", "answer"} => ~client
=============================================================================
