----------------------------- MODULE Link_proofs -----------------------------
(***************************************************************************)
(* Theorems about the link, for any budget of faults, any number of frames *)
(* and of servers: the buffers are lent once, the clock is right, no key   *)
(* encrypts two records under one number, and the two ends understand each *)
(* other: every record on its way is sealed the way its reader will expect *)
(* when it gets to it.                                                     *)
(***************************************************************************)
EXTENDS Link, StreamLemmas

-----------------------------------------------------------------------------
(* The buffers of the transport.                                           *)

\* The client is there only behind the handshake that made it: no step of an
\* attempt leaves it there, and reconnect drops the old one first.
THEOREM BuffersLent == Spec => []BuffersLentOnce
<1>1. Init => BuffersLentOnce
  BY DEF Init, BuffersLentOnce
<1>2. BuffersLentOnce /\ [Next]_vars => BuffersLentOnce'
  <2> SUFFICES ASSUME BuffersLentOnce, [Next]_vars PROVE BuffersLentOnce'
    OBVIOUS
  <2>1. CASE UNCHANGED linkVars
    BY <2>1 DEF BuffersLentOnce, linkVars
  <2>2. CASE VoiceStep
    <3>1. CASE Answer
      BY <3>1 DEF Answer, BuffersLentOnce
    <3>2. CASE Retry
      BY <3>2 DEF Retry, BuffersLentOnce
    <3>3. CASE Connect \/ Upgrade
      BY <3>3 DEF Connect, Upgrade, BuffersLentOnce
    <3>4. CASE ConnectFails \/ AttemptFails \/ Start \/ SessionEnds
      BY <3>4 DEF ConnectFails, AttemptFails, Start, SessionEnds, BuffersLentOnce
    <3>5. CASE Open \/ Speak \/ Listen
      BY <3>5 DEF Open, Speak, Listen, BuffersLentOnce, linkVars
    <3> QED BY <2>2, <3>1, <3>2, <3>3, <3>4, <3>5 DEF VoiceStep
  <2> QED BY <2>1, <2>2 DEF Next, VoiceTask, WifiTask, ConnLost, Server, NtpTask, vars
<1> QED BY <1>1, <1>2, PTL DEF Spec

-----------------------------------------------------------------------------
(* The clock.                                                              *)

\* Types of the clock's part of the state.
ClockTypes ==
    /\ faults \in Nat /\ faults <= MaxFaults
    /\ wifi \in {"connecting", "up", "waiting"}
    /\ npc \in {"config", "ask", "wait", "sleep"}
    /\ server \in 1 .. NTP_SERVERS
    /\ uptime \in Nat /\ sync_unix \in Nat /\ sync_base \in Nat
    /\ synced \in BOOLEAN

\* There is an answer under way only to the query that waits for it: it was
\* sent in the period that runs.
OneQuery ==
    IF npc = "wait" THEN \/ flight = {Now} /\ rx = <<>>
                         \/ flight = {} /\ rx = <<Now>>
                    ELSE flight = {} /\ rx = <<>>

\* The periods since the last answer.
Age == Boot + uptime - sync_unix

\* A query that brings no answer is a fault, of the server or of the access
\* point, so the last answer is no older than the faults, and the query that
\* runs, allow.
Recent ==
    synced =>
        /\ npc # "config"
        /\ Age \in 0 .. uptime /\ sync_base = (uptime - Age) % Wrap
        /\ Age <= faults + 1
        /\ npc = "sleep" \/ server > 1 \/ wifi # "up" => Age <= faults

ClockInv ==
    /\ ClockTypes /\ OneQuery /\ Recent
    /\ npc \in {"config", "sleep"} => server = 1

\* A quotient and a remainder determine their remainder.
LEMMA Remainder ==
    ASSUME NEW w \in Nat \ {0}, NEW p \in Nat, NEW t \in 0 .. w - 1
    PROVE  (w * p + t) % w = t
OBVIOUS

\* The uptime counts through its wrap: the difference of two remainders is,
\* as a remainder, the difference of the numbers.
LEMMA ThroughWrap ==
    ASSUME NEW w \in Nat \ {0}, NEW a \in Nat, NEW d \in 0 .. w - 1
    PROVE  (((a + d) % w) - (a % w)) % w = d
<1> DEFINE r == a % w
           q == a \div w
<1>1. r \in 0 .. w - 1 /\ q \in Nat /\ a = w * q + r
  OBVIOUS
<1>2. PICK s \in 0 .. w - 1, p \in Nat : s = a % w /\ p = a \div w /\ a = w * p + s
  BY <1>1
<1>3. d % w = d /\ (d - w) % w = d
  OBVIOUS
<1>4. CASE s + d < w
  <2>1. (a + d) % w = s + d
    BY <1>2, <1>4
  <2> QED BY <1>2, <1>3, <2>1
<1>5. CASE s + d >= w
  <2>1. w * (p + 1) = w * p + w
    BY <1>2
  <2>2. PICK k \in Nat, t \in 0 .. w - 1 : k = p + 1 /\ t = s + d - w
    BY <1>2, <1>5
  <2>3. a + d = w * k + t
    BY <1>2, <2>1, <2>2
  <2>4. (a + d) % w = t
    BY <2>3, Remainder
  <2> QED BY <1>2, <1>3, <2>2, <2>4
<1> QED BY <1>2, <1>4, <1>5

\* Faults are counted one by one, up to the bound.
LEMMA FaultOrNot == [Next]_vars => Fault \/ NoFault
<1> SUFFICES ASSUME [Next]_vars PROVE Fault \/ NoFault
  OBVIOUS
<1>1. CASE VoiceTask
  <2>1. CASE Open
    BY <2>1 DEF Open, ClientStep, ClientCertVerify
  <2>2. VoiceStep
    BY <1>1 DEF VoiceTask
  <2>3. Fault \/ NoFault
    BY <2>1, <2>2 DEF VoiceStep, Connect, ConnectFails, Upgrade, Answer, AttemptFails,
                     Start, Speak, Listen, SessionEnds, Retry
  <2> QED BY <2>3
<1>2. CASE Server
  BY <1>2 DEF Server, SrvStep
<1>3. CASE WifiTask
  BY <1>3 DEF WifiTask, WifiUp, WifiFails, WifiDrops, WifiWaited
<1>4. CASE NtpTask
  BY <1>4 DEF NtpTask
<1>5. CASE ConnLost \/ UNCHANGED vars
  BY <1>5 DEF ConnLost, vars, NoFault
<1> QED BY <1>1, <1>2, <1>3, <1>4, <1>5 DEF Next

\* See FaultOrNot.
LEMMA FaultsStep ==
    ASSUME ClockTypes, [Next]_vars
    PROVE  faults' \in {faults, faults + 1} /\ faults' <= MaxFaults
BY FaultOrNot, FaultsAssumption DEF ClockTypes, Fault, NoFault

\* Whatever the other tasks and the access point do, the clock's invariant
\* goes on holding.
LEMMA OthersKeepClock ==
    ASSUME ClockInv, [Next]_vars, UNCHANGED clockVars
    PROVE  ClockInv'
<1>1. faults' \in {faults, faults + 1} /\ faults' <= MaxFaults
  BY FaultsStep DEF ClockInv
<1>2. \/ wifi' = wifi
      \/ wifi' \in {"connecting", "up", "waiting"} /\ (wifi = "up" => faults' = faults + 1)
  <2>1. CASE WifiTask
    BY <2>1 DEF WifiTask, WifiUp, WifiFails, WifiDrops, WifiWaited, Fault
  <2> QED BY <2>1 DEF Next, ConnLost, VoiceTask, Server, NtpTask, vars
<1>3. UNCHANGED <<npc, server, flight, rx, uptime, sync_unix, sync_base, synced>>
  BY DEF clockVars
<1>4. ClockTypes' /\ OneQuery' /\ (npc \in {"config", "sleep"} => server = 1)'
  BY <1>1, <1>2, <1>3 DEF ClockInv, ClockTypes, OneQuery, Now
<1>5. Age' = Age
  BY <1>3 DEF Age
<1>6. synced => Age \in Nat
  BY DEF ClockInv, ClockTypes, Recent
<1>7. Recent'
  BY <1>1, <1>2, <1>3, <1>5, <1>6 DEF ClockInv, Recent, ClockTypes
<1> QED BY <1>4, <1>7 DEF ClockInv

\* A query that is not answered passes to the next server, or to sleep, with
\* nothing left under way.
LEMMA NextServerKeeps ==
    ASSUME ClockInv, npc # "config", NextServer, faults' \in {faults, faults + 1},
           faults' <= MaxFaults, wifi' = wifi, UNCHANGED <<uptime, stored>>, flight' = {}, rx' = <<>>,
           wifi # "up" \/ server > 1 \/ faults' = faults + 1
    PROVE  ClockInv'
<1>1. UNCHANGED <<uptime, sync_unix, sync_base, synced>> /\ Age' = Age
  BY DEF stored, Age
<1>2. \/ npc' = "ask" /\ server' = server + 1 /\ server' \in 1 .. NTP_SERVERS
      \/ npc' = "sleep" /\ server' = 1 /\ 1 \in 1 .. NTP_SERVERS
  BY ClockAssumption DEF NextServer, ClockInv, ClockTypes
<1>3. ClockTypes' /\ OneQuery' /\ (npc \in {"config", "sleep"} => server = 1)'
  BY <1>1, <1>2 DEF ClockInv, ClockTypes, OneQuery
<1>4. synced => Age \in Nat /\ Age <= faults'
  BY DEF ClockInv, ClockTypes, Recent
<1>5. Recent'
  BY <1>1, <1>2, <1>4 DEF ClockInv, ClockTypes, Recent
<1> QED BY <1>3, <1>5 DEF ClockInv

\* ntp_task keeps the clock's invariant, if a reply cannot come later than
\* its query gives up.
LEMMA NtpKeepsClock ==
    ASSUME ~Late, ClockInv, NtpTask
    PROVE  ClockInv'
<1>1. wifi' = wifi /\ faults' \in {faults, faults + 1} /\ faults' <= MaxFaults
  BY FaultsStep DEF NtpTask, ClockInv, Next
<1> USE <1>1
<1>2. CASE ConfigUp
  BY <1>2 DEF ConfigUp, ClockInv, ClockTypes, OneQuery, Recent, stored
<1>3. CASE Ask(wifi = "up")
  <2>1. /\ npc = "ask" /\ npc' = "wait" /\ flight' = flight \cup {Now}
        /\ UNCHANGED <<server, rx, uptime, sync_unix, sync_base, synced>>
    BY <1>3 DEF Ask, stored
  <2>2. Now' = Now /\ Age' = Age /\ flight' = {Now} /\ rx' = <<>>
    BY <2>1 DEF Now, Age, ClockInv, OneQuery
  <2>3. synced => Age \in Nat
    BY DEF ClockInv, ClockTypes, Recent
  <2> QED BY <2>1, <2>2, <2>3 DEF ClockInv, ClockTypes, OneQuery, Recent
<1>4. CASE AskFails(wifi = "up")
  BY <1>4, NextServerKeeps DEF AskFails, ClockInv, OneQuery
<1>5. CASE Reply
  <2>1. flight = {Now} /\ rx = <<>> /\ npc = "wait"
    BY <1>5 DEF Reply, ClockInv, OneQuery
  <2>2. flight' = {} /\ rx' = <<Now>>
    BY <1>5, <2>1 DEF Reply
  <2>3. UNCHANGED <<npc, server, uptime, sync_unix, sync_base, synced>>
    BY <1>5 DEF Reply, stored
  <2>4. Now' = Now /\ Age' = Age
    BY <2>3 DEF Now, Age
  <2>5. synced => Age \in Nat
    BY DEF ClockInv, ClockTypes, Recent
  <2> QED BY <2>1, <2>2, <2>3, <2>4, <2>5 DEF ClockInv, ClockTypes, OneQuery, Recent
<1>6. CASE Sync
  <2>1. flight = {} /\ rx[1] = Now
    BY <1>6 DEF Sync, ClockInv, OneQuery
  <2>2. sync_unix' = Boot + uptime /\ uptime' = uptime /\ Age' = 0
    BY <1>6, <2>1, ClockAssumption DEF Sync, Now, Age, ClockInv, ClockTypes
  <2>3. sync_base' = uptime % Wrap /\ sync_base' \in Nat
    BY <1>6, ClockAssumption DEF Sync, now_ms, ClockInv, ClockTypes
  <2>4. /\ npc' = "sleep" /\ server' = 1 /\ 1 \in 1 .. NTP_SERVERS
        /\ flight' = {} /\ rx' = <<>> /\ synced' = TRUE
    BY <1>6, <2>1, ClockAssumption DEF Sync
  <2>5. uptime' - Age' = uptime /\ sync_unix' \in Nat
    BY <2>2, ClockAssumption DEF ClockInv, ClockTypes
  <2>6. Recent'
    <3>0. faults' \in Nat /\ uptime' \in Nat
      BY <2>2 DEF ClockInv, ClockTypes
    <3>1. Age' \in 0 .. uptime' /\ Age' <= faults'
      BY <2>2, <3>0
    <3>3. Age' <= faults' + 1
      <4>1. ASSUME NEW a \in Nat, NEW b \in Nat, a <= b PROVE a <= b + 1
        BY <4>1
      <4>2. Age' \in Nat
        BY <3>0, <3>1
      <4> QED BY <3>0, <3>1, <4>1, <4>2
    <3>2. sync_base' = (uptime' - Age') % Wrap
      BY <2>3, <2>5
    <3> QED BY <3>1, <3>2, <3>3, <2>4 DEF Recent
  <2> QED BY <2>2, <2>3, <2>4, <2>5, <2>6 DEF ClockInv, ClockTypes, OneQuery
<1>7. CASE faults' = faults + 1 /\ (BadReply \/ (wifi = "up" /\ TimedOut))
  <2>1. flight' = {} /\ rx' = <<>>
    BY <1>7 DEF BadReply, TimedOut, ClockInv, OneQuery
  <2> QED BY <1>7, <2>1, NextServerKeeps DEF BadReply, TimedOut
<1>8. CASE wifi # "up" /\ TimedOut
  <2>1. flight' = {} /\ rx' = <<>>
    BY <1>8 DEF TimedOut, ClockInv, OneQuery
  <2> QED BY <1>8, <2>1, NextServerKeeps DEF TimedOut
<1>9. CASE wifi = "up" /\ Sleep
  <2>1. /\ npc = "sleep" /\ npc' = "ask" /\ server = 1 /\ uptime' = uptime + 1
        /\ UNCHANGED <<server, flight, rx, sync_unix, sync_base, synced>>
    BY <1>9 DEF Sleep, stored, ClockInv
  <2>2. synced => Age \in Nat /\ Age' = Age + 1 /\ uptime' - Age' = uptime - Age
    BY <2>1, ClockAssumption DEF Age, ClockInv, ClockTypes, Recent
  <2>3. ClockTypes' /\ OneQuery'
    BY <2>1 DEF ClockInv, ClockTypes, OneQuery
  <2>4. faults' \in Nat /\ uptime' \in Nat /\ (synced => Age <= faults)
    BY <2>1 DEF ClockInv, ClockTypes, Recent
  <2>5. synced => Age' \in 0 .. uptime' /\ Age' <= faults' + 1 /\ sync_base' = (uptime' - Age') % Wrap
    <3>1. synced => Age <= uptime /\ sync_base = (uptime - Age) % Wrap
      BY DEF ClockInv, Recent, ClockTypes
    <3> QED BY <2>1, <2>2, <2>4, <3>1 DEF ClockInv, ClockTypes
  <2>6. wifi' = "up" /\ npc' = "ask" /\ server' = 1
    BY <1>9, <2>1
  <2>7. Recent'
    BY <2>1, <2>5, <2>6 DEF Recent
  <2> QED BY <2>1, <2>3, <2>7 DEF ClockInv
<1> QED BY <1>2, <1>3, <1>4, <1>5, <1>6, <1>7, <1>8, <1>9 DEF NtpTask, Fault

\* The clock's invariant is inductive.
LEMMA ClockHolds == ~Late /\ Spec => []ClockInv
<1>1. Init => ClockInv
  <2> SUFFICES ASSUME Init PROVE ClockInv
    OBVIOUS
  <2>1. /\ npc = "config" /\ server = 1 /\ 1 \in 1 .. NTP_SERVERS /\ uptime = 0 /\ faults = 0
        /\ sync_unix = 0 /\ sync_base = 0 /\ synced = FALSE /\ wifi = "connecting"
        /\ 0 <= MaxFaults
    BY FaultsAssumption, ClockAssumption DEF Init, ClockInit
  <2>2. OneQuery
    BY DEF Init, ClockInit, OneQuery
  <2> QED BY <2>1, <2>2 DEF ClockInv, ClockTypes, Recent
<1>2. ~Late /\ ClockInv /\ [Next]_vars => ClockInv'
  <2>1. ASSUME ClockInv, [Next]_vars PROVE UNCHANGED clockVars \/ NtpTask
    BY <2>1 DEF Next, WifiTask, ConnLost, VoiceTask, Server, vars
  <2> QED BY <2>1, OthersKeepClock, NtpKeepsClock
<1>3. CASE ~Late
  BY <1>1, <1>2, <1>3, PTL DEF Spec
<1>4. CASE Late
  BY <1>4
<1> QED BY <1>3, <1>4

\* The status bar shows the time.  No reply outlives its query (the runs show
\* what a late one does), and an answer comes before the uptime has gone all
\* the way round since the last: no more queries than that can fail in a row.
THEOREM ClockShowsTime ==
    ASSUME ~Late, MaxFaults + 1 < Wrap
    PROVE  Spec => []ClockRight
<1>1. ClockInv => ClockRight
  <2> SUFFICES ASSUME ClockInv, synced PROVE Shown = Now
    BY DEF ClockRight
  <2> DEFINE d == Age
             a == uptime - Age
  <2>1. Age \in Nat /\ Age < Wrap /\ uptime - Age \in Nat /\ Age <= uptime
    BY FaultsAssumption, ClockAssumption DEF ClockInv, ClockTypes, Recent
  <2>2. (((a + d) % Wrap) - (a % Wrap)) % Wrap = d
    <3> HIDE DEF a, d
    <3>1. a \in Nat /\ d \in 0 .. Wrap - 1 /\ Wrap \in Nat \ {0}
      BY <2>1, ClockAssumption DEF a, d
    <3> QED BY <3>1, ThroughWrap
  <2>3. a + d = uptime /\ sync_base = a % Wrap
    BY <2>1 DEF ClockInv, ClockTypes, Recent
  <2>4. (now_ms - sync_base) % Wrap = Age
    BY <2>2, <2>3 DEF now_ms
  <2> QED BY <2>4, ClockAssumption DEF Shown, Now, Age, ClockInv, ClockTypes
<1> QED BY <1>1, ClockHolds, PTL

-----------------------------------------------------------------------------
(* The client, and what a record of the flight makes of it.                *)

\* A sequence of something.
Listed(s) == s \in Seq(Range(s))

\* A sequence is one of whatever holds its elements.
LEMMA ListedIn ==
    ASSUME NEW s, Listed(s), NEW S, Range(s) \subseteq S
    PROVE  s \in Seq(S)
BY DEF Listed, Range

\* See ListedIn.
LEMMA InListed ==
    ASSUME NEW S, NEW s \in Seq(S)
    PROVE  Listed(s) /\ Range(s) \subseteq S
<1>1. Range(s) \subseteq S
  BY DEF Range
<1>2. s \in Seq(Range(s))
  BY DEF Range
<1> QED BY <1>1, <1>2 DEF Listed

\* Two sequences are sequences of something they share.
LEMMA ListedBoth ==
    ASSUME NEW s, NEW t, Listed(s), Listed(t)
    PROVE  /\ s \in Seq(Range(s) \cup Range(t)) /\ t \in Seq(Range(s) \cup Range(t))
           /\ Listed(s \o t)
<1>1. s \in Seq(Range(s) \cup Range(t)) /\ t \in Seq(Range(s) \cup Range(t))
  BY ListedIn
<1>2. s \o t \in Seq(Range(s) \cup Range(t))
  BY <1>1
<1> QED BY <1>1, <1>2, InListed

\* The fields of a TlsConnection.
IsClient(cl) ==
    /\ cl \in [state : States, secret : {cl.secret}, transcript : {cl.transcript},
              traffic_hash : {cl.traffic_hash}, ephemeral : {cl.ephemeral},
              request : BOOLEAN, w : {cl.w}, r : {cl.r}, err : Errors]
    /\ cl.w \in [key : {cl.w.key}, n : Nat]
    /\ cl.r \in [key : {cl.r.key}, n : Nat]

\* The clients that differ from this one in what the flight touches, which is
\* neither the keys nor the secrets.
Hearing(cl, S) ==
    [state : {cl.state, "ClientCert", "ClientFinished"}, secret : {cl.secret}, transcript : Seq(S),
     traffic_hash : Seq(S) \cup {cl.traffic_hash}, ephemeral : {cl.ephemeral},
     request : BOOLEAN, w : {cl.w}, r : {cl.r}, err : Errors]

\* A message leaves the client among them.
LEMMA HearStays ==
    ASSUME NEW cl, NEW S, NEW a \in Hearing(cl, S), NEW m \in S
    PROVE  Hear(a, m) \in Hearing(cl, S)
<1> DEFINE heard == Hashed(a, m)
<1>1. heard \in Hearing(cl, S) /\ heard.transcript \in Seq(S)
  BY DEF Hearing, Hashed
<1>2. ASSUME NEW e \in Errors, NEW b \in Hearing(cl, S) PROVE Failed(b, e) \in Hearing(cl, S)
  BY DEF Failed, Hearing
<1>3. /\ [heard EXCEPT !.request = TRUE] \in Hearing(cl, S)
      /\ [heard EXCEPT !.state = "ClientCert"] \in Hearing(cl, S)
      /\ [heard EXCEPT !.state = "ClientFinished", !.traffic_hash = heard.transcript] \in Hearing(cl, S)
  <2> HIDE DEF heard
  <2> QED BY <1>1 DEF Hearing
<1>4. "AbortHandshake" \in Errors /\ "InvalidSignature" \in Errors /\ "InvalidHandshake" \in Errors
  BY DEF Errors
<1> HIDE DEF heard
<1>5. Hear(a, m) \in {a, Failed(a, "AbortHandshake"), heard, Failed(heard, "InvalidSignature"),
                      Failed(heard, "InvalidHandshake"), [heard EXCEPT !.request = TRUE],
                      [heard EXCEPT !.state = "ClientCert"],
                      [heard EXCEPT !.state = "ClientFinished", !.traffic_hash = heard.transcript]}
  BY DEF Hear, heard
<1> QED BY <1>1, <1>2, <1>3, <1>4, <1>5

\* The clients a record of the flight makes, message by message.
Heard(g, cl, body) ==
    /\ g[0] = cl /\ g[Len(body)] = FoldLeft(Hear, cl, body)
    /\ \A i \in 1 .. Len(body) : g[i] = Hear(g[i - 1], body[i])

\* See Heard.
LEMMA HearTrace ==
    ASSUME NEW S, NEW cl, cl \in Hearing(cl, S), NEW body \in Seq(S)
    PROVE  \E g \in [ 0 .. Len(body) -> Hearing(cl, S) ] : Heard(g, cl, body)
<1> DEFINE A == Hearing(cl, S)
           n == Len(body)
           Rec(h) == [ s \in SUBSET (DOMAIN body) |->
                         IF s = {} THEN cl ELSE Hear(h[s \ {Max(s)}], body[Max(s)]) ]
           I == CHOOSE iter : iter = Rec(iter)
           step == [ p \in (1 .. n) \X A |-> Hear(p[2], body[p[1]]) ]
<1>1. FoldLeft(Hear, cl, body) = I[DOMAIN body]
  BY Zenon DEF FoldLeft, MapThenFoldSet
<1>2. n \in Nat /\ DOMAIN body = 1 .. n
  OBVIOUS
<1>3. step \in [ (1 .. n) \X A -> A ]
  <2>1. ASSUME NEW i \in 1 .. n, NEW a \in A PROVE Hear(a, body[i]) \in A
    <3>1. body[i] \in S
      BY <1>2
    <3> HIDE DEF A
    <3> QED BY <3>1, HearStays DEF A
  <2> QED BY <2>1
<1>4. PICK h \in [ SUBSET (1 .. n) -> A ] : Folds(h, cl, n, step)
  <2>1. cl \in A
    OBVIOUS
  <2> HIDE DEF step, A, n
  <2> QED BY <1>2, <1>3, <2>1, FoldExists
<1>5. h = Rec(h)
  <2>1. ASSUME NEW s \in SUBSET (1 .. n), s # {}
        PROVE  step[<<Max(s), h[s \ {Max(s)}]>>] = Hear(h[s \ {Max(s)}], body[Max(s)])
    <3>1. Max(s) \in 1 .. n
      <4> HIDE DEF n
      <4> QED BY <2>1, <1>2, MaxOf
    <3>2. h[s \ {Max(s)}] \in A
      BY <1>4
    <3> HIDE DEF A
    <3> QED BY <3>1, <3>2
  <2>2. ASSUME NEW s \in SUBSET (1 .. n)
        PROVE  h[s] = IF s = {} THEN cl ELSE Hear(h[s \ {Max(s)}], body[Max(s)])
    <3> HIDE DEF step, A, n
    <3> QED BY <1>4, <2>1 DEF Folds
  <2> HIDE DEF step, A, n
  <2> QED BY <1>2, <1>4, <2>2
<1>6. I = Rec(I)
  <2> HIDE DEF Rec
  <2> QED BY <1>5
<1>7. I[1 .. 0] = cl
  <2>1. 1 .. 0 = {}
    OBVIOUS
  <2>2. {} \in SUBSET (DOMAIN body)
    OBVIOUS
  <2> HIDE DEF I
  <2> QED BY <1>6, <2>1, <2>2
<1>8. ASSUME NEW i \in 1 .. n, I[1 .. (i - 1)] \in A
      PROVE  I[1 .. i] = step[<<i, I[1 .. (i - 1)]>>]
  <2> HIDE DEF I
  <2>1. 1 .. i \in SUBSET (DOMAIN body) /\ 1 .. i # {}
    BY <1>2
  <2>2. Max(1 .. i) = i
    <3>1. i \in Nat /\ i \in 1 .. i /\ 1 .. i \in SUBSET (1 .. i)
      BY <1>2
    <3>2. Max(1 .. i) \in 1 .. i /\ i <= Max(1 .. i)
      BY <3>1, MaxOf
    <3> QED BY <3>1, <3>2
  <2>3. (1 .. i) \ {i} = 1 .. (i - 1)
    BY <1>2
  <2>4. I[1 .. i] = Hear(I[(1 .. i) \ {i}], body[i])
    BY <1>6, <2>1, <2>2, Zenon
  <2> QED BY <1>8, <2>3, <2>4
<1>9. PICK g \in [ 0 .. n -> A ] : Traces(g, cl, I[1 .. n], n, step)
  <2>1. cl \in A
    OBVIOUS
  <2> HIDE DEF I, step, A, n
  <2>2. Follows(I, A, cl, n, step)
    BY <1>7, <1>8 DEF Follows
  <2> QED BY <1>2, <1>3, <2>1, <2>2, TraceOf
<1>10. ASSUME NEW i \in 1 .. n PROVE g[i] = Hear(g[i - 1], body[i])
  <2>1. i - 1 \in 0 .. n
    BY <1>2
  <2>2. g[i - 1] \in A
    BY <1>9, <2>1
  <2> HIDE DEF A, n, I
  <2> QED BY <1>9, <2>2 DEF Traces
<1>11. g[n] = FoldLeft(Hear, cl, body)
  BY <1>1, <1>2, <1>9 DEF Traces
<1> QED
  <2> HIDE DEF I, Rec
  <2> QED BY <1>9, <1>10, <1>11 DEF Traces, Heard

-----------------------------------------------------------------------------
(* No key encrypts two records under one number.                           *)

Handshaking == {"ServerVerify", "ClientCert", "ClientCertVerify", "ClientFinished"}

\* How far the key schedule is in each state of the handshake.
Stage ==
    /\ c.state = "ClientHello" => c = TlsNew
    /\ c.state = "ServerHello" =>
        /\ drawn > 0 /\ c.ephemeral = drawn
        /\ c.w.key = NoKey /\ c.secret = Derived(Extract(<<>>, Zero))
    /\ c.state \in Handshaking =>
        /\ drawn > 0 /\ c.secret = Derived(HandshakeSecret(drawn))
        /\ c.w.key.label = "c_hs_traffic" /\ c.w.key.secret = HandshakeSecret(drawn)
    /\ c.state = "ApplicationData" =>
        /\ drawn > 0
        /\ c.w.key.label = "c_ap_traffic" /\ c.w.key.secret = MasterSecret(drawn)

\* The draw of the secret that a traffic key is derived from.
Draw(key) == key.secret[3].ikm

\* A record was encrypted under a key of some connection so far, and if that
\* is the key in use, under a number behind its counter.
Spent(key, n) ==
    /\ key.label \in {"c_hs_traffic", "c_ap_traffic"} /\ Draw(key) \in 1 .. drawn /\ n \in Nat
    /\ key = c.w.key => n < c.w.n
    /\ Draw(key) = drawn =>
        /\ c.state # "ServerHello"
        /\ c.state \in Handshaking => key.label = "c_hs_traffic"

\* Everything the folds run over is a sequence.
Lists ==
    /\ Listed(c.transcript) /\ Listed(c.traffic_hash)
    /\ Listed(down) /\ \A i \in DOMAIN down : Listed(down[i].body)

SealedOnce ==
    /\ Listed(sealed) /\ NoNonceReuse
    /\ \A i \in DOMAIN sealed :
          /\ sealed[i] = <<sealed[i][1], sealed[i][2]>>
          /\ Spent(sealed[i][1], sealed[i][2])

NonceInv == IsClient(c) /\ drawn \in Nat /\ Lists /\ Stage /\ SealedOnce

\* The stages of the key schedule, and the draw they all stand on.
LEMMA Secrets ==
    ASSUME NEW share
    PROVE  /\ Extract(Derived(Extract(<<>>, Zero)), share) = HandshakeSecret(share)
           /\ Extract(Derived(HandshakeSecret(share)), Zero) = MasterSecret(share)
           /\ HandshakeSecret(share)[3].ikm = share /\ MasterSecret(share)[3].ikm = share
<1> DEFINE ext0 == [op |-> "extract", ikm |-> Zero]
           der == [op |-> "derived", ikm |-> Zero]
           ext == [op |-> "extract", ikm |-> share]
<1>1. ext.ikm = share
  OBVIOUS
<1> HIDE DEF ext0, der, ext
<1>2. Append(Append(Append(<<>>, ext0), der), ext) = <<ext0, der, ext>>
  <2>1. Append(<<>>, ext0) = <<ext0>>
    OBVIOUS
  <2>2. Append(<<ext0>>, der) = <<ext0, der>>
    BY PushedTo
  <2>3. Append(<<ext0, der>>, ext) = <<ext0, der, ext>>
    BY PushedTo
  <2> QED BY <2>1, <2>2, <2>3
<1>3. Append(Append(<<ext0, der, ext>>, der), ext0) = <<ext0, der, ext, der, ext0>>
  <2>1. Append(<<ext0, der, ext>>, der) = <<ext0, der, ext, der>>
    BY PushedTo
  <2>2. Append(<<ext0, der, ext, der>>, ext0) = <<ext0, der, ext, der, ext0>>
    BY PushedTo
  <2> QED BY <2>1, <2>2
<1>4. <<ext0, der, ext, der, ext0>>[3] = ext
  OBVIOUS
<1>5. /\ HandshakeSecret(share) = <<ext0, der, ext>>
      /\ MasterSecret(share) = <<ext0, der, ext, der, ext0>>
  BY DEF HandshakeSecret, MasterSecret, ext0, der, ext
<1>6. \A s : Extract(s, Zero) = Append(s, ext0) /\ Derived(s) = Append(s, der) /\ Extract(s, share) = Append(s, ext)
  BY DEF Extract, Derived, ext0, der, ext
<1>7. Extract(Derived(Extract(<<>>, Zero)), share) = HandshakeSecret(share)
  BY <1>2, <1>5, <1>6
<1>8. Extract(Derived(HandshakeSecret(share)), Zero) = MasterSecret(share)
  BY <1>3, <1>5, <1>6
<1> QED BY <1>1, <1>4, <1>5, <1>7, <1>8

\* One element more, and a new one, in a sequence without repetition.
LEMMA Longer ==
    ASSUME NEW s, Listed(s), NEW e
    PROVE  /\ Listed(Append(s, e)) /\ DOMAIN Append(s, e) = DOMAIN s \cup {Len(s) + 1}
           /\ Append(s, e)[Len(s) + 1] = e /\ \A i \in DOMAIN s : Append(s, e)[i] = s[i]
           /\ IsInjective(s) /\ e \notin Range(s) => IsInjective(Append(s, e))
<1>1. s \in Seq(Range(s) \cup {e})
  BY ListedIn
<1>2. Append(s, e) \in Seq(Range(s) \cup {e}) /\ Len(s) \in Nat /\ DOMAIN s = 1 .. Len(s)
  BY <1>1
<1>3. DOMAIN Append(s, e) = DOMAIN s \cup {Len(s) + 1}
  BY <1>1, <1>2
<1>4. Append(s, e)[Len(s) + 1] = e /\ \A i \in DOMAIN s : Append(s, e)[i] = s[i]
  BY <1>1
<1>5. ASSUME IsInjective(s), e \notin Range(s) PROVE IsInjective(Append(s, e))
  BY <1>3, <1>4, <1>5 DEF IsInjective, Range
<1> QED BY <1>2, <1>3, <1>4, <1>5, InListed

\* A function over 1 .. n is a sequence.
LEMMA Indexed ==
    ASSUME NEW n \in Nat, NEW s, s = [ i \in 1 .. n |-> s[i] ]
    PROVE  Listed(s) /\ Len(s) = n
<1>1. s \in Seq(Range(s))
  BY DEF Range
<1> QED BY <1>1 DEF Listed

-----------------------------------------------------------------------------
(* The fields of a client that counts, hashes or fails.                    *)

\* Respond counts.
LEMMA RespondFields ==
    ASSUME NEW cl, IsClient(cl)
    PROVE  LET d == Respond(cl) IN
           /\ IsClient(d) /\ d.w.key = cl.w.key /\ d.w.n = cl.w.n + 1
           /\ d.state = cl.state /\ d.secret = cl.secret /\ d.transcript = cl.transcript
           /\ d.traffic_hash = cl.traffic_hash /\ d.ephemeral = cl.ephemeral
           /\ d.request = cl.request /\ d.r = cl.r /\ d.err = cl.err
BY DEF IsClient, Respond, Bumped

\* Hashed adds to the transcript.
LEMMA HashedFields ==
    ASSUME NEW cl, IsClient(cl), NEW m
    PROVE  LET d == Hashed(cl, m) IN
           /\ IsClient(d) /\ d.transcript = Append(cl.transcript, m)
           /\ d.state = cl.state /\ d.secret = cl.secret
           /\ d.traffic_hash = cl.traffic_hash /\ d.ephemeral = cl.ephemeral
           /\ d.request = cl.request /\ d.w = cl.w /\ d.r = cl.r /\ d.err = cl.err
<1> DEFINE t == Append(cl.transcript, m)
<1>1. Hashed(cl, m) = [cl EXCEPT !.transcript = t]
  BY DEF Hashed
<1> HIDE DEF t
<1>2. LET d == [cl EXCEPT !.transcript = t] IN
      /\ IsClient(d) /\ d.transcript = t
      /\ d.state = cl.state /\ d.secret = cl.secret
      /\ d.traffic_hash = cl.traffic_hash /\ d.ephemeral = cl.ephemeral
      /\ d.request = cl.request /\ d.w = cl.w /\ d.r = cl.r /\ d.err = cl.err
  BY DEF IsClient
<1> QED BY <1>1, <1>2 DEF t

\* Failed says why.
LEMMA FailedFields ==
    ASSUME NEW cl, IsClient(cl), NEW e \in Errors
    PROVE  LET d == Failed(cl, e) IN
           /\ IsClient(d) /\ d.err = e
           /\ d.state = cl.state /\ d.secret = cl.secret /\ d.transcript = cl.transcript
           /\ d.traffic_hash = cl.traffic_hash /\ d.ephemeral = cl.ephemeral
           /\ d.request = cl.request /\ d.w = cl.w /\ d.r = cl.r
BY DEF IsClient, Failed

\* A client with new traffic keys: they count from zero.
Rekeyed(d, cl, a, b, s) ==
    /\ IsClient(d) /\ d.secret = Derived(s)
    /\ d.w = Fresh(Traffic(a, s, cl.transcript)) /\ d.r = Fresh(Traffic(b, s, cl.transcript))
    /\ d.state = cl.state /\ d.transcript = cl.transcript
    /\ d.traffic_hash = cl.traffic_hash /\ d.ephemeral = cl.ephemeral
    /\ d.request = cl.request /\ d.err = cl.err

\* See Rekeyed.
LEMMA TrafficFields ==
    ASSUME NEW cl, IsClient(cl), NEW a, NEW b, NEW ikm, NEW s, s = Extract(cl.secret, ikm)
    PROVE  Rekeyed(WithTraffic(cl, a, b, ikm), cl, a, b, s)
<1> DEFINE d == WithTraffic(cl, a, b, ikm)
<1> DEFINE w == Fresh(Traffic(a, s, cl.transcript))
           r == Fresh(Traffic(b, s, cl.transcript))
<1>1. w \in [key : {w.key}, n : Nat] /\ r \in [key : {r.key}, n : Nat]
  BY DEF Fresh
<1> DEFINE x == Derived(s)
<1>2. d = [cl EXCEPT !.w = w, !.r = r, !.secret = x]
  BY DEF WithTraffic
<1> HIDE DEF w, r, x, d
<1>3. /\ IsClient(d) /\ d.secret = x /\ d.w = w /\ d.r = r
      /\ d.state = cl.state /\ d.transcript = cl.transcript
      /\ d.traffic_hash = cl.traffic_hash /\ d.ephemeral = cl.ephemeral
      /\ d.request = cl.request /\ d.err = cl.err
  BY <1>1, <1>2 DEF IsClient
<1> QED BY <1>3 DEF w, r, x, d, Rekeyed

-----------------------------------------------------------------------------
(* The records encrypted so far, over the steps of the client.             *)

\* Nothing is encrypted: the records so far stay behind the counter.
LEMMA NoneSealed ==
    ASSUME NonceInv, sealed' = sealed, drawn' = drawn,
           c'.w.key = c.w.key, c'.w.n \in Nat, c'.w.n >= c.w.n,
           c'.state = c.state \/ (c.state \in Handshaking /\ c'.state \in Handshaking)
    PROVE  SealedOnce'
<1>1. c'.state # "ServerHello" \/ c.state = "ServerHello"
  BY DEF Handshaking
<1>2. ASSUME NEW i \in DOMAIN sealed PROVE Spent(sealed[i][1], sealed[i][2])'
  <2>1. Spent(sealed[i][1], sealed[i][2])
    BY DEF NonceInv, SealedOnce
  <2>2. c.w.n \in Nat
    BY DEF NonceInv, IsClient
  <2> QED BY <1>1, <2>1, <2>2 DEF Spent
<1> QED BY <1>2 DEF NonceInv, SealedOnce, NoNonceReuse

\* A record is encrypted under the key in use and its counter, and the counter
\* moves on, or the handshake is over and another key counts from zero.
LEMMA OneSealed ==
    ASSUME NonceInv, sealed' = Append(sealed, <<c.w.key, c.w.n>>), drawn' = drawn,
           c.state \in Handshaking \cup {"ApplicationData"}, c'.w.n \in Nat,
           \/ /\ c'.w.key = c.w.key /\ c'.w.n = c.w.n + 1
              /\ c'.state = c.state \/ (c.state \in Handshaking /\ c'.state \in Handshaking)
           \/ /\ c.state \in Handshaking /\ c'.state = "ApplicationData"
              /\ c'.w.key.label = "c_ap_traffic" /\ Draw(c'.w.key) = drawn
    PROVE  SealedOnce'
<1>0. PICK key, n : key = c.w.key /\ n = c.w.n
  OBVIOUS
<1> DEFINE pair == <<key, n>>
<1>1. /\ key.label \in {"c_hs_traffic", "c_ap_traffic"} /\ Draw(key) = drawn
      /\ n \in Nat /\ drawn \in Nat /\ drawn \in 1 .. drawn
      /\ c.state \in Handshaking => key.label = "c_hs_traffic"
  BY <1>0, Secrets DEF NonceInv, Stage, Draw, IsClient
<1>2. pair \notin Range(sealed)
  <2>1. ASSUME NEW i \in DOMAIN sealed PROVE sealed[i] # pair
    <3>1. Spent(sealed[i][1], sealed[i][2]) /\ sealed[i] = <<sealed[i][1], sealed[i][2]>>
      BY DEF NonceInv, SealedOnce
    <3>2. sealed[i][1] = key => sealed[i][2] \in Nat /\ sealed[i][2] < n
      BY <1>0, <3>1 DEF Spent
    <3> QED BY <1>1, <3>1, <3>2
  <2> QED BY <2>1 DEF Range
<1>3. /\ Listed(sealed') /\ DOMAIN sealed' = DOMAIN sealed \cup {Len(sealed) + 1}
      /\ sealed'[Len(sealed) + 1] = pair /\ \A i \in DOMAIN sealed : sealed'[i] = sealed[i]
      /\ IsInjective(sealed')
  BY <1>0, <1>2, Longer DEF NonceInv, SealedOnce, NoNonceReuse
<1>4. c'.state # "ServerHello" /\ (c'.state \in Handshaking => c.state \in Handshaking)
  BY DEF Handshaking
<1>5. Spent(key, n)'
  <2>1. c'.w.key = key => n < c'.w.n
    BY <1>0, <1>1
  <2> QED BY <1>1, <1>4, <2>1 DEF Spent, Draw
<1>6. ASSUME NEW k, NEW m, Spent(k, m) PROVE Spent(k, m)'
  <2>1. k = c'.w.key => m < c'.w.n
    <3>1. CASE c'.w.key = c.w.key /\ c'.w.n = c.w.n + 1
      BY <1>0, <1>1, <1>6, <3>1 DEF Spent
    <3>2. CASE c.state \in Handshaking /\ c'.w.key.label = "c_ap_traffic" /\ Draw(c'.w.key) = drawn
      BY <1>6, <3>2 DEF Spent
    <3> QED BY <3>1, <3>2
  <2>2. c.state # "ServerHello"
    BY DEF Handshaking
  <2> QED BY <1>4, <1>6, <2>1, <2>2 DEF Spent, Draw
<1>7. ASSUME NEW i \in DOMAIN sealed'
      PROVE  (sealed[i] = <<sealed[i][1], sealed[i][2]>> /\ Spent(sealed[i][1], sealed[i][2]))'
  <2>1. CASE i \in DOMAIN sealed
    <3>1. sealed'[i] = sealed[i]
      BY <1>3, <2>1
    <3>2. PICK k, m : k = sealed[i][1] /\ m = sealed[i][2] /\ sealed[i] = <<k, m>> /\ Spent(k, m)
      BY <2>1 DEF NonceInv, SealedOnce
    <3>3. sealed'[i] = <<k, m>> /\ Spent(k, m)'
      BY <1>6, <3>1, <3>2
    <3> QED BY <3>3
  <2>2. CASE i = Len(sealed) + 1
    BY <1>3, <1>5, <2>2
  <2> QED BY <1>3, <2>1, <2>2
<1> QED BY <1>3, <1>7 DEF SealedOnce, NoNonceReuse

-----------------------------------------------------------------------------
(* The steps of the client.                                                *)

\* What a record of the flight leaves alone.
LEMMA HeardKeeps ==
    ASSUME IsClient(c), Listed(c.transcript), Listed(c.traffic_hash), NEW body, Listed(body)
    PROVE  LET d == FoldLeft(Hear, c, body) IN
           /\ IsClient(d) /\ d.secret = c.secret /\ d.ephemeral = c.ephemeral
           /\ d.w = c.w /\ d.r = c.r
           /\ d.state \in {c.state, "ClientCert", "ClientFinished"}
           /\ Listed(d.transcript) /\ Listed(d.traffic_hash)
<1> DEFINE S == Range(c.transcript) \cup Range(body)
           d == FoldLeft(Hear, c, body)
<1>1. c.transcript \in Seq(S) /\ body \in Seq(S)
  BY ListedBoth
<1> HIDE DEF S
<1>2. c \in Hearing(c, S)
  BY <1>1 DEF IsClient, Hearing
<1>3. PICK g \in [ 0 .. Len(body) -> Hearing(c, S) ] : Heard(g, c, body)
  BY <1>1, <1>2, HearTrace
<1>4. d \in Hearing(c, S)
  <2>1. Len(body) \in Nat
    BY <1>1
  <2>2. Len(body) \in 0 .. Len(body)
    BY <2>1
  <2> QED BY <1>3, <2>2 DEF Heard
<1> HIDE DEF d
<1>5. /\ d.secret = c.secret /\ d.ephemeral = c.ephemeral /\ d.w = c.w /\ d.r = c.r
      /\ d.state \in {c.state, "ClientCert", "ClientFinished"}
      /\ d.transcript \in Seq(S) /\ d.traffic_hash \in Seq(S) \cup {c.traffic_hash}
  BY <1>4 DEF Hearing
<1>6. IsClient(d)
  BY <1>4 DEF Hearing, IsClient, States
<1>7. Listed(d.transcript) /\ Listed(d.traffic_hash)
  BY <1>5, InListed
<1> QED BY <1>5, <1>6, <1>7 DEF d

\* What the server's reply to ClientHello makes of the client.
LEMMA AfterServerHelloKeeps ==
    ASSUME NonceInv, c.state = "ServerHello", NEW record
    PROVE  LET d == AfterServerHello(record) IN
           /\ IsClient(d) /\ Listed(d.transcript) /\ Listed(d.traffic_hash)
           /\ \/ /\ d.state = "ServerHello" /\ d.w = c.w /\ d.r = c.r
                 /\ d.secret = c.secret /\ d.ephemeral = c.ephemeral
                 /\ d.err \in {"HandshakeAborted", "InvalidRecord"}
              \/ /\ d.state = "ServerVerify" /\ d.secret = Derived(HandshakeSecret(drawn))
                 /\ d.w.key.label = "c_hs_traffic" /\ d.w.key.secret = HandshakeSecret(drawn)
                 /\ d.w.n = 0 /\ d.err = c.err
<1> DEFINE d == AfterServerHello(record)
           heard == Hashed(c, Head(record.body))
           t == WithTraffic(heard, "c_hs_traffic", "s_hs_traffic", c.ephemeral)
<1>0. /\ IsClient(c) /\ Listed(c.transcript) /\ Listed(c.traffic_hash) /\ drawn \in Nat /\ drawn > 0
      /\ c.ephemeral = drawn /\ c.secret = Derived(Extract(<<>>, Zero))
  BY DEF NonceInv, Stage, Lists
<1>1. CASE d = Failed(c, "HandshakeAborted") \/ d = Failed(c, "InvalidRecord")
  <2>1. "HandshakeAborted" \in Errors /\ "InvalidRecord" \in Errors
    BY DEF Errors
  <2> HIDE DEF d
  <2>2. PICK e \in {"HandshakeAborted", "InvalidRecord"} : d = Failed(c, e)
    BY <1>1
  <2> QED BY <1>0, <2>1, <2>2, FailedFields DEF d
<1>2. CASE d = [t EXCEPT !.state = "ServerVerify", !.ephemeral = NoSecret]
  <2>1. IsClient(heard) /\ heard.secret = c.secret /\ heard.traffic_hash = c.traffic_hash
        /\ heard.transcript = Append(c.transcript, Head(record.body)) /\ heard.err = c.err
    BY <1>0, HashedFields
  <2> HIDE DEF heard
  <2>2. Listed(heard.transcript) /\ Listed(heard.traffic_hash)
    BY <1>0, <2>1, Longer
  <2>6. PICK s : s = Extract(heard.secret, c.ephemeral)
    OBVIOUS
  <2>8. Rekeyed(t, heard, "c_hs_traffic", "s_hs_traffic", s)
    BY <2>1, <2>6, TrafficFields
  <2>7. s = HandshakeSecret(drawn)
    BY <1>0, <2>1, <2>6, Secrets
  <2> HIDE DEF t
  <2>3. /\ IsClient(t) /\ t.secret = Derived(HandshakeSecret(drawn))
        /\ t.w = Fresh(Traffic("c_hs_traffic", HandshakeSecret(drawn), heard.transcript))
        /\ t.transcript = heard.transcript /\ t.traffic_hash = heard.traffic_hash /\ t.err = c.err
    BY <2>1, <2>7, <2>8 DEF Rekeyed
  <2>4. t.w.key.label = "c_hs_traffic" /\ t.w.key.secret = HandshakeSecret(drawn) /\ t.w.n = 0
    BY <2>3 DEF Fresh, Traffic
  <2>5. /\ IsClient(d) /\ d.state = "ServerVerify" /\ d.secret = t.secret /\ d.w = t.w /\ d.err = t.err
        /\ d.transcript = t.transcript /\ d.traffic_hash = t.traffic_hash
    BY <1>2, <2>3 DEF IsClient, States
  <2> HIDE DEF d
  <2> QED BY <2>2, <2>3, <2>4, <2>5 DEF d
<1>3. \/ d = Failed(c, "HandshakeAborted") \/ d = Failed(c, "InvalidRecord")
      \/ d = [t EXCEPT !.state = "ServerVerify", !.ephemeral = NoSecret]
  BY DEF AfterServerHello
<1> QED BY <1>1, <1>2, <1>3

\* What a record makes of the client that waits for the flight.
LEMMA AfterServerVerifyKeeps ==
    ASSUME NonceInv, c.state = "ServerVerify", NEW record, Listed(record.body)
    PROVE  LET d == AfterServerVerify(record) IN
           /\ IsClient(d) /\ Listed(d.transcript) /\ Listed(d.traffic_hash)
           /\ d.secret = c.secret /\ d.w = c.w /\ d.state \in Handshaking
<1> DEFINE d == AfterServerVerify(record)
           heard == FoldLeft(Hear, c, record.body)
<1>0. IsClient(c) /\ Listed(c.transcript) /\ Listed(c.traffic_hash) /\ c.state \in Handshaking
  BY DEF NonceInv, Lists, Handshaking
<1>1. CASE d = c
  <2> HIDE DEF d
  <2> QED BY <1>0, <1>1 DEF d
<1>2. CASE d = Failed(c, "InvalidRecord") \/ d = Failed(c, "CryptoError")
  <2>1. "CryptoError" \in Errors /\ "InvalidRecord" \in Errors
    BY DEF Errors
  <2> HIDE DEF d
  <2>2. PICK e \in {"CryptoError", "InvalidRecord"} : d = Failed(c, e)
    BY <1>2
  <2> QED BY <1>0, <2>1, <2>2, FailedFields DEF d
<1>3. CASE d = heard \/ d = [heard EXCEPT !.r = Bumped(@)]
  <2>1. /\ IsClient(heard) /\ heard.secret = c.secret /\ heard.w = c.w
        /\ heard.state \in {c.state, "ClientCert", "ClientFinished"}
        /\ Listed(heard.transcript) /\ Listed(heard.traffic_hash)
    BY <1>0, HeardKeeps
  <2> HIDE DEF heard, d
  <2>2. /\ IsClient(d) /\ d.secret = heard.secret /\ d.w = heard.w /\ d.state = heard.state
        /\ d.transcript = heard.transcript /\ d.traffic_hash = heard.traffic_hash
    BY <1>3, <2>1 DEF IsClient, Bumped
  <2>3. d.state \in Handshaking
    BY <2>1, <2>2 DEF Handshaking
  <2> QED BY <2>1, <2>2, <2>3 DEF d
<1>4. \/ d = c \/ d = Failed(c, "InvalidRecord") \/ d = Failed(c, "CryptoError")
      \/ d = heard \/ d = [heard EXCEPT !.r = Bumped(@)]
  BY DEF AfterServerVerify
<1> QED BY <1>1, <1>2, <1>3, <1>4

\* The rest of a sequence, and a longer one, of records whose bodies are
\* sequences.
LEMMA RecordsListed ==
    ASSUME NEW s, Listed(s), \A i \in DOMAIN s : Listed(s[i].body)
    PROVE  /\ s # <<>> =>
                /\ Listed(Head(s).body) /\ Listed(Tail(s))
                /\ \A i \in DOMAIN Tail(s) : Listed(Tail(s)[i].body)
           /\ \A r : Listed(r.body) =>
                /\ Listed(Append(s, r))
                /\ \A i \in DOMAIN Append(s, r) : Listed(Append(s, r)[i].body)
<1> DEFINE S == Range(s)
<1>1. s \in Seq(S) /\ Len(s) \in Nat
  BY DEF Listed
<1>2. ASSUME s # <<>>
      PROVE  /\ Listed(Head(s).body) /\ Listed(Tail(s))
             /\ \A i \in DOMAIN Tail(s) : Listed(Tail(s)[i].body)
  <2> HIDE DEF S
  <2>1. Head(s) = s[1] /\ 1 \in DOMAIN s
    BY <1>1, <1>2
  <2>2. Tail(s) \in Seq(S) /\ DOMAIN Tail(s) = 1 .. Len(s) - 1
    BY <1>1, <1>2
  <2>3. ASSUME NEW i \in DOMAIN Tail(s) PROVE Tail(s)[i] = s[i + 1] /\ i + 1 \in DOMAIN s
    BY <1>1, <1>2, <2>2
  <2> QED BY <2>1, <2>2, <2>3, InListed
<1>3. ASSUME NEW r, Listed(r.body)
      PROVE  /\ Listed(Append(s, r))
             /\ \A i \in DOMAIN Append(s, r) : Listed(Append(s, r)[i].body)
  BY <1>3, Longer
<1> QED BY <1>2, <1>3

\* A client that is made anew, or that says hello.
LEMMA ConnectNonce == NonceInv /\ Connect => NonceInv'
<1> SUFFICES ASSUME NonceInv, Connect PROVE NonceInv'
  OBVIOUS
<1>1. c' = TlsNew /\ UNCHANGED <<down, drawn, sealed>>
  BY DEF Connect
<1>2. c'.state = "ClientHello" /\ c'.w.key = NoKey /\ c'.transcript = <<>> /\ c'.traffic_hash = <<>>
  BY <1>1 DEF TlsNew, Fresh
<1>3. IsClient(c')
  BY <1>1 DEF IsClient, TlsNew, Fresh, States, Errors
<1>4. Lists'
  <2>1. Listed(<<>>)
    BY DEF Listed, Range
  <2> QED BY <1>1, <1>2, <2>1 DEF NonceInv, Lists
<1>5. Stage'
  BY <1>1, <1>2 DEF Stage, Handshaking
<1>6. ASSUME NEW k, NEW m, Spent(k, m) PROVE Spent(k, m)'
  <2>1. k # NoKey
    BY <1>6 DEF Spent, NoKey
  <2> QED BY <1>1, <1>2, <1>6, <2>1 DEF Spent, Draw, Handshaking
<1>7. SealedOnce'
  BY <1>1, <1>6 DEF NonceInv, SealedOnce, NoNonceReuse
<1> QED BY <1>1, <1>3, <1>4, <1>5, <1>7 DEF NonceInv

\* ClientHello draws a secret that no key is derived from yet.
LEMMA ClientHelloNonce == NonceInv /\ ClientHello => NonceInv'
<1> SUFFICES ASSUME NonceInv, ClientHello PROVE NonceInv'
  OBVIOUS
<1> DEFINE hello == Hello("ClientHello", drawn')
           early == [c EXCEPT !.secret = Derived(Extract(@, Zero)),
                              !.ephemeral = drawn', !.state = "ServerHello"]
           said == Hashed(early, hello)
<1>1. /\ c = TlsNew /\ drawn' = drawn + 1 /\ drawn \in Nat /\ down' = down
      /\ c' = Respond(said) /\ Sends(Plain("handshake", <<hello>>))
  BY DEF ClientHello, Working, NonceInv, Stage
<1>2. sealed' = sealed
  BY <1>1 DEF Sends, Plain
<1>3. /\ IsClient(early) /\ early.state = "ServerHello" /\ early.ephemeral = drawn'
      /\ early.secret = Derived(Extract(<<>>, Zero)) /\ early.w.key = NoKey
      /\ early.transcript = <<>> /\ early.traffic_hash = <<>>
  <2>1. IsClient(c) /\ c.w.key = NoKey /\ c.secret = <<>> /\ c.transcript = <<>> /\ c.traffic_hash = <<>>
    BY <1>1 DEF NonceInv, TlsNew, Fresh
  <2>2. PICK x : x = Derived(Extract(<<>>, Zero))
    OBVIOUS
  <2>3. early = [c EXCEPT !.secret = x, !.ephemeral = drawn', !.state = "ServerHello"]
    BY <2>1, <2>2
  <2> HIDE DEF early
  <2> QED BY <2>1, <2>2, <2>3 DEF IsClient, States
<1> HIDE DEF early, hello
<1>4. /\ IsClient(said) /\ said.state = "ServerHello" /\ said.ephemeral = drawn'
      /\ said.secret = Derived(Extract(<<>>, Zero)) /\ said.w.key = NoKey
      /\ said.transcript = Append(<<>>, hello) /\ said.traffic_hash = <<>>
  BY <1>3, HashedFields
<1> HIDE DEF said
<1>5. /\ IsClient(c') /\ c'.state = "ServerHello" /\ c'.ephemeral = drawn'
      /\ c'.secret = Derived(Extract(<<>>, Zero)) /\ c'.w.key = NoKey
      /\ c'.transcript = Append(<<>>, hello) /\ c'.traffic_hash = <<>>
  BY <1>1, <1>4, RespondFields
<1>6. Lists'
  <2>1. Listed(<<>>)
    BY DEF Listed, Range
  <2>2. Listed(Append(<<>>, hello))
    BY <2>1, Longer
  <2> QED BY <1>1, <1>5, <2>1, <2>2 DEF NonceInv, Lists
<1>7. Stage'
  BY <1>1, <1>5 DEF Stage, Handshaking
<1>8. ASSUME NEW k, NEW m, Spent(k, m) PROVE Spent(k, m)'
  <2>1. k # NoKey
    BY <1>8 DEF Spent, NoKey
  <2>2. Draw(k) \in 1 .. drawn' /\ Draw(k) # drawn'
    BY <1>1, <1>8 DEF Spent
  <2> QED BY <1>5, <1>8, <2>1, <2>2 DEF Spent, Draw
<1>9. SealedOnce'
  BY <1>2, <1>8 DEF NonceInv, SealedOnce, NoNonceReuse
<1> QED BY <1>1, <1>5, <1>6, <1>7, <1>9 DEF NonceInv

\* The record that aborts, and what is not one.
LEMMA ReadHandshakeNonce == NonceInv /\ ReadHandshake => NonceInv'
<1> SUFFICES ASSUME NonceInv, ReadHandshake PROVE NonceInv'
  OBVIOUS
<1> DEFINE record == Head(down)
<1>1. down # <<>> /\ down' = Tail(down) /\ drawn' = drawn /\ c.err = "none"
  BY DEF ReadHandshake, Working
<1>2. PICK after :
        /\ after = IF c.state = "ServerHello" THEN AfterServerHello(record) ELSE AfterServerVerify(record)
        /\ c.state \in {"ServerHello", "ServerVerify"}
        /\ \/ /\ after.err = "AbortHandshake" /\ c' = Respond(after)
              /\ Sends([Plain("change_cipher_spec", <<Message("Alert")>>) EXCEPT !.inner = "alert"])
           \/ c' = after /\ after.err # "AbortHandshake" /\ sealed' = sealed
           \/ c' = after /\ sealed' = sealed
  BY DEF ReadHandshake, Working
<1>3. sealed' = sealed
  BY <1>2 DEF Sends, Plain
<1>4. /\ Listed(record.body) /\ Listed(down') /\ \A i \in DOMAIN down' : Listed(down'[i].body)
      /\ IsClient(c) /\ drawn \in Nat
  <2>1. Listed(down) /\ \A i \in DOMAIN down : Listed(down[i].body)
    BY DEF NonceInv, Lists
  <2> QED BY <1>1, <2>1, RecordsListed DEF NonceInv
<1> HIDE DEF record
<1>5. CASE c.state = "ServerVerify"
  <2>1. /\ IsClient(after) /\ Listed(after.transcript) /\ Listed(after.traffic_hash)
        /\ after.secret = c.secret /\ after.w = c.w /\ after.state \in Handshaking
    BY <1>2, <1>4, <1>5, AfterServerVerifyKeeps
  <2>2. /\ IsClient(c') /\ c'.transcript = after.transcript /\ c'.traffic_hash = after.traffic_hash
        /\ c'.secret = c.secret /\ c'.w.key = c.w.key /\ c'.state \in Handshaking
        /\ c'.w.n \in Nat /\ c'.w.n >= c.w.n
    <3>1. CASE c' = after
      BY <1>4, <2>1, <3>1 DEF IsClient
    <3>2. CASE c' = Respond(after)
      <4>1. /\ IsClient(c') /\ c'.transcript = after.transcript /\ c'.traffic_hash = after.traffic_hash
            /\ c'.secret = after.secret /\ c'.w.key = after.w.key /\ c'.state = after.state
            /\ c'.w.n = after.w.n + 1
        BY <2>1, <3>2, RespondFields
      <4>2. c.w.n \in Nat
        BY <1>4 DEF IsClient
      <4> QED BY <2>1, <4>1, <4>2
    <3> QED BY <1>2, <3>1, <3>2
  <2>3. c.state \in Handshaking
    BY <1>5 DEF Handshaking
  <2>4. SealedOnce'
    BY <1>1, <1>3, <2>2, <2>3, NoneSealed
  <2>5. Stage'
    BY <1>1, <2>2, <2>3 DEF NonceInv, Stage, Handshaking
  <2>6. Lists'
    BY <1>4, <2>1, <2>2 DEF Lists
  <2> QED BY <1>1, <1>4, <2>2, <2>4, <2>5, <2>6 DEF NonceInv
<1>6. CASE c.state = "ServerHello"
  <2>1. /\ IsClient(after) /\ Listed(after.transcript) /\ Listed(after.traffic_hash)
        /\ \/ /\ after.state = "ServerHello" /\ after.w = c.w /\ after.r = c.r
              /\ after.secret = c.secret /\ after.ephemeral = c.ephemeral
              /\ after.err \in {"HandshakeAborted", "InvalidRecord"}
           \/ /\ after.state = "ServerVerify" /\ after.secret = Derived(HandshakeSecret(drawn))
              /\ after.w.key.label = "c_hs_traffic" /\ after.w.key.secret = HandshakeSecret(drawn)
              /\ after.w.n = 0 /\ after.err = c.err
    BY <1>2, <1>6, AfterServerHelloKeeps
  <2>2. c' = after
    BY <1>1, <1>2, <2>1
  <2>3. drawn > 0 /\ c.ephemeral = drawn /\ c.w.key = NoKey /\ c.secret = Derived(Extract(<<>>, Zero))
    BY <1>6 DEF NonceInv, Stage
  <2>4. Stage'
    BY <1>1, <2>1, <2>2, <2>3 DEF Stage, Handshaking
  <2>5. Lists'
    BY <1>4, <2>1, <2>2 DEF Lists
  <2>6. ASSUME NEW k, NEW m, Spent(k, m) PROVE Spent(k, m)'
    <3>1. Draw(k) # drawn /\ k.label \in {"c_hs_traffic", "c_ap_traffic"}
      BY <1>6, <2>6 DEF Spent
    <3>2. k # c'.w.key
      <4>1. CASE after.state = "ServerHello"
        BY <2>1, <2>2, <2>3, <3>1, <4>1 DEF NoKey
      <4>2. CASE after.state = "ServerVerify"
        <5>1. Draw(c'.w.key) = drawn
          BY <2>1, <2>2, <4>2, Secrets DEF Draw
        <5> QED BY <3>1, <5>1
      <4> QED BY <2>1, <4>1, <4>2
    <3> QED BY <1>1, <2>6, <3>1, <3>2 DEF Spent
  <2>7. SealedOnce'
    BY <1>3, <2>6 DEF NonceInv, SealedOnce, NoNonceReuse
  <2> QED BY <1>1, <1>4, <2>1, <2>2, <2>4, <2>5, <2>7 DEF NonceInv
<1> QED BY <1>2, <1>5, <1>6

\* What is encrypted, is told in the history.
LEMMA Encrypts ==
    ASSUME NonceInv, c.state \in Handshaking \cup {"ApplicationData"},
           NEW inner, NEW body, Sends(Cipher(c.w, inner, body))
    PROVE  sealed' = Append(sealed, <<c.w.key, c.w.n>>)
<1>1. c.w.key # NoKey
  BY DEF NonceInv, Stage, NoKey
<1> QED BY <1>1 DEF Sends, Cipher

\* The certificate of the client, or that it has none.
LEMMA ClientCertNonce == NonceInv /\ ClientCert => NonceInv'
<1> SUFFICES ASSUME NonceInv, ClientCert PROVE NonceInv'
  OBVIOUS
<1>1. c.state = "ClientCert" /\ down' = down /\ drawn' = drawn
  BY DEF ClientCert, Working
<1>2. c.state \in Handshaking
  BY <1>1 DEF Handshaking
<1>3. sealed' = Append(sealed, <<c.w.key, c.w.n>>)
  BY <1>2, Encrypts DEF ClientCert
<1>4. PICK next \in {"ClientCertVerify", "ClientFinished"} :
        c' = Respond(Hashed([c EXCEPT !.traffic_hash = c.transcript, !.state = next], Message("Certificate")))
  BY DEF ClientCert
<1> DEFINE saved == [c EXCEPT !.traffic_hash = c.transcript, !.state = next]
           said == Hashed(saved, Message("Certificate"))
<1>5. IsClient(c) /\ Listed(c.transcript) /\ drawn \in Nat
  BY DEF NonceInv, Lists
<1>6. /\ IsClient(saved) /\ saved.transcript = c.transcript /\ saved.traffic_hash = c.transcript
      /\ saved.state = next /\ saved.w = c.w /\ saved.secret = c.secret
  BY <1>5 DEF IsClient, States
<1> HIDE DEF saved
<1>7. /\ IsClient(said) /\ said.transcript = Append(c.transcript, Message("Certificate"))
      /\ said.traffic_hash = c.transcript
      /\ said.state = next /\ said.w = c.w /\ said.secret = c.secret
  BY <1>6, HashedFields
<1> HIDE DEF said
<1>8. /\ IsClient(c') /\ c'.transcript = Append(c.transcript, Message("Certificate"))
      /\ c'.traffic_hash = c.transcript /\ c'.state = next
      /\ c'.w.key = c.w.key /\ c'.w.n = c.w.n + 1 /\ c'.secret = c.secret
  BY <1>4, <1>7, RespondFields DEF said, saved
<1>9. c'.state \in Handshaking /\ c'.w.n \in Nat
  BY <1>8 DEF Handshaking, IsClient
<1>10. SealedOnce'
  BY <1>1, <1>2, <1>3, <1>8, <1>9, OneSealed
<1>11. Stage'
  BY <1>1, <1>2, <1>8, <1>9 DEF NonceInv, Stage, Handshaking
<1>12. Lists'
  <2>1. Listed(c'.transcript) /\ Listed(c'.traffic_hash)
    BY <1>5, <1>8, Longer
  <2> QED BY <1>1, <2>1 DEF NonceInv, Lists
<1> QED BY <1>1, <1>5, <1>8, <1>10, <1>11, <1>12 DEF NonceInv

\* Its signature, or the alert of a client that cannot sign.
LEMMA ClientCertVerifyNonce == NonceInv /\ ClientCertVerify => NonceInv'
<1> SUFFICES ASSUME NonceInv, ClientCertVerify PROVE NonceInv'
  OBVIOUS
<1>1. c.state = "ClientCertVerify" /\ down' = down /\ drawn' = drawn
  BY DEF ClientCertVerify, Working
<1>2. c.state \in Handshaking
  BY <1>1 DEF Handshaking
<1>3. sealed' = Append(sealed, <<c.w.key, c.w.n>>)
  BY <1>2, Encrypts DEF ClientCertVerify
<1>4. \/ c' = Respond(Hashed([c EXCEPT !.state = "ClientFinished"], Message("CertificateVerify")))
      \/ c' = Failed(Respond(c), "NoSigner")
  BY DEF ClientCertVerify
<1>5. IsClient(c) /\ Listed(c.transcript) /\ Listed(c.traffic_hash) /\ drawn \in Nat
  BY DEF NonceInv, Lists
<1>6. /\ IsClient(c') /\ Listed(c'.transcript) /\ Listed(c'.traffic_hash)
      /\ c'.w.key = c.w.key /\ c'.w.n = c.w.n + 1 /\ c'.secret = c.secret
      /\ c'.state \in {"ClientCertVerify", "ClientFinished"}
  <2>1. CASE c' = Failed(Respond(c), "NoSigner")
    <3> DEFINE counted == Respond(c)
    <3>1. /\ IsClient(counted) /\ counted.transcript = c.transcript /\ counted.traffic_hash = c.traffic_hash
          /\ counted.w.key = c.w.key /\ counted.w.n = c.w.n + 1 /\ counted.secret = c.secret
          /\ counted.state = c.state
      BY <1>5, RespondFields
    <3>2. "NoSigner" \in Errors
      BY DEF Errors
    <3> HIDE DEF counted
    <3>3. /\ IsClient(c') /\ c'.transcript = counted.transcript /\ c'.traffic_hash = counted.traffic_hash
          /\ c'.w = counted.w /\ c'.secret = counted.secret /\ c'.state = counted.state
      BY <2>1, <3>1, <3>2, FailedFields DEF counted
    <3> QED BY <1>1, <1>5, <3>1, <3>3
  <2>2. CASE c' = Respond(Hashed([c EXCEPT !.state = "ClientFinished"], Message("CertificateVerify")))
    <3> DEFINE next == [c EXCEPT !.state = "ClientFinished"]
               said == Hashed(next, Message("CertificateVerify"))
    <3>1. /\ IsClient(next) /\ next.transcript = c.transcript /\ next.traffic_hash = c.traffic_hash
          /\ next.state = "ClientFinished" /\ next.w = c.w /\ next.secret = c.secret
      BY <1>5 DEF IsClient, States
    <3> HIDE DEF next
    <3>2. /\ IsClient(said) /\ said.transcript = Append(c.transcript, Message("CertificateVerify"))
          /\ said.traffic_hash = c.traffic_hash
          /\ said.state = "ClientFinished" /\ said.w = c.w /\ said.secret = c.secret
      BY <3>1, HashedFields
    <3> HIDE DEF said
    <3>3. /\ IsClient(c') /\ c'.transcript = Append(c.transcript, Message("CertificateVerify"))
          /\ c'.traffic_hash = c.traffic_hash /\ c'.state = "ClientFinished"
          /\ c'.w.key = c.w.key /\ c'.w.n = c.w.n + 1 /\ c'.secret = c.secret
      BY <2>2, <3>2, RespondFields DEF said, next
    <3> QED BY <1>5, <3>3, Longer
  <2> QED BY <1>4, <2>1, <2>2
<1>7. c'.state \in Handshaking /\ c'.w.n \in Nat
  BY <1>6 DEF Handshaking, IsClient
<1>8. SealedOnce'
  BY <1>1, <1>2, <1>3, <1>6, <1>7, OneSealed
<1>9. Stage'
  BY <1>1, <1>2, <1>6, <1>7 DEF NonceInv, Stage, Handshaking
<1>10. Lists'
  BY <1>1, <1>6 DEF NonceInv, Lists
<1> QED BY <1>1, <1>5, <1>6, <1>8, <1>9, <1>10 DEF NonceInv

\* Its Finished is the last record under the handshake key.
LEMMA ClientFinishedNonce == NonceInv /\ ClientFinished => NonceInv'
<1> SUFFICES ASSUME NonceInv, ClientFinished PROVE NonceInv'
  OBVIOUS
<1> DEFINE finished == Finished(c.w.key, c.transcript)
           said == Hashed(c, finished)
           counted == Respond(said)
           saved == [counted EXCEPT !.transcript = counted.traffic_hash]
           keyed == WithTraffic(saved, "c_ap_traffic", "s_ap_traffic", Zero)
<1>1. /\ c.state = "ClientFinished" /\ down' = down /\ drawn' = drawn
      /\ c' = [keyed EXCEPT !.traffic_hash = <<>>, !.state = "ApplicationData"]
  BY DEF ClientFinished, Working, Finalized
<1>2. c.state \in Handshaking /\ c.secret = Derived(HandshakeSecret(drawn)) /\ drawn > 0
  BY <1>1 DEF Handshaking, NonceInv, Stage
<1>3. sealed' = Append(sealed, <<c.w.key, c.w.n>>)
  BY <1>2, Encrypts DEF ClientFinished
<1>4. IsClient(c) /\ Listed(c.transcript) /\ Listed(c.traffic_hash) /\ drawn \in Nat
  BY DEF NonceInv, Lists
<1> HIDE DEF finished
<1>5. IsClient(said) /\ said.traffic_hash = c.traffic_hash /\ said.secret = c.secret
  BY <1>4, HashedFields
<1> HIDE DEF said
<1>6. IsClient(counted) /\ counted.traffic_hash = c.traffic_hash /\ counted.secret = c.secret
  BY <1>5, RespondFields
<1> HIDE DEF counted
<1>7. IsClient(saved) /\ saved.transcript = c.traffic_hash /\ saved.secret = c.secret
  BY <1>6 DEF IsClient
<1> HIDE DEF saved
<1>8. Rekeyed(keyed, saved, "c_ap_traffic", "s_ap_traffic", MasterSecret(drawn))
  <2>1. MasterSecret(drawn) = Extract(saved.secret, Zero)
    BY <1>2, <1>7, Secrets
  <2> QED BY <1>7, <2>1, TrafficFields
<1> HIDE DEF keyed
<1>9. /\ IsClient(keyed) /\ keyed.transcript = c.traffic_hash
      /\ keyed.w = Fresh(Traffic("c_ap_traffic", MasterSecret(drawn), c.traffic_hash))
  BY <1>7, <1>8 DEF Rekeyed
<1>10. /\ IsClient(c') /\ c'.transcript = c.traffic_hash /\ c'.traffic_hash = <<>>
       /\ c'.state = "ApplicationData" /\ c'.w = keyed.w
  BY <1>1, <1>9 DEF IsClient, States
<1>11. /\ c'.w.key.label = "c_ap_traffic" /\ c'.w.key.secret = MasterSecret(drawn)
       /\ c'.w.n \in Nat /\ Draw(c'.w.key) = drawn
  BY <1>9, <1>10, Secrets DEF Fresh, Traffic, Draw
<1>12. SealedOnce'
  BY <1>1, <1>2, <1>3, <1>10, <1>11, OneSealed
<1>13. Stage'
  BY <1>1, <1>2, <1>10, <1>11 DEF Stage, Handshaking
<1>14. Lists'
  <2>1. Listed(<<>>)
    BY DEF Listed, Range
  <2> QED BY <1>1, <1>4, <1>10, <2>1 DEF NonceInv, Lists
<1> QED BY <1>1, <1>4, <1>10, <1>12, <1>13, <1>14 DEF NonceInv

\* A write on the open connection.
LEMMA SendDataNonce ==
    ASSUME NonceInv, NEW name, SendData(name), down' = down, drawn' = drawn
    PROVE  NonceInv'
<1>1. c.state = "ApplicationData" /\ c' = Respond(c) /\ IsClient(c) /\ drawn \in Nat
  BY DEF SendData, Working, NonceInv
<1>2. sealed' = Append(sealed, <<c.w.key, c.w.n>>)
  BY <1>1, Encrypts DEF SendData
<1>3. /\ IsClient(c') /\ c'.transcript = c.transcript /\ c'.traffic_hash = c.traffic_hash
      /\ c'.w.key = c.w.key /\ c'.w.n = c.w.n + 1 /\ c'.state = c.state
  BY <1>1, RespondFields
<1>4. c'.w.n \in Nat
  BY <1>3 DEF IsClient
<1>5. SealedOnce'
  BY <1>1, <1>2, <1>3, <1>4, OneSealed
<1>6. Stage'
  BY <1>1, <1>3 DEF NonceInv, Stage, Handshaking
<1>7. Lists'
  BY <1>3 DEF NonceInv, Lists
<1> QED BY <1>1, <1>3, <1>5, <1>6, <1>7 DEF NonceInv

\* A read on the open connection.
LEMMA ReadDataNonce ==
    ASSUME NonceInv, NEW names, ReadData(names), sealed' = sealed, drawn' = drawn
    PROVE  NonceInv'
<1> DEFINE record == Head(down)
<1>1. /\ c.state = "ApplicationData" /\ IsClient(c) /\ drawn \in Nat
      /\ down # <<>> /\ down' = Tail(down) /\ c' = Read(record)
  BY DEF ReadData, Working, NonceInv
<1>2. /\ Listed(record.body) /\ Listed(down') /\ \A i \in DOMAIN down' : Listed(down'[i].body)
      /\ Listed(c.transcript) /\ Listed(c.traffic_hash)
  <2>1. Listed(down) /\ \A i \in DOMAIN down : Listed(down[i].body)
    BY DEF NonceInv, Lists
  <2> QED BY <1>1, <2>1, RecordsListed DEF NonceInv, Lists
<1> HIDE DEF record
<1>3. PICK next : next = Bumped(c.r) /\ next \in [key : {next.key}, n : Nat]
  <2>1. PICK r, key : r = c.r /\ key = r.key /\ r \in [key : {key}, n : Nat]
    BY <1>1 DEF IsClient
  <2>2. PICK next : next = Bumped(r)
    OBVIOUS
  <2>3. next.key = key /\ next \in [key : {key}, n : Nat]
    BY <2>1, <2>2 DEF Bumped
  <2> QED BY <2>1, <2>2, <2>3
<1>4. /\ IsClient(c') /\ Listed(c'.transcript) /\ c'.traffic_hash = c.traffic_hash
      /\ c'.w = c.w /\ c'.state = c.state
  <2>1. CASE c' = Failed(c, "CryptoError") \/ c' = Failed(c, "ConnectionClosed")
    <3>1. "CryptoError" \in Errors /\ "ConnectionClosed" \in Errors
      BY DEF Errors
    <3> QED BY <1>1, <1>2, <2>1, <3>1, FailedFields
  <2>2. CASE c' = [c EXCEPT !.r = Bumped(@)]
    <3>1. c' = [c EXCEPT !.r = next]
      BY <1>3, <2>2
    <3> QED BY <1>1, <1>2, <1>3, <3>1 DEF IsClient
  <2>3. CASE c' = [c EXCEPT !.transcript = @ \o record.body, !.r = Bumped(@)]
    <3>1. PICK t : t = c.transcript \o record.body
      OBVIOUS
    <3>2. Listed(t)
      BY <1>2, <3>1, ListedBoth
    <3>3. c' = [c EXCEPT !.transcript = t, !.r = next]
      BY <1>3, <2>3, <3>1
    <3> QED BY <1>1, <1>2, <1>3, <3>2, <3>3 DEF IsClient
  <2> QED BY <1>1, <2>1, <2>2, <2>3 DEF Read
<1>5. c'.w.n \in Nat /\ c'.w.n >= c.w.n
  BY <1>1, <1>4 DEF IsClient
<1>6. SealedOnce'
  BY <1>4, <1>5, NoneSealed
<1>7. Stage'
  BY <1>1, <1>4 DEF NonceInv, Stage, Handshaking
<1>8. Lists'
  BY <1>2, <1>4 DEF Lists
<1> QED BY <1>1, <1>4, <1>6, <1>7, <1>8 DEF NonceInv

-----------------------------------------------------------------------------
(* The steps of the server and of the tasks.                               *)

\* All that others can touch are the records on their way.
LEMMA ElsewhereNonce ==
    ASSUME NonceInv, UNCHANGED <<c, drawn, sealed>>,
           Listed(down'), \A i \in DOMAIN down' : Listed(down'[i].body)
    PROVE  NonceInv'
<1>1. Lists'
  BY DEF NonceInv, Lists
<1>2. Stage'
  BY DEF NonceInv, Stage
<1>3. SealedOnce'
  BY DEF NonceInv, SealedOnce, NoNonceReuse, Spent, Draw
<1> QED BY <1>1, <1>2, <1>3 DEF NonceInv

\* The reply to ClientHello.
LEMMA SrvHelloNonce == NonceInv /\ SrvHello => NonceInv'
<1> SUFFICES ASSUME NonceInv, SrvHello PROVE NonceInv'
  OBVIOUS
<1> DEFINE sh == Plain("handshake", <<Message("ServerHello")>>)
           cs == Plain("change_cipher_spec", <<>>)
<1>1. /\ \/ down' = down \o <<sh>> \o <<cs>>
         \/ down' = down \o <<sh>> \o <<>>
      /\ UNCHANGED <<c, drawn, sealed>>
  BY DEF SrvHello
<1>2. Listed(sh.body) /\ Listed(cs.body)
  BY DEF Plain, Listed, Range
<1>3. Listed(down) /\ \A i \in DOMAIN down : Listed(down[i].body)
  BY DEF NonceInv, Lists
<1> HIDE DEF sh, cs
<1>4. PICK S : S = Range(down) \cup {sh, cs}
  OBVIOUS
<1>5. /\ down \in Seq(S) /\ sh \in S /\ cs \in S
      /\ \A r \in S : Listed(r.body)
  BY <1>2, <1>3, <1>4, ListedIn DEF Range
<1>6. down' \in Seq(S)
  <2>1. <<sh>> \in Seq(S) /\ <<cs>> \in Seq(S) /\ <<>> \in Seq(S)
    BY <1>5
  <2>2. \A a \in Seq(S), b \in Seq(S), d \in Seq(S) : a \o b \o d \in Seq(S)
    OBVIOUS
  <2> QED BY <1>1, <1>5, <2>1, <2>2
<1>7. Listed(down') /\ \A i \in DOMAIN down' : Listed(down'[i].body)
  BY <1>5, <1>6, InListed
<1> QED BY <1>1, <1>7, ElsewhereNonce

\* A record of the flight.
LEMMA SrvFlightNonce ==
    ASSUME NonceInv, NEW k \in 1 .. Len(srv.todo), NEW odd \in BOOLEAN, SrvFlight(k, odd)
    PROVE  NonceInv'
<1> DEFINE said(i) == IF odd /\ srv.todo[i] = "EncryptedExtensions" THEN Message("UnexpectedExtension")
                      ELSE Message(srv.todo[i])
           done == k = Len(srv.todo)
           plain == [ i \in 1 .. (IF done THEN k - 1 ELSE k) |-> said(i) ]
           last == Finished(srv.w.key, srv.transcript \o plain)
           body == IF done THEN Append(plain, last) ELSE plain
<1>1. down' = Append(down, Cipher(srv.w, "handshake", body)) /\ UNCHANGED <<c, drawn, sealed>>
  BY DEF SrvFlight
<1>2. Listed(plain)
  <2>1. PICK n \in Nat : n = IF done THEN k - 1 ELSE k
    OBVIOUS
  <2>2. plain = [ i \in 1 .. n |-> plain[i] ]
    BY <2>1
  <2> HIDE DEF plain
  <2> QED BY <2>2, Indexed
<1> HIDE DEF plain, last
<1>3. Listed(body)
  BY <1>2, Longer
<1> HIDE DEF body
<1>4. Listed(Cipher(srv.w, "handshake", body).body)
  BY <1>3 DEF Cipher
<1>5. Listed(down) /\ \A i \in DOMAIN down : Listed(down[i].body)
  BY DEF NonceInv, Lists
<1>6. Listed(down') /\ \A i \in DOMAIN down' : Listed(down'[i].body)
  BY <1>1, <1>4, <1>5, RecordsListed
<1> QED BY <1>1, <1>6, ElsewhereNonce

\* The other records of the server.
LEMMA SrvSaysNonce ==
    ASSUME NonceInv, UNCHANGED <<c, drawn, sealed>>, NEW record, Listed(record.body),
           down' = Append(down, record)
    PROVE  NonceInv'
<1>1. Listed(down) /\ \A i \in DOMAIN down : Listed(down[i].body)
  BY DEF NonceInv, Lists
<1>2. Listed(down') /\ \A i \in DOMAIN down' : Listed(down'[i].body)
  BY <1>1, RecordsListed
<1> QED BY <1>2, ElsewhereNonce

\* One message is a sequence.
LEMMA SaidListed ==
    ASSUME NEW name, NEW type, NEW schedule, NEW inner
    PROVE  /\ Listed(Plain(type, <<Message(name)>>).body)
           /\ Listed(Cipher(schedule, inner, <<Message(name)>>).body)
BY DEF Plain, Cipher, Listed, Range

\* Every step of the server.
LEMMA SrvNonce == NonceInv /\ SrvStep => NonceInv'
<1> SUFFICES ASSUME NonceInv, SrvStep PROVE NonceInv'
  OBVIOUS
<1>1. CASE SrvHello
  BY <1>1, SrvHelloNonce
<1>2. CASE SrvReads
  <2>1. UNCHANGED <<c, drawn, sealed, down>>
    BY <1>2 DEF SrvReads
  <2> QED BY <2>1, ElsewhereNonce DEF NonceInv, Lists
<1>3. CASE \E inner, name : SrvSends(inner, name)
  BY <1>3, SrvSaysNonce, SaidListed DEF SrvSends
<1>4. CASE \E k \in 1 .. Len(srv.todo), odd \in BOOLEAN : SrvFlight(k, odd)
  BY <1>4, SrvFlightNonce
<1>5. CASE SrvAborts
  <2>1. PICK record :
          /\ record \in {Plain("alert", <<Message("Alert")>>), Cipher(srv.w, "alert", <<Message("Alert")>>)}
          /\ down' = Append(down, record) /\ UNCHANGED <<c, drawn, sealed>>
    BY <1>5 DEF SrvAborts
  <2>2. Listed(record.body)
    BY <2>1, SaidListed
  <2> QED BY <2>1, <2>2, SrvSaysNonce
<1>6. CASE SrvTicket \/ SrvAnswer("Answer") \/ SrvAnswer("Reject") \/ SrvFrame
  BY <1>3, <1>6 DEF SrvTicket, SrvAnswer, SrvFrame
<1> QED BY <1>1, <1>2, <1>4, <1>5, <1>6 DEF SrvStep

\* Dropping the transport.
LEMMA DropNonce ==
    ASSUME NonceInv, UNCHANGED <<c, drawn, sealed>>, down' = down \/ down' = <<>>
    PROVE  NonceInv'
<1>1. Listed(<<>>)
  BY DEF Listed, Range
<1> QED BY <1>1, ElsewhereNonce DEF NonceInv, Lists

\* Every step of voice_task.
LEMMA VoiceNonce == NonceInv /\ VoiceTask => NonceInv'
<1> SUFFICES ASSUME NonceInv, VoiceTask PROVE NonceInv'
  OBVIOUS
<1>1. CASE Connect
  BY <1>1, ConnectNonce
<1>2. CASE Open
  <2>1. ClientStep
    BY <1>2 DEF Open
  <2> QED BY <2>1, ClientHelloNonce, ReadHandshakeNonce, ClientCertNonce, ClientCertVerifyNonce,
             ClientFinishedNonce DEF ClientStep
<1>3. CASE Upgrade \/ Start \/ Speak
  <2>1. \E name : SendData(name) /\ down' = down /\ drawn' = drawn
    BY <1>3 DEF Upgrade, Start, Speak
  <2> QED BY <2>1, SendDataNonce
<1>4. CASE Answer \/ Listen
  <2>1. \E names : ReadData(names) /\ sealed' = sealed /\ drawn' = drawn
    BY <1>4 DEF Answer, Listen
  <2> QED BY <2>1, ReadDataNonce
<1>5. CASE ConnectFails \/ AttemptFails \/ SessionEnds \/ Retry
  <2>1. UNCHANGED <<c, drawn, sealed>> /\ (down' = down \/ down' = <<>>)
    BY <1>5 DEF ConnectFails, AttemptFails, SessionEnds, Retry, Drop, tlsVars
  <2> QED BY <2>1, DropNonce
<1> QED BY <1>1, <1>2, <1>3, <1>4, <1>5 DEF VoiceTask, VoiceStep

\* The client that is not connected yet.
LEMMA NonceStarts == Init => NonceInv
<1> SUFFICES ASSUME Init PROVE NonceInv
  OBVIOUS
<1>1. c = TlsNew /\ drawn = 0 /\ sealed = <<>> /\ down = <<>>
  BY DEF Init
<1>2. IsClient(c) /\ c.transcript = <<>> /\ c.traffic_hash = <<>> /\ c.state = "ClientHello"
  BY <1>1 DEF IsClient, TlsNew, Fresh, States, Errors
<1>3. Listed(<<>>)
  BY DEF Listed, Range
<1>4. Lists /\ Stage
  BY <1>1, <1>2, <1>3 DEF Lists, Stage, Handshaking
<1>5. SealedOnce
  BY <1>1, <1>3 DEF SealedOnce, NoNonceReuse, IsInjective
<1> QED BY <1>1, <1>2, <1>4, <1>5 DEF NonceInv

\* The client and the records so far, over every step.
LEMMA NonceStep == NonceInv /\ [Next]_vars => NonceInv'
<1> SUFFICES ASSUME NonceInv, [Next]_vars PROVE NonceInv'
  OBVIOUS
<1>1. CASE WifiTask \/ ConnLost \/ NtpTask \/ UNCHANGED vars
  <2>1. UNCHANGED <<c, drawn, sealed, down>>
    BY <1>1 DEF WifiTask, ConnLost, NtpTask, vars, tlsVars
  <2> QED BY <2>1, DropNonce
<1>2. CASE VoiceTask
  BY <1>2, VoiceNonce
<1>3. CASE Server
  BY <1>3, SrvNonce DEF Server
<1> QED BY <1>1, <1>2, <1>3 DEF Next

\* Whatever the server asks for, however its flight is cut, wherever the
\* handshake fails and however often the device connects again: it encrypts
\* no two records under one key and number.
THEOREM NonceNeverReused == Spec => []NoNonceReuse
<1>1. Spec => []NonceInv
  BY NonceStarts, NonceStep, PTL DEF Spec
<1>2. NonceInv => NoNonceReuse
  BY DEF NonceInv, SealedOnce
<1> QED BY <1>1, <1>2, PTL

-----------------------------------------------------------------------------
(* The places of a reader.                                                 *)

\* The transcript of the two hellos, and the handshake keys derived over it.
Hellos(d) == <<Hello("ClientHello", d), Message("ServerHello")>>
ServerKey(d) == Traffic("s_hs_traffic", HandshakeSecret(d), Hellos(d))
ClientKey(d) == Traffic("c_hs_traffic", HandshakeSecret(d), Hellos(d))

\* The application keys, over the transcript up to the server's Finished.
ServerData(d, t) == Traffic("s_ap_traffic", MasterSecret(d), t)
ClientData(d, t) == Traffic("c_ap_traffic", MasterSecret(d), t)

\* How far an end has read on a connection whose secret is draw d: the key and
\* number it expects, the transcript so far, and the one to derive from.
Place(stage, d, key, n, t, base) ==
    [stage |-> stage, draw |-> d, key |-> key, n |-> n, hash |-> t, base |-> base]

AtHello(d)        == Place("hello", d, NoKey, 0, <<>>, <<>>)
AtFlight(d, n, t) == Place("flight", d, ServerKey(d), n, t, <<>>)
AtReply(d, n, t, base) == Place("reply", d, ClientKey(d), n, t, base)
AtData(d, key, n) == Place("data", d, key, n, <<>>, <<>>)
AtEnd(d)          == Place("end", d, NoKey, 0, <<>>, <<>>)

\* Messages of the flight: only the last may be Finished, over all before it.
FlightOver(key, t, body) ==
    \A i \in DOMAIN body :
        body[i].name = "Finished" =>
            i = Len(body) /\ body[i].mac = <<key, t \o SubSeq(body, 1, i - 1)>>
Closes(body) == \E i \in DOMAIN body : body[i].name = "Finished"

\* A record whose body is made for the reader at this place.
Fits(p, r) ==
    \/ p.stage = "hello" /\ r.type = "handshake" /\ r.inner = "handshake"
                         /\ r.body = <<Message("ServerHello")>>
    \/ p.stage = "hello" /\ r.type = "alert" /\ r.inner = "alert"
    \/ p.stage = "flight" /\ r.type = "change_cipher_spec" /\ r.inner = "change_cipher_spec"
    \/ /\ p.stage \in {"flight", "reply", "data"}
       /\ r.type = "application_data" /\ Opens(p, r)
       /\ \/ r.inner = "alert"
          \/ p.stage = "flight" /\ r.inner = "handshake" /\ FlightOver(p.key, p.hash, r.body)
          \/ p.stage = "reply" /\ r.inner = "handshake"
                 /\ r.body \in {<<Message("Certificate")>>, <<Message("CertificateVerify")>>,
                                <<Finished(p.key, p.hash)>>}
          \/ p.stage = "data" /\ r.inner \in {"handshake", "application_data"}
                 /\ Head(r.body).name \in {"NewSessionTicket", "Answer", "Reject", "Frame", "Request"}

\* Where the record leaves it.
After(p, r) ==
    IF r.inner = "change_cipher_spec" THEN p
    ELSE IF r.inner = "alert" THEN AtEnd(p.draw)
    ELSE CASE p.stage = "hello" -> AtFlight(p.draw, 0, Hellos(p.draw))
           [] p.stage = "flight" ->
                 IF Closes(r.body) THEN AtData(p.draw, ServerData(p.draw, p.hash \o r.body), 0)
                 ELSE AtFlight(p.draw, p.n + 1, p.hash \o r.body)
           [] p.stage = "reply" ->
                 IF Head(r.body).name = "Finished" THEN AtData(p.draw, ClientData(p.draw, p.base), 0)
                 ELSE AtReply(p.draw, p.n + 1, Append(p.hash, Head(r.body)), p.base)
           [] OTHER -> AtData(p.draw, p.key, p.n + 1)

\* The records lead a reader from one place to another, each made for where
\* the ones before it leave the reader.
Path(at, s) ==
    \A i \in 1 .. Len(s) : Fits(at[i - 1], s[i]) /\ at[i] = After(at[i - 1], s[i])
Leads(s, p, q) ==
    \E at : /\ at = [ i \in 0 .. Len(s) |-> at[i] ]
            /\ at[0] = p /\ at[Len(s)] = q /\ Path(at, s)

-----------------------------------------------------------------------------
(* The invariant.                                                          *)

\* Where the two ends are, as readers and as writers.
ClientReads ==
    CASE c.state = "ServerHello" -> AtHello(drawn)
      [] c.state = "ServerVerify" -> AtFlight(drawn, c.r.n, c.transcript)
      [] c.state = "ClientCert" -> AtData(drawn, ServerData(drawn, c.transcript), 0)
      [] c.state = "ApplicationData" -> AtData(drawn, c.r.key, c.r.n)
      [] OTHER -> AtData(drawn, ServerData(drawn, c.traffic_hash), 0)
ServerWrites ==
    CASE srv.pc = "listen" -> AtHello(drawn)
      [] srv.pc = "flight" -> AtFlight(drawn, srv.w.n, srv.transcript)
      [] OTHER -> AtData(drawn, srv.w.key, srv.w.n)
ServerReads ==
    IF srv.pc = "open" THEN AtData(drawn, srv.r.key, srv.r.n)
    ELSE AtReply(drawn, srv.r.n, srv.transcript, srv.finished)
ClientWrites ==
    IF c.state = "ApplicationData" THEN AtData(drawn, c.w.key, c.w.n)
    ELSE AtReply(drawn, c.w.n, c.transcript, srv.finished)

\* The client has read the server's Finished.
Replying == {"ClientCert", "ClientCertVerify", "ClientFinished", "ApplicationData"}

\* The transcript the client's application keys are, or will be, derived from.
Covered ==
    CASE c.state = "ClientCert" -> c.transcript
      [] c.state = "ApplicationData" -> c.r.key.transcript
      [] OTHER -> c.traffic_hash

\* A connection is there from the connect to the next.
Joined ==
    /\ lpc = "tcp" => conn = "none"
    /\ lpc \in {"tls", "answer", "start", "session"} => conn # "none"
    /\ conn = "none" => up = <<>> /\ down = <<>> /\ srv = SrvNew

\* Everything that is cut or counted has its shape.
IsServer(s) ==
    /\ s \in [pc : {s.pc}, todo : {s.todo}, share : {s.share}, transcript : {s.transcript},
             finished : {s.finished}, w : {s.w}, r : {s.r}, refused : {s.refused},
             told : {s.told}, frames : {s.frames}, ticket : {s.ticket}]
    /\ s.w \in [key : {s.w.key}, n : {s.w.n}]
    /\ s.r \in [key : {s.r.key}, n : {s.r.n}]
Shapes ==
    Listed(up) /\ IsServer(srv) /\ Listed(srv.todo) /\ Listed(srv.transcript)

\* The client's own keys and transcript.
ClientSide ==
    /\ c.err \notin {"CryptoError", "InvalidSignature"}
    /\ c.state = "ServerHello" => c.transcript = <<Hello("ClientHello", drawn)>>
    /\ c.state = "ServerVerify" =>
        c.r.key = ServerKey(drawn) /\ (c.err = "none" => c.w = Fresh(ClientKey(drawn)))
    /\ c.state \in {"ClientCert", "ClientCertVerify", "ClientFinished"} =>
        c.w.key = ClientKey(drawn)
    /\ c.state = "ApplicationData" =>
        c.r.key = ServerData(drawn, Covered) /\ c.w.key = ClientData(drawn, Covered)

\* The server's.
ServerSide ==
    /\ srv.pc \in {"listen", "flight", "client", "open", "closed"} /\ ~srv.refused
    /\ srv.pc = "listen" => srv = SrvNew
    /\ srv.pc \in {"flight", "client", "open"} => srv.share = drawn
    /\ srv.pc = "flight" =>
        /\ srv.w.key = ServerKey(drawn) /\ Len(srv.todo) > 0
        /\ \A i \in 1 .. Len(srv.todo) - 1 : srv.todo[i] # "Finished"
    /\ srv.pc \in {"client", "open"} => srv.w.key = ServerData(drawn, srv.finished)
    /\ srv.pc \in {"flight", "client"} => srv.r.key = ClientKey(drawn)
    /\ srv.pc = "open" => srv.r.key = ClientData(drawn, srv.finished)

\* What is on its way to the server, which still reads.
Uplink ==
    srv.pc # "closed" =>
        /\ c.state = "ClientHello" => srv.pc = "listen" /\ up = <<>>
        /\ c.state = "ServerHello" =>
            \/ srv.pc = "listen" /\ up = <<Plain("handshake", <<Hello("ClientHello", drawn)>>)>>
            \/ srv.pc \in {"flight", "client"} /\ up = <<>>
        /\ c.state = "ServerVerify" =>
            /\ srv.pc \in {"flight", "client"}
            /\ up # <<>> => c.err # "none" /\ Head(up).type = "change_cipher_spec"
        /\ c.state \in {"ServerHello", "ServerVerify"} =>
            /\ srv.pc \in {"flight", "client"} => srv.r.n = 0
            /\ srv.pc = "client" => srv.transcript = srv.finished
        /\ c.state \in Replying =>
            /\ srv.pc \in {"client", "open"} /\ Covered = srv.finished
            /\ \E q : Leads(up, ServerReads, q) /\ (c.err = "none" => q = ClientWrites)

\* What is on its way to the client, which still reads.
Downlink ==
    c.err = "none" =>
        /\ c.state = "ClientHello" =>
            \/ down = <<>>
            \/ srv.pc = "closed" /\ down = <<Plain("alert", <<Message("Alert")>>)>>
        /\ c.state # "ClientHello" =>
            \E q : Leads(down, ClientReads, q) /\ (srv.pc # "closed" => q = ServerWrites)

AgreeInv == Joined /\ Shapes /\ ClientSide /\ (conn # "none" => ServerSide /\ Uplink /\ Downlink)

-----------------------------------------------------------------------------
(* Paths.                                                                  *)

\* Nothing leads nowhere.
LEMMA LeadsNowhere ==
    ASSUME NEW p, NEW q
    PROVE  Leads(<<>>, p, q) <=> p = q
<1>1. ASSUME p = q PROVE Leads(<<>>, p, q)
  <2> DEFINE at == [ i \in 0 .. 0 |-> p ]
  <2>1. at = [ i \in 0 .. 0 |-> at[i] ] /\ at[0] = p /\ \A i \in 1 .. 0 : FALSE
    OBVIOUS
  <2>2. Len(<<>>) = 0
    OBVIOUS
  <2> HIDE DEF at
  <2>3. Path(at, <<>>)
    BY <2>1, <2>2 DEF Path
  <2> QED BY <1>1, <2>1, <2>2, <2>3 DEF Leads
<1>2. Len(<<>>) = 0
  OBVIOUS
<1> QED BY <1>1, <1>2 DEF Leads

\* One record more at the end.
LEMMA LeadsOn ==
    ASSUME NEW s, Listed(s), NEW p, NEW q, NEW r, Leads(s, p, q), Fits(q, r)
    PROVE  Leads(Append(s, r), p, After(q, r))
<1>1. PICK at : at = [ i \in 0 .. Len(s) |-> at[i] ] /\ at[0] = p /\ at[Len(s)] = q /\ Path(at, s)
  BY DEF Leads
<1>2. PICK z : z = After(q, r)
  OBVIOUS
<1>3. PICK n \in Nat : n = Len(s)
  BY DEF Listed
<1>4. /\ Len(Append(s, r)) = n + 1 /\ Append(s, r)[n + 1] = r
      /\ \A i \in 1 .. n : Append(s, r)[i] = s[i]
  <2>1. DOMAIN s = 1 .. n /\ s \in Seq(Range(s))
    BY <1>3 DEF Listed
  <2>2. Len(Append(s, r)) = n + 1
    <3>1. s \in Seq(Range(s) \cup {r}) /\ r \in Range(s) \cup {r}
      BY ListedIn
    <3> HIDE DEF Range
    <3> QED BY <1>3, <3>1
  <2> QED BY <1>3, <2>1, <2>2, Longer
<1> DEFINE on == [ i \in 0 .. n + 1 |-> IF i <= n THEN at[i] ELSE z ]
<1>5. on = [ i \in 0 .. n + 1 |-> on[i] ] /\ on[n + 1] = z /\ \A i \in 0 .. n : on[i] = at[i]
  BY <1>3
<1> HIDE DEF on
<1>6. ASSUME NEW i \in 1 .. n + 1
      PROVE  Fits(on[i - 1], Append(s, r)[i]) /\ on[i] = After(on[i - 1], Append(s, r)[i])
  <2>1. CASE i = n + 1
    <3>1. on[i - 1] = q /\ on[i] = z
      BY <1>1, <1>3, <1>5, <2>1
    <3> QED BY <1>2, <1>4, <2>1, <3>1
  <2>2. CASE i # n + 1
    <3>1. i \in 1 .. n /\ i - 1 \in 0 .. n /\ i \in 0 .. n
      BY <1>3, <2>2
    <3>2. on[i - 1] = at[i - 1] /\ on[i] = at[i] /\ Append(s, r)[i] = s[i]
      BY <1>4, <1>5, <3>1
    <3> QED BY <1>1, <1>3, <3>1, <3>2 DEF Path
  <2> QED BY <2>1, <2>2
<1>7. Path(on, Append(s, r))
  BY <1>4, <1>6 DEF Path
<1>8. on[0] = p
  BY <1>1, <1>3, <1>5
<1> QED BY <1>2, <1>4, <1>5, <1>7, <1>8 DEF Leads

\* The first record read.
LEMMA LeadsFirst ==
    ASSUME NEW s, Listed(s), s # <<>>, NEW p, NEW q, Leads(s, p, q)
    PROVE  Fits(p, Head(s)) /\ Leads(Tail(s), After(p, Head(s)), q)
<1>1. PICK at : at = [ i \in 0 .. Len(s) |-> at[i] ] /\ at[0] = p /\ at[Len(s)] = q /\ Path(at, s)
  BY DEF Leads
<1>2. PICK n \in Nat : n + 1 = Len(s)
  <2>1. Len(s) \in Nat /\ Len(s) # 0
    BY DEF Listed
  <2>2. Len(s) - 1 \in Nat /\ Len(s) - 1 + 1 = Len(s)
    BY <2>1
  <2> QED BY <2>2
<1>3. /\ Head(s) = s[1] /\ Len(Tail(s)) = n
      /\ \A i \in 1 .. n : Tail(s)[i] = s[i + 1]
  <2>1. PICK S : S = Range(s)
    OBVIOUS
  <2>2. s \in Seq(S)
    BY <2>1 DEF Listed
  <2> QED BY <1>2, <2>2
<1>4. Fits(at[0], s[1]) /\ at[1] = After(at[0], s[1])
  <2>1. 1 \in 1 .. Len(s) /\ 1 - 1 = 0
    BY <1>2
  <2> QED BY <1>1, <2>1 DEF Path
<1> DEFINE on == [ i \in 0 .. n |-> at[i + 1] ]
<1>5. on = [ i \in 0 .. n |-> on[i] ] /\ on[n] = at[n + 1] /\ on[0] = at[1] /\ \A i \in 0 .. n : on[i] = at[i + 1]
  BY <1>2
<1> HIDE DEF on
<1>6. ASSUME NEW i \in 1 .. n
      PROVE  Fits(on[i - 1], Tail(s)[i]) /\ on[i] = After(on[i - 1], Tail(s)[i])
  <2>1. i + 1 \in 1 .. Len(s) /\ i - 1 \in 0 .. n /\ i \in 0 .. n /\ i - 1 + 1 = i /\ i + 1 - 1 = i
    BY <1>2
  <2>2. on[i - 1] = at[i] /\ on[i] = at[i + 1] /\ Tail(s)[i] = s[i + 1]
    BY <1>3, <1>5, <2>1
  <2>3. Fits(at[(i + 1) - 1], s[i + 1]) /\ at[i + 1] = After(at[(i + 1) - 1], s[i + 1])
    BY <1>1, <2>1 DEF Path
  <2> QED BY <2>1, <2>2, <2>3
<1>7. Path(on, Tail(s))
  BY <1>3, <1>6 DEF Path
<1> QED BY <1>1, <1>2, <1>3, <1>4, <1>5, <1>7 DEF Leads

\* A reader does not come back to an earlier stage, and keeps the key of the
\* last.
Beyond(p, q) ==
    /\ p.stage # "hello" => q.stage # "hello"
    /\ p.stage \in {"data", "end"} =>
        \/ q.stage = "end"
        \/ q.stage = "data" /\ p.stage = "data" /\ q.key = p.key

\* See Beyond: one record.
LEMMA BeyondOne ==
    ASSUME NEW p, NEW r, Fits(p, r)
    PROVE  Beyond(p, After(p, r))
<1>1. CASE p.stage = "data"
  <2>1. After(p, r) \in {AtEnd(p.draw), AtData(p.draw, p.key, p.n + 1)}
    BY <1>1 DEF Fits, After
  <2> QED BY <1>1, <2>1 DEF AtEnd, AtData, Place, Beyond
<1>2. CASE p.stage = "end"
  BY <1>2 DEF Fits
<1>3. CASE p.stage \notin {"data", "end"}
  <2>1. \/ After(p, r) = p \/ p.stage = "hello" \/ After(p, r) = AtEnd(p.draw)
        \/ \E d, n, t : After(p, r) = AtFlight(d, n, t)
        \/ \E d, n, t, b : After(p, r) = AtReply(d, n, t, b)
        \/ \E d, k, n : After(p, r) = AtData(d, k, n)
    BY DEF After
  <2> HIDE DEF After
  <2> QED BY <1>3, <2>1 DEF AtEnd, AtFlight, AtReply, AtData, Place, Beyond
<1> QED BY <1>1, <1>2, <1>3

\* See Beyond: any number of records.
LEMMA LeadsBeyond ==
    ASSUME NEW s, Listed(s), NEW p, NEW q, Leads(s, p, q)
    PROVE  Beyond(p, q)
<1>1. PICK at : at = [ i \in 0 .. Len(s) |-> at[i] ] /\ at[0] = p /\ at[Len(s)] = q /\ Path(at, s)
  BY DEF Leads
<1>2. PICK n \in Nat : n = Len(s)
  BY DEF Listed
<1> DEFINE T == { i \in Nat : i <= n => Beyond(p, at[i]) }
<1>3. T = Nat
  <2>1. 0 \in T
    BY <1>1 DEF Beyond
  <2>2. ASSUME NEW i \in T PROVE i + 1 \in T
    <3>1. SUFFICES ASSUME i + 1 <= n PROVE Beyond(p, at[i + 1])
      OBVIOUS
    <3>2. Beyond(p, at[i])
      BY <3>1
    <3>3. i + 1 \in 1 .. Len(s) /\ (i + 1) - 1 = i
      BY <1>2, <3>1
    <3>4. Beyond(at[i], at[i + 1])
      BY <1>1, <3>3, BeyondOne DEF Path
    <3> QED BY <3>2, <3>4 DEF Beyond
  <2> HIDE DEF T
  <2>3. T \subseteq Nat
    BY DEF T
  <2> QED BY <2>1, <2>2, <2>3, Induct
<1>4. n \in T
  BY <1>3
<1> QED BY <1>1, <1>2, <1>4

-----------------------------------------------------------------------------
(* What each place reads.                                                  *)

\* Waiting for ServerHello.
LEMMA HelloReads ==
    ASSUME NEW d, NEW r
    PROVE  /\ Fits(AtHello(d), r) <=>
                \/ r.type = "handshake" /\ r.inner = "handshake" /\ r.body = <<Message("ServerHello")>>
                \/ r.type = "alert" /\ r.inner = "alert"
           /\ r.inner = "alert" => After(AtHello(d), r) = AtEnd(d)
           /\ r.inner = "handshake" => After(AtHello(d), r) = AtFlight(d, 0, Hellos(d))
<1>1. PICK p : p = AtHello(d)
  OBVIOUS
<1>2. p.stage = "hello" /\ p.draw = d
  BY <1>1 DEF AtHello, Place
<1>3. Fits(p, r) <=> \/ r.type = "handshake" /\ r.inner = "handshake" /\ r.body = <<Message("ServerHello")>>
                     \/ r.type = "alert" /\ r.inner = "alert"
  BY <1>2 DEF Fits
<1>4. /\ r.inner = "alert" => After(p, r) = AtEnd(d)
      /\ r.inner = "handshake" => After(p, r) = AtFlight(d, 0, Hellos(d))
  BY <1>2 DEF After
<1> QED BY <1>1, <1>3, <1>4

\* In the server's flight.
LEMMA FlightReads ==
    ASSUME NEW d, NEW n, NEW t, NEW r
    PROVE  LET p == AtFlight(d, n, t) IN
           /\ Fits(p, r) <=>
                \/ r.type = "change_cipher_spec" /\ r.inner = "change_cipher_spec"
                \/ /\ r.type = "application_data" /\ r.key = ServerKey(d) /\ r.n = n
                   /\ r.inner = "alert" \/ (r.inner = "handshake" /\ FlightOver(ServerKey(d), t, r.body))
           /\ r.inner = "change_cipher_spec" => After(p, r) = p
           /\ r.inner = "alert" => After(p, r) = AtEnd(d)
           /\ r.inner = "handshake" =>
                After(p, r) = IF Closes(r.body) THEN AtData(d, ServerData(d, t \o r.body), 0)
                                                ELSE AtFlight(d, n + 1, t \o r.body)
<1>1. PICK p : p = AtFlight(d, n, t)
  OBVIOUS
<1>2. p.stage = "flight" /\ p.draw = d /\ p.key = ServerKey(d) /\ p.n = n /\ p.hash = t
  BY <1>1 DEF AtFlight, Place
<1>3. Fits(p, r) <=>
                \/ r.type = "change_cipher_spec" /\ r.inner = "change_cipher_spec"
                \/ /\ r.type = "application_data" /\ r.key = ServerKey(d) /\ r.n = n
                   /\ r.inner = "alert" \/ (r.inner = "handshake" /\ FlightOver(ServerKey(d), t, r.body))
  BY <1>2 DEF Fits, Opens
<1>4. /\ r.inner = "change_cipher_spec" => After(p, r) = p
      /\ r.inner = "alert" => After(p, r) = AtEnd(d)
      /\ r.inner = "handshake" =>
           After(p, r) = IF Closes(r.body) THEN AtData(d, ServerData(d, t \o r.body), 0)
                                           ELSE AtFlight(d, n + 1, t \o r.body)
  BY <1>2 DEF After
<1> QED BY <1>1, <1>3, <1>4

\* In the client's reply.
LEMMA ReplyReads ==
    ASSUME NEW d, NEW n, NEW t, NEW base, NEW r
    PROVE  LET p == AtReply(d, n, t, base) IN
           /\ Fits(p, r) <=>
                /\ r.type = "application_data" /\ r.key = ClientKey(d) /\ r.n = n
                /\ \/ r.inner = "alert"
                   \/ /\ r.inner = "handshake"
                      /\ r.body \in {<<Message("Certificate")>>, <<Message("CertificateVerify")>>,
                                     <<Finished(ClientKey(d), t)>>}
           /\ r.inner = "alert" => After(p, r) = AtEnd(d)
           /\ r.inner = "handshake" =>
                After(p, r) = IF Head(r.body).name = "Finished" THEN AtData(d, ClientData(d, base), 0)
                              ELSE AtReply(d, n + 1, Append(t, Head(r.body)), base)
<1>1. PICK p : p = AtReply(d, n, t, base)
  OBVIOUS
<1>2. p.stage = "reply" /\ p.draw = d /\ p.key = ClientKey(d) /\ p.n = n /\ p.hash = t /\ p.base = base
  BY <1>1 DEF AtReply, Place
<1>3. Fits(p, r) <=>
                /\ r.type = "application_data" /\ r.key = ClientKey(d) /\ r.n = n
                /\ \/ r.inner = "alert"
                   \/ /\ r.inner = "handshake"
                      /\ r.body \in {<<Message("Certificate")>>, <<Message("CertificateVerify")>>,
                                     <<Finished(ClientKey(d), t)>>}
  BY <1>2 DEF Fits, Opens
<1>4. /\ r.inner = "alert" => After(p, r) = AtEnd(d)
      /\ r.inner = "handshake" =>
           After(p, r) = IF Head(r.body).name = "Finished" THEN AtData(d, ClientData(d, base), 0)
                         ELSE AtReply(d, n + 1, Append(t, Head(r.body)), base)
  BY <1>2 DEF After
<1> QED BY <1>1, <1>3, <1>4

\* In the session, either way.
Speech == {"NewSessionTicket", "Answer", "Reject", "Frame", "Request"}

\* See Speech.
LEMMA DataReads ==
    ASSUME NEW d, NEW k, NEW n, NEW r
    PROVE  LET p == AtData(d, k, n) IN
           /\ Fits(p, r) <=>
                /\ r.type = "application_data" /\ r.key = k /\ r.n = n
                /\ \/ r.inner = "alert"
                   \/ r.inner \in {"handshake", "application_data"} /\ Head(r.body).name \in Speech
           /\ r.inner = "alert" => After(p, r) = AtEnd(d)
           /\ r.inner \in {"handshake", "application_data"} => After(p, r) = AtData(d, k, n + 1)
<1>1. PICK p : p = AtData(d, k, n)
  OBVIOUS
<1>2. p.stage = "data" /\ p.draw = d /\ p.key = k /\ p.n = n
  BY <1>1 DEF AtData, Place
<1>3. Fits(p, r) <=>
                /\ r.type = "application_data" /\ r.key = k /\ r.n = n
                /\ \/ r.inner = "alert"
                   \/ r.inner \in {"handshake", "application_data"} /\ Head(r.body).name \in Speech
  BY <1>2 DEF Fits, Opens, Speech
<1>4. /\ r.inner = "alert" => After(p, r) = AtEnd(d)
      /\ r.inner \in {"handshake", "application_data"} => After(p, r) = AtData(d, k, n + 1)
  BY <1>2 DEF After
<1> QED BY <1>1, <1>3, <1>4

\* The stages, and the key of the last one.
LEMMA Stages ==
    ASSUME NEW d, NEW n, NEW t, NEW base, NEW k
    PROVE  /\ AtHello(d).stage = "hello" /\ AtFlight(d, n, t).stage = "flight"
           /\ AtReply(d, n, t, base).stage = "reply" /\ AtData(d, k, n).stage = "data"
           /\ AtEnd(d).stage = "end" /\ AtData(d, k, n).key = k
BY DEF AtHello, AtFlight, AtReply, AtData, AtEnd, Place

\* What is written, field by field.
LEMMA Written ==
    ASSUME NEW schedule, NEW inner, NEW body
    PROVE  /\ LET r == Cipher(schedule, inner, body) IN
              /\ r.type = "application_data" /\ r.key = schedule.key /\ r.n = schedule.n
              /\ r.inner = inner /\ r.body = body
           /\ LET r == Plain(inner, body) IN r.type = inner /\ r.inner = inner /\ r.body = body
BY DEF Cipher, Plain

-----------------------------------------------------------------------------
(* Transcripts.                                                            *)

\* A beginning of a sequence, and the next element.
LEMMA Grown ==
    ASSUME NEW t, Listed(t), NEW b, Listed(b), NEW i \in 1 .. Len(b)
    PROVE  Append(t \o SubSeq(b, 1, i - 1), b[i]) = t \o SubSeq(b, 1, i)
<1>1. PICK S : t \in Seq(S) /\ b \in Seq(S)
  BY ListedBoth
<1>2. PICK n \in Nat : n + 1 = i
  <2>1. Len(b) \in Nat /\ i - 1 \in Nat /\ i - 1 + 1 = i
    BY <1>1
  <2> QED BY <2>1
<1>3. n + 1 <= Len(b) /\ Len(b) \in Nat /\ Len(t) \in Nat /\ i - 1 = n
  BY <1>1, <1>2
<1>4. PICK x, y : x = SubSeq(b, 1, n) /\ y = SubSeq(b, 1, i)
  OBVIOUS
<1>5. x \in Seq(S) /\ Len(x) = n /\ \A j \in 1 .. n : x[j] = b[j]
  <2>1. 0 \in Nat /\ 0 + n <= Len(b)
    BY <1>3
  <2> QED BY <1>1, <1>4, <2>1, SubSeqFacts
<1>6. y \in Seq(S) /\ Len(y) = n + 1 /\ \A j \in 1 .. n + 1 : y[j] = b[j]
  <2>1. 0 \in Nat /\ 0 + i <= Len(b) /\ i \in Nat
    BY <1>2, <1>3
  <2> QED BY <1>1, <1>2, <1>4, <2>1, SubSeqFacts
<1>7. /\ t \o x \in Seq(S) /\ Len(t \o x) = Len(t) + n
      /\ \A j \in 1 .. Len(t) : (t \o x)[j] = t[j]
      /\ \A j \in 1 .. n : (t \o x)[Len(t) + j] = b[j]
  <2>1. /\ t \o x \in Seq(S) /\ Len(t \o x) = Len(t) + Len(x)
        /\ \A j \in 1 .. Len(t) : (t \o x)[j] = t[j]
        /\ \A j \in 1 .. Len(x) : (t \o x)[Len(t) + j] = x[j]
    <3>1. x \in Seq(S)
      BY <1>5
    <3> QED BY <1>1, <3>1, ConcatFacts
  <2> QED BY <1>5, <2>1
<1>8. /\ t \o y \in Seq(S) /\ Len(t \o y) = Len(t) + (n + 1)
      /\ \A j \in 1 .. Len(t) : (t \o y)[j] = t[j]
      /\ \A j \in 1 .. n + 1 : (t \o y)[Len(t) + j] = b[j]
  <2>1. /\ t \o y \in Seq(S) /\ Len(t \o y) = Len(t) + Len(y)
        /\ \A j \in 1 .. Len(t) : (t \o y)[j] = t[j]
        /\ \A j \in 1 .. Len(y) : (t \o y)[Len(t) + j] = y[j]
    <3>1. y \in Seq(S)
      BY <1>6
    <3> QED BY <1>1, <3>1, ConcatFacts
  <2> QED BY <1>6, <2>1
<1>9. PICK u, v, e, m : u = t \o x /\ v = t \o y /\ e = b[i] /\ m = Len(t) + n
  OBVIOUS
<1>13. m \in Nat
  BY <1>3, <1>9
<1>10. /\ u \in Seq(S) /\ Len(u) = m /\ v \in Seq(S) /\ Len(v) = m + 1 /\ e \in S /\ v[m + 1] = e
  <2>1. b[i] \in S
    BY <1>1
  <2>2. n + 1 \in 1 .. n + 1 /\ Len(t) + (n + 1) = m + 1
    BY <1>3, <1>9, <1>13
  <2> QED BY <1>2, <1>7, <1>8, <1>9, <2>1, <2>2
<1>11. ASSUME NEW j \in 1 .. m PROVE u[j] = v[j]
  <2>1. CASE j \in 1 .. Len(t)
    BY <1>7, <1>8, <1>9, <2>1
  <2>2. CASE j \notin 1 .. Len(t)
    <3>1. PICK l \in 1 .. n : j = Len(t) + l
      <4>1. j - Len(t) \in 1 .. n /\ j = Len(t) + (j - Len(t))
        BY <1>3, <1>9, <1>13, <2>2
      <4> QED BY <4>1
    <3>2. l \in 1 .. n + 1
      BY <1>3
    <3> QED BY <1>7, <1>8, <1>9, <3>1, <3>2
  <2> QED BY <2>1, <2>2
<1>12. Append(u, e) = v
  <2>1. /\ Append(u, e) \in Seq(S) /\ Len(Append(u, e)) = m + 1 /\ Append(u, e)[m + 1] = e
        /\ \A j \in 1 .. m : Append(u, e)[j] = u[j]
    BY <1>10, <1>13
  <2>2. \A j \in 1 .. m + 1 : j = m + 1 \/ j \in 1 .. m
    BY <1>13
  <2>3. \A j \in 1 .. m + 1 : Append(u, e)[j] = v[j]
    BY <1>10, <1>11, <1>13, <2>1, <2>2
  <2> QED BY <1>10, <2>1, <2>3, SameElements
<1> QED BY <1>3, <1>4, <1>9, <1>12

\* No beginning, and all of it.
LEMMA Ends ==
    ASSUME NEW t, Listed(t)
    PROVE  t \o <<>> = t /\ SubSeq(t, 1, 0) = <<>> /\ SubSeq(t, 1, Len(t)) = t
<1>1. PICK S : t \in Seq(S)
  BY DEF Listed
<1>2. t \o <<>> = t
  BY <1>1
<1>3. SubSeq(t, 1, 0) = <<>>
  BY <1>1
<1>4. SubSeq(t, 1, Len(t)) = t
  BY <1>1
<1> QED BY <1>2, <1>3, <1>4

-----------------------------------------------------------------------------
(* The client reads the flight.                                            *)

\* What one message makes of a client that has not failed, when a Finished
\* covers what the client has hashed.
HearsOne(a, m, b) ==
    /\ b.r = a.r
    /\ \/ b.err \in {"AbortHandshake", "InvalidHandshake"} /\ b.state = a.state /\ m.name # "Finished"
       \/ /\ b.err = "none" /\ b.transcript = Append(a.transcript, m)
          /\ m.name # "Finished" => b.state = a.state
          /\ m.name = "Finished" =>
                b.state = "ClientCert" \/ (b.state = "ClientFinished" /\ b.traffic_hash = b.transcript)

\* See HearsOne.
LEMMA HearMessage ==
    ASSUME NEW a, IsClient(a), a.err = "none", NEW m,
           m.name = "Finished" => m.mac = <<a.r.key, a.transcript>>
    PROVE  HearsOne(a, m, Hear(a, m))
<1> DEFINE heard == Hashed(a, m)
           b == Hear(a, m)
<1>1. /\ IsClient(heard) /\ heard.transcript = Append(a.transcript, m)
      /\ heard.state = a.state /\ heard.r = a.r /\ heard.err = "none"
  BY HashedFields
<1>2. "AbortHandshake" \in Errors /\ "InvalidHandshake" \in Errors
  BY DEF Errors
<1> HIDE DEF heard
<1>3. CASE m.name = "Finished"
  <2>1. b = [heard EXCEPT !.state = "ClientCert"]
        \/ b = [heard EXCEPT !.state = "ClientFinished", !.traffic_hash = heard.transcript]
    <3>1. heard.request \in BOOLEAN
      BY <1>1 DEF IsClient
    <3> QED BY <1>3, <3>1 DEF Hear, heard
  <2> HIDE DEF b
  <2>2. /\ b.r = a.r /\ b.err = "none" /\ b.transcript = heard.transcript
        /\ b.state = "ClientCert" \/ (b.state = "ClientFinished" /\ b.traffic_hash = b.transcript)
    <3>1. PICK t : t = heard.transcript
      OBVIOUS
    <3>2. CASE b = [heard EXCEPT !.state = "ClientCert"]
      BY <1>1, <3>2 DEF IsClient
    <3>3. CASE b = [heard EXCEPT !.state = "ClientFinished", !.traffic_hash = t]
      <4>1. b.state = "ClientFinished" /\ b.traffic_hash = t
        BY <1>1, <3>3 DEF IsClient
      <4>2. b.r = a.r /\ b.err = "none" /\ b.transcript = t
        BY <1>1, <3>1, <3>3 DEF IsClient
      <4> QED BY <3>1, <4>1, <4>2
    <3> QED BY <2>1, <3>1, <3>2, <3>3
  <2> QED BY <1>1, <1>3, <2>2 DEF HearsOne, b
<1>4. CASE m.name # "Finished"
  <2>1. b \in {Failed(a, "AbortHandshake"), Failed(heard, "InvalidHandshake"), heard,
               [heard EXCEPT !.request = TRUE]}
    BY <1>4 DEF Hear, heard
  <2> HIDE DEF b
  <2>2. CASE b = Failed(a, "AbortHandshake") \/ b = Failed(heard, "InvalidHandshake")
    <3>1. b.r = a.r /\ b.err \in {"AbortHandshake", "InvalidHandshake"} /\ b.state = a.state
      BY <1>1, <1>2, <2>2, FailedFields
    <3> QED BY <1>4, <3>1 DEF HearsOne, b
  <2>3. CASE b = heard \/ b = [heard EXCEPT !.request = TRUE]
    <3>1. b.r = a.r /\ b.err = "none" /\ b.transcript = heard.transcript /\ b.state = a.state
      BY <1>1, <2>3 DEF IsClient
    <3> QED BY <1>1, <1>4, <3>1 DEF HearsOne, b
  <2> QED BY <2>1, <2>2, <2>3
<1> QED BY <1>3, <1>4

\* What the first i messages of a record make of the client.
HearsSome(cl, body, i, b) ==
    /\ b.r = cl.r
    /\ \/ b.err \in {"AbortHandshake", "InvalidHandshake"} /\ b.state = "ServerVerify"
       \/ /\ b.err = "none" /\ b.transcript = cl.transcript \o SubSeq(body, 1, i)
          /\ \/ b.state = "ServerVerify" /\ \A j \in 1 .. i : body[j].name # "Finished"
             \/ /\ i = Len(body) /\ Closes(body)
                /\ b.state = "ClientCert" \/ (b.state = "ClientFinished" /\ b.traffic_hash = b.transcript)

\* A record of the flight that fits makes the client fail in a way of its own,
\* or leaves it with the transcript it was sealed over.
LEMMA HearFlight ==
    ASSUME NEW cl, IsClient(cl), cl.err = "none", cl.state = "ServerVerify",
           Listed(cl.transcript), Listed(cl.traffic_hash),
           NEW body, Listed(body), FlightOver(cl.r.key, cl.transcript, body)
    PROVE  HearsSome(cl, body, Len(body), FoldLeft(Hear, cl, body))
<1> DEFINE S == Range(cl.transcript) \cup Range(body)
<1>1. cl.transcript \in Seq(S) /\ body \in Seq(S)
  BY ListedBoth
<1> HIDE DEF S
<1>2. cl \in Hearing(cl, S)
  BY <1>1 DEF IsClient, Hearing
<1>3. PICK g \in [ 0 .. Len(body) -> Hearing(cl, S) ] : Heard(g, cl, body)
  BY <1>1, <1>2, HearTrace
<1>4. PICK n \in Nat : n = Len(body)
  BY <1>1
<1> DEFINE T == { i \in Nat : i <= n => HearsSome(cl, body, i, g[i]) }
<1>5. 0 \in T
  <2>1. g[0] = cl
    BY <1>3 DEF Heard
  <2>2. cl.transcript \o SubSeq(body, 1, 0) = cl.transcript
    BY Ends
  <2>3. \A j \in 1 .. 0 : body[j].name # "Finished"
    OBVIOUS
  <2> QED BY <2>1, <2>2, <2>3 DEF HearsSome
<1>6. ASSUME NEW k \in T PROVE k + 1 \in T
  <2>1. SUFFICES ASSUME k + 1 <= n PROVE HearsSome(cl, body, k + 1, g[k + 1])
    OBVIOUS
  <2>2. PICK i \in 1 .. n : i = k + 1
    BY <2>1
  <2>3. i - 1 = k /\ k \in 0 .. n /\ k <= n /\ k # n
    BY <1>4, <2>1, <2>2
  <2>4. PICK a, b, m : a = g[k] /\ b = g[i] /\ m = body[i]
    OBVIOUS
  <2>5. b = Hear(a, m)
    BY <1>3, <1>4, <2>2, <2>3, <2>4 DEF Heard
  <2>6. HearsSome(cl, body, k, a)
    BY <2>3, <2>4
  <2>7. IsClient(a)
    <3>1. a \in Hearing(cl, S)
      BY <1>3, <1>4, <2>3, <2>4
    <3> QED BY <3>1 DEF IsClient, Hearing, States
  <2>8. CASE a.err # "none"
    <3>1. b = a
      BY <2>5, <2>8 DEF Hear
    <3> QED BY <2>2, <2>4, <2>6, <2>8, <3>1 DEF HearsSome
  <2>9. CASE a.err = "none"
    <3>1. /\ a.r = cl.r /\ a.transcript = cl.transcript \o SubSeq(body, 1, i - 1)
          /\ a.state = "ServerVerify" /\ \A j \in 1 .. k : body[j].name # "Finished"
      BY <1>4, <2>3, <2>6, <2>9 DEF HearsSome
    <3>2. i \in DOMAIN body
      BY <1>1, <1>4
    <3>3. m.name = "Finished" => i = Len(body) /\ m.mac = <<a.r.key, a.transcript>>
      BY <2>4, <3>1, <3>2 DEF FlightOver
    <3>4. HearsOne(a, m, b)
      BY <2>5, <2>7, <2>9, <3>3, HearMessage
    <3>5. Append(a.transcript, m) = cl.transcript \o SubSeq(body, 1, i)
      BY <1>4, <2>4, <3>1, Grown
    <3>6. m.name # "Finished" => \A j \in 1 .. i : body[j].name # "Finished"
      <4>1. \A j \in 1 .. i : j = i \/ j \in 1 .. k
        BY <2>2
      <4> QED BY <2>4, <3>1, <4>1
    <3>7. m.name = "Finished" => Closes(body)
      BY <2>4, <3>2 DEF Closes
    <3>8. HearsSome(cl, body, i, b)
      BY <3>1, <3>3, <3>4, <3>5, <3>6, <3>7 DEF HearsOne, HearsSome
    <3> QED BY <2>2, <2>4, <3>8
  <2> QED BY <2>8, <2>9
<1>7. T = Nat
  <2> HIDE DEF T
  <2>1. T \subseteq Nat
    BY DEF T
  <2> QED BY <1>5, <1>6, <2>1, Induct
<1>8. HearsSome(cl, body, n, g[n])
  BY <1>7
<1> QED BY <1>3, <1>4, <1>8 DEF Heard

-----------------------------------------------------------------------------
(* The steps of the client.                                                *)

\* Both ends and what is between them.
Linked == Shapes /\ ClientSide /\ ServerSide /\ Uplink /\ Downlink

\* A new transport and a new client.
LEMMA ConnectLinked ==
    ASSUME Shapes, up = <<>>, down = <<>>, srv = SrvNew, Connect
    PROVE  Linked'
<1>1. c' = TlsNew /\ up' = <<>> /\ down' = <<>> /\ srv' = SrvNew
  BY DEF Connect
<1>2. c'.state = "ClientHello" /\ c'.err = "none" /\ srv'.pc = "listen" /\ ~srv'.refused
  BY <1>1 DEF TlsNew, SrvNew
<1>3. Shapes'
  BY <1>1 DEF Shapes
<1>4. ClientSide'
  BY <1>2 DEF ClientSide
<1>5. ServerSide'
  BY <1>1, <1>2 DEF ServerSide
<1>6. Uplink'
  BY <1>1, <1>2 DEF Uplink, Replying
<1>7. Downlink'
  BY <1>1, <1>2 DEF Downlink
<1> QED BY <1>3, <1>4, <1>5, <1>6, <1>7 DEF Linked

\* One record is a sequence of records.
LEMMA Sent ==
    ASSUME NEW r
    PROVE  Append(<<>>, r) = <<r>> /\ Listed(<<r>>) /\ Listed(<<>>)
<1>1. Append(<<>>, r) = <<r>>
  OBVIOUS
<1>2. Listed(<<r>>) /\ Listed(<<>>)
  BY DEF Listed, Range
<1> QED BY <1>1, <1>2

\* ClientHello is the first record, and its share the draw.
LEMMA ClientHelloLinked == NonceInv /\ Linked /\ ClientHello => Linked'
<1> SUFFICES ASSUME NonceInv, Linked, ClientHello PROVE Linked'
  OBVIOUS
<1> DEFINE hello == Hello("ClientHello", drawn')
           early == [c EXCEPT !.secret = Derived(Extract(@, Zero)),
                              !.ephemeral = drawn', !.state = "ServerHello"]
           said == Hashed(early, hello)
           alert == Plain("alert", <<Message("Alert")>>)
<1>1. /\ c = TlsNew /\ c.state = "ClientHello" /\ c.err = "none" /\ c.transcript = <<>>
      /\ down' = down /\ srv' = srv /\ drawn' = drawn + 1
      /\ c' = Respond(said) /\ up' = Append(up, Plain("handshake", <<hello>>))
  BY DEF ClientHello, Working, NonceInv, Stage, Sends, TlsNew
<1>2. /\ c'.state = "ServerHello" /\ c'.err = "none" /\ c'.transcript = <<hello>>
  <2>1. PICK x : x = Derived(Extract(c.secret, Zero))
    OBVIOUS
  <2>2. early = [c EXCEPT !.secret = x, !.ephemeral = drawn', !.state = "ServerHello"]
    BY <2>1
  <2>3. IsClient(c)
    BY DEF NonceInv
  <2> HIDE DEF early
  <2>4. IsClient(early) /\ early.state = "ServerHello" /\ early.err = "none" /\ early.transcript = <<>>
    BY <1>1, <2>2, <2>3 DEF IsClient, States
  <2> HIDE DEF hello
  <2>5. IsClient(said) /\ said.state = "ServerHello" /\ said.err = "none" /\ said.transcript = Append(<<>>, hello)
    BY <2>4, HashedFields
  <2> HIDE DEF said
  <2>6. c'.state = "ServerHello" /\ c'.err = "none" /\ c'.transcript = Append(<<>>, hello)
    BY <1>1, <2>5, RespondFields
  <2> QED BY <2>6, Sent
<1> HIDE DEF early, said
<1>3. srv.pc # "closed" => srv.pc = "listen" /\ up = <<>>
  BY <1>1 DEF Linked, Uplink
<1>4. down = <<>> \/ (srv.pc = "closed" /\ down = <<alert>>)
  BY <1>1 DEF Linked, Downlink
<1>5. Shapes'
  BY <1>1, Longer DEF Linked, Shapes
<1>6. ClientSide'
  BY <1>2 DEF ClientSide
<1>7. ServerSide'
  BY <1>1, <1>3 DEF Linked, ServerSide
<1>8. Uplink'
  <2>1. srv'.pc # "closed" => srv'.pc = "listen" /\ up' = <<Plain("handshake", <<hello>>)>>
    BY <1>1, <1>3, Sent
  <2> QED BY <1>2, <2>1 DEF Uplink, Replying
<1>9. Downlink'
  <2>1. PICK p : p = AtHello(drawn')
    OBVIOUS
  <2>2. ClientReads' = p
    BY <1>2, <2>1 DEF ClientReads
  <2>3. CASE down = <<>>
    <3>1. Leads(down', p, p)
      BY <1>1, <2>3, LeadsNowhere
    <3>2. srv'.pc # "closed" => ServerWrites' = p
      BY <1>1, <1>3, <2>1 DEF ServerWrites
    <3> QED BY <1>2, <2>2, <3>1, <3>2 DEF Downlink
  <2>4. CASE srv.pc = "closed" /\ down = <<alert>>
    <3>1. alert.type = "alert" /\ alert.inner = "alert"
      BY Written
    <3> HIDE DEF alert
    <3>2. Fits(p, alert)
      BY <2>1, <3>1, HelloReads
    <3>3. Leads(Append(<<>>, alert), p, After(p, alert))
      BY <3>2, LeadsNowhere, LeadsOn, Sent
    <3>4. Leads(down', p, After(p, alert)) /\ srv'.pc = "closed"
      BY <1>1, <2>4, <3>3, Sent
    <3> QED BY <1>2, <2>2, <3>4 DEF Downlink
  <2> QED BY <1>4, <2>3, <2>4
<1> QED BY <1>5, <1>6, <1>7, <1>8, <1>9 DEF Linked

\* The reply to ClientHello gives the client the server's handshake keys.
LEMMA ReadsServerHello ==
    ASSUME NonceInv, Linked, c.state = "ServerHello", c.err = "none",
           NEW record, Fits(AtHello(drawn), record)
    PROVE  LET d == AfterServerHello(record) IN
           \/ /\ record.inner = "alert" /\ d.err = "HandshakeAborted" /\ d.state = "ServerHello"
              /\ d.transcript = c.transcript
           \/ /\ record.inner = "handshake" /\ d.state = "ServerVerify" /\ d.err = "none"
              /\ d.transcript = Hellos(drawn)
              /\ d.r = Fresh(ServerKey(drawn)) /\ d.w = Fresh(ClientKey(drawn))
<1> DEFINE d == AfterServerHello(record)
           hello == Hello("ClientHello", drawn)
           heard == Hashed(c, Head(record.body))
           t == WithTraffic(heard, "c_hs_traffic", "s_hs_traffic", c.ephemeral)
<1>1. /\ IsClient(c) /\ drawn \in Nat /\ drawn > 0 /\ c.ephemeral = drawn /\ c.ephemeral # NoSecret
      /\ c.secret = Derived(Extract(<<>>, Zero)) /\ c.transcript = <<hello>>
  BY DEF NonceInv, Stage, Linked, ClientSide, NoSecret
<1>2. \/ record.type = "handshake" /\ record.inner = "handshake" /\ record.body = <<Message("ServerHello")>>
      \/ record.type = "alert" /\ record.inner = "alert"
  BY HelloReads
<1>3. CASE record.type = "alert"
  <2>1. d = Failed(c, "HandshakeAborted")
    BY <1>3 DEF AfterServerHello
  <2>2. "HandshakeAborted" \in Errors
    BY DEF Errors
  <2> HIDE DEF d
  <2>3. d.err = "HandshakeAborted" /\ d.state = c.state /\ d.transcript = c.transcript
    BY <1>1, <2>1, <2>2, FailedFields
  <2> QED BY <1>2, <1>3, <2>3 DEF d
<1>4. CASE record.type = "handshake"
  <2>1. d = [t EXCEPT !.state = "ServerVerify", !.ephemeral = NoSecret]
    BY <1>1, <1>4 DEF AfterServerHello
  <2>2. Head(record.body) = Message("ServerHello")
    <3>1. record.body = <<Message("ServerHello")>>
      BY <1>2, <1>4
    <3> QED BY <3>1
  <2>3. /\ IsClient(heard) /\ heard.transcript = Append(c.transcript, Message("ServerHello"))
        /\ heard.err = "none" /\ heard.secret = c.secret
    BY <1>1, <2>2, HashedFields
  <2>4. heard.transcript = Hellos(drawn)
    <3> HIDE DEF hello, heard
    <3>1. Append(<<hello>>, Message("ServerHello")) = <<hello, Message("ServerHello")>>
      BY PushedTo
    <3> QED BY <1>1, <2>3, <3>1 DEF Hellos, hello
  <2> HIDE DEF heard, hello
  <2>5. PICK s : s = Extract(heard.secret, c.ephemeral)
    OBVIOUS
  <2>6. Rekeyed(t, heard, "c_hs_traffic", "s_hs_traffic", s)
    BY <2>3, <2>5, TrafficFields
  <2>7. s = HandshakeSecret(drawn)
    BY <1>1, <2>3, <2>5, Secrets
  <2> HIDE DEF t
  <2>8. /\ IsClient(t) /\ t.transcript = Hellos(drawn) /\ t.err = "none"
        /\ t.w = Fresh(ClientKey(drawn)) /\ t.r = Fresh(ServerKey(drawn))
    BY <2>3, <2>4, <2>6, <2>7 DEF Rekeyed, ClientKey, ServerKey
  <2>9. /\ d.state = "ServerVerify" /\ d.err = t.err /\ d.transcript = t.transcript
        /\ d.r = t.r /\ d.w = t.w
    BY <2>1, <2>8 DEF IsClient
  <2> HIDE DEF d
  <2> QED BY <1>2, <1>4, <2>8, <2>9 DEF d
<1> QED BY <1>2, <1>3, <1>4

\* A record of the flight, read where it fits.
LEMMA ReadsFlight ==
    ASSUME NonceInv, c.state = "ServerVerify", c.err = "none", c.r.key = ServerKey(drawn),
           NEW record, Listed(record.body), Fits(AtFlight(drawn, c.r.n, c.transcript), record)
    PROVE  LET d == AfterServerVerify(record) IN
           \/ record.inner = "change_cipher_spec" /\ d = c
           \/ /\ d.err \in {"InvalidRecord", "AbortHandshake", "InvalidHandshake"}
              /\ d.state = "ServerVerify" /\ d.r.key = c.r.key /\ IsClient(d)
           \/ /\ record.inner = "handshake" /\ d.err = "none" /\ d.r.key = c.r.key /\ d.r.n = c.r.n + 1
              /\ d.w = c.w /\ d.transcript = c.transcript \o record.body /\ IsClient(d)
              /\ ~Closes(record.body) => d.state = "ServerVerify"
              /\ Closes(record.body) =>
                    d.state = "ClientCert" \/ (d.state = "ClientFinished" /\ d.traffic_hash = d.transcript)
<1> DEFINE d == AfterServerVerify(record)
           heard == FoldLeft(Hear, c, record.body)
<1>1. IsClient(c) /\ Listed(c.transcript) /\ Listed(c.traffic_hash)
  BY DEF NonceInv, Lists
<1>2. \/ record.type = "change_cipher_spec" /\ record.inner = "change_cipher_spec"
      \/ /\ record.type = "application_data" /\ record.key = ServerKey(drawn) /\ record.n = c.r.n
         /\ record.inner = "alert"
                \/ (record.inner = "handshake" /\ FlightOver(ServerKey(drawn), c.transcript, record.body))
  BY FlightReads
<1>3. CASE record.type = "change_cipher_spec"
  <2>1. d = c
    BY <1>3 DEF AfterServerVerify
  <2> HIDE DEF d
  <2>2. record.inner = "change_cipher_spec"
    BY <1>2, <1>3
  <2> QED BY <2>1, <2>2 DEF d
<1>4. CASE record.type = "application_data" /\ record.inner = "alert"
  <2>1. Opens(c.r, record)
    BY <1>2, <1>4 DEF Opens
  <2>2. d = Failed(c, "InvalidRecord")
    BY <1>4, <2>1 DEF AfterServerVerify
  <2>3. "InvalidRecord" \in Errors
    BY DEF Errors
  <2> HIDE DEF d
  <2>4. d.err = "InvalidRecord" /\ d.state = c.state /\ d.r = c.r /\ IsClient(d)
    BY <1>1, <2>2, <2>3, FailedFields
  <2> QED BY <2>4 DEF d
<1>5. CASE record.type = "application_data" /\ record.inner = "handshake"
  <2>1. Opens(c.r, record)
    BY <1>2, <1>5 DEF Opens
  <2>2. d = IF heard.err = "none" THEN [heard EXCEPT !.r = Bumped(@)] ELSE heard
    BY <1>5, <2>1 DEF AfterServerVerify
  <2>3. FlightOver(c.r.key, c.transcript, record.body)
    BY <1>2, <1>5
  <2>4. HearsSome(c, record.body, Len(record.body), heard)
    BY <1>1, <2>3, HearFlight
  <2>5. SubSeq(record.body, 1, Len(record.body)) = record.body
    BY Ends
  <2>6. IsClient(heard) /\ heard.w = c.w /\ heard.r = c.r
    BY <1>1, HeardKeeps
  <2>7. \A j \in DOMAIN record.body : j \in 1 .. Len(record.body)
    BY DEF Listed
  <2> HIDE DEF heard, d
  <2>8. CASE heard.err # "none"
    <3>1. heard.err \in {"AbortHandshake", "InvalidHandshake"} /\ heard.state = "ServerVerify"
      BY <2>4, <2>8 DEF HearsSome
    <3>2. d = heard
      BY <2>2, <2>8
    <3> QED BY <2>6, <3>1, <3>2 DEF d
  <2>9. CASE heard.err = "none"
    <3>1. PICK r : r = Bumped(heard.r)
      OBVIOUS
    <3>2. d = [heard EXCEPT !.r = r]
      BY <2>2, <2>9, <3>1
    <3>3. r.key = c.r.key /\ r.n = c.r.n + 1 /\ r \in [key : {r.key}, n : Nat]
      BY <1>1, <2>6, <3>1 DEF IsClient, Bumped
    <3>4. /\ IsClient(d) /\ d.err = "none" /\ d.r = r /\ d.w = c.w /\ d.state = heard.state
          /\ d.transcript = heard.transcript /\ d.traffic_hash = heard.traffic_hash
      BY <2>6, <2>9, <3>2, <3>3 DEF IsClient
    <3>5. /\ heard.transcript = c.transcript \o record.body
          /\ \/ heard.state = "ServerVerify" /\ ~Closes(record.body)
             \/ /\ Closes(record.body)
                /\ heard.state = "ClientCert"
                     \/ (heard.state = "ClientFinished" /\ heard.traffic_hash = heard.transcript)
      BY <2>4, <2>5, <2>7, <2>9 DEF HearsSome, Closes
    <3> QED BY <1>5, <3>3, <3>4, <3>5 DEF d
  <2> QED BY <2>8, <2>9
<1> QED BY <1>2, <1>3, <1>4, <1>5

\* The parts of Linked that a client step which sends nothing leaves alone.
LEMMA ReadHandshakeShapes ==
    ASSUME Linked, srv' = srv, drawn' = drawn, \E r : up' = up \/ up' = Append(up, r)
    PROVE  Shapes' /\ ServerSide'
<1>1. Shapes'
  <2>1. Listed(up)
    BY DEF Linked, Shapes
  <2>2. Listed(up')
    <3>1. PICK r : up' = up \/ up' = Append(up, r)
      OBVIOUS
    <3>2. Listed(Append(up, r))
      BY <2>1, Longer
    <3> QED BY <2>1, <3>1, <3>2
  <2> QED BY <2>2 DEF Linked, Shapes
<1>2. ServerSide'
  BY DEF Linked, ServerSide
<1> QED BY <1>1, <1>2

\* The client meets the reply to its hello.
LEMMA ServerHelloLinked ==
    ASSUME NonceInv, Linked, ReadHandshake, c.state = "ServerHello"
    PROVE  Linked'
<1> DEFINE record == Head(down)
           d == AfterServerHello(record)
<1>1. /\ c.err = "none" /\ down # <<>> /\ down' = Tail(down) /\ srv' = srv /\ drawn' = drawn
      /\ Listed(down)
  BY DEF ReadHandshake, Working, NonceInv, Lists
<1>2. PICK q : Leads(down, AtHello(drawn), q) /\ (srv.pc # "closed" => q = ServerWrites)
  BY <1>1 DEF Linked, Downlink, ClientReads
<1>3. Fits(AtHello(drawn), record) /\ Leads(down', After(AtHello(drawn), record), q)
  BY <1>1, <1>2, LeadsFirst
<1>4. \/ /\ record.inner = "alert" /\ d.err = "HandshakeAborted" /\ d.state = "ServerHello"
         /\ d.transcript = c.transcript
      \/ /\ record.inner = "handshake" /\ d.state = "ServerVerify" /\ d.err = "none"
         /\ d.transcript = Hellos(drawn)
         /\ d.r = Fresh(ServerKey(drawn)) /\ d.w = Fresh(ClientKey(drawn))
  BY <1>1, <1>3, ReadsServerHello
<1> HIDE DEF d
<1>5. c' = d /\ up' = up
  BY <1>4 DEF ReadHandshake, d
<1> HIDE DEF record
<1>6. Shapes' /\ ServerSide'
  BY <1>1, <1>5, ReadHandshakeShapes
<1>7. srv.pc # "closed" =>
        \/ srv.pc = "listen" /\ up = <<Plain("handshake", <<Hello("ClientHello", drawn)>>)>>
        \/ /\ srv.pc \in {"flight", "client"} /\ up = <<>> /\ srv.r.n = 0
           /\ srv.pc = "client" => srv.transcript = srv.finished
  BY DEF Linked, Uplink
<1>8. CASE record.inner = "alert"
  <2>1. c'.err = "HandshakeAborted" /\ c'.state = "ServerHello" /\ c'.transcript = c.transcript
    BY <1>4, <1>5, <1>8
  <2>2. ClientSide'
    BY <1>1, <2>1 DEF Linked, ClientSide
  <2>3. Uplink'
    BY <1>1, <1>5, <1>7, <2>1 DEF Uplink, Replying
  <2>4. Downlink'
    BY <2>1 DEF Downlink
  <2> QED BY <1>6, <2>2, <2>3, <2>4 DEF Linked
<1>9. CASE record.inner = "handshake"
  <2>1. /\ c'.err = "none" /\ c'.state = "ServerVerify" /\ c'.transcript = Hellos(drawn)
        /\ c'.r = Fresh(ServerKey(drawn)) /\ c'.w = Fresh(ClientKey(drawn))
    BY <1>4, <1>5, <1>9
  <2>2. c'.r.key = ServerKey(drawn) /\ c'.r.n = 0
    BY <2>1 DEF Fresh
  <2>3. PICK p : p = AtFlight(drawn, 0, Hellos(drawn)) /\ Leads(down', p, q) /\ p.stage = "flight"
    BY <1>3, <1>9, HelloReads, Stages
  <2>4. srv.pc # "listen"
    <3>1. Listed(down')
      BY <1>1, RecordsListed DEF NonceInv, Lists
    <3>2. Beyond(p, q)
      BY <2>3, <3>1, LeadsBeyond
    <3>3. q.stage # "hello"
      BY <2>3, <3>2 DEF Beyond
    <3> QED BY <1>2, <3>3, Stages DEF ServerWrites
  <2>5. ClientSide'
    BY <1>1, <2>1, <2>2 DEF ClientSide
  <2>6. Uplink'
    BY <1>1, <1>5, <1>7, <2>1, <2>4 DEF Uplink, Replying
  <2>7. Downlink'
    <3>1. ClientReads' = p
      BY <1>1, <2>1, <2>2, <2>3 DEF ClientReads
    <3>2. ServerWrites' = ServerWrites
      BY <1>1 DEF ServerWrites
    <3> QED BY <1>1, <1>2, <2>1, <2>3, <3>1, <3>2 DEF Downlink
  <2> QED BY <1>6, <2>5, <2>6, <2>7 DEF Linked
<1> QED BY <1>4, <1>8, <1>9

\* The client has read Finished: its server has said all, and the client hashed
\* what the server did.
LEMMA FinishedRead ==
    ASSUME NonceInv, Linked, c.state = "ServerVerify", c.err = "none", Listed(down'),
           NEW q, srv.pc # "closed" => q = ServerWrites,
           NEW t, Leads(down', AtData(drawn, ServerData(drawn, t), 0), q)
    PROVE  srv.pc # "closed" =>
               srv.pc = "client" /\ srv.finished = t /\ up = <<>> /\ srv.r.n = 0 /\ srv.transcript = t
<1> SUFFICES ASSUME srv.pc # "closed" PROVE srv.pc = "client" /\ srv.finished = t /\ up = <<>>
                                            /\ srv.r.n = 0 /\ srv.transcript = t
  OBVIOUS
<1>1. PICK k, p : k = ServerData(drawn, t) /\ p = AtData(drawn, k, 0)
  OBVIOUS
<1>2. Beyond(p, ServerWrites) /\ p.stage = "data" /\ p.key = k
  BY <1>1, LeadsBeyond, Stages
<1>3. /\ srv.pc \in {"flight", "client"} /\ up = <<>> /\ srv.r.n = 0
      /\ srv.pc = "client" => srv.transcript = srv.finished
  BY DEF Linked, Uplink
<1>4. srv.pc = "client"
  BY <1>2, <1>3, Stages DEF Beyond, ServerWrites
<1>5. srv.w.key = k
  BY <1>2, <1>4, Stages DEF Beyond, ServerWrites
<1>6. ServerData(drawn, srv.finished) = ServerData(drawn, t)
  BY <1>1, <1>4, <1>5 DEF Linked, ServerSide
<1>7. ServerData(drawn, srv.finished).transcript = srv.finished /\ ServerData(drawn, t).transcript = t
  BY DEF ServerData, Traffic
<1> QED BY <1>3, <1>4, <1>6, <1>7

\* The client reads the flight.
LEMMA FlightLinked ==
    ASSUME NonceInv, Linked, ReadHandshake, c.state = "ServerVerify"
    PROVE  Linked'
<1> DEFINE record == Head(down)
           d == AfterServerVerify(record)
           abort == [Plain("change_cipher_spec", <<Message("Alert")>>) EXCEPT !.inner = "alert"]
<1>1. /\ c.err = "none" /\ down # <<>> /\ down' = Tail(down) /\ srv' = srv /\ drawn' = drawn
      /\ Listed(down) /\ IsClient(c)
  BY DEF ReadHandshake, Working, NonceInv, Lists
<1>2. c.r.key = ServerKey(drawn) /\ c.w = Fresh(ClientKey(drawn))
  BY <1>1 DEF Linked, ClientSide
<1>3. PICK p, q : /\ p = AtFlight(drawn, c.r.n, c.transcript)
                  /\ Leads(down, p, q) /\ (srv.pc # "closed" => q = ServerWrites)
  BY <1>1 DEF Linked, Downlink, ClientReads
<1>4. Fits(p, record) /\ Leads(down', After(p, record), q)
  BY <1>1, <1>3, LeadsFirst
<1>5. Listed(record.body) /\ Listed(down')
  BY <1>1, RecordsListed DEF NonceInv, Lists
<1>6. \/ record.inner = "change_cipher_spec" /\ d = c
      \/ /\ d.err \in {"InvalidRecord", "AbortHandshake", "InvalidHandshake"}
         /\ d.state = "ServerVerify" /\ d.r.key = c.r.key /\ IsClient(d)
      \/ /\ record.inner = "handshake" /\ d.err = "none" /\ d.r.key = c.r.key /\ d.r.n = c.r.n + 1
         /\ d.w = c.w /\ d.transcript = c.transcript \o record.body /\ IsClient(d)
         /\ ~Closes(record.body) => d.state = "ServerVerify"
         /\ Closes(record.body) =>
               d.state = "ClientCert" \/ (d.state = "ClientFinished" /\ d.traffic_hash = d.transcript)
  BY <1>1, <1>2, <1>3, <1>4, <1>5, ReadsFlight
<1>7. \/ d.err = "AbortHandshake" /\ c' = Respond(d) /\ up' = Append(up, abort)
      \/ c' = d /\ up' = up
  BY DEF ReadHandshake, Sends
<1> HIDE DEF d, record
<1>8. Shapes' /\ ServerSide'
  BY <1>1, <1>7, ReadHandshakeShapes
<1>9. ServerWrites' = ServerWrites
  BY <1>1 DEF ServerWrites
<1>10. srv.pc # "closed" => /\ srv.pc \in {"flight", "client"} /\ up = <<>> /\ srv.r.n = 0
                            /\ srv.pc = "client" => srv.transcript = srv.finished
  BY <1>1 DEF Linked, Uplink
<1>11. CASE record.inner = "change_cipher_spec" /\ d = c
  <2>1. c' = c /\ up' = up
    BY <1>1, <1>7, <1>11
  <2>2. After(p, record) = p
    BY <1>3, <1>11, FlightReads
  <2>3. ClientReads' = p
    BY <1>1, <1>3, <2>1 DEF ClientReads
  <2>4. ClientSide'
    BY <1>1, <2>1 DEF Linked, ClientSide, Covered
  <2>5. Uplink'
    BY <1>1, <1>10, <2>1 DEF Uplink, Replying
  <2>6. Downlink'
    BY <1>1, <1>3, <1>4, <1>9, <2>1, <2>2, <2>3 DEF Downlink
  <2> QED BY <1>8, <2>4, <2>5, <2>6 DEF Linked
<1>12. CASE d.err \in {"InvalidRecord", "AbortHandshake", "InvalidHandshake"}
  <2>1. d.state = "ServerVerify" /\ d.r.key = c.r.key /\ IsClient(d)
    BY <1>1, <1>6, <1>12
  <2>2. c'.err = d.err /\ c'.state = "ServerVerify" /\ c'.r.key = c.r.key
    BY <1>7, <2>1, RespondFields
  <2>3. ClientSide'
    BY <1>1, <1>2, <1>12, <2>2 DEF ClientSide
  <2>4. up' # <<>> /\ srv.pc # "closed" => Head(up').type = "change_cipher_spec"
    <3>1. abort.type = "change_cipher_spec"
      BY DEF Plain
    <3> HIDE DEF abort
    <3>2. Head(<<abort>>) = abort
      OBVIOUS
    <3> QED BY <1>7, <1>10, <3>1, <3>2, Sent
  <2>5. Uplink'
    BY <1>1, <1>10, <1>12, <2>2, <2>4 DEF Uplink, Replying
  <2>6. Downlink'
    BY <1>12, <2>2 DEF Downlink
  <2> QED BY <1>8, <2>3, <2>5, <2>6 DEF Linked
<1>13. CASE record.inner = "handshake" /\ d.err = "none"
  <2>1. PICK t : t = c.transcript \o record.body
    OBVIOUS
  <2>2. /\ c' = d /\ up' = up /\ c'.err = "none" /\ c'.r.key = ServerKey(drawn) /\ c'.r.n = c.r.n + 1
        /\ c'.w = c.w /\ c'.transcript = t
        /\ ~Closes(record.body) => c'.state = "ServerVerify"
        /\ Closes(record.body) =>
              c'.state = "ClientCert" \/ (c'.state = "ClientFinished" /\ c'.traffic_hash = t)
    BY <1>2, <1>6, <1>7, <1>13, <2>1
  <2>3. After(p, record) = IF Closes(record.body) THEN AtData(drawn, ServerData(drawn, t), 0)
                                                  ELSE AtFlight(drawn, c.r.n + 1, t)
    BY <1>3, <1>13, <2>1, FlightReads
  <2>4. CASE ~Closes(record.body)
    <3>1. ClientReads' = After(p, record)
      BY <1>1, <2>2, <2>3, <2>4 DEF ClientReads
    <3>2. ClientSide'
      BY <1>1, <1>2, <2>2, <2>4 DEF ClientSide
    <3>3. Uplink'
      BY <1>1, <1>10, <2>2, <2>4 DEF Uplink, Replying
    <3>4. Downlink'
      BY <1>1, <1>3, <1>4, <1>9, <2>2, <2>4, <3>1 DEF Downlink
    <3> QED BY <1>8, <3>2, <3>3, <3>4 DEF Linked
  <2>5. CASE Closes(record.body)
    <3>1. /\ c'.state \in {"ClientCert", "ClientFinished"}
          /\ c'.state = "ClientFinished" => c'.traffic_hash = t
      BY <2>2, <2>5
    <3>2. Covered' = t
      BY <2>2, <3>1 DEF Covered
    <3>3. ClientReads' = After(p, record)
      BY <1>1, <2>2, <2>3, <2>5, <3>1 DEF ClientReads
    <3>4. c'.w.key = ClientKey(drawn) /\ c'.w.n = 0
      BY <1>2, <2>2 DEF Fresh
    <3>5. ClientSide'
      BY <1>1, <2>2, <3>1, <3>4 DEF ClientSide
    <3>6. Downlink'
      BY <1>1, <1>3, <1>4, <1>9, <3>1, <3>3 DEF Downlink
    <3>7. srv.pc # "closed" => srv.pc = "client" /\ srv.finished = t /\ up = <<>> /\ srv.r.n = 0
                               /\ srv.transcript = t
      <4>1. Leads(down', AtData(drawn, ServerData(drawn, t), 0), q)
        BY <1>4, <2>3, <2>5
      <4> QED BY <1>1, <1>3, <1>5, <4>1, FinishedRead
    <3>8. srv'.pc # "closed" => ServerReads' = ClientWrites'
      <4>1. ClientWrites' = AtReply(drawn, 0, t, srv.finished)
        BY <1>1, <2>2, <3>1, <3>4 DEF ClientWrites
      <4>2. srv'.pc # "closed" => ServerReads' = AtReply(drawn, 0, t, srv.finished)
        BY <1>1, <3>7 DEF ServerReads
      <4> QED BY <4>1, <4>2
    <3>9. Uplink'
      <4>1. srv'.pc # "closed" => Leads(up', ServerReads', ClientWrites')
        BY <1>1, <2>2, <3>7, <3>8, LeadsNowhere
      <4> QED BY <1>1, <3>1, <3>2, <3>7, <4>1 DEF Uplink, Replying
    <3> QED BY <1>8, <3>5, <3>6, <3>9 DEF Linked
  <2> QED BY <2>4, <2>5
<1> QED BY <1>6, <1>11, <1>12, <1>13

\* The client writes what the server will expect.
LEMMA WritesLinked ==
    ASSUME Linked, c.state \in Replying, c.err = "none",
           down' = down, srv' = srv, drawn' = drawn,
           NEW r, up' = Append(up, r), Fits(ClientWrites, r),
           c'.state \in Replying, Covered' = Covered, ClientReads' = ClientReads, ClientSide',
           srv.pc # "closed" /\ Covered = srv.finished /\ c'.err = "none" =>
                ClientWrites' = After(ClientWrites, r)
    PROVE  Linked'
<1>1. Shapes' /\ ServerSide'
  BY ReadHandshakeShapes
<1>2. c.state \notin {"ClientHello", "ServerHello", "ServerVerify"}
      /\ c'.state \notin {"ClientHello", "ServerHello", "ServerVerify"}
  BY DEF Replying
<1>3. Uplink'
  <2>1. SUFFICES ASSUME srv.pc # "closed"
                 PROVE  /\ srv.pc \in {"client", "open"} /\ Covered = srv.finished
                        /\ \E q : Leads(up', ServerReads', q) /\ (c'.err = "none" => q = ClientWrites')
    BY <1>2 DEF Uplink
  <2>2. /\ srv.pc \in {"client", "open"} /\ Covered = srv.finished
        /\ Leads(up, ServerReads, ClientWrites)
    BY <2>1 DEF Linked, Uplink
  <2>3. Listed(up)
    BY DEF Linked, Shapes
  <2>4. Leads(Append(up, r), ServerReads, After(ClientWrites, r))
    BY <2>2, <2>3, LeadsOn
  <2>5. ServerReads' = ServerReads
    BY DEF ServerReads
  <2> QED BY <2>1, <2>2, <2>4, <2>5
<1>4. Downlink'
  <2>1. ServerWrites' = ServerWrites
    BY DEF ServerWrites
  <2> QED BY <1>2, <2>1 DEF Linked, Downlink
<1> QED BY <1>1, <1>3, <1>4 DEF Linked

\* The certificate of the client, or that it has none.
LEMMA ClientCertLinked == NonceInv /\ Linked /\ ClientCert => Linked'
<1> SUFFICES ASSUME NonceInv, Linked, ClientCert PROVE Linked'
  OBVIOUS
<1> DEFINE message == Message("Certificate")
           record == Cipher(c.w, "handshake", <<message>>)
<1>1. /\ c.state = "ClientCert" /\ c.err = "none" /\ IsClient(c)
      /\ down' = down /\ drawn' = drawn /\ srv' = srv /\ up' = Append(up, record)
  BY DEF ClientCert, Working, NonceInv, Sends
<1>2. PICK next \in {"ClientCertVerify", "ClientFinished"} :
        c' = Respond(Hashed([c EXCEPT !.traffic_hash = c.transcript, !.state = next], message))
  BY DEF ClientCert
<1> DEFINE saved == [c EXCEPT !.traffic_hash = c.transcript, !.state = next]
           said == Hashed(saved, message)
<1>3. /\ IsClient(saved) /\ saved.transcript = c.transcript /\ saved.traffic_hash = c.transcript
      /\ saved.state = next /\ saved.w = c.w /\ saved.err = "none"
  BY <1>1 DEF IsClient, States
<1>4. message.name # "Finished" /\ Head(<<message>>) = message
  BY DEF Message
<1> HIDE DEF saved, message
<1>5. /\ IsClient(said) /\ said.transcript = Append(c.transcript, message)
      /\ said.traffic_hash = c.transcript
      /\ said.state = next /\ said.w = c.w /\ said.err = "none"
  BY <1>3, HashedFields
<1> HIDE DEF said
<1>6. /\ c'.transcript = Append(c.transcript, message) /\ c'.err = "none"
      /\ c'.traffic_hash = c.transcript /\ c'.state = next
      /\ c'.w.key = c.w.key /\ c'.w.n = c.w.n + 1
  BY <1>2, <1>5, RespondFields DEF said, saved
<1>7. c.w.key = ClientKey(drawn)
  BY <1>1 DEF Linked, ClientSide
<1>8. Covered = c.transcript /\ Covered' = c.transcript
  BY <1>1, <1>6 DEF Covered
<1>9. ClientReads' = ClientReads
  BY <1>1, <1>6 DEF ClientReads
<1>10. ClientSide'
  BY <1>1, <1>6, <1>7 DEF ClientSide
<1>11. /\ ClientWrites = AtReply(drawn, c.w.n, c.transcript, srv.finished)
       /\ ClientWrites' = AtReply(drawn, c.w.n + 1, Append(c.transcript, message), srv.finished)
  BY <1>1, <1>6 DEF ClientWrites
<1>12. /\ record.type = "application_data" /\ record.key = ClientKey(drawn) /\ record.n = c.w.n
       /\ record.inner = "handshake" /\ record.body = <<message>>
  BY <1>7, Written
<1> HIDE DEF record
<1>13. Fits(ClientWrites, record)
  BY <1>11, <1>12, ReplyReads DEF message
<1>14. After(ClientWrites, record) = ClientWrites'
  BY <1>4, <1>11, <1>12, ReplyReads
<1> QED BY <1>1, <1>6, <1>8, <1>9, <1>10, <1>13, <1>14, WritesLinked DEF Replying

\* Its signature, or the alert of a client that cannot sign.
LEMMA ClientCertVerifyLinked == NonceInv /\ Linked /\ ClientCertVerify => Linked'
<1> SUFFICES ASSUME NonceInv, Linked, ClientCertVerify PROVE Linked'
  OBVIOUS
<1> DEFINE message == Message("CertificateVerify")
           record == Cipher(c.w, "handshake", <<message>>)
           alert == Cipher(c.w, "alert", <<Message("CloseNotify")>>)
<1>1. /\ c.state = "ClientCertVerify" /\ c.err = "none" /\ IsClient(c)
      /\ down' = down /\ drawn' = drawn /\ srv' = srv
  BY DEF ClientCertVerify, Working, NonceInv
<1>2. \/ /\ c' = Respond(Hashed([c EXCEPT !.state = "ClientFinished"], message))
         /\ up' = Append(up, record)
      \/ c' = Failed(Respond(c), "NoSigner") /\ up' = Append(up, alert)
  BY DEF ClientCertVerify, Sends
<1>3. c.w.key = ClientKey(drawn)
  BY <1>1 DEF Linked, ClientSide
<1>4. ClientWrites = AtReply(drawn, c.w.n, c.transcript, srv.finished)
  BY <1>1 DEF ClientWrites
<1>5. message.name # "Finished" /\ Head(<<message>>) = message
  BY DEF Message
<1>6. /\ record.type = "application_data" /\ record.key = ClientKey(drawn) /\ record.n = c.w.n
      /\ record.inner = "handshake" /\ record.body = <<message>>
  BY <1>3, Written
<1>7. /\ alert.type = "application_data" /\ alert.key = ClientKey(drawn) /\ alert.n = c.w.n
      /\ alert.inner = "alert"
  BY <1>3, Written
<1> HIDE DEF record, alert, message
<1>8. CASE c' = Respond(Hashed([c EXCEPT !.state = "ClientFinished"], message)) /\ up' = Append(up, record)
  <2> DEFINE next == [c EXCEPT !.state = "ClientFinished"]
             said == Hashed(next, message)
  <2>1. /\ IsClient(next) /\ next.transcript = c.transcript /\ next.traffic_hash = c.traffic_hash
        /\ next.state = "ClientFinished" /\ next.w = c.w /\ next.err = "none"
    BY <1>1 DEF IsClient, States
  <2> HIDE DEF next
  <2>2. /\ IsClient(said) /\ said.transcript = Append(c.transcript, message)
        /\ said.traffic_hash = c.traffic_hash
        /\ said.state = "ClientFinished" /\ said.w = c.w /\ said.err = "none"
    BY <2>1, HashedFields
  <2> HIDE DEF said
  <2>3. /\ c'.transcript = Append(c.transcript, message) /\ c'.err = "none"
        /\ c'.traffic_hash = c.traffic_hash /\ c'.state = "ClientFinished"
        /\ c'.w.key = c.w.key /\ c'.w.n = c.w.n + 1
    BY <1>8, <2>2, RespondFields DEF said, next
  <2>4. Covered' = Covered /\ ClientReads' = ClientReads
    BY <1>1, <2>3 DEF Covered, ClientReads
  <2>5. ClientSide'
    BY <1>1, <1>3, <2>3 DEF ClientSide
  <2>6. ClientWrites' = AtReply(drawn, c.w.n + 1, Append(c.transcript, message), srv.finished)
    BY <1>1, <2>3 DEF ClientWrites
  <2>7. Fits(ClientWrites, record)
    BY <1>4, <1>6, ReplyReads DEF message
  <2>8. After(ClientWrites, record) = ClientWrites'
    BY <1>4, <1>5, <1>6, <2>6, ReplyReads
  <2> QED BY <1>1, <1>8, <2>3, <2>4, <2>5, <2>7, <2>8, WritesLinked DEF Replying
<1>9. CASE c' = Failed(Respond(c), "NoSigner") /\ up' = Append(up, alert)
  <2> DEFINE counted == Respond(c)
  <2>1. /\ IsClient(counted) /\ counted.traffic_hash = c.traffic_hash
        /\ counted.w.key = c.w.key /\ counted.state = "ClientCertVerify"
    BY <1>1, RespondFields
  <2>2. "NoSigner" \in Errors
    BY DEF Errors
  <2> HIDE DEF counted
  <2>3. /\ c'.traffic_hash = c.traffic_hash /\ c'.w.key = c.w.key
        /\ c'.state = "ClientCertVerify" /\ c'.err = "NoSigner"
    BY <1>9, <2>1, <2>2, FailedFields DEF counted
  <2>4. Covered' = Covered /\ ClientReads' = ClientReads
    BY <1>1, <2>3 DEF Covered, ClientReads
  <2>5. ClientSide'
    BY <1>1, <1>3, <2>3 DEF ClientSide
  <2>6. Fits(ClientWrites, alert)
    BY <1>4, <1>7, ReplyReads
  <2> QED BY <1>1, <1>9, <2>3, <2>4, <2>5, <2>6, WritesLinked DEF Replying
<1> QED BY <1>2, <1>8, <1>9

\* Its Finished, over what the server has hashed; the keys that follow stand on
\* the server's.
LEMMA ClientFinishedLinked == NonceInv /\ Linked /\ ClientFinished => Linked'
<1> SUFFICES ASSUME NonceInv, Linked, ClientFinished PROVE Linked'
  OBVIOUS
<1> DEFINE finished == Finished(c.w.key, c.transcript)
           record == Cipher(c.w, "handshake", <<finished>>)
           said == Hashed(c, finished)
           counted == Respond(said)
           saved == [counted EXCEPT !.transcript = counted.traffic_hash]
           keyed == WithTraffic(saved, "c_ap_traffic", "s_ap_traffic", Zero)
<1>1. /\ c.state = "ClientFinished" /\ c.err = "none" /\ IsClient(c)
      /\ down' = down /\ drawn' = drawn /\ srv' = srv /\ up' = Append(up, record)
      /\ c' = [keyed EXCEPT !.traffic_hash = <<>>, !.state = "ApplicationData"]
  BY DEF ClientFinished, Working, Finalized, NonceInv, Sends
<1>2. c.secret = Derived(HandshakeSecret(drawn)) /\ c.w.key = ClientKey(drawn)
  BY <1>1 DEF Handshaking, NonceInv, Stage, Linked, ClientSide
<1>3. finished.name = "Finished" /\ Head(<<finished>>) = finished /\ finished = Finished(ClientKey(drawn), c.transcript)
  BY <1>2 DEF Finished
<1> HIDE DEF finished
<1>4. IsClient(said) /\ said.traffic_hash = c.traffic_hash /\ said.secret = c.secret /\ said.err = "none"
  BY <1>1, HashedFields
<1> HIDE DEF said
<1>5. IsClient(counted) /\ counted.traffic_hash = c.traffic_hash /\ counted.secret = c.secret /\ counted.err = "none"
  BY <1>4, RespondFields
<1> HIDE DEF counted
<1>6. IsClient(saved) /\ saved.transcript = c.traffic_hash /\ saved.secret = c.secret /\ saved.err = "none"
  BY <1>5 DEF IsClient
<1> HIDE DEF saved
<1>7. Rekeyed(keyed, saved, "c_ap_traffic", "s_ap_traffic", MasterSecret(drawn))
  <2>1. MasterSecret(drawn) = Extract(saved.secret, Zero)
    BY <1>2, <1>6, Secrets
  <2> QED BY <1>6, <2>1, TrafficFields
<1> HIDE DEF keyed
<1>8. /\ IsClient(keyed) /\ keyed.err = "none"
      /\ keyed.w = Fresh(ClientData(drawn, c.traffic_hash))
      /\ keyed.r = Fresh(ServerData(drawn, c.traffic_hash))
  BY <1>6, <1>7 DEF Rekeyed, ClientData, ServerData
<1>9. c'.state = "ApplicationData" /\ c'.err = "none" /\ c'.w = keyed.w /\ c'.r = keyed.r
  BY <1>1, <1>8 DEF IsClient, States
<1>10. /\ c'.w.key = ClientData(drawn, c.traffic_hash) /\ c'.w.n = 0
       /\ c'.r.key = ServerData(drawn, c.traffic_hash) /\ c'.r.n = 0
  BY <1>8, <1>9 DEF Fresh
<1>11. c'.r.key.transcript = c.traffic_hash
  BY <1>10 DEF ServerData, Traffic
<1>12. Covered = c.traffic_hash /\ Covered' = c.traffic_hash
  BY <1>1, <1>9, <1>11 DEF Covered
<1>13. ClientReads' = ClientReads
  BY <1>1, <1>9, <1>10 DEF ClientReads
<1>14. ClientSide'
  BY <1>1, <1>9, <1>10, <1>12 DEF ClientSide
<1>15. /\ ClientWrites = AtReply(drawn, c.w.n, c.transcript, srv.finished)
       /\ ClientWrites' = AtData(drawn, ClientData(drawn, c.traffic_hash), 0)
  BY <1>1, <1>9, <1>10 DEF ClientWrites
<1>16. /\ record.type = "application_data" /\ record.key = ClientKey(drawn) /\ record.n = c.w.n
       /\ record.inner = "handshake" /\ record.body = <<finished>>
  BY <1>2, Written
<1> HIDE DEF record
<1>17. Fits(ClientWrites, record)
  BY <1>3, <1>15, <1>16, ReplyReads
<1>18. Covered = srv.finished => After(ClientWrites, record) = ClientWrites'
  BY <1>3, <1>12, <1>15, <1>16, ReplyReads
<1> QED BY <1>1, <1>9, <1>12, <1>13, <1>14, <1>17, <1>18, WritesLinked DEF Replying

\* A write on the open connection.
LEMMA SendDataLinked ==
    ASSUME NonceInv, Linked, NEW name \in {"Request", "Frame"}, SendData(name),
           down' = down, drawn' = drawn, srv' = srv
    PROVE  Linked'
<1> DEFINE record == Cipher(c.w, "application_data", <<Message(name)>>)
<1>1. /\ c.state = "ApplicationData" /\ c.err = "none" /\ IsClient(c)
      /\ c' = Respond(c) /\ up' = Append(up, record)
  BY DEF SendData, Working, NonceInv, Sends
<1>2. /\ c'.state = c.state /\ c'.err = "none" /\ c'.r = c.r
      /\ c'.w.key = c.w.key /\ c'.w.n = c.w.n + 1
  BY <1>1, RespondFields
<1>3. Covered' = Covered /\ ClientReads' = ClientReads
  BY <1>1, <1>2 DEF Covered, ClientReads
<1>4. ClientSide'
  BY <1>1, <1>2, <1>3 DEF Linked, ClientSide
<1>5. /\ ClientWrites = AtData(drawn, c.w.key, c.w.n)
      /\ ClientWrites' = AtData(drawn, c.w.key, c.w.n + 1)
  BY <1>1, <1>2 DEF ClientWrites
<1>6. /\ record.type = "application_data" /\ record.key = c.w.key /\ record.n = c.w.n
      /\ record.inner = "application_data" /\ record.body = <<Message(name)>>
  BY Written
<1>7. Head(<<Message(name)>>).name \in Speech
  BY DEF Message, Speech
<1> HIDE DEF record
<1>8. Fits(ClientWrites, record) /\ After(ClientWrites, record) = ClientWrites'
  BY <1>5, <1>6, <1>7, DataReads
<1> QED BY <1>1, <1>2, <1>3, <1>4, <1>8, WritesLinked DEF Replying

\* A read on the open connection.
LEMMA ReadDataLinked ==
    ASSUME NonceInv, Linked, NEW names, ReadData(names),
           up' = up, drawn' = drawn, srv' = srv
    PROVE  Linked'
<1> DEFINE record == Head(down)
<1>1. /\ c.state = "ApplicationData" /\ c.err = "none" /\ IsClient(c)
      /\ down # <<>> /\ down' = Tail(down) /\ c' = Read(record) /\ Listed(down)
  BY DEF ReadData, Working, NonceInv, Lists
<1>2. PICK p, q : /\ p = AtData(drawn, c.r.key, c.r.n)
                  /\ Leads(down, p, q) /\ (srv.pc # "closed" => q = ServerWrites)
  BY <1>1 DEF Linked, Downlink, ClientReads
<1>3. Fits(p, record) /\ Leads(down', After(p, record), q)
  BY <1>1, <1>2, LeadsFirst
<1> HIDE DEF record
<1>4. /\ record.key = c.r.key /\ record.n = c.r.n
      /\ record.inner \in {"alert", "handshake", "application_data"}
  BY <1>2, <1>3, DataReads
<1>5. Opens(c.r, record)
  BY <1>4 DEF Opens
<1>6. /\ c'.state = "ApplicationData" /\ c'.w = c.w /\ c'.r.key = c.r.key
      /\ \/ c'.err = "ConnectionClosed"
         \/ c'.err = "none" /\ c'.r.n = c.r.n + 1 /\ record.inner # "alert"
  <2>1. PICK r : r = Bumped(c.r)
    OBVIOUS
  <2>2. r.key = c.r.key /\ r.n = c.r.n + 1
    BY <1>1, <2>1 DEF IsClient, Bumped
  <2>3. CASE record.inner = "alert"
    <3>1. c' = Failed(c, "ConnectionClosed")
      BY <1>1, <1>5, <2>3 DEF Read
    <3>2. "ConnectionClosed" \in Errors
      BY DEF Errors
    <3> QED BY <1>1, <3>1, <3>2, FailedFields
  <2>4. CASE record.inner = "handshake"
    <3>1. PICK t : t = c.transcript \o record.body
      OBVIOUS
    <3>2. c' = [c EXCEPT !.transcript = t, !.r = r]
      BY <1>1, <1>5, <2>1, <2>4, <3>1 DEF Read
    <3> QED BY <1>1, <2>2, <2>4, <3>2 DEF IsClient
  <2>5. CASE record.inner = "application_data"
    <3>1. c' = [c EXCEPT !.r = r]
      BY <1>1, <1>5, <2>1, <2>5 DEF Read
    <3> QED BY <1>1, <2>2, <2>5, <3>1 DEF IsClient
  <2> QED BY <1>4, <2>3, <2>4, <2>5
<1>7. Shapes' /\ ServerSide'
  BY ReadHandshakeShapes
<1>8. Covered' = Covered
  BY <1>1, <1>6 DEF Covered
<1>9. ClientSide'
  BY <1>1, <1>6, <1>8 DEF Linked, ClientSide
<1>10. Uplink'
  <2>1. SUFFICES ASSUME srv.pc # "closed"
                 PROVE  /\ srv.pc \in {"client", "open"} /\ Covered = srv.finished
                        /\ \E x : Leads(up, ServerReads', x) /\ (c'.err = "none" => x = ClientWrites')
    BY <1>6, <1>8 DEF Uplink
  <2>2. /\ srv.pc \in {"client", "open"} /\ Covered = srv.finished
        /\ Leads(up, ServerReads, ClientWrites)
    BY <1>1, <2>1 DEF Linked, Uplink, Replying
  <2>3. ServerReads' = ServerReads /\ ClientWrites' = ClientWrites
    BY <1>1, <1>6 DEF ServerReads, ClientWrites
  <2> QED BY <2>2, <2>3
<1>11. Downlink'
  <2>1. SUFFICES ASSUME c'.err = "none"
                 PROVE  Leads(down', ClientReads', q) /\ (srv.pc # "closed" => q = ServerWrites')
    BY <1>6 DEF Downlink
  <2>2. After(p, record) = AtData(drawn, c.r.key, c.r.n + 1)
    BY <1>2, <1>4, <1>6, <2>1, DataReads
  <2>3. ClientReads' = AtData(drawn, c.r.key, c.r.n + 1)
    BY <1>6, <2>1 DEF ClientReads
  <2>4. ServerWrites' = ServerWrites
    BY DEF ServerWrites
  <2> QED BY <1>2, <1>3, <2>2, <2>3, <2>4
<1> QED BY <1>7, <1>9, <1>10, <1>11 DEF Linked

-----------------------------------------------------------------------------
(* The steps of the server.                                                *)

\* The server writes what the client will expect, or the alert of its end.
LEMMA AnswersLinked ==
    ASSUME NonceInv, Linked, srv.pc \in {"flight", "client", "open"},
           c' = c, drawn' = drawn, up' = up, Shapes', ServerSide', srv'.pc # "listen",
           srv'.pc # "closed" =>
             /\ srv'.r = srv.r
             /\ srv.pc # "open" => srv'.pc # "open"
             /\ srv.pc # "flight" =>
                    srv'.pc = srv.pc /\ srv'.finished = srv.finished /\ srv'.transcript = srv.transcript
             /\ srv'.pc = "client" /\ srv.pc = "flight" => srv'.transcript = srv'.finished,
           NEW r, down' = Append(down, r), Fits(ServerWrites, r),
           srv'.pc # "closed" => ServerWrites' = After(ServerWrites, r)
    PROVE  Linked'
<1>1. ClientSide'
  BY DEF Linked, ClientSide, Covered
<1>2. srv'.pc \in {"flight", "client", "open", "closed"}
  BY DEF ServerSide
<1>3. c.state # "ClientHello" /\ c.state \in States
  BY DEF Linked, Uplink, NonceInv, IsClient
<1>4. Uplink'
  <2>1. SUFFICES ASSUME srv'.pc # "closed" PROVE Uplink'
    BY DEF Uplink
  <2>2. CASE c.state = "ServerHello"
    <3>1. /\ srv.pc \in {"flight", "client"} /\ up = <<>> /\ srv.r.n = 0
          /\ srv.pc = "client" => srv.transcript = srv.finished
      BY <2>2 DEF Linked, Uplink
    <3> QED BY <1>2, <2>1, <2>2, <3>1 DEF Uplink, Replying
  <2>3. CASE c.state = "ServerVerify"
    <3>1. /\ srv.pc \in {"flight", "client"} /\ srv.r.n = 0
          /\ up # <<>> => c.err # "none" /\ Head(up).type = "change_cipher_spec"
          /\ srv.pc = "client" => srv.transcript = srv.finished
      BY <2>3 DEF Linked, Uplink
    <3> QED BY <1>2, <2>1, <2>3, <3>1 DEF Uplink, Replying
  <2>4. CASE c.state \in Replying
    <3>1. /\ srv.pc \in {"client", "open"} /\ Covered = srv.finished
          /\ \E q : Leads(up, ServerReads, q) /\ (c.err = "none" => q = ClientWrites)
      BY <2>4 DEF Linked, Uplink
    <3>2. srv'.pc = srv.pc /\ srv'.finished = srv.finished /\ srv'.transcript = srv.transcript /\ srv'.r = srv.r
      BY <2>1, <3>1
    <3>3. Covered' = Covered /\ ServerReads' = ServerReads /\ ClientWrites' = ClientWrites
      BY <3>2 DEF Covered, ServerReads, ClientWrites
    <3> QED BY <2>4, <3>1, <3>2, <3>3 DEF Uplink, Replying
  <2> QED BY <1>3, <2>2, <2>3, <2>4 DEF States, Replying
<1>5. Downlink'
  <2>1. SUFFICES ASSUME c.err = "none"
                 PROVE  \E q : Leads(down', ClientReads', q) /\ (srv'.pc # "closed" => q = ServerWrites')
    BY <1>3 DEF Downlink
  <2>2. Leads(down, ClientReads, ServerWrites)
    BY <1>3, <2>1 DEF Linked, Downlink
  <2>3. Leads(down', ClientReads, After(ServerWrites, r))
    BY <2>2, LeadsOn DEF NonceInv, Lists
  <2>4. ClientReads' = ClientReads
    BY DEF ClientReads
  <2> QED BY <2>3, <2>4
<1> QED BY <1>1, <1>4, <1>5 DEF Linked

\* A server whose connection is open, after what it says there.
LEMMA OpenFields ==
    ASSUME NEW s, IsServer(s), NEW d, NEW told, NEW frames, NEW ticket,
           d = [s EXCEPT !.told = told, !.frames = frames, !.ticket = ticket, !.w = Bumped(@)]
    PROVE  /\ IsServer(d) /\ d.w.key = s.w.key /\ d.w.n = s.w.n + 1
           /\ d.pc = s.pc /\ d.todo = s.todo /\ d.share = s.share /\ d.transcript = s.transcript
           /\ d.finished = s.finished /\ d.r = s.r /\ d.refused = s.refused
<1>1. PICK w : w = Bumped(s.w)
  OBVIOUS
<1>2. w.key = s.w.key /\ w.n = s.w.n + 1 /\ w \in [key : {w.key}, n : {w.n}]
  BY <1>1 DEF IsServer, Bumped
<1>3. d = [s EXCEPT !.told = told, !.frames = frames, !.ticket = ticket, !.w = w]
  BY <1>1
<1> QED BY <1>2, <1>3 DEF IsServer

\* What the server says on an open connection.
LEMMA SrvSaysLinked ==
    ASSUME NonceInv, Linked, srv.pc = "open", NEW told, NEW frames, NEW ticket,
           srv' = [srv EXCEPT !.told = told, !.frames = frames, !.ticket = ticket, !.w = Bumped(@)],
           NEW inner \in {"handshake", "application_data"}, NEW name \in Speech, SrvSends(inner, name)
    PROVE  Linked'
<1> DEFINE record == Cipher(srv.w, inner, <<Message(name)>>)
<1>1. c' = c /\ drawn' = drawn /\ up' = up /\ down' = Append(down, record)
  BY DEF SrvSends
<1>2. /\ IsServer(srv') /\ srv'.w.key = srv.w.key /\ srv'.w.n = srv.w.n + 1
      /\ srv'.pc = srv.pc /\ srv'.todo = srv.todo /\ srv'.share = srv.share
      /\ srv'.transcript = srv.transcript
      /\ srv'.finished = srv.finished /\ srv'.r = srv.r /\ srv'.refused = srv.refused
  <2>1. IsServer(srv)
    BY DEF Linked, Shapes
  <2> QED BY <2>1, OpenFields
<1>3. Shapes'
  BY <1>1, <1>2 DEF Linked, Shapes
<1>4. ServerSide'
  BY <1>1, <1>2 DEF Linked, ServerSide
<1>5. /\ ServerWrites = AtData(drawn, srv.w.key, srv.w.n)
      /\ ServerWrites' = AtData(drawn, srv.w.key, srv.w.n + 1)
  BY <1>1, <1>2 DEF ServerWrites
<1>6. /\ record.type = "application_data" /\ record.key = srv.w.key /\ record.n = srv.w.n
      /\ record.inner = inner /\ record.body = <<Message(name)>>
  BY Written
<1>7. Head(<<Message(name)>>).name \in Speech
  BY DEF Message
<1> HIDE DEF record
<1>8. Fits(ServerWrites, record) /\ After(ServerWrites, record) = ServerWrites'
  BY <1>5, <1>6, <1>7, DataReads
<1> QED BY <1>1, <1>2, <1>3, <1>4, <1>8, AnswersLinked

\* A NewSessionTicket, the answer to the upgrade, and frames.
LEMMA SrvTicketLinked == NonceInv /\ Linked /\ SrvTicket => Linked'
<1> SUFFICES ASSUME NonceInv, Linked, SrvTicket PROVE Linked'
  OBVIOUS
<1>1. IsServer(srv) /\ srv.pc = "open" /\ "NewSessionTicket" \in Speech /\ SrvSends("handshake", "NewSessionTicket")
  BY DEF Linked, Shapes, SrvTicket, Speech
<1>2. srv' = [srv EXCEPT !.told = srv.told, !.frames = srv.frames, !.ticket = TRUE, !.w = Bumped(@)]
  BY <1>1 DEF SrvTicket, IsServer
<1> QED BY <1>1, <1>2, SrvSaysLinked

\* See SrvTicketLinked.
LEMMA SrvAnswerLinked ==
    ASSUME NonceInv, Linked, NEW name \in {"Answer", "Reject"}, SrvAnswer(name)
    PROVE  Linked'
<1>1. IsServer(srv) /\ srv.pc = "open" /\ name \in Speech /\ SrvSends("application_data", name)
  BY DEF Linked, Shapes, SrvAnswer, Speech
<1>2. PICK told : told = <<"Request", name>>
  OBVIOUS
<1>3. srv' = [srv EXCEPT !.told = told, !.frames = srv.frames, !.ticket = srv.ticket, !.w = Bumped(@)]
  BY <1>1, <1>2 DEF SrvAnswer, IsServer
<1> QED BY <1>1, <1>3, SrvSaysLinked

\* See SrvTicketLinked.
LEMMA SrvFrameLinked == NonceInv /\ Linked /\ SrvFrame => Linked'
<1> SUFFICES ASSUME NonceInv, Linked, SrvFrame PROVE Linked'
  OBVIOUS
<1>1. IsServer(srv) /\ srv.pc = "open" /\ "Frame" \in Speech /\ SrvSends("application_data", "Frame")
  BY DEF Linked, Shapes, SrvFrame, Speech
<1>2. PICK frames : frames = srv.frames + 1
  OBVIOUS
<1>3. srv' = [srv EXCEPT !.told = srv.told, !.frames = frames, !.ticket = srv.ticket, !.w = Bumped(@)]
  BY <1>1, <1>2 DEF SrvFrame, IsServer
<1> QED BY <1>1, <1>3, SrvSaysLinked

\* A server that closes.
LEMMA ClosedFields ==
    ASSUME NEW s, IsServer(s), NEW d, d = [s EXCEPT !.pc = "closed"]
    PROVE  /\ IsServer(d) /\ d.pc = "closed" /\ d.todo = s.todo /\ d.transcript = s.transcript
           /\ d.refused = s.refused
BY DEF IsServer

\* The server gives up.
LEMMA SrvAbortsLinked == NonceInv /\ Linked /\ SrvAborts => Linked'
<1> SUFFICES ASSUME NonceInv, Linked, SrvAborts PROVE Linked'
  OBVIOUS
<1> DEFINE plain == Plain("alert", <<Message("Alert")>>)
           cipher == Cipher(srv.w, "alert", <<Message("Alert")>>)
<1>1. /\ srv.pc \in {"listen", "flight", "client", "open"}
      /\ c' = c /\ drawn' = drawn /\ up' = up /\ srv' = [srv EXCEPT !.pc = "closed"]
      /\ srv.w.key = NoKey => down' = Append(down, plain)
      /\ srv.w.key # NoKey => down' = Append(down, cipher)
  BY DEF SrvAborts
<1>2. /\ IsServer(srv') /\ srv'.pc = "closed" /\ srv'.todo = srv.todo /\ srv'.transcript = srv.transcript
      /\ srv'.refused = srv.refused
  <2>1. IsServer(srv)
    BY DEF Linked, Shapes
  <2> QED BY <1>1, <2>1, ClosedFields
<1>3. Shapes'
  BY <1>1, <1>2 DEF Linked, Shapes
<1>4. ServerSide'
  BY <1>2 DEF Linked, ServerSide
<1>5. plain.type = "alert" /\ plain.inner = "alert"
  BY Written
<1>6. /\ cipher.type = "application_data" /\ cipher.key = srv.w.key /\ cipher.n = srv.w.n
      /\ cipher.inner = "alert"
  BY Written
<1>7. CASE srv.pc = "listen"
  <2>1. down' = Append(down, plain)
    <3>1. srv.w.key = NoKey
      BY <1>7 DEF Linked, ServerSide, SrvNew, Fresh
    <3> QED BY <1>1, <3>1
  <2>2. ClientSide'
    BY <1>1 DEF Linked, ClientSide, Covered
  <2>3. Uplink'
    BY <1>2 DEF Uplink
  <2>4. Downlink'
    <3>1. CASE c.state = "ClientHello"
      <4>1. c.err = "none" => down = <<>>
        BY <1>7, <3>1 DEF Linked, Downlink
      <4>2. c.err = "none" => down' = <<plain>>
        BY <2>1, <4>1, Sent
      <4> QED BY <1>1, <1>2, <3>1, <4>2 DEF Downlink
    <3>2. CASE c.state # "ClientHello"
      <4> HIDE DEF plain
      <4>1. c.err = "none" => \E q : Leads(down', ClientReads, q)
        <5>1. SUFFICES ASSUME c.err = "none" PROVE \E q : Leads(down', ClientReads, q)
          OBVIOUS
        <5>2. ServerWrites = AtHello(drawn)
          BY <1>7 DEF ServerWrites
        <5>3. Leads(down, ClientReads, AtHello(drawn))
          BY <1>7, <3>2, <5>1, <5>2 DEF Linked, Downlink
        <5>4. Fits(AtHello(drawn), plain)
          BY <1>5, HelloReads
        <5>5. Leads(down', ClientReads, After(AtHello(drawn), plain))
          BY <2>1, <5>3, <5>4, LeadsOn DEF NonceInv, Lists
        <5> QED BY <5>5
      <4>2. ClientReads' = ClientReads
        BY <1>1 DEF ClientReads
      <4> QED BY <1>1, <1>2, <3>2, <4>1, <4>2 DEF Downlink
    <3> QED BY <3>1, <3>2
  <2> QED BY <1>3, <1>4, <2>2, <2>3, <2>4 DEF Linked
<1>8. CASE srv.pc # "listen"
  <2> HIDE DEF plain, cipher
  <2>1. down' = Append(down, cipher)
    <3>1. srv.w.key # NoKey
      <4>1. srv.w.key.label = "s_hs_traffic" \/ srv.w.key.label = "s_ap_traffic"
        BY <1>1, <1>8 DEF Linked, ServerSide, ServerKey, ServerData, Traffic
      <4> QED BY <4>1 DEF NoKey
    <3> QED BY <1>1, <3>1
  <2>2. Fits(ServerWrites, cipher)
    <3>1. CASE srv.pc = "flight"
      <4>1. ServerWrites = AtFlight(drawn, srv.w.n, srv.transcript) /\ srv.w.key = ServerKey(drawn)
        BY <3>1 DEF ServerWrites, Linked, ServerSide
      <4> QED BY <1>6, <4>1, FlightReads
    <3>2. CASE srv.pc # "flight"
      <4>1. ServerWrites = AtData(drawn, srv.w.key, srv.w.n)
        BY <1>8, <3>2 DEF ServerWrites
      <4> QED BY <1>6, <4>1, DataReads
    <3> QED BY <3>1, <3>2
  <2> QED BY <1>1, <1>2, <1>3, <1>4, <1>8, <2>1, <2>2, AnswersLinked
<1> QED BY <1>7, <1>8

\* What is left to say of a flight that has not begun.
LEMMA FlightsLast ==
    ASSUME NEW names \in Flights
    PROVE  /\ Listed(names) /\ Len(names) > 0
           /\ \A i \in 1 .. Len(names) - 1 : names[i] # "Finished"
<1> DEFINE head == <<"EncryptedExtensions">>
           last == <<"Certificate", "CertificateVerify", "Finished">>
           S == {"EncryptedExtensions", "CertificateRequest", "Certificate", "CertificateVerify", "Finished"}
<1>1. PICK request \in {<<>>, <<"CertificateRequest">>} : names = head \o request \o last
  BY DEF Flights
<1>2. /\ head \in Seq(S) /\ Len(head) = 1 /\ head[1] # "Finished"
      /\ last \in Seq(S) /\ Len(last) = 3 /\ last[1] # "Finished" /\ last[2] # "Finished"
  OBVIOUS
<1>3. request \in Seq(S) /\ Len(request) \in {0, 1} /\ \A i \in 1 .. Len(request) : request[i] # "Finished"
  <2>1. CASE request = <<>>
    BY <2>1
  <2>2. CASE request = <<"CertificateRequest">>
    BY <2>2
  <2> QED BY <1>1, <2>1, <2>2
<1> HIDE DEF head, last, S
<1>4. PICK x : x = head \o request
  OBVIOUS
<1>5. PICK m \in {1, 2} : m = 1 + Len(request)
  BY <1>3
<1>6. x \in Seq(S) /\ Len(x) = m /\ \A i \in 1 .. m : x[i] # "Finished"
  <2>1. /\ x \in Seq(S) /\ Len(x) = Len(head) + Len(request)
        /\ \A j \in 1 .. Len(head) : x[j] = head[j]
        /\ \A j \in 1 .. Len(request) : x[Len(head) + j] = request[j]
    <3>1. head \in Seq(S) /\ request \in Seq(S)
      BY <1>2, <1>3
    <3> QED BY <1>4, <3>1, ConcatFacts
  <2>2. ASSUME NEW i \in 1 .. m PROVE x[i] # "Finished"
    <3>1. i = 1 \/ (i = 2 /\ Len(request) = 1)
      BY <1>3, <1>5
    <3>2. CASE i = 1
      <4>1. x[1] = head[1]
        BY <1>2, <2>1
      <4> QED BY <1>2, <3>2, <4>1
    <3>3. CASE i = 2 /\ Len(request) = 1
      <4>1. 1 \in 1 .. Len(request) /\ Len(head) + 1 = 2
        BY <1>2, <3>3
      <4> QED BY <1>3, <2>1, <3>3, <4>1
    <3> QED BY <3>1, <3>2, <3>3
  <2> QED BY <1>2, <1>3, <1>5, <2>1, <2>2
<1>7. names \in Seq(S) /\ Len(names) = m + 3 /\ \A i \in 1 .. m + 2 : names[i] # "Finished"
  <2>1. /\ names \in Seq(S) /\ Len(names) = Len(x) + Len(last)
        /\ \A j \in 1 .. Len(x) : names[j] = x[j]
        /\ \A j \in 1 .. Len(last) : names[Len(x) + j] = last[j]
    <3>1. x \in Seq(S) /\ last \in Seq(S) /\ names = x \o last
      BY <1>1, <1>2, <1>4, <1>6
    <3> QED BY <3>1, ConcatFacts
  <2>2. ASSUME NEW i \in 1 .. m + 2 PROVE names[i] # "Finished"
    <3>1. CASE i \in 1 .. m
      BY <1>6, <2>1, <3>1
    <3>2. CASE i \notin 1 .. m
      <4>1. PICK j \in {1, 2} : i = m + j
        BY <1>5, <3>2
      <4>2. j \in 1 .. Len(last) /\ last[j] # "Finished"
        BY <1>2
      <4> QED BY <1>6, <2>1, <4>1, <4>2
    <3> QED BY <3>1, <3>2
  <2> QED BY <1>2, <1>6, <2>1, <2>2
<1>8. m + 3 > 0 /\ m + 3 - 1 = m + 2
  BY <1>5
<1> QED BY <1>7, <1>8, InListed

\* ServerHello, and the ChangeCipherSpec some servers add.
LEMMA SrvHelloLinked == NonceInv /\ Linked /\ SrvHello => Linked'
<1> SUFFICES ASSUME NonceInv, Linked, SrvHello PROVE Linked'
  OBVIOUS
<1> DEFINE hello == Hello("ClientHello", drawn)
           sh == Plain("handshake", <<Message("ServerHello")>>)
           cs == Plain("change_cipher_spec", <<>>)
           written == Plain("handshake", <<hello>>)
<1>1. /\ srv.pc = "listen" /\ up # <<>> /\ up' = Tail(up) /\ c' = c /\ drawn' = drawn
      /\ srv = SrvNew
  BY DEF SrvHello, Linked, ServerSide
<1>2. c.state = "ServerHello" /\ up = <<written>>
  <2>1. c.state \in States
    BY DEF NonceInv, IsClient
  <2>2. c.state # "ClientHello" /\ c.state # "ServerVerify" /\ c.state \notin Replying
    BY <1>1 DEF Linked, Uplink
  <2>3. c.state = "ServerHello"
    BY <2>1, <2>2 DEF States, Replying
  <2> QED BY <1>1, <2>3 DEF Linked, Uplink
<1>3. Head(Head(up).body) = hello /\ hello.share = drawn
  <2>1. written.body = <<hello>>
    BY Written
  <2>2. hello.share = drawn
    BY DEF Hello
  <2> HIDE DEF written, hello
  <2> QED BY <1>2, <2>1, <2>2
<1>4. up' = <<>>
  <2> HIDE DEF written
  <2> QED BY <1>1, <1>2
<1>5. PICK names \in Flights, ccs \in BOOLEAN :
        /\ srv' = [srv EXCEPT !.pc = "flight", !.todo = names, !.transcript = Hellos(drawn),
                              !.share = drawn, !.w = Fresh(ServerKey(drawn)), !.r = Fresh(ClientKey(drawn))]
        /\ down' = down \o <<sh>> \o (IF ccs THEN <<cs>> ELSE <<>>)
  BY <1>3 DEF SrvHello, Hellos, ServerKey, ClientKey
<1>6. /\ IsServer(srv') /\ srv'.pc = "flight" /\ srv'.todo = names /\ srv'.transcript = Hellos(drawn)
      /\ srv'.share = drawn /\ srv'.refused = FALSE
      /\ srv'.w.key = ServerKey(drawn) /\ srv'.w.n = 0
      /\ srv'.r.key = ClientKey(drawn) /\ srv'.r.n = 0
  <2>1. PICK t, w, r : t = Hellos(drawn) /\ w = Fresh(ServerKey(drawn)) /\ r = Fresh(ClientKey(drawn))
    OBVIOUS
  <2>2. /\ w.key = ServerKey(drawn) /\ w.n = 0 /\ r.key = ClientKey(drawn) /\ r.n = 0
        /\ w \in [key : {w.key}, n : {w.n}] /\ r \in [key : {r.key}, n : {r.n}]
    BY <2>1 DEF Fresh
  <2>3. srv.refused = FALSE /\ IsServer(srv)
    BY <1>1 DEF SrvNew, Linked, Shapes
  <2>4. srv' = [srv EXCEPT !.pc = "flight", !.todo = names, !.transcript = t,
                           !.share = drawn, !.w = w, !.r = r]
    BY <1>5, <2>1
  <2>5. /\ IsServer(srv') /\ srv'.pc = "flight" /\ srv'.todo = names /\ srv'.transcript = t
        /\ srv'.share = drawn /\ srv'.refused = FALSE /\ srv'.w = w /\ srv'.r = r
    BY <2>2, <2>3, <2>4 DEF IsServer
  <2> QED BY <2>1, <2>2, <2>5
<1>7. Shapes'
  <2>1. Listed(Hellos(drawn))
    BY DEF Listed, Range, Hellos
  <2> QED BY <1>4, <1>6, <2>1, FlightsLast, Sent DEF Shapes
<1>8. ClientSide'
  BY <1>1 DEF Linked, ClientSide, Covered
<1>9. ServerSide'
  BY <1>1, <1>6, FlightsLast DEF ServerSide
<1>10. Uplink'
  BY <1>1, <1>2, <1>4, <1>6 DEF Uplink, Replying
<1>11. Downlink'
  <2>1. SUFFICES ASSUME c.err = "none" PROVE Leads(down', ClientReads', ServerWrites')
    BY <1>1, <1>2 DEF Downlink
  <2>2. PICK p, f : p = AtHello(drawn) /\ f = AtFlight(drawn, 0, Hellos(drawn))
    OBVIOUS
  <2>3. Leads(down, p, p)
    BY <1>1, <1>2, <2>1, <2>2 DEF Linked, Downlink, ClientReads, ServerWrites
  <2>4. ClientReads' = p /\ ServerWrites' = f
    BY <1>1, <1>2, <1>6, <2>2 DEF ClientReads, ServerWrites
  <2>5. sh.type = "handshake" /\ sh.inner = "handshake" /\ sh.body = <<Message("ServerHello")>>
    BY Written
  <2>6. cs.type = "change_cipher_spec" /\ cs.inner = "change_cipher_spec"
    BY Written
  <2>7. Listed(sh.body)
    BY SaidListed
  <2> HIDE DEF sh, cs
  <2>8. Fits(p, sh) /\ After(p, sh) = f
    BY <2>2, <2>5, HelloReads
  <2>9. Fits(f, cs) /\ After(f, cs) = f
    BY <2>2, <2>6, FlightReads
  <2>10. Listed(down) /\ Listed(Append(down, sh))
    BY Longer DEF NonceInv, Lists
  <2>11. Leads(Append(down, sh), p, f)
    BY <2>3, <2>8, <2>10, LeadsOn
  <2>12. Leads(Append(Append(down, sh), cs), p, f)
    BY <2>9, <2>10, <2>11, LeadsOn
  <2>13. down' = Append(down, sh) \/ down' = Append(Append(down, sh), cs)
    <3>1. \A s : Listed(s) => \A r : s \o <<r>> = Append(s, r) /\ s \o <<>> = s
      BY DEF Listed
    <3>2. down \o <<sh>> = Append(down, sh)
      BY <2>10, <3>1
    <3> QED BY <1>5, <2>10, <3>1, <3>2
  <2> QED BY <2>4, <2>11, <2>12, <2>13
<1> QED BY <1>7, <1>8, <1>9, <1>10, <1>11 DEF Linked

\* A record of k messages of the flight.
IsCut(todo, k, odd, key, t, plain, body) ==
    /\ plain = [ i \in 1 .. (IF k = Len(todo) THEN k - 1 ELSE k) |->
                    IF odd /\ todo[i] = "EncryptedExtensions" THEN Message("UnexpectedExtension")
                    ELSE Message(todo[i]) ]
    /\ body = IF k = Len(todo) THEN Append(plain, Finished(key, t \o plain)) ELSE plain

\* Only its last message may be Finished.
EndsFlight(todo) == \A i \in 1 .. Len(todo) - 1 : todo[i] # "Finished"

\* What a record of the flight is made of, and what is left.
LEMMA FlightBody ==
    ASSUME NEW todo, Listed(todo), EndsFlight(todo), NEW k \in 1 .. Len(todo), NEW odd,
           NEW key, NEW t, Listed(t), NEW plain, NEW body, IsCut(todo, k, odd, key, t, plain, body)
    PROVE  /\ Listed(body) /\ FlightOver(key, t, body) /\ (Closes(body) <=> k = Len(todo))
           /\ Listed(SubSeq(todo, k + 1, Len(todo)))
           /\ k # Len(todo) =>
                Len(SubSeq(todo, k + 1, Len(todo))) > 0 /\ EndsFlight(SubSeq(todo, k + 1, Len(todo)))
<1>1. PICK n \in Nat : n = Len(todo)
  BY DEF Listed
<1>2. PICK m \in Nat : m = IF k = n THEN k - 1 ELSE k
  <2>1. k - 1 \in Nat
    BY <1>1
  <2> QED BY <2>1
<1>3. /\ Listed(plain) /\ Len(plain) = m
      /\ \A i \in 1 .. m :
            plain[i] = Message("UnexpectedExtension") \/ plain[i] = Message(todo[i])
  <2>1. plain = [ i \in 1 .. m |->
                    IF odd /\ todo[i] = "EncryptedExtensions" THEN Message("UnexpectedExtension")
                    ELSE Message(todo[i]) ]
    BY <1>1, <1>2 DEF IsCut
  <2>2. plain = [ i \in 1 .. m |-> plain[i] ]
    BY <2>1
  <2> QED BY <2>1, <2>2, Indexed
<1>4. ASSUME NEW i \in 1 .. m PROVE plain[i].name # "Finished"
  <2>1. i \in 1 .. Len(todo) - 1
    BY <1>1, <1>2
  <2>2. todo[i] # "Finished"
    BY <2>1 DEF EndsFlight
  <2>3. plain[i] = Message("UnexpectedExtension") \/ plain[i] = Message(todo[i])
    BY <1>3
  <2> QED BY <2>2, <2>3 DEF Message
<1>5. Listed(body) /\ FlightOver(key, t, body) /\ (Closes(body) <=> k = Len(todo))
  <2>1. CASE k # Len(todo)
    <3>1. body = plain /\ DOMAIN body = 1 .. m
      BY <1>3, <2>1 DEF Listed, IsCut
    <3> QED BY <1>3, <1>4, <2>1, <3>1 DEF FlightOver, Closes
  <2>2. CASE k = Len(todo)
    <3>1. PICK last : last = Finished(key, t \o plain)
      OBVIOUS
    <3>2. last.name = "Finished" /\ last.mac = <<key, t \o plain>>
      BY <3>1 DEF Finished
    <3>3. body = Append(plain, last)
      BY <2>2, <3>1 DEF IsCut
    <3>4. DOMAIN plain = 1 .. m
      BY <1>3 DEF Listed
    <3>5. /\ Listed(body) /\ DOMAIN body = 1 .. m \cup {m + 1} /\ body[m + 1] = last
          /\ \A i \in 1 .. m : body[i] = plain[i]
      BY <1>3, <3>3, <3>4, Longer
    <3>6. Len(body) = m + 1
      <4>1. PICK S : S = Range(plain) \cup {last}
        OBVIOUS
      <4>2. plain \in Seq(S) /\ last \in S
        BY <1>3, <4>1, ListedIn
      <4>3. Len(Append(plain, last)) = Len(plain) + 1
        BY <4>2
      <4> QED BY <1>3, <3>3, <4>3
    <3>7. SubSeq(body, 1, m) = plain
      <4>1. PICK S : S = Range(body)
        OBVIOUS
      <4>2. body \in Seq(S) /\ plain \in Seq(Range(plain))
        BY <1>3, <3>5, <4>1 DEF Listed
      <4>3. 0 \in Nat /\ 0 + m <= Len(body)
        BY <1>2, <3>6
      <4>4. /\ SubSeq(body, 1, m) \in Seq(S) /\ Len(SubSeq(body, 1, m)) = m
            /\ \A i \in 1 .. m : SubSeq(body, 1, m)[i] = body[i]
        BY <4>2, <4>3, SubSeqFacts
      <4>5. \A i \in 1 .. m : SubSeq(body, 1, m)[i] = plain[i]
        BY <3>5, <4>4
      <4>6. Listed(SubSeq(body, 1, m))
        BY <4>4, InListed
      <4>7. PICK U : plain \in Seq(U) /\ SubSeq(body, 1, m) \in Seq(U)
        BY <1>3, <4>6, ListedBoth
      <4> QED BY <1>3, <4>4, <4>5, <4>7, SameElements
    <3>8. FlightOver(key, t, body)
      <4>1. SUFFICES ASSUME NEW i \in DOMAIN body, body[i].name = "Finished"
                     PROVE  i = Len(body) /\ body[i].mac = <<key, t \o SubSeq(body, 1, i - 1)>>
        BY DEF FlightOver
      <4>2. i = m + 1
        BY <1>4, <3>5, <4>1
      <4>3. i - 1 = m
        BY <1>2, <4>2
      <4> QED BY <3>2, <3>5, <3>6, <3>7, <4>2, <4>3
    <3>9. Closes(body)
      BY <3>2, <3>5 DEF Closes
    <3> QED BY <2>2, <3>5, <3>8, <3>9
  <2> QED BY <2>1, <2>2
<1>6. PICK rest : rest = SubSeq(todo, k + 1, Len(todo))
  OBVIOUS
<1>7. PICK l \in Nat : l = n - k
  <2>1. n - k \in Nat
    BY <1>1
  <2> QED BY <2>1
<1>8. Listed(rest) /\ Len(rest) = l /\ \A i \in 1 .. l : rest[i] = todo[k + i]
  <2>1. PICK S : S = Range(todo)
    OBVIOUS
  <2>2. todo \in Seq(S)
    BY <2>1 DEF Listed
  <2>3. k \in Nat /\ k + l = Len(todo) /\ k + l <= Len(todo)
    BY <1>1, <1>7
  <2>4. /\ SubSeq(todo, k + 1, k + l) \in Seq(S) /\ Len(SubSeq(todo, k + 1, k + l)) = l
        /\ \A i \in 1 .. l : SubSeq(todo, k + 1, k + l)[i] = todo[k + i]
    BY <2>2, <2>3, SubSeqFacts
  <2> QED BY <1>6, <2>3, <2>4, InListed
<1>9. ASSUME k # Len(todo)
      PROVE  Len(rest) > 0 /\ EndsFlight(rest)
  <2>1. l > 0
    BY <1>1, <1>7, <1>9
  <2>2. ASSUME NEW i \in 1 .. l - 1 PROVE rest[i] # "Finished"
    <3>1. i \in 1 .. l /\ k + i \in 1 .. Len(todo) - 1
      BY <1>1, <1>7
    <3> QED BY <1>8, <3>1 DEF EndsFlight
  <2> QED BY <1>8, <2>1, <2>2 DEF EndsFlight
<1> QED BY <1>5, <1>6, <1>8, <1>9

\* A record of the flight.
LEMMA SrvFlightLinked ==
    ASSUME NonceInv, Linked, NEW k \in 1 .. Len(srv.todo), NEW odd \in BOOLEAN, SrvFlight(k, odd)
    PROVE  Linked'
<1> DEFINE plain == [ i \in 1 .. (IF k = Len(srv.todo) THEN k - 1 ELSE k) |->
                        IF odd /\ srv.todo[i] = "EncryptedExtensions" THEN Message("UnexpectedExtension")
                        ELSE Message(srv.todo[i]) ]
           body == IF k = Len(srv.todo) THEN Append(plain, Finished(srv.w.key, srv.transcript \o plain))
                                        ELSE plain
           t == srv.transcript \o body
           key == Traffic("s_ap_traffic", MasterSecret(srv.share), t)
           record == Cipher(srv.w, "handshake", body)
           rest == SubSeq(srv.todo, k + 1, Len(srv.todo))
<1>1. /\ srv.pc = "flight" /\ srv.share = drawn /\ srv.w.key = ServerKey(drawn)
      /\ srv.r.key = ClientKey(drawn) /\ srv.refused = FALSE
      /\ IsServer(srv) /\ Listed(srv.todo) /\ Listed(srv.transcript) /\ Len(srv.todo) > 0
      /\ \A i \in 1 .. Len(srv.todo) - 1 : srv.todo[i] # "Finished"
      /\ c' = c /\ drawn' = drawn /\ up' = up
  BY DEF SrvFlight, Linked, ServerSide, Shapes, IsServer
<1>2. /\ down' = Append(down, record)
      /\ srv' = [srv EXCEPT !.todo = rest, !.transcript = t,
                            !.pc = IF k = Len(srv.todo) THEN "client" ELSE "flight",
                            !.finished = IF k = Len(srv.todo) THEN t ELSE <<>>,
                            !.w = IF k = Len(srv.todo) THEN Fresh(key) ELSE Bumped(@)]
  BY <1>1 DEF SrvFlight, IsServer
<1>3. IsCut(srv.todo, k, odd, srv.w.key, srv.transcript, plain, body)
  BY DEF IsCut
<1>4. EndsFlight(srv.todo)
  BY <1>1 DEF EndsFlight
<1> HIDE DEF plain, body
<1>5. /\ Listed(body) /\ FlightOver(srv.w.key, srv.transcript, body) /\ (Closes(body) <=> k = Len(srv.todo))
      /\ Listed(rest)
      /\ k # Len(srv.todo) => Len(rest) > 0 /\ EndsFlight(rest)
  BY <1>1, <1>3, <1>4, FlightBody
<1> HIDE DEF rest
<1>6. Listed(t)
  BY <1>1, <1>5, ListedBoth
<1>7. key = ServerData(drawn, t)
  BY <1>1 DEF ServerData
<1> HIDE DEF t, key
<1>8. /\ IsServer(srv') /\ srv'.todo = rest /\ srv'.transcript = t /\ srv'.share = drawn
      /\ srv'.r = srv.r /\ srv'.refused = FALSE
      /\ k = Len(srv.todo) => /\ srv'.pc = "client" /\ srv'.finished = t
                              /\ srv'.w.key = key /\ srv'.w.n = 0
      /\ k # Len(srv.todo) => /\ srv'.pc = "flight"
                              /\ srv'.w.key = srv.w.key /\ srv'.w.n = srv.w.n + 1
  <2>1. PICK w, b : w = Fresh(key) /\ b = Bumped(srv.w)
    OBVIOUS
  <2>2. /\ w.key = key /\ w.n = 0 /\ w \in [key : {w.key}, n : {w.n}]
        /\ b.key = srv.w.key /\ b.n = srv.w.n + 1 /\ b \in [key : {b.key}, n : {b.n}]
    BY <1>1, <2>1 DEF Fresh, Bumped, IsServer
  <2>3. CASE k = Len(srv.todo)
    <3>1. srv' = [srv EXCEPT !.todo = rest, !.transcript = t, !.pc = "client", !.finished = t, !.w = w]
      BY <1>2, <2>1, <2>3
    <3> QED BY <1>1, <2>2, <2>3, <3>1 DEF IsServer
  <2>4. CASE k # Len(srv.todo)
    <3>1. srv' = [srv EXCEPT !.todo = rest, !.transcript = t, !.pc = "flight", !.finished = <<>>, !.w = b]
      BY <1>1, <1>2, <2>1, <2>4 DEF IsServer
    <3> QED BY <1>1, <2>2, <2>4, <3>1 DEF IsServer
  <2> QED BY <2>3, <2>4
<1>9. Shapes'
  BY <1>1, <1>5, <1>6, <1>8 DEF Linked, Shapes
<1>10. ServerSide'
  <2>1. CASE k = Len(srv.todo)
    BY <1>1, <1>7, <1>8, <2>1 DEF ServerSide
  <2>2. CASE k # Len(srv.todo)
    BY <1>1, <1>5, <1>8, <2>2 DEF ServerSide, EndsFlight
  <2> QED BY <2>1, <2>2
<1>11. ServerWrites = AtFlight(drawn, srv.w.n, srv.transcript)
  BY <1>1 DEF ServerWrites
<1>12. /\ record.type = "application_data" /\ record.key = ServerKey(drawn) /\ record.n = srv.w.n
       /\ record.inner = "handshake" /\ record.body = body
  BY <1>1, Written
<1> HIDE DEF record
<1>13. /\ Fits(ServerWrites, record)
       /\ After(ServerWrites, record) = IF Closes(body) THEN AtData(drawn, ServerData(drawn, t), 0)
                                                        ELSE AtFlight(drawn, srv.w.n + 1, t)
  BY <1>1, <1>5, <1>11, <1>12, FlightReads DEF t
<1>14. ServerWrites' = After(ServerWrites, record)
  <2>1. CASE k = Len(srv.todo)
    BY <1>1, <1>5, <1>7, <1>8, <1>13, <2>1 DEF ServerWrites
  <2>2. CASE k # Len(srv.todo)
    BY <1>1, <1>5, <1>8, <1>13, <2>2 DEF ServerWrites
  <2> QED BY <2>1, <2>2
<1> QED BY <1>1, <1>2, <1>8, <1>9, <1>10, <1>13, <1>14, AnswersLinked

\* A server that has read a record and is where the record leaves it.
GoesOn(d, record, pc, r, t, told) ==
    /\ d = [srv EXCEPT !.pc = pc, !.r = r, !.transcript = t, !.told = told]
    /\ r \in [key : {r.key}, n : {r.n}] /\ Listed(t) /\ pc \in {"client", "open"}
    /\ \/ pc = srv.pc /\ r.key = srv.r.key
       \/ pc = "open" /\ r.key = ClientData(drawn, srv.finished)
    /\ After(ServerReads, record) = IF pc = "open" THEN AtData(drawn, r.key, r.n)
                                    ELSE AtReply(drawn, r.n, t, srv.finished)

\* What the server makes of a record that fits.
LEMMA SrvReadsOne ==
    ASSUME Linked, srv.pc \in {"client", "open"}, NEW record, Fits(ServerReads, record)
    PROVE  \/ SrvHeard(record) = [srv EXCEPT !.pc = "closed"]
           \/ \E pc, r, t, told : GoesOn(SrvHeard(record), record, pc, r, t, told)
<1> DEFINE d == SrvHeard(record)
           message == Head(record.body)
<1>1. /\ IsServer(srv) /\ Listed(srv.transcript) /\ srv.share = drawn
      /\ srv.pc = "client" => srv.r.key = ClientKey(drawn)
  BY DEF Linked, Shapes, ServerSide
<1>2. PICK next : next = Bumped(srv.r)
  OBVIOUS
<1>3. next.key = srv.r.key /\ next.n = srv.r.n + 1 /\ next \in [key : {next.key}, n : {next.n}]
  BY <1>1, <1>2 DEF Bumped, IsServer
<1>4. /\ record.type = "application_data" /\ record.key = srv.r.key /\ record.n = srv.r.n
      /\ \/ record.inner = "alert"
         \/ /\ srv.pc = "client" /\ record.inner = "handshake"
            /\ record.body \in {<<Message("Certificate")>>, <<Message("CertificateVerify")>>,
                                <<Finished(ClientKey(drawn), srv.transcript)>>}
         \/ /\ srv.pc = "open" /\ record.inner \in {"handshake", "application_data"}
            /\ message.name \in Speech
  <2>1. CASE srv.pc = "client"
    <3>1. ServerReads = AtReply(drawn, srv.r.n, srv.transcript, srv.finished)
      BY <2>1 DEF ServerReads
    <3> QED BY <1>1, <2>1, <3>1, ReplyReads
  <2>2. CASE srv.pc = "open"
    <3>1. ServerReads = AtData(drawn, srv.r.key, srv.r.n)
      BY <2>2 DEF ServerReads
    <3> QED BY <2>2, <3>1, DataReads
  <2> QED BY <2>1, <2>2
<1>5. Opens(srv.r, record)
  BY <1>4 DEF Opens
<1>6. CASE record.inner = "alert"
  BY <1>4, <1>5, <1>6 DEF SrvHeard
<1>7. CASE srv.pc = "open" /\ record.inner # "alert"
  <2>1. message.name \in Speech /\ record.inner \in {"handshake", "application_data"}
    BY <1>4, <1>7
  <2>2. message.name \notin {"Finished", "Certificate", "CertificateVerify"}
    BY <2>1 DEF Speech
  <2>3. PICK told : told = IF message.name = "Request" THEN <<"Request">> ELSE srv.told
    OBVIOUS
  <2>4. d = [srv EXCEPT !.r = next, !.told = told]
    BY <1>1, <1>2, <1>4, <1>5, <1>7, <2>2, <2>3 DEF SrvHeard, IsServer
  <2>5. d = [srv EXCEPT !.pc = "open", !.r = next, !.transcript = srv.transcript, !.told = told]
    <3> HIDE DEF d
    <3> QED BY <1>1, <1>7, <2>4 DEF IsServer
  <2>6. After(ServerReads, record) = AtData(drawn, next.key, next.n)
    <3>1. ServerReads = AtData(drawn, srv.r.key, srv.r.n)
      BY <1>7 DEF ServerReads
    <3> QED BY <1>3, <1>7, <2>1, <3>1, DataReads
  <2> HIDE DEF d, message
  <2>7. GoesOn(d, record, "open", next, srv.transcript, told)
    BY <1>1, <1>3, <1>7, <2>5, <2>6 DEF GoesOn
  <2> QED BY <2>7 DEF d
<1>8. CASE srv.pc = "client" /\ record.inner # "alert"
  <2>1. record.body = <<message>> /\ record.inner = "handshake"
        /\ message \in {Message("Certificate"), Message("CertificateVerify"),
                        Finished(ClientKey(drawn), srv.transcript)}
    <3>1. \A x : Head(<<x>>) = x
      OBVIOUS
    <3> QED BY <1>4, <1>8, <3>1
  <2>2. ServerReads = AtReply(drawn, srv.r.n, srv.transcript, srv.finished)
    BY <1>8 DEF ServerReads
  <2>3. After(ServerReads, record) =
            IF message.name = "Finished" THEN AtData(drawn, ClientData(drawn, srv.finished), 0)
            ELSE AtReply(drawn, srv.r.n + 1, Append(srv.transcript, message), srv.finished)
    BY <2>1, <2>2, ReplyReads
  <2>4. CASE message = Finished(ClientKey(drawn), srv.transcript)
    <3>1. message.name = "Finished" /\ message.mac = <<srv.r.key, srv.transcript>>
      BY <1>1, <1>8, <2>4 DEF Finished
    <3>2. PICK r : r = Fresh(ClientData(drawn, srv.finished))
      OBVIOUS
    <3>3. r.key = ClientData(drawn, srv.finished) /\ r.n = 0 /\ r \in [key : {r.key}, n : {r.n}]
      BY <3>2 DEF Fresh
    <3> HIDE DEF message
    <3>4. d = [srv EXCEPT !.pc = "open", !.r = r]
      BY <1>1, <1>4, <1>5, <1>8, <3>1, <3>2 DEF SrvHeard, ClientData, message
    <3> HIDE DEF d
    <3>5. d = [srv EXCEPT !.pc = "open", !.r = r, !.transcript = srv.transcript, !.told = srv.told]
      BY <1>1, <3>4 DEF IsServer
    <3>6. GoesOn(d, record, "open", r, srv.transcript, srv.told)
      BY <1>1, <2>3, <3>1, <3>3, <3>5 DEF GoesOn
    <3> QED BY <3>6 DEF d
  <2>5. CASE message \in {Message("Certificate"), Message("CertificateVerify")}
    <3>1. message.name \in {"Certificate", "CertificateVerify"}
      BY <2>5 DEF Message
    <3> HIDE DEF message
    <3>2. PICK t : t = Append(srv.transcript, message)
      OBVIOUS
    <3>3. Listed(t)
      BY <1>1, <3>2, Longer
    <3>4. d = [srv EXCEPT !.r = next, !.transcript = t]
      BY <1>1, <1>2, <1>4, <1>5, <1>8, <3>1, <3>2 DEF SrvHeard, IsServer, message
    <3> HIDE DEF d
    <3>5. d = [srv EXCEPT !.pc = "client", !.r = next, !.transcript = t, !.told = srv.told]
      BY <1>1, <1>8, <3>4 DEF IsServer
    <3>6. After(ServerReads, record) = AtReply(drawn, next.n, t, srv.finished)
      BY <1>3, <2>3, <3>1, <3>2
    <3>7. GoesOn(d, record, "client", next, t, srv.told)
      BY <1>3, <1>8, <3>3, <3>5, <3>6 DEF GoesOn
    <3> QED BY <3>7 DEF d
  <2> QED BY <2>1, <2>4, <2>5
<1> QED BY <1>6, <1>7, <1>8

\* The server reads.
LEMMA SrvReadsLinked == NonceInv /\ Linked /\ SrvReads => Linked'
<1> SUFFICES ASSUME NonceInv, Linked, SrvReads PROVE Linked'
  OBVIOUS
<1> DEFINE record == Head(up)
<1>1. /\ srv.pc \in {"flight", "client", "open"} /\ up # <<>> /\ up' = Tail(up)
      /\ srv' = SrvHeard(record) /\ c' = c /\ drawn' = drawn /\ down' = down
      /\ IsServer(srv) /\ Listed(up) /\ Listed(up')
  <2>1. Listed(up)
    BY DEF Linked, Shapes
  <2>2. up # <<>> => Listed(Tail(up))
    <3>1. PICK S : S = Range(up)
      OBVIOUS
    <3>2. up \in Seq(S)
      BY <2>1, <3>1 DEF Listed
    <3>3. up # <<>> => Tail(up) \in Seq(S)
      BY <3>2
    <3> QED BY <3>3, InListed
  <2> QED BY <2>1, <2>2 DEF SrvReads, Linked, Shapes
<1> HIDE DEF record
<1>2. ClientSide'
  BY <1>1 DEF Linked, ClientSide, Covered
<1>3. ClientReads' = ClientReads
  BY <1>1 DEF ClientReads
<1>4. CASE srv' = [srv EXCEPT !.pc = "closed"]
  <2>1. /\ IsServer(srv') /\ srv'.pc = "closed" /\ srv'.todo = srv.todo /\ srv'.transcript = srv.transcript
        /\ srv'.refused = srv.refused
    BY <1>1, <1>4, ClosedFields
  <2>2. Shapes'
    BY <1>1, <2>1 DEF Linked, Shapes
  <2>3. ServerSide'
    BY <2>1 DEF Linked, ServerSide
  <2>4. Uplink'
    BY <2>1 DEF Uplink
  <2>5. Downlink'
    <3>1. c.state # "ClientHello"
      BY <1>1 DEF Linked, Uplink
    <3> QED BY <1>1, <1>3, <2>1, <3>1 DEF Linked, Downlink
  <2> QED BY <1>2, <2>2, <2>3, <2>4, <2>5 DEF Linked
<1>5. CASE c.state \in Replying
  <2>1. PICK q : /\ srv.pc \in {"client", "open"} /\ Covered = srv.finished
                 /\ Leads(up, ServerReads, q) /\ (c.err = "none" => q = ClientWrites)
    BY <1>1, <1>5 DEF Linked, Uplink
  <2>2. Fits(ServerReads, record) /\ Leads(up', After(ServerReads, record), q)
    BY <1>1, <2>1, LeadsFirst DEF record
  <2>3. SUFFICES ASSUME srv' # [srv EXCEPT !.pc = "closed"] PROVE Linked'
    BY <1>4
  <2>4. PICK pc, r, t, told : GoesOn(srv', record, pc, r, t, told)
    BY <1>1, <2>1, <2>2, <2>3, SrvReadsOne
  <2>5. /\ srv' = [srv EXCEPT !.pc = pc, !.r = r, !.transcript = t, !.told = told]
        /\ r \in [key : {r.key}, n : {r.n}] /\ Listed(t)
    BY <2>4 DEF GoesOn
  <2>6. /\ IsServer(srv') /\ srv'.pc = pc /\ srv'.r = r /\ srv'.transcript = t
        /\ srv'.todo = srv.todo /\ srv'.share = srv.share /\ srv'.finished = srv.finished /\ srv'.w = srv.w
        /\ srv'.refused = srv.refused
    <3>1. IsServer(srv)
      BY <1>1
    <3> QED BY <2>5, <3>1 DEF IsServer
  <2>7. Shapes'
    BY <1>1, <2>5, <2>6 DEF Linked, Shapes
  <2>8. ServerSide'
    <3>1. \/ pc = srv.pc /\ r.key = srv.r.key
          \/ pc = "open" /\ r.key = ClientData(drawn, srv.finished)
      BY <2>4 DEF GoesOn
    <3> QED BY <1>1, <2>1, <2>6, <3>1 DEF Linked, ServerSide
  <2>9. ServerReads' = After(ServerReads, record)
    BY <1>1, <2>4, <2>6 DEF GoesOn, ServerReads
  <2>10. ClientWrites' = ClientWrites /\ Covered' = Covered
    BY <1>1, <2>6 DEF ClientWrites, Covered
  <2>11. Uplink'
    <3>1. pc \in {"client", "open"}
      BY <2>4 DEF GoesOn
    <3> QED BY <1>1, <1>5, <2>1, <2>2, <2>6, <2>9, <2>10, <3>1 DEF Uplink, Replying
  <2>12. Downlink'
    <3>1. ServerWrites' = ServerWrites
      BY <1>1, <2>1, <2>4, <2>6 DEF GoesOn, ServerWrites
    <3> QED BY <1>1, <1>3, <1>5, <2>1, <3>1 DEF Linked, Downlink, Replying
  <2> QED BY <1>2, <2>7, <2>8, <2>11, <2>12 DEF Linked
<1>6. CASE c.state \notin Replying
  <2>1. c.state \in States
    BY DEF NonceInv, IsClient
  <2>2. c.state # "ClientHello" /\ c.state # "ServerHello"
    BY <1>1 DEF Linked, Uplink
  <2>3. c.state = "ServerVerify"
    BY <1>6, <2>1, <2>2 DEF States, Replying
  <2>4. record.type = "change_cipher_spec"
    BY <1>1, <2>3 DEF Linked, Uplink, record
  <2>5. srv' = [srv EXCEPT !.pc = "closed"]
    BY <1>1, <2>4 DEF SrvHeard
  <2> QED BY <1>4, <2>5
<1> QED BY <1>5, <1>6

-----------------------------------------------------------------------------
(* The invariant over every step.                                          *)

\* A new server.
LEMMA NewServer == IsServer(SrvNew) /\ Listed(SrvNew.todo) /\ Listed(SrvNew.transcript)
BY Sent DEF SrvNew, IsServer, Fresh

\* Nothing changes but the socket.
LEMMA SocketLinked ==
    ASSUME Linked, UNCHANGED <<up, down, c, srv, drawn>>
    PROVE  Linked'
<1>1. Shapes'
  BY DEF Linked, Shapes
<1>2. Covered' = Covered /\ ClientReads' = ClientReads /\ ClientWrites' = ClientWrites
      /\ ServerReads' = ServerReads /\ ServerWrites' = ServerWrites
  BY DEF Covered, ClientReads, ClientWrites, ServerReads, ServerWrites
<1>3. ClientSide'
  BY <1>2 DEF Linked, ClientSide
<1>4. ServerSide'
  BY DEF Linked, ServerSide
<1>5. Uplink'
  BY <1>2 DEF Linked, Uplink
<1>6. Downlink'
  BY <1>2 DEF Linked, Downlink
<1> QED BY <1>1, <1>3, <1>4, <1>5, <1>6 DEF Linked

\* A connection is there when one of its steps is taken, and where it is not
\* there is nothing of it.
LEMMA JoinedStep == Joined /\ [Next]_vars => Joined'
<1> SUFFICES ASSUME Joined, [Next]_vars PROVE Joined'
  OBVIOUS
<1>1. CASE WifiTask
  <2>1. UNCHANGED <<up, down, srv, lpc>> /\ (conn' = conn \/ (conn = "open" /\ conn' = "dead"))
    BY <1>1 DEF WifiTask, WifiUp, WifiFails, WifiDrops, WifiWaited, linkVars
  <2> QED BY <2>1 DEF Joined
<1>2. CASE ConnLost
  <2>1. UNCHANGED <<up, down, srv, lpc>> /\ conn = "open" /\ conn' = "dead"
    BY <1>2 DEF ConnLost, linkVars
  <2> QED BY <2>1 DEF Joined
<1>3. CASE NtpTask \/ UNCHANGED vars
  <2>1. UNCHANGED <<conn, up, down, srv, lpc>>
    BY <1>3 DEF NtpTask, vars, tlsVars, linkVars
  <2> QED BY <2>1 DEF Joined
<1>4. CASE Server
  <2>1. lpc' = lpc /\ SrvStep
    BY <1>4 DEF Server, linkVars
  <2>2. conn = "open" /\ conn' \in {"open", "dead"}
    BY <2>1 DEF SrvStep, SrvHello, SrvReads, SrvTicket, SrvFrame, SrvAnswer, SrvFlight, SrvAborts, SrvSends
  <2> QED BY <2>1, <2>2 DEF Joined
<1>5. CASE VoiceStep
  <2>1. CASE Open
    <3>1. lpc = "tls" /\ lpc' = "tls" /\ conn' = conn
      BY <2>1 DEF Open, linkVars, ClientStep, ClientHello, ReadHandshake, ClientCert,
                  ClientCertVerify, ClientFinished
    <3> QED BY <3>1 DEF Joined
  <2>2. CASE Connect
    BY <2>2 DEF Connect, Joined
  <2>3. CASE ConnectFails \/ SessionEnds
    BY <2>3 DEF ConnectFails, SessionEnds, tlsVars, Joined
  <2>4. CASE AttemptFails \/ Retry
    BY <2>4 DEF AttemptFails, Retry, Drop, Joined
  <2>5. CASE Upgrade \/ Answer \/ Start \/ Speak \/ Listen
    <3>1. conn' = conn /\ lpc \in {"tls", "answer", "start", "session"}
          /\ lpc' \in {"tls", "answer", "start", "session"}
      BY <2>5 DEF Upgrade, Answer, Start, Speak, Listen, linkVars
    <3> QED BY <3>1 DEF Joined
  <2> QED BY <1>5, <2>1, <2>2, <2>3, <2>4, <2>5 DEF VoiceStep
<1> QED BY <1>1, <1>2, <1>3, <1>4, <1>5 DEF Next, VoiceTask

\* The steps of the handshake.
LEMMA OpenLinked == NonceInv /\ Linked /\ ClientStep => Linked'
<1>1. ASSUME NonceInv, Linked, ReadHandshake PROVE Linked'
  <2>1. c.state = "ServerHello" \/ c.state = "ServerVerify"
    BY <1>1 DEF ReadHandshake, Working
  <2> QED BY <1>1, <2>1, ServerHelloLinked, FlightLinked
<1> QED BY <1>1, ClientHelloLinked, ClientCertLinked, ClientCertVerifyLinked, ClientFinishedLinked
        DEF ClientStep

\* The steps of the server.
LEMMA SrvLinked == NonceInv /\ Linked /\ SrvStep => Linked'
<1> SUFFICES ASSUME NonceInv, Linked, SrvStep PROVE Linked'
  OBVIOUS
<1>1. CASE \E k \in 1 .. Len(srv.todo), odd \in BOOLEAN : SrvFlight(k, odd)
  BY <1>1, SrvFlightLinked
<1>2. CASE SrvAnswer("Answer") \/ SrvAnswer("Reject")
  BY <1>2, SrvAnswerLinked
<1>3. CASE SrvHello \/ SrvReads \/ SrvTicket \/ SrvFrame \/ SrvAborts
  BY <1>3, SrvHelloLinked, SrvReadsLinked, SrvTicketLinked, SrvFrameLinked, SrvAbortsLinked
<1> QED BY <1>1, <1>2, <1>3 DEF SrvStep

\* A connection that is dropped, or that could not be made.
LEMMA DroppedAgree ==
    ASSUME AgreeInv, Joined', c' = c, drawn' = drawn,
           Drop \/ (conn' = conn /\ UNCHANGED <<up, down, srv>>)
    PROVE  AgreeInv'
<1>1. ClientSide'
  BY DEF AgreeInv, ClientSide, Covered
<1>2. CASE Drop
  <2>1. Shapes' /\ conn' = "none"
    BY <1>2, NewServer, Sent DEF Drop, Shapes
  <2> QED BY <1>1, <2>1 DEF AgreeInv
<1>3. CASE conn' = conn /\ UNCHANGED <<up, down, srv>>
  <2>1. Shapes'
    BY <1>3 DEF AgreeInv, Shapes
  <2>2. conn # "none" => Linked'
    BY <1>3, SocketLinked DEF AgreeInv, Linked
  <2> QED BY <1>1, <1>3, <2>1, <2>2 DEF AgreeInv, Linked
<1> QED BY <1>2, <1>3

\* The two ends, over every step.
LEMMA AgreeStep == NonceInv /\ AgreeInv /\ [Next]_vars => AgreeInv'
<1> SUFFICES ASSUME NonceInv, AgreeInv, [Next]_vars PROVE AgreeInv'
  OBVIOUS
<1>1. Joined'
  BY JoinedStep DEF AgreeInv
<1>2. SUFFICES ASSUME ~Linked' PROVE AgreeInv'
  BY <1>1 DEF AgreeInv, Linked
<1>3. conn # "none" => Linked
  BY DEF AgreeInv, Linked
<1>4. CASE WifiTask \/ ConnLost
  <2>1. UNCHANGED <<up, down, c, srv, drawn>> /\ (conn' = conn \/ conn # "none")
    BY <1>4 DEF WifiTask, WifiUp, WifiFails, WifiDrops, WifiWaited, ConnLost
  <2>2. conn = "none"
    BY <1>2, <1>3, <2>1, SocketLinked
  <2> QED BY <1>1, <2>1, <2>2, DroppedAgree
<1>5. CASE NtpTask \/ UNCHANGED vars
  <2>1. UNCHANGED <<conn, up, down, c, srv, drawn>>
    BY <1>5 DEF NtpTask, vars, tlsVars
  <2> QED BY <1>1, <2>1, DroppedAgree
<1>6. CASE Server
  <2>1. conn = "open" /\ SrvStep
    BY <1>6 DEF Server, SrvStep, SrvHello, SrvReads, SrvTicket, SrvFrame, SrvAnswer, SrvFlight, SrvAborts
  <2> QED BY <1>2, <1>3, <2>1, SrvLinked
<1>7. CASE VoiceStep
  <2>1. lpc \in {"tls", "answer", "start", "session"} => Linked
    BY <1>3 DEF AgreeInv, Joined
  <2>2. CASE Open
    BY <1>2, <2>1, <2>2, OpenLinked DEF Open
  <2>3. CASE Connect
    <3>1. up = <<>> /\ down = <<>> /\ srv = SrvNew /\ Shapes
      BY <2>3 DEF Connect, AgreeInv, Joined
    <3> QED BY <1>2, <2>3, <3>1, ConnectLinked
  <2>4. CASE Upgrade \/ Start \/ Speak
    <3>1. \E name \in {"Request", "Frame"} : SendData(name) /\ down' = down /\ drawn' = drawn /\ srv' = srv
      BY <2>4 DEF Upgrade, Start, Speak
    <3>2. lpc \in {"tls", "answer", "start", "session"}
      BY <2>4 DEF Upgrade, Start, Speak
    <3> QED BY <1>2, <2>1, <3>1, <3>2, SendDataLinked
  <2>5. CASE Answer \/ Listen
    <3>1. \E names : ReadData(names) /\ up' = up /\ drawn' = drawn /\ srv' = srv
      BY <2>5 DEF Answer, Listen
    <3>2. lpc \in {"tls", "answer", "start", "session"}
      BY <2>5 DEF Answer, Listen
    <3> QED BY <1>2, <2>1, <3>1, <3>2, ReadDataLinked
  <2>6. CASE ConnectFails \/ AttemptFails \/ SessionEnds \/ Retry
    <3>1. c' = c /\ drawn' = drawn /\ (Drop \/ (conn' = conn /\ UNCHANGED <<up, down, srv>>))
      BY <2>6 DEF ConnectFails, AttemptFails, SessionEnds, Retry, tlsVars
    <3> QED BY <1>1, <3>1, DroppedAgree
  <2> QED BY <1>7, <2>2, <2>3, <2>4, <2>5, <2>6 DEF VoiceStep
<1> QED BY <1>4, <1>5, <1>6, <1>7 DEF Next, VoiceTask

\* Where the link starts.
LEMMA AgreeStarts == Init => AgreeInv
<1> SUFFICES ASSUME Init PROVE AgreeInv
  OBVIOUS
<1>1. /\ conn = "none" /\ up = <<>> /\ down = <<>> /\ c = TlsNew /\ srv = SrvNew /\ lpc = "tcp"
  BY DEF Init
<1>2. Joined
  BY <1>1 DEF Joined
<1>3. Shapes
  BY <1>1, NewServer, Sent DEF Shapes
<1>4. c.state = "ClientHello" /\ c.err = "none"
  BY <1>1 DEF TlsNew
<1>5. ClientSide
  BY <1>4 DEF ClientSide
<1> QED BY <1>1, <1>2, <1>3, <1>5 DEF AgreeInv

-----------------------------------------------------------------------------
(* The ends understand each other.                                         *)

\* The types that neither the client nor the two ends tell of.
Kinds ==
    /\ conn \in {"none", "open", "dead"}
    /\ lpc \in {"tcp", "tls", "answer", "start", "session", "pause"}
    /\ wifi \in {"connecting", "up", "waiting"}
    /\ client \in BOOLEAN /\ wsUp \in BOOLEAN
    /\ npc \in {"config", "ask", "wait", "sleep"}
    /\ server \in 1 .. NTP_SERVERS /\ Len(rx) <= 1

\* See Kinds.
LEMMA KindsStep == Kinds /\ [Next]_vars => Kinds'
<1> SUFFICES ASSUME Kinds, [Next]_vars PROVE Kinds'
  OBVIOUS
<1>1. conn' \in {"none", "open", "dead"}
  <2>1. CASE Open
    BY <2>1 DEF Open, ClientStep, ClientHello, ReadHandshake, ClientCert, ClientCertVerify, ClientFinished,
                Kinds
  <2>2. CASE VoiceStep
    BY <2>1, <2>2 DEF VoiceStep, Connect, ConnectFails, Upgrade, Answer, AttemptFails, Start, Speak, Listen,
                      SessionEnds, Retry, Drop, tlsVars, Kinds
  <2>3. CASE SrvStep
    BY <2>3 DEF SrvStep, SrvHello, SrvReads, SrvTicket, SrvFrame, SrvAnswer, SrvFlight, SrvAborts, SrvSends, Kinds
  <2>4. CASE WifiTask \/ ConnLost \/ NtpTask \/ UNCHANGED vars
    BY <2>4 DEF WifiTask, WifiUp, WifiFails, WifiDrops, WifiWaited, ConnLost, NtpTask, vars, tlsVars, Kinds
  <2> QED BY <2>2, <2>3, <2>4 DEF Next, VoiceTask, Server
<1>2. /\ lpc' \in {"tcp", "tls", "answer", "start", "session", "pause"}
      /\ client' \in BOOLEAN /\ wsUp' \in BOOLEAN
  <2>1. CASE UNCHANGED linkVars
    BY <2>1 DEF linkVars, Kinds
  <2>2. CASE VoiceStep
    BY <2>1, <2>2 DEF VoiceStep, Connect, ConnectFails, Open, Upgrade, Answer, AttemptFails, Start, Speak, Listen,
                      SessionEnds, Retry, Kinds
  <2> QED BY <2>1, <2>2 DEF Next, VoiceTask, WifiTask, ConnLost, Server, NtpTask, vars
<1>3. wifi' \in {"connecting", "up", "waiting"}
  BY DEF Kinds, Next, WifiTask, WifiUp, WifiFails, WifiDrops, WifiWaited, ConnLost, VoiceTask, Server,
         NtpTask, vars
<1>4. npc' \in {"config", "ask", "wait", "sleep"} /\ server' \in 1 .. NTP_SERVERS
  <2>1. CASE UNCHANGED clockVars
    BY <2>1 DEF clockVars, Kinds
  <2>2. CASE NtpTask
    <3>1. CASE NextServer
      BY <3>1, ClockAssumption DEF NextServer, Kinds
    <3> QED BY <2>2, <3>1, ClockAssumption DEF NtpTask, ConfigUp, Ask, AskFails, Reply, Sync, Sleep, BadReply,
                  TimedOut, Kinds
  <2> QED BY <2>1, <2>2 DEF Next, VoiceTask, WifiTask, ConnLost, Server, vars
<1>5. Len(rx') <= 1
  <2>1. rx' = rx \/ rx' = <<>> \/ \E sent : rx' = <<sent>>
    <3>1. CASE UNCHANGED clockVars
      BY <3>1 DEF clockVars
    <3>2. CASE NtpTask
      BY <3>2 DEF NtpTask, ConfigUp, Ask, AskFails, Reply, Sync, Sleep, BadReply, TimedOut
    <3> QED BY <3>1, <3>2 DEF Next, VoiceTask, WifiTask, ConnLost, Server, vars
  <2>2. CASE rx' = rx
    BY <2>2 DEF Kinds
  <2>3. CASE rx' = <<>>
    BY <2>3
  <2>4. CASE \E sent : rx' = <<sent>>
    <3>1. PICK sent : rx' = <<sent>>
      BY <2>4
    <3>2. Len(<<sent>>) = 1
      OBVIOUS
    <3> QED BY <3>1, <3>2
  <2> QED BY <2>1, <2>2, <2>3, <2>4
<1> QED BY <1>1, <1>2, <1>3, <1>4, <1>5 DEF Kinds

\* Two ends that are where the invariant says understand each other.
LEMMA AgreeShows == NonceInv /\ AgreeInv /\ Kinds => Understood
<1> SUFFICES ASSUME NonceInv, AgreeInv, Kinds PROVE Understood
  OBVIOUS
<1>1. TypeOK
  BY DEF NonceInv, IsClient, Kinds, TypeOK
<1>2. ~srv.refused
  <2>1. CASE conn = "none"
    BY <2>1 DEF AgreeInv, Joined, SrvNew
  <2>2. CASE conn # "none"
    BY <2>2 DEF AgreeInv, ServerSide
  <2> QED BY <2>1, <2>2
<1>3. KeysAgree
  <2>1. SUFFICES ASSUME conn # "none", srv.pc = "open", c.err = "none"
                 PROVE  c.state = "ApplicationData" /\ c.w.key = srv.r.key /\ c.r.key = srv.w.key
    BY DEF KeysAgree
  <2>2. Shapes /\ ClientSide /\ ServerSide /\ Uplink
    BY <2>1 DEF AgreeInv
  <2>3. c.state \in Replying
    <3>1. c.state \in States
      BY DEF NonceInv, IsClient
    <3>2. c.state \notin {"ClientHello", "ServerHello", "ServerVerify"}
      BY <2>1, <2>2 DEF Uplink
    <3> QED BY <3>1, <3>2 DEF States, Replying
  <2>4. Covered = srv.finished /\ Leads(up, ServerReads, ClientWrites)
    BY <2>1, <2>2, <2>3 DEF Uplink
  <2>5. Beyond(ServerReads, ClientWrites)
    BY <2>2, <2>4, LeadsBeyond DEF Shapes
  <2>6. ServerReads.stage = "data"
    BY <2>1, Stages DEF ServerReads
  <2>7. c.state = "ApplicationData"
    <3>1. ClientWrites.stage \in {"data", "end"}
      BY <2>5, <2>6 DEF Beyond
    <3> QED BY <3>1, Stages DEF ClientWrites
  <2>8. c.w.key = ClientData(drawn, srv.finished) /\ c.r.key = ServerData(drawn, srv.finished)
    BY <2>2, <2>4, <2>7 DEF ClientSide
  <2>9. srv.w.key = ServerData(drawn, srv.finished) /\ srv.r.key = ClientData(drawn, srv.finished)
    BY <2>1, <2>2 DEF ServerSide
  <2> QED BY <2>7, <2>8, <2>9
<1>4. c.err \notin {"CryptoError", "InvalidSignature"}
  BY DEF AgreeInv, ClientSide
<1> QED BY <1>1, <1>2, <1>3, <1>4 DEF Understood

\* Whatever the server asks for, however it cuts its flight and wherever it or
\* the connection gives up, the device opens every record and verifies every
\* Finished it reads, the server does the same, and when both call the
\* connection open their keys are the same.
THEOREM EndsUnderstand == Spec => []Understood
<1>1. Spec => []NonceInv
  BY NonceStarts, NonceStep, PTL DEF Spec
<1>2. Init => Kinds
  <2>1. 1 \in 1 .. NTP_SERVERS /\ Len(<<>>) <= 1
    BY ClockAssumption
  <2> QED BY <2>1 DEF Init, ClockInit, Kinds
<1>3. Spec => []Kinds
  BY <1>2, KindsStep, PTL DEF Spec
<1>4. Spec => []AgreeInv
  BY <1>1, AgreeStarts, AgreeStep, PTL DEF Spec
<1> QED BY <1>1, <1>3, <1>4, AgreeShows, PTL
=============================================================================
