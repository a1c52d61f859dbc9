-------------------------- MODULE WebSessionProofs --------------------------
(* What the web thread keeps for every number of clients, every size of     *)
(* its buffer and any number of messages.                                   *)
EXTENDS WebSession, TLAPS

Segment == [kind : Kinds, part : 1..2]
Conn == [at : {"out", "in", "gone"}, wire : Seq(Segment), sent : Nat,
         owed : BOOLEAN, authed : BOOLEAN]

\* TypeOK, and what it leaves open.
Typed == /\ TypeOK
         /\ recbuf \in Seq(Segment)
         /\ backlog \in Seq(Clients)
         /\ client \in [Clients -> Conn]

\* Between accept and close there is a client, and only there anybody is
\* logged in.
Serving == /\ pc # "accept" => cur \in Clients
           /\ pc = "accept" => cur = None /\ ~ logined

LEMMA FrameIsSeq == ASSUME NEW kind \in Kinds PROVE Frame(kind) \in Seq(Segment)
  BY DEF Frame, Segment, Size

LEMMA OutIsConn == Out \in Conn
  BY DEF Out, Conn

\* A conjunct of TypeOK says which clients are in backlog; it follows from its type.
LEMMA BacklogClients == ASSUME NEW s \in Seq(Clients) PROVE ToSet(s) \subseteq Clients
  BY DEF ToSet

LEMMA InitTyped == Init => Typed /\ Serving
<1> SUFFICES ASSUME Init PROVE Typed /\ Serving
  OBVIOUS
<1> USE DEF Init
<1>0. backlog \in Seq(Clients) /\ Len(recbuf) <= Room
  BY WebSessionAssumption
<1>1. ToSet(backlog) \subseteq Clients
  BY <1>0, BacklogClients
<1>2. TypeOK
  BY <1>0, <1>1 DEF TypeOK, Out
<1>3. client \in [Clients -> Conn]
  BY OutIsConn
<1>4. QED
  BY <1>2, <1>3 DEF Typed, Serving

\* The station's own steps.
LEMMA StationTyped ==
  ASSUME Typed, Serving, Station PROVE Typed' /\ Serving'
<1> USE WebSessionAssumption DEF Typed, Serving, TypeOK, server, vars
<1>1. CASE Accept
  <2>1. Head(backlog) \in Clients /\ Tail(backlog) \in Seq(Clients)
    BY <1>1 DEF Accept
  <2>2. ToSet(backlog') \subseteq Clients
    BY <1>1, <2>1, BacklogClients DEF Accept
  <2>3. Len(recbuf') <= Room
    BY <1>1 DEF Accept
  <2>4. recbuf' \in Seq(Segment) /\ backlog' \in Seq(Clients)
    BY <1>1, <2>1 DEF Accept
  <2>5. TypeOK'
    BY <1>1, <2>1, <2>2, <2>3 DEF Accept
  <2>6. QED
    BY <1>1, <2>1, <2>4, <2>5 DEF Accept
<1>2. CASE Receive
  <2>1. cur \in Clients /\ client[cur] \in Conn
    BY <1>2 DEF Receive
  <2>2. Head(client[cur].wire) \in Segment /\ Tail(client[cur].wire) \in Seq(Segment)
    BY <1>2, <2>1 DEF Receive, Conn
  <2>3. recbuf' \in Seq(Segment) /\ Len(recbuf') <= Room
    BY <1>2, <2>2 DEF Receive
  <2>4. client' \in [Clients -> Conn]
    BY <1>2, <2>1, <2>2 DEF Receive, Conn
  <2>5. QED
    BY <1>2, <2>3, <2>4 DEF Receive
<1>3. CASE RecvDone
  BY <1>3 DEF RecvDone
<1>4. CASE RecvEof
  BY <1>4 DEF RecvEof
<1>5. CASE Opening
  <2>1. cur \in Clients /\ client[cur] \in Conn
    BY <1>5 DEF Opening, Parsed
  <2>2. client' \in [Clients -> Conn]
    BY <1>5, <2>1 DEF Opening, Answered, Conn
  <2>3. pc' \in {"recv", "end"} /\ state' \in {"opening", "normal", "closing"}
    BY <1>5 DEF Opening
  <2>4. TypeOK'
    BY <1>5, <2>1, <2>2, <2>3 DEF Opening, LeftAfter, Conn
  <2>5. QED
    BY <1>5, <2>1, <2>2, <2>3, <2>4 DEF Opening, LeftAfter
<1>6. CASE CloseFrame
  BY <1>6 DEF CloseFrame, Parsed
<1>7. ASSUME NEW type \in {"incomplete", "ping", "ping0"}, Wait(type)
      PROVE Typed' /\ Serving'
  BY <1>7 DEF Wait, Parsed
<1>8. ASSUME NEW type \in {"incomplete", "error"}, Refuse(type)
      PROVE Typed' /\ Serving'
  BY <1>8 DEF Refuse, Parsed
<1>9. ASSUME NEW type \in {"incomplete", "error"}, FrameError(type)
      PROVE Typed' /\ Serving'
  BY <1>9 DEF FrameError, Parsed
<1>10. ASSUME NEW type \in Texts, Text(type)
       PROVE Typed' /\ Serving'
  <2>1. cur \in Clients /\ client[cur] \in Conn
    BY <1>10 DEF Text, Parsed
  <2>2. client' \in [Clients -> Conn]
    BY <1>10, <2>1 DEF Text, Conn
  <2>3. recbuf' \in Seq(Segment) /\ Len(recbuf') <= Room
    BY <1>10 DEF Text, LeftAfter
  <2>4. QED
    BY <1>10, <2>1, <2>2, <2>3 DEF Text, Parsed
<1>11. CASE EmptyText
  <2>1. cur \in Clients /\ client[cur] \in Conn
    BY <1>11 DEF EmptyText, Parsed
  <2>2. client' \in [Clients -> Conn]
    BY <1>11, <2>1 DEF EmptyText, Answered, Conn
  <2>3. pc' \in {"recv", "end"}
    BY <1>11 DEF EmptyText
  <2>4. TypeOK'
    BY <1>11, <2>1, <2>2, <2>3 DEF EmptyText, Conn
  <2>5. QED
    BY <1>11, <2>1, <2>2, <2>3, <2>4 DEF EmptyText
<1>12. CASE Crash
  <2>1. pc = "parse"
    BY <1>12 DEF Crash, Parsed
  <2>2. QED
    BY <1>12, <2>1 DEF Crash
<1>13. CASE Respawn
  <2>0. backlog' \in Seq(Clients) /\ recbuf' \in Seq(Segment) /\ Len(recbuf') <= Room
    BY <1>13 DEF Respawn
  <2>1. ToSet(backlog') \subseteq Clients
    BY <2>0, BacklogClients
  <2>2. client' \in [Clients -> Conn]
    BY <1>13, OutIsConn DEF Respawn
  <2>3. TypeOK'
    BY <1>13, <2>0, <2>1, <2>2 DEF Respawn, Conn
  <2>4. QED
    BY <1>13, <2>0, <2>2, <2>3 DEF Respawn
<1>14. CASE End
  <2>1. cur \in Clients /\ client' \in [Clients -> Conn]
    BY <1>14, OutIsConn DEF End
  <2>2. \A c \in Clients : client'[c].at \in {"out", "in", "gone"}
    BY <2>1 DEF Conn
  <2>3. TypeOK'
    BY <1>14, <2>2 DEF End
  <2>4. QED
    BY <1>14, <2>1, <2>3 DEF End
<1>15. CASE RecvFull
  BY <1>15 DEF RecvFull
<1>16. QED
  BY <1>1, <1>2, <1>3, <1>4, <1>5, <1>6, <1>7, <1>8, <1>9, <1>10, <1>11, <1>12, <1>13,
     <1>14, <1>15 DEF Station

\* The clients change nothing of the station, and of a connection only what
\* a client may.
ClientStep == \E c \in Clients : \/ Dial(c) \/ Leave(c)
                               \/ \E kind \in Kinds : Send(c, kind)

LEMMA ClientsTyped ==
  ASSUME Typed, Serving, ClientStep PROVE Typed' /\ Serving'
<1> USE DEF Typed, Serving, TypeOK, server
<1>1. ASSUME NEW c \in Clients, Dial(c) PROVE Typed' /\ Serving'
  <2>1. backlog' \in Seq(Clients)
    BY <1>1 DEF Dial
  <2>2. ToSet(backlog') \subseteq Clients
    BY <2>1, BacklogClients
  <2>3. client' \in [Clients -> Conn]
    BY <1>1 DEF Dial, Conn
  <2>4. \A d \in Clients : client'[d].at \in {"out", "in", "gone"}
    BY <2>3 DEF Conn
  <2>5. QED
    BY <1>1, <2>1, <2>2, <2>3, <2>4 DEF Dial
<1>2. ASSUME NEW c \in Clients, Leave(c) PROVE Typed' /\ Serving'
  <2>1. client' \in [Clients -> Conn]
    BY <1>2 DEF Leave, Conn
  <2>2. \A d \in Clients : client'[d].at \in {"out", "in", "gone"}
    BY <2>1 DEF Conn
  <2>3. QED
    BY <1>2, <2>1, <2>2 DEF Leave
<1>3. ASSUME NEW c \in Clients, NEW kind \in Kinds, Send(c, kind)
      PROVE  Typed' /\ Serving'
  <2>1. client[c] \in Conn /\ Frame(kind) \in Seq(Segment)
    BY FrameIsSeq
  <2>2. client[c].wire \o Frame(kind) \in Seq(Segment)
    BY <2>1 DEF Conn
  <2>3. (IF c \in Polite THEN 1 ELSE client[c].sent + 1) \in Nat
    BY <2>1 DEF Conn
  <2>4. (c \in Polite) \in BOOLEAN
    OBVIOUS
  <2>5. client' \in [Clients -> Conn]
    BY <1>3, <2>1, <2>2, <2>3, <2>4 DEF Send, Conn
  <2>6. \A d \in Clients : client'[d].at \in {"out", "in", "gone"}
    BY <2>5 DEF Conn
  <2>7. QED
    BY <1>3, <2>5, <2>6 DEF Send
<1>4. QED
  BY <1>1, <1>2, <1>3 DEF ClientStep

LEMMA NextTyped == Typed /\ Serving /\ [Next]_vars => Typed' /\ Serving'
<1> SUFFICES ASSUME Typed, Serving, [Next]_vars PROVE Typed' /\ Serving'
  OBVIOUS
<1>1. CASE Station
  BY <1>1, StationTyped
<1>2. CASE ClientStep
  BY <1>2, ClientsTyped
<1>3. CASE UNCHANGED vars
  BY <1>3 DEF vars, server, Typed, TypeOK, Serving
<1>4. QED
  BY <1>1, <1>2, <1>3 DEF Next, ClientStep

LEMMA TypedAlways == Spec => [](Typed /\ Serving)
BY InitTyped, NextTyped, PTL DEF Spec

\* The buffer of the web thread never holds more than it has room for, the
\* thread serves a client from accept to close, and every connection is well
\* formed, for every number of clients and whatever they send.
THEOREM TypeCorrect == Spec => []TypeOK
BY TypedAlways, PTL DEF Typed

-----------------------------------------------------------------------------
(***************************************************************************)
(* The login                                                               *)
(***************************************************************************)
LEMMA NextLogin ==
  Typed /\ Serving /\ LoginIsOfThisSession /\ [Next]_vars => LoginIsOfThisSession'
<1> SUFFICES ASSUME Typed, Serving, LoginIsOfThisSession, [Next]_vars
             PROVE  LoginIsOfThisSession'
  OBVIOUS
<1> USE DEF Typed, Serving, LoginIsOfThisSession
<1>1. CASE Accept
  BY <1>1 DEF Accept
<1>2. CASE Receive
  BY <1>2 DEF Receive, Conn
<1>3. CASE RecvDone \/ RecvEof \/ CloseFrame \/ Crash
  BY <1>3 DEF RecvDone, RecvEof, CloseFrame, Crash
<1>4. CASE Opening \/ EmptyText
  BY <1>4 DEF Opening, EmptyText, Answered, Conn
<1>5. ASSUME NEW type \in {"incomplete", "ping", "ping0", "error"},
             Wait(type) \/ Refuse(type) \/ FrameError(type)
      PROVE  LoginIsOfThisSession'
  BY <1>5 DEF Wait, Refuse, FrameError
<1>6. ASSUME NEW type \in Texts, Text(type) PROVE LoginIsOfThisSession'
  <2>1. cur \in Clients /\ cur # None /\ client[cur] \in Conn
    BY <1>6, WebSessionAssumption DEF Text, Parsed
  <2>2. client'[cur].authed = (client[cur].authed \/ type = "login")
    BY <1>6, <2>1 DEF Text, Conn
  <2>3. QED
    BY <1>6, <2>1, <2>2 DEF Text
<1>7. CASE Respawn \/ End
  BY <1>7 DEF Respawn, End
<1>8. ASSUME NEW c \in Clients, Dial(c) \/ Leave(c) \/ \E kind \in Kinds : Send(c, kind)
      PROVE  LoginIsOfThisSession'
  <2>1. cur # None => cur \in Clients
    BY DEF TypeOK
  <2>2. \A d \in Clients : client'[d].authed = client[d].authed
    <3>1. CASE Dial(c)
      BY <3>1 DEF Dial, Conn
    <3>2. CASE Leave(c)
      BY <3>2 DEF Leave, Conn
    <3>3. ASSUME NEW kind \in Kinds, Send(c, kind)
          PROVE  \A d \in Clients : client'[d].authed = client[d].authed
      <4> DEFINE new == [client[c] EXCEPT !.wire = @ \o Frame(kind),
                                          !.sent = IF c \in Polite THEN 1 ELSE @ + 1,
                                          !.owed = c \in Polite]
      <4>1. client' = [client EXCEPT ![c] = new]
        BY <3>3 DEF Send
      <4>2. new.authed = client[c].authed
        BY DEF Conn
      <4> HIDE DEF new
      <4>3. QED
        BY <4>1, <4>2
    <3>4. QED
      BY <1>8, <3>1, <3>2, <3>3
  <2>3. cur' = cur /\ logined' = logined
    BY <1>8 DEF Dial, Leave, Send, server
  <2>4. QED
    BY <2>1, <2>2, <2>3
<1>9. CASE RecvFull \/ UNCHANGED vars
  BY <1>9 DEF RecvFull, vars, server
<1>10. QED
  BY <1>1, <1>2, <1>3, <1>4, <1>5, <1>6, <1>7, <1>8, <1>9 DEF Next, Station

\* Whoever connects, in whatever order sessions end and the process starts
\* again, logined is up only for the client that logged in on this connection.
THEOREM LoginEndsWithSession == Spec => []LoginIsOfThisSession
<1>1. Init => LoginIsOfThisSession
  BY DEF Init, LoginIsOfThisSession
<1>2. QED
  BY <1>1, TypedAlways, NextLogin, PTL DEF Spec
-----------------------------------------------------------------------------
(***************************************************************************)
(* Polite clients                                                          *)
(***************************************************************************)
\* What a polite client has sent and the station has not answered is one
\* message, the start of it received and the rest still on its way.
Unanswered(kind) ==
  LET wire == client[cur].wire
  IN  /\ Len(recbuf) + Len(wire) = Size(kind)
      /\ \A i \in 1..Len(recbuf) : recbuf[i] = [kind |-> kind, part |-> i]
      /\ \A i \in 1..Len(wire) : wire[i] = [kind |-> kind, part |-> Len(recbuf) + i]

\* Who waits for an answer has sent something and has not left; who is not being
\* served has sent its handshake or nothing.
PoliteWaits ==
  \A c \in Polite :
    /\ client[c].owed => client[c].at = "in" /\ client[c].sent # 0
    /\ cur # c => IF client[c].owed THEN client[c].wire = Frame("hello")
                  ELSE client[c].wire = <<>> /\ client[c].sent = 0

\* The session of a polite client: nothing is parsed but its one message, a
\* handshake exactly when the session is being opened.
PoliteServed ==
  cur \in Polite /\ pc \in {"recv", "parse"} =>
    /\ state # "closing"
    /\ readed \/ pc = "parse" => recbuf # <<>>
    /\ pc = "parse" => ~ readed
    /\ client[cur].owed =>
         \E kind \in IF state = "opening" THEN {"hello"} ELSE Texts \cup {"close"} :
           Unanswered(kind)
    /\ ~ client[cur].owed => /\ recbuf = <<>> /\ client[cur].wire = <<>>
                             /\ client[cur].sent = 0 <=> state = "opening"

Politeness == PoliteWaits /\ PoliteServed /\ PoliteNeverCrash

LEMMA OneSegment ==
  ASSUME NEW m \in Nat \ {0}, NEW n \in Nat, m + n = 1 PROVE m = 1 /\ n = 0
  OBVIOUS

LEMMA OneOver ==
  ASSUME NEW m \in Nat, NEW n \in Nat \ {0} PROVE (m + 1) + (n - 1) = m + n
  OBVIOUS

\* What the station makes of it: the handshake, a whole text or closing frame
\* with nothing behind it, or the first half of a command, which leaves room.
LEMMA PoliteParse ==
  ASSUME Typed, Serving, PoliteServed, cur \in Polite, NEW type, Parsed(type)
  PROVE  /\ client[cur].owed
         /\ \/ state = "opening" /\ type = "opening" /\ client[cur].wire = <<>>
            \/ state = "normal" /\ type \in Texts \cup {"close"} /\ client[cur].wire = <<>>
            \/ state = "normal" /\ type = "incomplete" /\ Len(recbuf) < Room
<1>1. pc = "parse" /\ cur \in Clients /\ client[cur] \in Conn /\ state \in {"opening", "normal"}
  BY WebSessionAssumption DEF Parsed, Typed, TypeOK, PoliteServed
<1>2. recbuf \in Seq(Segment) /\ client[cur].wire \in Seq(Segment) /\ recbuf # <<>>
  BY <1>1 DEF Typed, Conn, PoliteServed
<1>3. client[cur].owed
  BY <1>1, <1>2 DEF PoliteServed
<1>4. PICK kind \in IF state = "opening" THEN {"hello"} ELSE Texts \cup {"close"} :
        Unanswered(kind)
  BY <1>1, <1>3 DEF PoliteServed
<1>5. Len(recbuf) \in Nat \ {0} /\ Len(client[cur].wire) \in Nat
  BY <1>2
<1>6. recbuf[1] = [kind |-> kind, part |-> 1]
  BY <1>4, <1>5 DEF Unanswered
<1>7. CASE state = "opening"
  <2>1. kind = "hello" /\ Len(recbuf) = 1 /\ Len(client[cur].wire) = 0
    <3>1. kind = "hello"
      BY <1>4, <1>7
    <3>2. Len(recbuf) + Len(client[cur].wire) = Size(kind)
      BY <1>4 DEF Unanswered
    <3>3. Size(kind) = 1
      BY <3>1 DEF Size
    <3>4. Len(recbuf) + Len(client[cur].wire) = 1
      BY <3>2, <3>3
    <3>5. Len(recbuf) = 1 /\ Len(client[cur].wire) = 0
      BY <1>5, <3>4, OneSegment
    <3>6. QED
      BY <3>1, <3>5
  <2>2. Starts(recbuf, "hello")
    <3>1. SubSeq(recbuf, 1, 1) = Frame("hello")
      BY <1>2, <1>6, <2>1 DEF Frame, Size
    <3>2. QED
      BY <2>1, <3>1 DEF Starts, Size
  <2>3. HandshakeTypes(recbuf) = {"opening"}
    BY <1>2, <1>6, <2>1, <2>2 DEF HandshakeTypes, Size
  <2>4. client[cur].wire = <<>>
    BY <1>2, <2>1
  <2>5. QED
    BY <1>3, <1>7, <2>3, <2>4 DEF Parsed
<1>8. CASE state = "normal"
  <2>1. kind \in {"login", "command", "close"}
    BY <1>4, <1>8 DEF Texts
  <2>2. Len(recbuf) + Len(client[cur].wire) = Size(kind)
    BY <1>4 DEF Unanswered
  <2>3. InputTypes(recbuf) = IF Len(recbuf) < Size(kind) THEN {"incomplete"} ELSE {kind}
    <3>1. recbuf[1].kind = kind /\ recbuf[1].part = 1
      BY <1>6
    <3>2. Size(kind) \in Nat
      BY DEF Size
    <3>3. Len(recbuf) < Size(kind) \/ Len(recbuf) = Size(kind)
      BY <1>5, <2>2, <3>2
    <3>4. QED
      BY <2>1, <3>1, <3>3 DEF InputTypes
  <2>4. CASE Len(recbuf) < Size(kind)
    <3>1. Len(recbuf) < Room
      BY <1>5, <2>1, <2>4, WebSessionAssumption DEF Size
    <3>2. QED
      BY <1>3, <1>8, <2>3, <2>4, <3>1 DEF Parsed
  <2>5. CASE ~ (Len(recbuf) < Size(kind))
    <3>1. Len(client[cur].wire) = 0
      BY <1>5, <2>1, <2>2, <2>5 DEF Size
    <3>2. client[cur].wire = <<>>
      BY <1>2, <3>1
    <3>3. QED
      BY <1>3, <1>8, <2>1, <2>3, <2>5, <3>2 DEF Parsed, Texts
  <2>6. QED
    BY <2>4, <2>5
<1>9. QED
  BY <1>1, <1>7, <1>8

\* Sessions begin and end with every client as it was before.
LEMMA InitPolite == Init => Politeness
  BY WebSessionAssumption
  DEF Init, Politeness, PoliteWaits, PoliteServed, PoliteNeverCrash, Out

\* What the station does with the client that it serves.
LEMMA StationPolite ==
  ASSUME Typed, Serving, Politeness, Station PROVE Politeness'
<1> USE WebSessionAssumption DEF Politeness, Serving
<1>0. /\ client \in [Clients -> Conn] /\ recbuf \in Seq(Segment)
      /\ pc # "accept" => cur \in Clients
      /\ None \notin Clients
  BY DEF Typed
<1>1. CASE Accept
  <2>1. PoliteWaits'
    BY <1>0, <1>1 DEF Accept, PoliteWaits
  <2>2. ASSUME cur' \in Polite PROVE PoliteServed'
    <3>1. cur = None /\ client' = client /\ recbuf' = <<>> /\ state' = "opening"
          /\ readed' = FALSE /\ pc' = "recv"
      BY <1>1 DEF Accept
    <3>2. cur # cur'
      BY <2>2, <3>1
    <3>3. CASE client[cur'].owed
      <4>1. client[cur'].wire = Frame("hello")
        BY <2>2, <3>2, <3>3 DEF PoliteWaits
      <4>2. Unanswered("hello")'
        BY <3>1, <4>1 DEF Unanswered, Frame, Size
      <4>3. QED
        BY <3>1, <3>3, <4>2 DEF PoliteServed
    <3>4. CASE ~ client[cur'].owed
      <4>1. client[cur'].wire = <<>> /\ client[cur'].sent = 0
        BY <2>2, <3>2, <3>4 DEF PoliteWaits
      <4>2. QED
        BY <3>1, <3>4, <4>1 DEF PoliteServed
    <3>5. QED
      BY <3>3, <3>4
  <2>3. PoliteNeverCrash'
    BY <1>1 DEF Accept, PoliteNeverCrash
  <2>4. QED
    BY <2>1, <2>2, <2>3 DEF PoliteServed
<1>2. CASE Receive
  <2>1. cur \in Clients /\ client[cur] \in Conn /\ pc = "recv" /\ pc' = "recv"
        /\ cur' = cur /\ state' = state
    BY <1>0, <1>2 DEF Receive
  <2> DEFINE wire == client[cur].wire
  <2>2. wire \in Seq(Segment) /\ wire # <<>>
    BY <1>2, <2>1 DEF Receive, Conn
  <2>3. recbuf' = Append(recbuf, Head(wire))
    BY <1>2 DEF Receive
  <2>4. client' = [client EXCEPT ![cur] = [client[cur] EXCEPT !.wire = Tail(wire)]]
    BY <1>2 DEF Receive
  <2>5. /\ client'[cur].wire = Tail(wire)
        /\ client'[cur].owed = client[cur].owed
        /\ client'[cur].sent = client[cur].sent
        /\ client'[cur].at = client[cur].at
        /\ \A d \in Clients : d # cur => client'[d] = client[d]
    BY <1>0, <2>1, <2>4 DEF Conn
  <2>6. PoliteWaits'
    BY <2>1, <2>5 DEF PoliteWaits
  <2>7. recbuf' # <<>>
    BY <1>0, <2>2, <2>3
  <2>8. ASSUME NEW kind, Unanswered(kind) PROVE Unanswered(kind)'
    <3>1. /\ Len(recbuf') = Len(recbuf) + 1
          /\ Len(client'[cur'].wire) = Len(wire) - 1
          /\ Len(recbuf) \in Nat /\ Len(wire) \in Nat \ {0}
      BY <1>0, <2>1, <2>2, <2>3, <2>5
    <3>2. \A i \in 1..Len(recbuf) : recbuf'[i] = recbuf[i]
      BY <1>0, <2>2, <2>3
    <3>3. recbuf'[Len(recbuf) + 1] = wire[1]
      BY <1>0, <2>2, <2>3
    <3>4. \A i \in 1..(Len(wire) - 1) : client'[cur'].wire[i] = wire[i + 1]
      BY <2>1, <2>2, <2>5
    <3>5. wire[1] = [kind |-> kind, part |-> Len(recbuf) + 1]
      BY <2>8, <3>1 DEF Unanswered
    <3>6. ASSUME NEW i \in 1..Len(recbuf')
          PROVE  recbuf'[i] = [kind |-> kind, part |-> i]
      <4>1. CASE i = Len(recbuf) + 1
        BY <3>3, <3>5, <4>1
      <4>2. CASE i # Len(recbuf) + 1
        <5>1. i \in 1..Len(recbuf)
          BY <3>1, <4>2
        <5>2. QED
          BY <2>8, <3>2, <5>1 DEF Unanswered
      <4>3. QED
        BY <4>1, <4>2
    <3>7. ASSUME NEW i \in 1..Len(client'[cur'].wire)
          PROVE  client'[cur'].wire[i] = [kind |-> kind, part |-> Len(recbuf') + i]
      <4>1. i + 1 \in 1..Len(wire) /\ i \in 1..(Len(wire) - 1)
        BY <3>1
      <4>2. wire[i + 1] = [kind |-> kind, part |-> Len(recbuf) + (i + 1)]
        BY <2>8, <4>1 DEF Unanswered
      <4>3. Len(recbuf) + (i + 1) = Len(recbuf') + i
        BY <3>1, <4>1
      <4>4. QED
        BY <3>4, <4>1, <4>2, <4>3
    <3>8. Len(recbuf') + Len(client'[cur'].wire) = Size(kind)
      <4>1. Len(recbuf) + Len(wire) = Size(kind)
        BY <2>8 DEF Unanswered
      <4>2. Len(recbuf') + Len(client'[cur'].wire) = Len(recbuf) + Len(wire)
        BY <3>1, OneOver
      <4>3. QED
        BY <4>1, <4>2
    <3>9. QED
      BY <3>6, <3>7, <3>8 DEF Unanswered
  <2>9. PoliteServed'
    BY <2>1, <2>2, <2>5, <2>7, <2>8 DEF PoliteServed
  <2>10. QED
    BY <2>1, <2>6, <2>9 DEF PoliteNeverCrash
<1>3. CASE RecvDone
  BY <1>3 DEF RecvDone, PoliteWaits, PoliteServed, PoliteNeverCrash, Unanswered
<1>4. CASE RecvEof
  BY <1>4 DEF RecvEof, PoliteWaits, PoliteServed, PoliteNeverCrash
<1>5. ASSUME cur \in Polite, NEW type, Parsed(type),
             \/ Wait(type) \/ Refuse(type) \/ FrameError(type)
      PROVE  Politeness'
  <2>1. /\ state = "normal" /\ type = "incomplete" /\ client[cur].owed
        /\ ~ TooLong(type) /\ recbuf # <<>>
    <3>1. /\ client[cur].owed
          /\ \/ state = "opening" /\ type = "opening"
             \/ state = "normal" /\ type \in Texts \cup {"close"}
             \/ state = "normal" /\ type = "incomplete" /\ Len(recbuf) < Room
      BY <1>5, PoliteParse
    <3>2. recbuf # <<>>
      BY <1>5 DEF PoliteServed, Parsed
    <3>3. QED
      BY <1>0, <1>5, <3>1, <3>2 DEF Wait, Refuse, FrameError, TooLong, Texts
  <2>2. Wait(type)
    BY <1>5, <2>1 DEF Refuse, FrameError
  <2>3. QED
    BY <2>1, <2>2 DEF Wait, Parsed, PoliteWaits, PoliteServed, PoliteNeverCrash, Unanswered
<1>6. ASSUME cur \in Polite, CloseFrame PROVE Politeness'
  BY <1>6 DEF CloseFrame, PoliteWaits, PoliteServed, PoliteNeverCrash
<1>7. ASSUME cur \in Polite, Opening \/ \E type \in Texts : Text(type)
      PROVE  Politeness'
  <2>1. cur \in Clients /\ client[cur] \in Conn /\ pc = "parse" /\ cur' = cur
    BY <1>0, <1>7 DEF Opening, Text, Parsed
  <2>2. /\ client[cur].owed /\ client[cur].wire = <<>>
        /\ state \in {"opening", "normal"}
        /\ Opening \/ state = "normal"
    BY <1>7, PoliteParse DEF Opening, Text, Texts
  <2>3. client[cur].at = "in" /\ client[cur].sent # 0
    BY <1>7, <2>2 DEF PoliteWaits
  <2>4. /\ client'[cur].owed = FALSE /\ client'[cur].wire = <<>>
        /\ client'[cur].at = "in" /\ client'[cur].sent # 0
        /\ \A d \in Clients : d # cur => client'[d] = client[d]
    BY <1>0, <1>7, <2>1, <2>2, <2>3 DEF Opening, Text, Answered, Conn
  <2>5. pc' = "recv" /\ state' = "normal" /\ recbuf' = <<>> /\ readed' = readed
    BY <1>7, <2>2, <2>3 DEF Opening, Text, Sends, LeftAfter
  <2>6. ~ readed
    BY <1>7, <2>1 DEF PoliteServed
  <2>7. PoliteWaits'
    BY <2>1, <2>4 DEF PoliteWaits
  <2>8. PoliteServed'
    BY <2>1, <2>4, <2>5, <2>6 DEF PoliteServed
  <2>9. QED
    BY <2>5, <2>7, <2>8 DEF PoliteNeverCrash
<1>8. ASSUME cur \in Polite, EmptyText \/ Crash PROVE FALSE
  <2>1. PICK type \in {"empty", "assert"} : Parsed(type)
    BY <1>8 DEF EmptyText, Crash
  <2>2. QED
    BY <1>8, <2>1, PoliteParse DEF Texts
<1>9. CASE Respawn
  BY <1>9 DEF Respawn, PoliteWaits, PoliteServed, PoliteNeverCrash, Out
<1>10. CASE End
  <2>1. \A c \in Polite : client'[c] = IF c = cur THEN Out ELSE client[c]
    BY <1>0, <1>10 DEF End
  <2>2. PoliteWaits'
    BY <1>0, <1>10, <2>1 DEF End, PoliteWaits, Out
  <2>3. QED
    BY <1>10, <2>2 DEF End, PoliteServed, PoliteNeverCrash
\* With another client the station does not touch the polite ones.
<1>11. ASSUME cur \notin Polite, pc = "parse", cur' = cur, pc' \in {"recv", "end", "crashed"},
              \A d \in Clients : d # cur => client'[d] = client[d]
       PROVE  Politeness'
  BY <1>11 DEF PoliteWaits, PoliteServed, PoliteNeverCrash
<1>12. ASSUME cur \notin Polite, pc = "parse",
              \/ Opening \/ CloseFrame \/ EmptyText \/ Crash
              \/ \E type \in Texts : Text(type)
              \/ \E type \in {"incomplete", "ping", "ping0", "error"} :
                   Wait(type) \/ Refuse(type) \/ FrameError(type)
       PROVE  Politeness'
  <2>1. cur' = cur /\ pc' \in {"recv", "end", "crashed"}
    BY <1>12 DEF Opening, CloseFrame, EmptyText, Crash, Text, Wait, Refuse, FrameError
  <2>2. \A d \in Clients : d # cur => client'[d] = client[d]
    BY <1>0, <1>12 DEF Opening, CloseFrame, EmptyText, Crash, Text, Wait, Refuse,
                       FrameError, Answered
  <2>3. QED
    BY <1>11, <1>12, <2>1, <2>2
<1>13. Opening \/ CloseFrame \/ EmptyText \/ Crash
       \/ (\E type \in Texts : Text(type))
       \/ (\E type \in {"incomplete", "ping", "ping0", "error"} :
             Wait(type) \/ Refuse(type) \/ FrameError(type))
       => pc = "parse"
  BY DEF Opening, CloseFrame, EmptyText, Crash, Text, Wait, Refuse, FrameError, Parsed
<1>14. ASSUME NEW type, Wait(type) \/ Refuse(type) \/ FrameError(type) PROVE Parsed(type)
  BY <1>14 DEF Wait, Refuse, FrameError
<1>15. CASE RecvFull
  BY <1>15 DEF RecvFull, vars, server, PoliteWaits, PoliteServed, PoliteNeverCrash, Unanswered
<1>16. QED
  BY <1>1, <1>2, <1>3, <1>4, <1>5, <1>6, <1>7, <1>8, <1>9, <1>10, <1>12, <1>13, <1>14,
     <1>15
  DEF Station

\* What the clients do.
LEMMA ClientsPolite ==
  ASSUME Typed, Serving, Politeness, ClientStep PROVE Politeness'
<1> USE WebSessionAssumption DEF Politeness, Serving
<1>0. client \in [Clients -> Conn] /\ recbuf \in Seq(Segment)
  BY DEF Typed
<1>1. ASSUME NEW c \in Clients, Dial(c) PROVE Politeness'
  <2>1. \A d \in Clients :
          /\ client'[d].wire = client[d].wire /\ client'[d].owed = client[d].owed
          /\ client'[d].sent = client[d].sent
          /\ client[d].at = "in" => client'[d].at = "in"
    BY <1>0, <1>1 DEF Dial, Conn
  <2>2. PoliteWaits'
    BY <1>1, <2>1 DEF Dial, server, PoliteWaits
  <2>3. \A kind : Unanswered(kind) /\ cur \in Clients => Unanswered(kind)'
    <3>1. cur' = cur /\ recbuf' = recbuf
      BY <1>1 DEF Dial, server
    <3>2. cur \in Clients => client'[cur'].wire = client[cur].wire
      BY <2>1, <3>1
    <3>3. QED
      BY <3>1, <3>2 DEF Unanswered
  <2>4. QED
    BY <1>1, <2>1, <2>2, <2>3 DEF Dial, server, PoliteServed, PoliteNeverCrash
<1>2. ASSUME NEW c \in Clients, Leave(c) PROVE Politeness'
  <2>1. \A d \in Clients :
          /\ client'[d].wire = client[d].wire /\ client'[d].owed = client[d].owed
          /\ client'[d].sent = client[d].sent
          /\ client[d].owed => client'[d].at = client[d].at
    BY <1>0, <1>2 DEF Leave, Conn
  <2>2. PoliteWaits'
    BY <1>2, <2>1 DEF Leave, server, PoliteWaits
  <2>3. \A kind : Unanswered(kind) /\ cur \in Clients => Unanswered(kind)'
    BY <1>2, <2>1 DEF Leave, server, Unanswered
  <2>4. QED
    BY <1>2, <2>1, <2>2, <2>3 DEF Leave, server, PoliteServed, PoliteNeverCrash
<1>3. ASSUME NEW c \in Clients, NEW kind \in Kinds, Send(c, kind) PROVE Politeness'
  <2> DEFINE new == [client[c] EXCEPT !.wire = @ \o Frame(kind),
                                      !.sent = IF c \in Polite THEN 1 ELSE @ + 1,
                                      !.owed = c \in Polite]
  <2>1. client' = [client EXCEPT ![c] = new] /\ server' = server
    BY <1>3 DEF Send
  <2>2. /\ new.wire = client[c].wire \o Frame(kind)
        /\ new.sent = IF c \in Polite THEN 1 ELSE client[c].sent + 1
        /\ new.owed = (c \in Polite)
        /\ new.at = client[c].at
    BY <1>0 DEF Conn
  <2> HIDE DEF new
  <2>3. \A d \in Clients : client'[d] = IF d = c THEN new ELSE client[d]
    BY <1>0, <2>1
  <2>4. CASE c \notin Polite
    <3>1. PoliteWaits'
      BY <2>1, <2>3, <2>4 DEF server, PoliteWaits
    <3>2. cur \in Polite => client'[cur] = client[cur]
      BY <2>3, <2>4
    <3>3. \A k : cur \in Polite /\ Unanswered(k) => Unanswered(k)'
      BY <2>1, <3>2 DEF server, Unanswered
    <3>4. QED
      BY <2>1, <3>1, <3>2, <3>3 DEF server, PoliteServed, PoliteNeverCrash
  <2>5. CASE c \in Polite
    <3>1. /\ ~ client[c].owed /\ client[c].at = "in"
          /\ kind \in IF client[c].sent = 0 THEN {"hello"} ELSE Texts \cup {"close"}
      BY <1>3, <2>5 DEF Send, Politely
    <3>2. Frame(kind) \in Seq(Segment)
      BY FrameIsSeq
    <3>3. client[c].wire = <<>> => new.wire = Frame(kind)
      BY <2>2, <3>2
    <3>4. new.owed /\ new.at = "in" /\ new.sent = 1
      BY <2>2, <2>5, <3>1
    <3>5. PoliteWaits'
      BY <2>1, <2>3, <2>5, <3>1, <3>3, <3>4 DEF server, PoliteWaits
    <3>6. CASE cur # c
      <4>1. cur \in Polite => client'[cur] = client[cur]
        BY <2>3, <3>6
      <4>2. \A k : cur \in Polite /\ Unanswered(k) => Unanswered(k)'
        BY <2>1, <4>1 DEF server, Unanswered
      <4>3. QED
        BY <2>1, <3>5, <4>1, <4>2 DEF server, PoliteServed, PoliteNeverCrash
    <3>7. CASE cur = c
      <4>1. CASE pc \notin {"recv", "parse"}
        BY <2>1, <3>5, <4>1 DEF server, PoliteServed, PoliteNeverCrash
      <4>2. CASE pc \in {"recv", "parse"}
        <5>1. /\ recbuf = <<>> /\ client[c].wire = <<>> /\ state # "closing"
              /\ client[c].sent = 0 <=> state = "opening"
          BY <2>5, <3>1, <3>7, <4>2 DEF PoliteServed
        <5>2. client'[cur] = new /\ client'[cur].wire = Frame(kind) /\ recbuf' = <<>>
              /\ cur' = cur /\ state' = state /\ pc' = pc /\ readed' = readed
          BY <2>1, <2>3, <3>3, <3>7, <5>1 DEF server
        <5>3. Unanswered(kind)'
          <6>1. Len(recbuf') = 0
            BY <5>2
          <6>2. Len(client'[cur'].wire) = Size(kind)
            BY <5>2 DEF Frame, Size
          <6>3. \A i \in 1..Size(kind) : Frame(kind)[i] = [kind |-> kind, part |-> i]
            BY DEF Frame
          <6>4. Size(kind) \in Nat
            BY DEF Size
          <6>5. \A i \in 1..Size(kind) :
                  client'[cur'].wire[i] = [kind |-> kind, part |-> Len(recbuf') + i]
            BY <5>2, <6>1, <6>3, <6>4
          <6>6. QED
            BY <5>2, <6>1, <6>2, <6>4, <6>5 DEF Unanswered
        <5>4. PoliteServed'
          BY <2>5, <3>1, <3>4, <3>7, <4>2, <5>1, <5>2, <5>3 DEF PoliteServed
        <5>5. QED
          BY <2>1, <3>5, <4>2, <5>4 DEF server, PoliteNeverCrash
      <4>3. QED
        BY <4>1, <4>2
    <3>8. QED
      BY <3>6, <3>7
  <2>6. QED
    BY <2>4, <2>5
<1>4. QED
  BY <1>1, <1>2, <1>3 DEF ClientStep

LEMMA NextPolite ==
  Typed /\ Serving /\ Politeness /\ [Next]_vars => Politeness'
<1> SUFFICES ASSUME Typed, Serving, Politeness, [Next]_vars PROVE Politeness'
  OBVIOUS
<1>1. CASE Station
  BY <1>1, StationPolite
<1>2. CASE ClientStep
  BY <1>2, ClientsPolite
<1>3. CASE UNCHANGED vars
  BY <1>3 DEF vars, server, Politeness, PoliteWaits, PoliteServed, PoliteNeverCrash,
              Unanswered
<1>4. QED
  BY <1>1, <1>2, <1>3 DEF Next, ClientStep

\* A client that waits for each answer and sends no empty text never fails the
\* assertion of wsParseInputFrame nor reads behind a missing payload, however
\* its messages are cut and whoever else connects: the process ends only in
\* the session of another client.
THEOREM PoliteIsSafe == Spec => []PoliteNeverCrash
BY InitPolite, NextPolite, TypedAlways, PTL DEF Spec, Politeness
=============================================================================
