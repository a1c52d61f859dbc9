--------------------------- MODULE NetLinkProofs ----------------------------
(* What the heart thread keeps for any set of commands, cut into any number *)
(* of segments, and whatever servers and network do.                        *)
EXTENDS NetLink, SequenceTheorems, TLAPS

Segments(S) == {Noise} \cup (S \X Nat)

\* TypeOK in the form the provers take: no set or quantifier over variables.
Flags == restart \in BOOLEAN /\ got \in BOOLEAN /\ patient \in BOOLEAN
Queues == /\ buf \in Seq(Segments(Cmds)) /\ sending \in Seq(Segments(Cmds))
          /\ wire \in Seq(Segments(Cmds))
          /\ asked \in Seq(Cmds)
Others == /\ pc \in {"loop", "sleep", "hello", "wait", "recv", "parse", "answer", "ended"}
          /\ dest \in Servers
          /\ err \in 0 .. FailLimit + 1
          /\ reply \in Cmds \cup {Noise}
          /\ executed \subseteq Cmds /\ confirmed \subseteq Cmds
          /\ up \subseteq Servers
          /\ peer \in {"open", "closed", "none"}
Typed == Flags /\ Queues /\ Others

\* A call of RecvMsg that received something has it in the buffer.
Received == /\ pc = "parse" => buf # <<>>
            /\ pc = "recv" /\ got => buf # <<>>

\* Between two connections nothing is under way.
Apart == pc \in {"loop", "sleep", "ended", "hello"} =>
           asked = <<>> /\ sending = <<>> /\ wire = <<>>

\* What is received, or under way, when one command or none was sent: its
\* segments and noise.
Connected == pc \in {"hello", "wait", "recv", "parse", "answer"}
Single == Connected /\ Len(asked) <= 1 =>
            LET S == Segments({asked[i] : i \in DOMAIN asked})
            IN  buf \in Seq(S) /\ wire \in Seq(S) /\ sending \in Seq(S)

\* When two were sent at once, the head of the first comes first.
Leads(x) == /\ buf # <<>> => buf[1] = x
            /\ buf = <<>> /\ wire # <<>> => wire[1] = x
            /\ buf = <<>> /\ wire = <<>> /\ sending # <<>> => sending[1] = x
Double == Connected /\ Len(asked) > 1 => Leads(HeadOf(asked[1]))

\* The answer under way is the one to the first command sent.
Answers == pc = "answer" => asked # <<>> /\ asked[1] \in executed

Stream == Received /\ Apart /\ Single /\ Double /\ Answers

LEMMA KeptOrEmpty ==
  ASSUME NEW S, NEW s \in Seq(S), NEW t, t = s \/ t = <<>> PROVE t \in Seq(S)
<1>1. CASE t = s
  BY <1>1
<1>2. CASE t = <<>>
  BY <1>2
<1>3. QED
  BY <1>1, <1>2

LEMMA Split ==
  ASSUME NEW S, NEW s \in Seq(S), NEW n \in 1 .. Len(s)
  PROVE  /\ SubSeq(s, 1, n) \in Seq(S) /\ SubSeq(s, n + 1, Len(s)) \in Seq(S)
         /\ SubSeq(s, 1, n) # <<>> /\ SubSeq(s, 1, n)[1] = s[1]
<1>1. \A i \in 1 .. n : i \in 1 .. Len(s)
  OBVIOUS
<1>2. Len(SubSeq(s, 1, n)) = n /\ SubSeq(s, 1, n)[1] = s[1]
  OBVIOUS
<1>3. SubSeq(s, 1, n) \in Seq(S)
  BY <1>1
<1>4. SubSeq(s, n + 1, Len(s)) \in Seq(S)
  OBVIOUS
<1>5. QED
  BY <1>2, <1>3, <1>4

LEMMA FirstOfConcat ==
  ASSUME NEW S, NEW s \in Seq(S), NEW t \in Seq(S), t # <<>>
  PROVE  s \o t # <<>> /\ (s \o t)[1] = IF s = <<>> THEN t[1] ELSE s[1]
  OBVIOUS

LEMMA FrameIsSeq ==
  ASSUME NEW c \in Cmds
  PROVE  /\ FrameOf(c) \in Seq(Segments(Cmds)) /\ FrameOf(c) \in Seq(Segments({c}))
         /\ FrameOf(c) # <<>> /\ FrameOf(c)[1] = HeadOf(c)
<1>1. Parts[c] \in Nat \ {0}
  BY NetLinkAssumption
<1>2. \A i \in 1 .. Parts[c] : <<c, i>> \in Segments(Cmds) /\ <<c, i>> \in Segments({c})
  BY DEF Segments
<1>3. FrameOf(c) \in Seq(Segments(Cmds)) /\ FrameOf(c) \in Seq(Segments({c}))
  <2>1. /\ FrameOf(c) \in [1 .. Parts[c] -> Segments(Cmds)]
        /\ FrameOf(c) \in [1 .. Parts[c] -> Segments({c})]
    BY <1>2 DEF FrameOf
  <2>2. QED
    BY <1>1, <2>1, SeqDef
<1>4. Len(FrameOf(c)) = Parts[c] /\ FrameOf(c)[1] = HeadOf(c)
  BY <1>1 DEF FrameOf, HeadOf
<1>5. QED
  BY <1>1, <1>3, <1>4

LEMMA TypedIsTypeOK == Typed /\ Received /\ Answers => TypeOK
<1> SUFFICES ASSUME Typed, Received, Answers PROVE TypeOK
  OBVIOUS
<1>1. {restart, got, patient} \subseteq BOOLEAN
  BY DEF Typed, Flags
<1>2. \A q \in {buf, sending, wire} : q \in Seq({Noise} \cup (Cmds \X Nat))
  BY DEF Typed, Queues, Segments
<1>3. QED
  BY <1>1, <1>2 DEF Typed, Queues, Others, Received, Answers, TypeOK

LEMMA InitStream == Init => Typed /\ Stream /\ ConfirmedWereExecuted
<1> SUFFICES ASSUME Init PROVE Typed /\ Stream /\ ConfirmedWereExecuted
  OBVIOUS
<1> USE DEF Init
<1>1. Flags
  BY DEF Flags
<1>2. Queues
  BY DEF Queues
<1>3. Others
  BY DEF Others, Servers, FailLimit
<1>4. Stream
  BY DEF Stream, Received, Apart, Connected, Single, Double, Answers
<1>5. QED
  BY <1>1, <1>2, <1>3, <1>4 DEF Typed, ConfirmedWereExecuted

\* One step of Next by one of the names below.
Commands == Seq(Cmds)
Environment == \/ \E cs \in Commands, p \in BOOLEAN :
                    /\ Len(cs) = 1 \/ (Len(cs) = 2 /\ Fresh)
                    /\ Send(cs, p)
               \/ SendNoise \/ (\E n \in 1 .. Len(sending) : Arrive(n))
               \/ PeerCloses \/ UpDown \/ Signal

LEMMA Steps == [Next]_vars => Thread \/ Environment \/ UNCHANGED vars
<1> SUFFICES ASSUME Next PROVE Thread \/ Environment
  OBVIOUS
<1>1. ASSUME NEW c \in Cmds, NEW p \in BOOLEAN, Send(<<c>>, p) PROVE Environment
  <2>1. <<c>> \in Commands /\ Len(<<c>>) = 1
    BY DEF Commands
  <2>2. QED
    BY <1>1, <2>1 DEF Environment
<1>2. ASSUME NEW c \in Cmds, NEW d \in Cmds, Fresh, Send(<<c, d>>, FALSE) PROVE Environment
  <2>1. <<c, d>> \in Commands /\ Len(<<c, d>>) = 2
    BY DEF Commands
  <2>2. QED
    BY <1>2, <2>1 DEF Environment
<1>3. QED
  BY <1>1, <1>2 DEF Next, Environment

LEMMA Closes ==
  ASSUME Close
  PROVE  /\ pc' = "loop" /\ err' = 0 /\ peer' = "none" /\ patient' = FALSE
         /\ asked' = <<>> /\ sending' = <<>> /\ wire' = <<>>
BY DEF Close, NoLink

\* What a step of the thread does to the queues.
ThreadQueues ==
  \/ UNCHANGED <<buf, sending, wire, asked>>
  \/ buf' = <<>> /\ UNCHANGED <<sending, wire, asked>>
  \/ buf' = buf \o wire /\ wire' = <<>> /\ UNCHANGED <<sending, asked>>
  \/ UNCHANGED buf /\ sending' = <<>> /\ wire' = <<>> /\ asked' = <<>>

LEMMA ThreadMoves == Thread => ThreadQueues
<1> USE DEF ThreadQueues, station, link
<1>1. Loop \/ SendHeart \/ WakeUp \/ ConnectFails => ThreadQueues
  BY DEF Loop, SendHeart, WakeUp, ConnectFails
<1>2. Connect \/ ParseNoHead \/ ParseMore => ThreadQueues
  BY DEF Connect, ParseNoHead, ParseMore
<1>3. Receive => ThreadQueues
  BY DEF Receive
<1>4. SendHeartFails \/ RecvEof \/ RecvTimeout \/ Answer => ThreadQueues
  BY Closes DEF SendHeartFails, RecvEof, RecvTimeout, Answer
<1>5. Execute => ThreadQueues
  BY Closes DEF Execute
<1>6. QED
  BY <1>1, <1>2, <1>3, <1>4, <1>5 DEF Thread

LEMMA NextFlags == Flags /\ [Next]_vars => Flags'
<1> SUFFICES ASSUME Flags, Thread \/ Environment \/ UNCHANGED vars PROVE Flags'
  BY Steps
<1> USE DEF Flags, station, link, vars
<1>1. Thread => restart' = restart /\ (got' = got \/ got' = FALSE \/ got' = TRUE)
                /\ (patient' = patient \/ patient' = FALSE)
  BY Closes DEF Thread, Loop, ConnectFails, Connect, SendHeart, SendHeartFails, WakeUp,
     Receive, RecvTimeout, RecvEof, ParseNoHead, ParseMore, Execute, Answer
<1>2. Environment => got' = got /\ (restart' = restart \/ restart' = TRUE)
                     /\ patient' \in BOOLEAN
  BY DEF Environment, Send, SendNoise, Arrive, PeerCloses, UpDown, Signal
<1>3. QED
  BY <1>1, <1>2

LEMMA NextQueues == Queues /\ [Next]_vars => Queues'
<1> SUFFICES ASSUME Queues, Thread \/ Environment \/ UNCHANGED vars PROVE Queues'
  BY Steps
<1> USE DEF Queues
<1>1. CASE Thread
  <2>1. CASE buf' = buf \o wire /\ wire' = <<>> /\ UNCHANGED <<sending, asked>>
    BY <2>1
  <2>2. CASE ~ (buf' = buf \o wire /\ wire' = <<>> /\ UNCHANGED <<sending, asked>>)
    <3>1. /\ buf' = buf \/ buf' = <<>>
          /\ wire' = wire \/ wire' = <<>>
          /\ sending' = sending \/ sending' = <<>>
          /\ asked' = asked \/ asked' = <<>>
      BY <1>1, <2>2, ThreadMoves DEF ThreadQueues
    <3>2. QED
      BY <3>1, KeptOrEmpty
  <2>3. QED
    BY <2>1, <2>2
<1>2. ASSUME NEW cs \in Commands, NEW p \in BOOLEAN, Len(cs) \in {1, 2}, Send(cs, p)
      PROVE  Queues'
  <2>1. cs \in Seq(Cmds) /\ cs[1] \in Cmds /\ (Len(cs) = 2 => cs[2] \in Cmds)
    BY <1>2 DEF Commands
  <2>2. FrameOf(cs[1]) \in Seq(Segments(Cmds))
        /\ (Len(cs) = 2 => FrameOf(cs[2]) \in Seq(Segments(Cmds)))
    BY <2>1, FrameIsSeq
  <2>3. sending' \in Seq(Segments(Cmds))
    BY <1>2, <2>2 DEF Send
  <2>4. QED
    BY <1>2, <2>1, <2>3 DEF Send, station
<1>3. CASE SendNoise
  BY <1>3 DEF SendNoise, Segments, station
<1>4. ASSUME NEW n \in 1 .. Len(sending), Arrive(n) PROVE Queues'
  BY <1>4 DEF Arrive, station
<1>5. CASE PeerCloses
  <2>1. /\ buf' = buf /\ asked' = asked
        /\ sending' = sending \/ sending' = <<>>
        /\ wire' = wire \/ wire' = <<>>
    BY <1>5 DEF PeerCloses, station
  <2>2. QED
    BY <2>1, KeptOrEmpty
<1>6. CASE UpDown \/ Signal \/ UNCHANGED vars
  BY <1>6 DEF UpDown, Signal, vars, station, link
<1>7. QED
  BY <1>1, <1>2, <1>3, <1>4, <1>5, <1>6 DEF Environment

LEMMA NextOthers == Others /\ Queues /\ Answers /\ [Next]_vars => Others'
<1> SUFFICES ASSUME Others, Queues, Answers, Thread \/ Environment \/ UNCHANGED vars PROVE Others'
  BY Steps
<1> USE DEF Others, Servers, FailLimit, station, link, vars
<1>1. CASE Loop \/ SendHeart \/ WakeUp \/ Connect
  BY <1>1 DEF Loop, SendHeart, WakeUp, Connect
<1>2. CASE ConnectFails
  BY <1>2 DEF ConnectFails
<1>3. CASE SendHeartFails \/ RecvEof \/ RecvTimeout
  <2>1. /\ pc' \in {"parse", "loop"} /\ err' \in {err, 0} /\ peer' \in {peer, "none"}
        /\ UNCHANGED <<dest, reply, executed, confirmed, up>>
    BY <1>3, Closes DEF SendHeartFails, RecvEof, RecvTimeout
  <2>2. QED
    BY <2>1
<1>4. CASE Receive \/ ParseNoHead \/ ParseMore
  BY <1>4 DEF Receive, ParseNoHead, ParseMore
<1>5. CASE Execute
  <2>1. /\ pc' \in {"answer", "loop"} /\ err' \in {err, 0} /\ peer' \in {peer, "none"}
        /\ UNCHANGED <<dest, confirmed, up>>
    BY <1>5, Closes DEF Execute
  <2>2. reply' \in Cmds \cup {reply} /\ executed' \subseteq executed \cup Cmds
    BY <1>5 DEF Execute
  <2>3. QED
    BY <2>1, <2>2
<1>6. CASE Answer
  <2>1. Head(asked) \in Cmds
    BY <1>6 DEF Queues, Answers, Answer
  <2>2. confirmed' \subseteq confirmed \cup {Head(asked)}
    BY <1>6 DEF Answer
  <2>3. QED
    BY <1>6, <2>1, <2>2, Closes DEF Answer
<1>7. CASE Environment
  BY <1>7 DEF Environment, Send, SendNoise, Arrive, PeerCloses, UpDown, Signal
<1>8. QED
  BY <1>1, <1>2, <1>3, <1>4, <1>5, <1>6, <1>7 DEF Thread

LEMMA NextTyped == Typed /\ Stream /\ [Next]_vars => Typed'
BY NextFlags, NextQueues, NextOthers DEF Typed, Stream

-----------------------------------------------------------------------------
(***************************************************************************)
(* What is on a connection                                                 *)
(***************************************************************************)
LEMMA NextReceived == Typed /\ Stream /\ [Next]_vars => Received'
<1> SUFFICES ASSUME Typed, Stream, Thread \/ Environment \/ UNCHANGED vars PROVE Received'
  BY Steps
<1> USE DEF Stream, Received, Typed, Queues, station, link, vars
<1>1. CASE Receive
  <2>1. buf' # <<>>
    BY <1>1 DEF Receive
  <2>2. QED
    BY <1>1, <2>1 DEF Receive
<1>2. CASE RecvTimeout
  BY <1>2, Closes DEF RecvTimeout, Silence
<1>3. CASE \/ Loop \/ ConnectFails \/ Connect \/ SendHeart \/ SendHeartFails \/ WakeUp
           \/ RecvEof \/ ParseNoHead \/ ParseMore \/ Execute \/ Answer
  <2>1. pc' \notin {"parse", "recv"} \/ (pc' = "recv" /\ got' = FALSE)
    BY <1>3, Closes DEF Loop, ConnectFails, Connect, SendHeart, SendHeartFails, WakeUp,
       RecvEof, ParseNoHead, ParseMore, Execute, Answer
  <2>2. QED
    BY <2>1
<1>4. CASE Environment
  <2>1. pc' = pc /\ got' = got /\ buf' = buf
    BY <1>4 DEF Environment, Send, SendNoise, Arrive, PeerCloses, UpDown, Signal
  <2>2. QED
    BY <2>1
<1>5. QED
  BY <1>1, <1>2, <1>3, <1>4 DEF Thread

LEMMA NextApart == Typed /\ Stream /\ [Next]_vars => Apart'
<1> SUFFICES ASSUME Typed, Stream, Thread \/ Environment \/ UNCHANGED vars PROVE Apart'
  BY Steps
<1> USE DEF Stream, Apart, Typed, Queues, station, link, vars
<1>1. CASE \/ Loop \/ ConnectFails \/ Connect
  BY <1>1 DEF Loop, ConnectFails, Connect
<1>2. CASE \/ SendHeart \/ WakeUp \/ Receive \/ ParseNoHead \/ ParseMore
  BY <1>2 DEF SendHeart, WakeUp, Receive, ParseNoHead, ParseMore
<1>3. CASE SendHeartFails \/ RecvEof \/ RecvTimeout \/ Execute \/ Answer
  BY <1>3, Closes DEF SendHeartFails, RecvEof, RecvTimeout, Silence, Execute, Answer
<1>4. CASE \/ (\E cs \in Commands, p \in BOOLEAN : Send(cs, p)) \/ SendNoise
  BY <1>4 DEF Send, SendNoise
<1>5. ASSUME NEW n \in 1 .. Len(sending), Arrive(n) PROVE Apart'
  <2>1. sending # <<>> /\ pc' = pc
    BY <1>5 DEF Arrive
  <2>2. QED
    BY <2>1
<1>6. CASE PeerCloses
  BY <1>6 DEF PeerCloses
<1>7. CASE UpDown \/ Signal
  BY <1>7 DEF UpDown, Signal
<1>8. QED
  BY <1>1, <1>2, <1>3, <1>4, <1>5, <1>6, <1>7 DEF Thread, Environment

\* A step of the thread opens a connection, closes it, or leaves it.
LEMMA ThreadKeeps ==
  Thread => \/ pc = "sleep" /\ buf' = <<>> /\ UNCHANGED <<sending, wire, asked>>
            \/ ~ Connected'
            \/ Connected /\ asked' = asked
<1> USE DEF Connected, station, link
<1>1. CASE Loop \/ ConnectFails \/ Connect
  BY <1>1 DEF Loop, ConnectFails, Connect
<1>2. CASE SendHeart \/ WakeUp \/ Receive \/ ParseNoHead \/ ParseMore
  BY <1>2 DEF SendHeart, WakeUp, Receive, ParseNoHead, ParseMore
<1>3. CASE SendHeartFails \/ RecvEof \/ RecvTimeout \/ Execute \/ Answer
  BY <1>3, Closes DEF SendHeartFails, RecvEof, RecvTimeout, Silence, Execute, Answer
<1>4. QED
  BY <1>1, <1>2, <1>3 DEF Thread

\* The command Execute finds is the first one sent on this connection.
LEMMA FirstIsFound ==
  ASSUME Typed, Stream, pc = "parse", NEW c \in Cmds, buf[1] = HeadOf(c)
  PROVE  asked # <<>> /\ c = asked[1]
<1>1. buf # <<>> /\ buf \in Seq(Segments(Cmds)) /\ asked \in Seq(Cmds) /\ Len(asked) \in Nat
  BY DEF Typed, Queues, Stream, Received
<1>2. CASE Len(asked) <= 1
  <2> DEFINE S == {asked[i] : i \in DOMAIN asked}
  <2>1. buf \in Seq(Segments(S))
    BY <1>2 DEF Stream, Single, Connected
  <2>2. buf[1] \in Segments(S)
    BY <1>1, <2>1
  <2>3. HeadOf(c) # Noise
    BY NetLinkAssumption DEF HeadOf
  <2>4. c \in S
    BY <2>2, <2>3 DEF Segments, HeadOf
  <2>5. PICK i \in DOMAIN asked : c = asked[i]
    BY <2>4
  <2>6. i = 1 /\ asked # <<>>
    BY <1>1, <1>2, <2>5
  <2>7. QED
    BY <2>5, <2>6
<1>3. CASE ~ (Len(asked) <= 1)
  <2>1. Len(asked) > 1 /\ asked # <<>>
    BY <1>1, <1>3
  <2>2. buf[1] = HeadOf(asked[1])
    BY <1>1, <2>1 DEF Stream, Double, Connected, Leads
  <2>3. QED
    BY <2>1, <2>2 DEF HeadOf
<1>4. QED
  BY <1>2, <1>3

LEMMA NextAnswers == Typed /\ Stream /\ [Next]_vars => Answers'
<1> SUFFICES ASSUME Typed, Stream, Thread \/ Environment \/ UNCHANGED vars PROVE Answers'
  BY Steps
<1> USE DEF Stream, Answers, station, link, vars
<1>1. CASE Execute
  <2>1. PICK c \in Cmds : /\ Whole(c)
                          /\ c \notin Rejected =>
                               executed' = executed \cup {c} /\ UNCHANGED link
                          /\ c \in Rejected => pc' = "loop"
    BY <1>1, Closes DEF Execute
  <2>2. buf[1] = HeadOf(c) /\ pc = "parse"
    BY <1>1, <2>1 DEF Whole, Execute
  <2>3. asked # <<>> /\ c = asked[1]
    BY <2>2, FirstIsFound
  <2>4. QED
    BY <2>1, <2>3
<1>2. CASE \/ Loop \/ ConnectFails \/ Connect \/ SendHeart \/ SendHeartFails \/ WakeUp
           \/ Receive \/ RecvTimeout \/ RecvEof \/ ParseNoHead \/ ParseMore \/ Answer
  <2>1. pc' # "answer"
    BY <1>2, Closes DEF Loop, ConnectFails, Connect, SendHeart, SendHeartFails, WakeUp,
       Receive, RecvTimeout, RecvEof, ParseNoHead, ParseMore, Answer, Silence
  <2>2. QED
    BY <2>1
<1>3. CASE Environment
  <2>1. pc' = pc /\ executed' = executed /\ (asked' = asked \/ pc # "answer")
    BY <1>3 DEF Environment, Send, SendNoise, Arrive, PeerCloses, UpDown, Signal
  <2>2. QED
    BY <2>1
<1>4. QED
  BY <1>1, <1>2, <1>3 DEF Thread

LEMMA NextConfirmed ==
  Typed /\ Stream /\ ConfirmedWereExecuted /\ [Next]_vars => ConfirmedWereExecuted'
<1> SUFFICES ASSUME Typed, Stream, ConfirmedWereExecuted,
                    Thread \/ Environment \/ UNCHANGED vars
             PROVE  ConfirmedWereExecuted'
  BY Steps
<1> USE DEF ConfirmedWereExecuted, station, link, vars
<1>1. CASE Answer
  <2>1. Head(asked) \in executed
    BY <1>1 DEF Answer, Stream, Answers, Typed, Queues
  <2>2. confirmed' \subseteq confirmed \cup {Head(asked)} /\ executed' = executed
    BY <1>1 DEF Answer
  <2>3. QED
    BY <2>1, <2>2
<1>2. CASE \/ Loop \/ ConnectFails \/ Connect \/ SendHeart \/ SendHeartFails \/ WakeUp
           \/ Receive \/ RecvTimeout \/ RecvEof \/ ParseNoHead \/ ParseMore \/ Execute
  <2>1. confirmed' = confirmed /\ executed \subseteq executed'
    BY <1>2 DEF Loop, ConnectFails, Connect, SendHeart, SendHeartFails, WakeUp,
       Receive, RecvTimeout, RecvEof, ParseNoHead, ParseMore, Execute
  <2>2. QED
    BY <2>1
<1>3. CASE Environment
  BY <1>3 DEF Environment, Send, SendNoise, Arrive, PeerCloses, UpDown, Signal
<1>4. QED
  BY <1>1, <1>2, <1>3 DEF Thread

LEMMA NextSingle == Typed /\ Stream /\ [Next]_vars => Single'
<1> SUFFICES ASSUME Typed, Stream, Thread \/ Environment \/ UNCHANGED vars,
                    Connected', Len(asked') <= 1
             PROVE  LET S == Segments({asked'[i] : i \in DOMAIN asked'})
                    IN  buf' \in Seq(S) /\ wire' \in Seq(S) /\ sending' \in Seq(S)
  BY Steps DEF Single
<1> DEFINE S == Segments({asked[i] : i \in DOMAIN asked})
<1>0. Connected /\ Len(asked) <= 1 => buf \in Seq(S) /\ wire \in Seq(S) /\ sending \in Seq(S)
  BY DEF Stream, Single
<1>1. CASE Thread
  <2>1. CASE pc = "sleep" /\ buf' = <<>> /\ UNCHANGED <<sending, wire, asked>>
    BY <2>1 DEF Stream, Apart
  <2>2. CASE Connected /\ asked' = asked
    <3>1. buf \in Seq(S) /\ wire \in Seq(S) /\ sending \in Seq(S)
      BY <1>0, <2>2
    <3>2. CASE buf' = buf \o wire /\ wire' = <<>> /\ UNCHANGED <<sending, asked>>
      BY <2>2, <3>1, <3>2
    <3>3. CASE ~ (buf' = buf \o wire /\ wire' = <<>> /\ UNCHANGED <<sending, asked>>)
      <4>1. /\ buf' = buf \/ buf' = <<>>
            /\ wire' = wire \/ wire' = <<>>
            /\ sending' = sending \/ sending' = <<>>
        BY <1>1, <3>3, ThreadMoves DEF ThreadQueues
      <4>2. QED
        BY <2>2, <3>1, <4>1, KeptOrEmpty
    <3>4. QED
      BY <3>2, <3>3
  <2>3. QED
    BY <1>1, <2>1, <2>2, ThreadKeeps
<1>2. ASSUME NEW cs \in Commands, NEW p \in BOOLEAN, Len(cs) = 1, Send(cs, p)
      PROVE  LET S1 == Segments({asked'[i] : i \in DOMAIN asked'})
             IN  buf' \in Seq(S1) /\ wire' \in Seq(S1) /\ sending' \in Seq(S1)
  <2> DEFINE S1 == Segments({cs[1]})
  <2>1. cs[1] \in Cmds /\ DOMAIN cs = {1}
    BY <1>2 DEF Commands
  <2>2. Segments({asked'[i] : i \in DOMAIN asked'}) = S1
    <3>1. {cs[i] : i \in DOMAIN cs} = {cs[1]}
      BY <2>1
    <3>2. QED
      BY <1>2, <3>1 DEF Send
  <2>3. asked = <<>> /\ Connected /\ buf' = buf /\ wire' = wire
        /\ sending' = sending \o FrameOf(cs[1])
    BY <1>2 DEF Send, Connected, station
  <2>4. buf \in Seq(S) /\ wire \in Seq(S) /\ sending \in Seq(S)
    BY <1>0, <2>3
  <2>5. S \subseteq S1
    BY <2>3 DEF Segments
  <2>6. buf \in Seq(S1) /\ wire \in Seq(S1) /\ sending \in Seq(S1)
    BY <2>4, <2>5, SeqMonotonic
  <2>7. FrameOf(cs[1]) \in Seq(S1)
    BY <2>1, FrameIsSeq
  <2>8. sending' \in Seq(S1)
    BY <2>3, <2>6, <2>7
  <2>9. QED
    BY <2>2, <2>3, <2>6, <2>8
<1>3. ASSUME NEW cs \in Commands, NEW p \in BOOLEAN, Len(cs) = 2, Send(cs, p)
      PROVE  FALSE
  <2>1. asked' = cs
    BY <1>3 DEF Send
  <2>2. QED
    BY <1>3, <2>1
<1>4. CASE SendNoise
  <2>1. asked = <<>> /\ Connected /\ asked' = asked /\ buf' = buf /\ wire' = wire
        /\ sending' = <<Noise>>
    BY <1>4 DEF SendNoise, Fresh, Connected, station
  <2>2. Noise \in S
    BY DEF Segments
  <2>3. QED
    BY <1>0, <2>1, <2>2
<1>5. ASSUME NEW n \in 1 .. Len(sending), Arrive(n)
      PROVE  LET S1 == Segments({asked'[i] : i \in DOMAIN asked'})
             IN  buf' \in Seq(S1) /\ wire' \in Seq(S1) /\ sending' \in Seq(S1)
  <2>1. asked' = asked /\ pc' = pc /\ buf' = buf
        /\ wire' = wire \o SubSeq(sending, 1, n)
        /\ sending' = SubSeq(sending, n + 1, Len(sending))
    BY <1>5 DEF Arrive, station
  <2>2. Connected
    BY <2>1 DEF Connected
  <2>3. buf \in Seq(S) /\ wire \in Seq(S) /\ sending \in Seq(S)
    BY <1>0, <2>1, <2>2
  <2>4. SubSeq(sending, 1, n) \in Seq(S) /\ SubSeq(sending, n + 1, Len(sending)) \in Seq(S)
    BY <2>3, Split
  <2>5. wire' \in Seq(S) /\ sending' \in Seq(S)
    <3> HIDE DEF S
    <3>1. QED
      BY <2>1, <2>3, <2>4
  <2>6. QED
    BY <2>1, <2>3, <2>5
<1>6. CASE PeerCloses \/ UpDown \/ Signal \/ UNCHANGED vars
  <2>1. /\ asked' = asked /\ pc' = pc /\ buf' = buf
        /\ wire' = wire \/ wire' = <<>>
        /\ sending' = sending \/ sending' = <<>>
    BY <1>6 DEF PeerCloses, UpDown, Signal, vars, station, link
  <2>2. Connected
    BY <2>1 DEF Connected
  <2>3. QED
    BY <1>0, <2>1, <2>2, KeptOrEmpty
<1>7. QED
  BY <1>1, <1>2, <1>3, <1>4, <1>5, <1>6 DEF Environment

LEMMA NextDouble == Typed /\ Stream /\ [Next]_vars => Double'
<1> SUFFICES ASSUME Typed, Stream, Thread \/ Environment \/ UNCHANGED vars,
                    Connected', Len(asked') > 1
             PROVE  Leads(HeadOf(asked[1]))'
  BY Steps DEF Double
<1>0. /\ buf \in Seq(Segments(Cmds)) /\ wire \in Seq(Segments(Cmds))
      /\ sending \in Seq(Segments(Cmds)) /\ asked \in Seq(Cmds)
  BY DEF Typed, Queues
<1>8. Connected /\ Len(asked) > 1 => Leads(HeadOf(asked[1]))
  BY DEF Stream, Double
<1>1. CASE Thread
  <2>1. CASE pc = "sleep" /\ buf' = <<>> /\ UNCHANGED <<sending, wire, asked>>
    BY <2>1 DEF Stream, Apart, Leads
  <2>2. CASE Connected /\ asked' = asked
    <3>1. Leads(HeadOf(asked[1]))
      BY <1>8, <2>2
    <3>2. CASE buf' = buf \o wire /\ wire' = <<>> /\ UNCHANGED <<sending, asked>>
      BY <1>0, <3>1, <3>2 DEF Leads
    <3>3. CASE UNCHANGED <<buf, sending, wire, asked>>
      BY <3>1, <3>3 DEF Leads
    <3>4. CASE UNCHANGED buf /\ sending' = <<>> /\ wire' = <<>> /\ asked' = <<>>
      BY <3>4
    <3>5. CASE buf' = <<>> /\ UNCHANGED <<sending, wire, asked>> /\ buf # <<>>
      <4>1. buf[1] = HeadOf(asked[1]) /\ asked[1] \in Cmds
        BY <1>0, <2>2, <3>1, <3>5 DEF Leads
      <4>2. ~ ParseNoHead
        BY <1>0, <3>5, <4>1 DEF ParseNoHead
      <4>3. pc # "sleep"
        BY <2>2 DEF Connected
      <4>4. buf' = buf \/ pc = "recv"
        BY <1>1, <4>2, <4>3, Closes DEF Thread, Loop, ConnectFails, Connect, SendHeart,
           SendHeartFails, WakeUp, Receive, RecvTimeout, RecvEof, ParseMore, Execute,
           Answer, station
      <4>5. pc = "recv" => buf' # <<>>
        BY <1>0, <1>1, <3>5, Closes DEF Thread, Loop, ConnectFails, Connect, SendHeart,
           SendHeartFails, WakeUp, Receive, RecvTimeout, RecvEof, ParseNoHead, ParseMore,
           Execute, Answer, station
      <4>6. QED
        BY <3>5, <4>4, <4>5
    <3>6. CASE buf' = <<>> /\ UNCHANGED <<sending, wire, asked>> /\ buf = <<>>
      BY <3>1, <3>6 DEF Leads
    <3>7. QED
      BY <1>1, <3>2, <3>3, <3>4, <3>5, <3>6, ThreadMoves DEF ThreadQueues
  <2>3. QED
    BY <1>1, <2>1, <2>2, ThreadKeeps
<1>2. ASSUME NEW cs \in Commands, NEW p \in BOOLEAN, Len(cs) = 1, Send(cs, p)
      PROVE  FALSE
  <2>1. asked' = cs
    BY <1>2 DEF Send
  <2>2. Len(asked') = 1
    BY <1>2, <2>1
  <2>3. ~ (1 > 1)
    OBVIOUS
  <2>4. QED
    BY <2>2, <2>3
<1>3. ASSUME NEW cs \in Commands, NEW p \in BOOLEAN, Len(cs) = 2, Fresh, Send(cs, p)
      PROVE  Leads(HeadOf(asked[1]))'
  <2>0. cs \in Seq(Cmds) /\ Len(cs) = 2
    BY <1>3 DEF Commands
  <2>1. cs[1] \in Cmds /\ cs[2] \in Cmds
    BY <2>0
  <2>2. buf' = <<>> /\ wire' = <<>> /\ asked' = cs
        /\ sending' = <<>> \o (FrameOf(cs[1]) \o FrameOf(cs[2]))
    BY <1>3 DEF Send, Fresh, station
  <2> DEFINE F == FrameOf(cs[1])
             G == FrameOf(cs[2])
  <2>3. F \in Seq(Segments(Cmds)) /\ G \in Seq(Segments(Cmds)) /\ F # <<>>
        /\ F[1] = HeadOf(cs[1])
    BY <2>1, FrameIsSeq
  <2> HIDE DEF F, G
  <2>4. (<<>> \o (F \o G))[1] = F[1]
    BY <2>3
  <2>5. QED
    BY <2>2, <2>3, <2>4 DEF Leads, F, G
<1>4. CASE SendNoise
  BY <1>4 DEF SendNoise, Fresh
<1>5. ASSUME NEW n \in 1 .. Len(sending), Arrive(n) PROVE Leads(HeadOf(asked[1]))'
  <2>1. asked' = asked /\ pc' = pc /\ buf' = buf
        /\ wire' = wire \o SubSeq(sending, 1, n)
        /\ sending' = SubSeq(sending, n + 1, Len(sending))
    BY <1>5 DEF Arrive, station
  <2>2. Leads(HeadOf(asked[1]))
    BY <1>8, <2>1 DEF Connected
  <2> DEFINE part == SubSeq(sending, 1, n)
  <2>7. part \in Seq(Segments(Cmds)) /\ part # <<>> /\ part[1] = sending[1]
    BY <1>0, Split
  <2> HIDE DEF part
  <2>8. wire' = wire \o part
    BY <2>1 DEF part
  <2>3. wire' # <<>>
    BY <1>0, <2>7, <2>8, FirstOfConcat
  <2>4. wire'[1] = IF wire = <<>> THEN sending[1] ELSE wire[1]
    BY <1>0, <2>7, <2>8, FirstOfConcat
  <2>5. sending # <<>>
    OBVIOUS
  <2>6. QED
    BY <2>1, <2>2, <2>3, <2>4, <2>5 DEF Leads
<1>6. CASE PeerCloses \/ UpDown \/ Signal \/ UNCHANGED vars
  <2>1. /\ asked' = asked /\ pc' = pc /\ buf' = buf
        /\ UNCHANGED <<sending, wire>> \/ (sending' = <<>> /\ wire' = <<>>)
    BY <1>6 DEF PeerCloses, UpDown, Signal, vars, station, link
  <2>2. Leads(HeadOf(asked[1]))
    BY <1>8, <2>1 DEF Connected
  <2>3. QED
    BY <2>1, <2>2 DEF Leads
<1>7. QED
  BY <1>1, <1>2, <1>3, <1>4, <1>5, <1>6 DEF Environment

LEMMA StreamAlways == Spec => [](Typed /\ Stream /\ ConfirmedWereExecuted)
<1>1. Typed /\ Stream /\ ConfirmedWereExecuted /\ [Next]_vars
      => (Typed /\ Stream /\ ConfirmedWereExecuted)'
  BY NextTyped, NextReceived, NextApart, NextSingle, NextDouble, NextAnswers, NextConfirmed
  DEF Stream
<1>2. QED
  BY <1>1, InitStream, PTL DEF Spec

\* The failure count and the connection's queues keep their types, a parse has
\* something to parse and an answer a command, whatever servers and network do.
THEOREM TypeCorrect == Spec => []TypeOK
<1>1. Typed /\ Stream => TypeOK
  BY TypedIsTypeOK DEF Stream
<1>2. QED
  BY <1>1, StreamAlways, PTL

\* A server never takes a command to be done that the station has not executed,
\* for any commands and any way to cut, join, drop or repeat their frames.
THEOREM ConfirmedIsExecuted == Spec => []ConfirmedWereExecuted
BY StreamAlways, PTL
=============================================================================
