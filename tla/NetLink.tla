------------------------------ MODULE NetLink -------------------------------
(***************************************************************************)
(* The connection to the server (heart_thread in netThread.c). In every    *)
(* heart period the thread connects to the server it has chosen, sends a   *)
(* heartbeat, waits two seconds and collects what the server sends until   *)
(* it is exactly one frame; it executes that command, answers and closes.  *)
(* After six failed attempts in a row it turns to the other server.        *)
(*                                                                         *)
(* A frame travels in segments, the first of which holds its head and its  *)
(* length. RecvMsg returns when nothing has come for 100 ms; time itself   *)
(* is left out, so a segment may come before or after any such pause. The  *)
(* server is not in the repository, except for the test server.py: here it *)
(* sends after a heartbeat what it has left to send: one command (perhaps  *)
(* after some noise) or two at once. It may close at any time unless it is *)
(* patient, and takes an answer to be the one to the first command it sent *)
(* on the connection.                                                      *)
(***************************************************************************)
EXTENDS Integers, Sequences

CONSTANTS
  Cmds,       \* the commands the servers want executed
  Parts,      \* Parts[c]: number of segments of the frame of c
  Rejected,   \* commands analysis_tcp_data does not answer (crc, code)
  Noise,      \* a segment that is no frame
  Stops       \* may the station be told to stop?

Servers == {1, 2}      \* DestIP1, DestIP2
FailLimit == 4         \* netThread.c:134

ASSUME NetLinkAssumption == /\ Parts \in [Cmds -> Nat \ {0}]
                            /\ Rejected \subseteq Cmds
                            /\ Noise \notin Cmds /\ Noise \notin Cmds \X Nat
                            /\ Stops \in BOOLEAN

VARIABLES
  pc,         \* "loop", "sleep", "hello", "wait", "recv", "parse", "answer", "ended"
  dest,       \* the server chosen (ip_flag)
  err,        \* err_cnt
  restart,
  buf,        \* recbuf, up to len
  got,        \* this call of RecvMsg has received something
  reply,      \* the command up_packet answers
  executed,   \* the commands executed so far
  up,         \* the servers that accept connections
  peer,       \* the server's end of the connection: "open", "closed", "none"
  patient,    \* it stays open until the answer has come
  asked,      \* the commands sent on this connection, not answered
  sending,    \* segments on their way
  wire,       \* segments that can be received
  confirmed   \* the commands answered, as the servers see it

station == <<dest, err, buf, got, reply, executed>>
link == <<peer, patient, asked, sending, wire>>
vars == <<pc, restart, up, confirmed, station, link>>

NoLink == /\ peer' = "none" /\ patient' = FALSE
          /\ asked' = <<>> /\ sending' = <<>> /\ wire' = <<>>

Init ==
  /\ pc = "loop" /\ dest = 1 /\ err = 0 /\ restart = FALSE
  /\ buf = <<>> /\ got = FALSE /\ reply = Noise /\ executed = {}
  /\ up \in SUBSET Servers /\ confirmed = {}
  /\ peer = "none" /\ patient = FALSE /\ asked = <<>> /\ sending = <<>> /\ wire = <<>>

----------------------------------------------------------------------------
(* heart_thread.                                                           *)

Loop ==
  /\ pc = "loop"
  /\ pc' = IF restart THEN "ended" ELSE "sleep"
  /\ UNCHANGED <<restart, up, confirmed, station, link>>

\* Mutants: the servers are not exchanged; err_cnt is not reset.
ConnectFailsStays ==
  /\ pc = "sleep"
  /\ dest \notin up
  /\ err' = IF err > FailLimit THEN 0 ELSE err + 1
  /\ pc' = "loop"
  /\ UNCHANGED <<restart, up, confirmed, dest, buf, got, reply, executed, link>>
ConnectFailsCounts ==
  /\ pc = "sleep"
  /\ dest \notin up
  /\ err' = err + 1
  /\ dest' = IF err > FailLimit THEN 3 - dest ELSE dest
  /\ pc' = "loop"
  /\ UNCHANGED <<restart, up, confirmed, buf, got, reply, executed, link>>

ConnectFails ==
  /\ pc = "sleep"
  /\ dest \notin up
  /\ IF err > FailLimit THEN err' = 0 /\ dest' = 3 - dest
                        ELSE err' = err + 1 /\ UNCHANGED dest
  /\ pc' = "loop"
  /\ UNCHANGED <<restart, up, confirmed, buf, got, reply, executed, link>>

Connect ==
  /\ pc = "sleep"
  /\ dest \in up
  /\ peer' = "open"
  /\ buf' = <<>>
  /\ pc' = "hello"
  /\ UNCHANGED <<restart, up, confirmed, dest, err, got, reply, executed,
                 patient, asked, sending, wire>>

\* net_cmd_do returns 0 whatever happened on the connection.
Close ==
  /\ NoLink
  /\ err' = 0
  /\ pc' = "loop"

SendHeart ==
  /\ pc = "hello"
  /\ pc' = "wait"
  /\ UNCHANGED <<restart, up, confirmed, station, link>>

SendHeartFails ==
  /\ pc = "hello"
  /\ peer = "closed"
  /\ Close
  /\ UNCHANGED <<restart, up, confirmed, dest, buf, got, reply, executed>>

\* The two seconds are over; RecvMsg begins.
WakeUp ==
  /\ pc = "wait"
  /\ got' = FALSE
  /\ pc' = "recv"
  /\ UNCHANGED <<restart, up, confirmed, dest, err, buf, reply, executed, link>>

----------------------------------------------------------------------------
(* RecvMsg, and what net_cmd_do makes of it.                               *)

\* recv takes what is there; with restart RecvMsg returns at once.
Receive ==
  /\ pc = "recv"
  /\ wire # <<>>
  /\ buf' = buf \o wire
  /\ wire' = <<>>
  /\ got' = TRUE
  /\ pc' = IF restart THEN "parse" ELSE "recv"
  /\ UNCHANGED <<restart, up, confirmed, dest, err, reply, executed,
                 peer, patient, asked, sending>>

\* Nothing comes for 100 ms.
Silence == pc = "recv" /\ wire = <<>> /\ (peer = "open" \/ sending # <<>>)

\* Mutant: a call that received nothing is tried again.
RecvTimeoutAgain ==
  /\ Silence
  /\ pc' = IF got THEN "parse" ELSE "recv"
  /\ UNCHANGED <<restart, up, confirmed, station, link>>

\* RecvMsg returns what it has received; if that is nothing, net_cmd_do closes.
RecvTimeout ==
  /\ Silence
  /\ IF got THEN pc' = "parse" /\ UNCHANGED <<err, link>> ELSE Close
  /\ UNCHANGED <<restart, up, confirmed, dest, buf, got, reply, executed>>

\* The server has closed: RecvMsg returns -1, whatever it has received.
RecvEof ==
  /\ pc = "recv"
  /\ wire = <<>> /\ sending = <<>> /\ peer = "closed"
  /\ Close
  /\ UNCHANGED <<restart, up, confirmed, dest, buf, got, reply, executed>>

HeadOf(c) == <<c, 1>>
FrameOf(c) == [i \in 1 .. Parts[c] |-> <<c, i>>]
Whole(c) == buf # <<>> /\ Head(buf) = HeadOf(c) /\ Len(buf) = Parts[c]

\* No frame begins here: what has been received is dropped, and the loop goes on
\* without a look at restart.
ParseNoHead ==
  /\ pc = "parse"
  /\ \A c \in Cmds : Head(buf) # HeadOf(c)
  /\ buf' = <<>>
  /\ got' = FALSE
  /\ pc' = "recv"
  /\ UNCHANGED <<restart, up, confirmed, dest, err, reply, executed, link>>

\* The length is not that of the first frame: wait for more.
ParseMore ==
  /\ pc = "parse"
  /\ \E c \in Cmds : Head(buf) = HeadOf(c) /\ ~Whole(c)
  /\ got' = FALSE
  /\ pc' = "recv"
  /\ UNCHANGED <<restart, up, confirmed, dest, err, buf, reply, executed, link>>

\* Mutant: up_packet is sent even if analysis_tcp_data returned NULL.
ExecuteAnswersAlways ==
  /\ pc = "parse"
  /\ \E c \in Cmds : /\ Whole(c)
                     /\ IF c \in Rejected THEN UNCHANGED <<reply, executed>>
                        ELSE reply' = c /\ executed' = executed \cup {c}
  /\ pc' = "answer"
  /\ UNCHANGED <<restart, up, confirmed, dest, err, buf, got, link>>

\* analysis_tcp_data executes the command and fills up_packet, or returns NULL.
Execute ==
  /\ pc = "parse"
  /\ \E c \in Cmds :
       /\ Whole(c)
       /\ IF c \in Rejected
            THEN Close /\ UNCHANGED <<reply, executed>>
            ELSE /\ reply' = c
                 /\ executed' = executed \cup {c}
                 /\ pc' = "answer"
                 /\ UNCHANGED <<err, link>>
  /\ UNCHANGED <<restart, up, confirmed, dest, buf, got>>

\* SendMsg; the answer is lost if the server no longer reads.
Answer ==
  /\ pc = "answer"
  /\ confirmed' = IF peer = "open" THEN confirmed \cup {Head(asked)} ELSE confirmed
  /\ Close
  /\ UNCHANGED <<restart, up, dest, buf, got, reply, executed>>

----------------------------------------------------------------------------
(* The servers, the network and the signals.                               *)

\* After the heartbeat the server sends commands that were not answered yet.
Send(cs, p) ==
  /\ pc \in {"wait", "recv"}
  /\ peer = "open"
  /\ asked = <<>>
  /\ \A i \in DOMAIN cs : cs[i] \notin confirmed
  /\ asked' = cs
  /\ patient' = p
  /\ sending' = sending \o (IF Len(cs) = 1 THEN FrameOf(cs[1])
                                           ELSE FrameOf(cs[1]) \o FrameOf(cs[2]))
  /\ UNCHANGED <<pc, restart, up, confirmed, station, peer, wire>>

\* Nothing has been sent on this connection yet.
Fresh == <<asked, sending, wire, buf>> = <<<<>>, <<>>, <<>>, <<>>>>

SendNoise ==
  /\ pc \in {"wait", "recv"}
  /\ peer = "open"
  /\ Fresh
  /\ sending' = <<Noise>>
  /\ UNCHANGED <<pc, restart, up, confirmed, station, peer, patient, asked, wire>>

\* The next n segments arrive together.
Arrive(n) ==
  /\ n \in 1 .. Len(sending)
  /\ wire' = wire \o SubSeq(sending, 1, n)
  /\ sending' = SubSeq(sending, n + 1, Len(sending))
  /\ UNCHANGED <<pc, restart, up, confirmed, station, peer, patient, asked>>

\* The server closes; a reset discards what was not received yet.
PeerCloses ==
  /\ peer = "open"
  /\ ~patient
  /\ peer' = "closed"
  /\ \/ UNCHANGED <<sending, wire>>
     \/ sending' = <<>> /\ wire' = <<>>
  /\ UNCHANGED <<pc, restart, up, confirmed, station, patient, asked>>

UpDown ==
  /\ up' \in SUBSET Servers
  /\ UNCHANGED <<pc, restart, confirmed, station, link>>

Signal ==
  /\ Stops
  /\ restart' = TRUE
  /\ UNCHANGED <<pc, up, confirmed, station, link>>

Thread == \/ Loop \/ ConnectFails \/ Connect \/ SendHeart \/ SendHeartFails \/ WakeUp
          \/ Receive \/ RecvTimeout \/ RecvEof
          \/ ParseNoHead \/ ParseMore \/ Execute \/ Answer

Next ==
  \/ Thread
  \/ \E c \in Cmds, p \in BOOLEAN : Send(<<c>>, p)
  \/ \E c, d \in Cmds : c # d /\ Fresh /\ Send(<<c, d>>, FALSE)
  \/ SendNoise
  \/ \E n \in 1 .. Len(sending) : Arrive(n)
  \/ PeerCloses
  \/ UpDown
  \/ Signal

\* What Delivered needs of the servers and the network: again and again a
\* heartbeat reaches a server that has not closed, a server answers one in time
\* with one command and waits for the answer, and the whole of its frame arrives
\* without a pause.
ServerFairness ==
  /\ SF_vars(peer = "open" /\ SendHeart)
  /\ \A c \in Cmds : /\ SF_vars(Fresh /\ Send(<<c>>, TRUE))
                     /\ SF_vars(/\ patient
                                /\ <<buf, wire, sending>> = <<<<>>, <<>>, FrameOf(c)>>
                                /\ Arrive(Parts[c]))

Spec == Init /\ [][Next]_vars

\* The thread runs; nothing is assumed of the servers.
FairSpec == Spec /\ WF_vars(Thread)

----------------------------------------------------------------------------
(* Properties.                                                             *)

\* Types. err_cnt is bounded: it starts again with the other server.
TypeOK ==
  /\ pc \in {"loop", "sleep", "hello", "wait", "recv", "parse", "answer", "ended"}
  /\ dest \in Servers
  /\ err \in 0 .. FailLimit + 1
  /\ {restart, got, patient} \subseteq BOOLEAN
  /\ \A q \in {buf, sending, wire} : q \in Seq({Noise} \cup (Cmds \X Nat))
  /\ asked \in Seq(Cmds)
  /\ reply \in Cmds \cup {Noise}
  /\ executed \subseteq Cmds /\ confirmed \subseteq Cmds
  /\ up \subseteq Servers
  /\ peer \in {"open", "closed", "none"}
  /\ pc = "parse" => buf # <<>>
  /\ pc = "answer" => asked # <<>>

\* What a server takes to be answered has been executed, whatever was cut,
\* joined, refused or sent again on earlier connections.
ConfirmedWereExecuted == confirmed \subseteq executed

\* With servers and a network like this, once a set of servers stays reachable
\* every command is executed and answered there, though the station began with the
\* wrong server.
Delivered ==
  ServerFairness => \A s \in (SUBSET Servers) \ {{}} :
    <>[](up = s /\ ~restart) => \A c \in Cmds \ Rejected : <>(c \in confirmed)

\* No server goes on for ever to send bytes that are no frame. The loop of
\* net_cmd_do (netThread.c:266-309) takes such bytes as a reason to receive again
\* and never tests restart, so one that does holds the thread as long as it likes.
NoiseEnds == <>[][~ SendNoise]_vars

\* If only one server stays reachable the station goes on connecting to it,
\* whatever the servers send, unless one of them sends noise for ever.
FailsOver ==
  NoiseEnds => \A s \in Servers :
    <>[](up = {s} /\ ~restart) => []<>(pc = "hello" /\ dest = s)

\* A station told to stop ends the thread, whatever the servers send, cut short or
\* leave out, unless one of them sends noise for ever.
ThreadEnds == NoiseEnds => (restart ~> pc = "ended")
=============================================================================
