----------------------------- MODULE WebSession -----------------------------
(***************************************************************************)
(* The websocket server of the web page (debugThread.c over                *)
(* utils/websocket.c).  One thread serves one client at a time: it accepts *)
(* a connection, collects bytes with RecvMsg until they parse, answers the *)
(* handshake, then the text frames, and ends the session on a closing      *)
(* frame, a failed send or the end of the stream.  Whether somebody has    *)
(* logged in is one static flag of down_packet.c.                          *)
(*                                                                         *)
(* A message travels in segments, the first of which holds its head; time  *)
(* is left out, so a pause of 100 ms may come between any two segments.    *)
(* Clients are not in the repository.  A polite one sends its next message *)
(* when it has the answer to the last one, and non-empty texts only, as a  *)
(* page that calls send() from onmessage does; others send what they like. *)
(* What a command does is modelled by Station and Paging.                  *)
(***************************************************************************)
EXTENDS Integers, Sequences, SequencesExt

CONSTANTS
  Clients,
  Polite,       (* the polite ones                                         *)
  None,
  Room,         (* MAX_DEBUG_RECV_SIZE, in segments                        *)
  MaxSent       (* bound: messages of an impolite client in one session    *)

\* Messages: a handshake; a request or a frame that is wrong, as is any frame of
\* 64 KB or more; text frames with the right credentials, with anything else,
\* with nothing; a ping (or a binary frame) with and without payload; a closing
\* frame, with or without payload.
Kinds == {"hello", "bad", "login", "command", "empty", "ping", "ping0", "close"}
Texts == {"login", "command"}
Size(kind) == IF kind = "command" THEN 2 ELSE 1
Frame(kind) == [i \in 1..Size(kind) |-> [kind |-> kind, part |-> i]]

ASSUME WebSessionAssumption == /\ Polite \subseteq Clients
                               /\ None \notin Clients
                               /\ Room \in Nat \ {0, 1}
                               /\ MaxSent \in Nat

VARIABLES
  pc,           (* "accept", "recv", "parse", "end", "crashed"             *)
  state,        (* enum wsState of the session                             *)
  recbuf,       (* the segments in recbuf, up to len                       *)
  readed,       (* this call of RecvMsg has received something             *)
  data,         (* the pointer to the last payload is set                  *)
  logined,      (* down_packet.c: somebody has logged in                   *)
  cur,          (* the client of client_fd                                 *)
  backlog,      (* the connections not accepted yet                        *)
  client        (* each client: at, sent, owed, authed                     *)

server == <<pc, state, recbuf, readed, data, logined, cur>>
vars == <<server, backlog, client>>

\* at: "out", "in" or "gone" (it has closed its end); wire: what it has sent
\* and the station has not received; owed: it waits for an answer; authed: it
\* has given the right credentials on this connection.
Out == [at |-> "out", wire |-> <<>>, sent |-> 0, owed |-> FALSE, authed |-> FALSE]

Init == /\ pc = "accept" /\ state = "opening" /\ recbuf = <<>> /\ readed = FALSE
        /\ data = FALSE /\ logined = FALSE /\ cur = None
        /\ backlog = <<>>
        /\ client = [c \in Clients |-> Out]

-----------------------------------------------------------------------------
(***************************************************************************)
(* The session                                                             *)
(***************************************************************************)
Accept == /\ pc = "accept"
          /\ backlog # <<>>
          /\ cur' = Head(backlog)
          /\ backlog' = Tail(backlog)
          /\ pc' = "recv" /\ state' = "opening" /\ recbuf' = <<>>
          /\ readed' = FALSE /\ data' = FALSE
          /\ UNCHANGED <<logined, client>>

\* Mutant: len is not taken off the size.
ReceiveBeyond == /\ pc = "recv"
                 /\ client[cur].wire # <<>>
                 /\ recbuf' = Append(recbuf, Head(client[cur].wire))
                 /\ client' = [client EXCEPT ![cur].wire = Tail(@)]
                 /\ readed' = TRUE
                 /\ UNCHANGED <<pc, state, data, logined, cur, backlog>>

\* RecvMsg: recv after a wake-up of epoll_wait.
Receive == /\ pc = "recv"
           /\ Len(recbuf) < Room
           /\ client[cur].wire # <<>>
           /\ recbuf' = Append(recbuf, Head(client[cur].wire))
           /\ client' = [client EXCEPT ![cur].wire = Tail(@)]
           /\ readed' = TRUE
           /\ UNCHANGED <<pc, state, data, logined, cur, backlog>>

\* RecvMsg returns what it has: a pause, or no room.  With nothing received the
\* loop calls it again.
RecvDone == /\ pc = "recv"
            /\ readed
            /\ readed' = FALSE
            /\ pc' = "parse"
            /\ UNCHANGED <<state, recbuf, data, logined, cur, backlog, client>>

\* RecvMsg asked for no bytes: it returns 0 at once and the loop calls it again,
\* for ever, since nothing is parsed before something is received.
RecvFull == /\ pc = "recv"
            /\ Len(recbuf) = Room
            /\ ~ readed
            /\ UNCHANGED vars

\* recv returns 0: -1, also if this call has received something.
RecvEof == /\ pc = "recv"
           /\ Len(recbuf) < Room
           /\ client[cur].wire = <<>>
           /\ client[cur].at = "gone"
           /\ pc' = "end"
           /\ UNCHANGED <<state, recbuf, readed, data, logined, cur, backlog, client>>

Starts(b, kind) == Len(b) >= Size(kind) /\ SubSeq(b, 1, Size(kind)) = Frame(kind)

\* wsParseHandshake: an empty line anywhere, then a request from the start on.
\* A wrong request may also fail the assertion on the length of a field. A zero
\* byte of a frame hides an empty line behind it.
HandshakeTypes(b) ==
  IF \E i \in DOMAIN b : b[i].kind \in {"hello", "bad"} /\ b[i].part = Size(b[i].kind)
  THEN IF Starts(b, "hello") THEN {"opening"}
       ELSE IF b[1].kind = "bad" THEN {"error", "assert"} ELSE {"error", "incomplete"}
  ELSE {"incomplete"}

\* wsParseInputFrame.  The head of a frame decides; with a payload, all that was
\* received must be this frame (the assertion), without one it may be more.
\* What begins in the middle of a message (its start was thrown away) may look
\* like anything but the right credentials.
InputTypes(b) ==
  LET k == b[1].kind
  IN  IF b[1].part # 1
      THEN {"error", "incomplete", "assert", "command", "empty", "ping", "ping0", "close"}
      ELSE IF k \in {"hello", "bad"} THEN {"error"}
      ELSE IF k \in {"empty", "ping0"} THEN {k}
      ELSE IF Len(b) < Size(k) THEN {"incomplete"}
      ELSE IF Len(b) = Size(k) THEN {k}
      ELSE IF k = "close" THEN {"close", "assert"}
      ELSE {"assert"}

\* The type that this round acts on.
Parsed(type) == /\ pc = "parse"
                /\ type \in IF state = "opening" THEN HandshakeTypes(recbuf)
                            ELSE InputTypes(recbuf)

\* Mutant: what can never become complete is waited for.
NeverTooLong(type) == FALSE

TooLong(type) == type = "incomplete" /\ Len(recbuf) = Room
HasPayload(type) == type \in Texts \cup {"ping"}

\* Mutant: what is incomplete is parsed again before more is received.
WaitSpins(type) == /\ Parsed(type)
                   /\ type \in {"incomplete", "ping", "ping0"}
                   /\ ~ TooLong(type)
                   /\ UNCHANGED vars

\* Nothing to do yet, or never: a ping stays where it is, and what comes behind
\* one without payload is kept and not looked at.
Wait(type) == /\ Parsed(type)
              /\ type \in {"incomplete", "ping", "ping0"}
              /\ ~ TooLong(type)
              /\ pc' = "recv"
              /\ data' = (data \/ HasPayload(type))
              /\ UNCHANGED <<state, recbuf, readed, logined, cur, backlog, client>>

\* safeSend: a client that is gone may or may not be noticed.
Sends == IF client[cur].at = "gone" THEN {TRUE, FALSE} ELSE {TRUE}

\* What the client learns when the station answers.
Answered == client' = [client EXCEPT ![cur].owed = FALSE]

\* Mutant: the answer leaves the frame in recbuf.
KeptAfter(type) == IF type \in Texts THEN recbuf ELSE <<>>

\* initNewFrame: what was received behind the frame goes with it.
LeftAfter(type) == <<>>

Opening == /\ Parsed("opening")
           /\ recbuf' = LeftAfter("opening")
           /\ \E sent \in Sends : /\ pc' = IF sent THEN "recv" ELSE "end"
                                  /\ state' = IF sent THEN "normal" ELSE state
           /\ Answered
           /\ UNCHANGED <<readed, data, logined, cur, backlog>>

\* 404 or 400, and the session ends.
Refuse(type) == /\ Parsed(type)
                /\ state = "opening"
                /\ type = "error" \/ TooLong(type)
                /\ pc' = "end"
                /\ UNCHANGED <<state, recbuf, readed, data, logined, cur, backlog, client>>

\* A closing frame is sent and the session goes on in WS_STATE_CLOSING.
FrameError(type) == /\ Parsed(type)
                    /\ state # "opening"
                    /\ type = "error" \/ TooLong(type)
                    /\ \E sent \in Sends : /\ pc' = IF sent THEN "recv" ELSE "end"
                                           /\ state' = IF sent THEN "closing" ELSE state
                    /\ recbuf' = <<>>
                    /\ UNCHANGED <<readed, data, logined, cur, backlog, client>>

\* In WS_STATE_NORMAL it is answered first; the session ends either way.
CloseFrame == /\ Parsed("close")
              /\ pc' = "end"
              /\ UNCHANGED <<state, recbuf, readed, data, logined, cur, backlog, client>>

\* analysis_json_packet: the command is executed if somebody has logged in; the
\* answer is its result or ERR_NLOGIN, ERR_AUTH.
Text(type) ==
  /\ Parsed(type)
  /\ type \in Texts
  /\ logined' = (logined \/ type = "login")
  /\ data' = TRUE
  /\ \E sent \in Sends : /\ pc' = IF sent THEN "recv" ELSE "end"
                         /\ recbuf' = IF sent THEN LeftAfter(type) ELSE recbuf
  /\ client' = [client EXCEPT ![cur].owed = FALSE,
                              ![cur].authed = @ \/ type = "login"]
  /\ UNCHANGED <<state, readed, cur, backlog>>

\* data[dataSize] = 0 behind an earlier payload, and ERR_NJS.
EmptyText == /\ Parsed("empty")
             /\ data
             /\ \E sent \in Sends : pc' = IF sent THEN "recv" ELSE "end"
             /\ recbuf' = <<>>
             /\ Answered
             /\ UNCHANGED <<state, readed, data, logined, cur, backlog>>

\* A failed assertion, or data[0] with data = NULL: the process ends, and all
\* connections with it.
Crash == /\ Parsed("assert") \/ (Parsed("empty") /\ ~ data)
         /\ pc' = "crashed"
         /\ UNCHANGED <<state, recbuf, readed, data, logined, cur, backlog, client>>

\* script/daemon_2021.sh starts the program again.
Respawn == /\ pc = "crashed"
           /\ pc' = "accept" /\ logined' = FALSE /\ cur' = None
           /\ state' = "opening" /\ recbuf' = <<>> /\ readed' = FALSE /\ data' = FALSE
           /\ backlog' = <<>>
           /\ client' = [c \in Clients |-> Out]

\* Mutant: the next session finds the flag as it is.
EndLoggedIn == /\ pc = "end"
               /\ pc' = "accept"
               /\ cur' = None
               /\ client' = [client EXCEPT ![cur] = Out]
               /\ UNCHANGED <<state, recbuf, readed, data, logined, backlog>>

\* errout, and logout() at the head of the loop.
End == /\ pc = "end"
       /\ pc' = "accept"
       /\ logined' = FALSE
       /\ cur' = None
       /\ client' = [client EXCEPT ![cur] = Out]
       /\ UNCHANGED <<state, recbuf, readed, data, backlog>>

-----------------------------------------------------------------------------
(***************************************************************************)
(* The clients                                                             *)
(***************************************************************************)
Dial(c) == /\ pc # "crashed"
           /\ client[c].at = "out"
           /\ client' = [client EXCEPT ![c].at = "in"]
           /\ backlog' = Append(backlog, c)
           /\ UNCHANGED server

Politely(c, kind) == /\ ~ client[c].owed
                     /\ kind \in IF client[c].sent = 0 THEN {"hello"}
                                 ELSE Texts \cup {"close"}

Send(c, kind) ==
  /\ pc # "crashed"
  /\ client[c].at = "in"
  /\ IF c \in Polite THEN Politely(c, kind) ELSE cur = c /\ client[c].sent < MaxSent
  /\ client' = [client EXCEPT ![c].wire = @ \o Frame(kind),
                              ![c].sent = IF c \in Polite THEN 1 ELSE @ + 1,
                              ![c].owed = c \in Polite]
  /\ UNCHANGED <<server, backlog>>

\* A polite client waits for its answer.
Leave(c) == /\ client[c].at = "in"
            /\ ~ client[c].owed
            /\ client' = [client EXCEPT ![c].at = "gone"]
            /\ UNCHANGED <<server, backlog>>

Station == \/ Accept \/ Receive \/ RecvDone \/ RecvEof \/ RecvFull \/ Opening
           \/ CloseFrame
           \/ \E type \in {"incomplete", "ping", "ping0"} : Wait(type)
           \/ \E type \in {"incomplete", "error"} : Refuse(type) \/ FrameError(type)
           \/ \E type \in Texts : Text(type)
           \/ EmptyText \/ Crash \/ Respawn \/ End

Next == \/ Station
        \/ \E c \in Clients : \/ Dial(c) \/ Leave(c)
                              \/ \E kind \in Kinds : Send(c, kind)

Spec == Init /\ [][Next]_vars

\* The thread runs, and what was sent arrives.
FairSpec == Spec /\ WF_vars(Station) /\ WF_vars(Receive)

-----------------------------------------------------------------------------
(***************************************************************************)
(* Properties                                                              *)
(***************************************************************************)
TypeOK == /\ pc \in {"accept", "recv", "parse", "end", "crashed"}
          /\ state \in {"opening", "normal", "closing"}
          /\ Len(recbuf) <= Room
          /\ readed \in BOOLEAN /\ data \in BOOLEAN /\ logined \in BOOLEAN
          /\ cur \in Clients \cup {None}
          /\ ToSet(backlog) \subseteq Clients
          /\ \A c \in Clients : client[c].at \in {"out", "in", "gone"}

\* logined is static and outlives connections: while it is up, it is the client
\* now connected that gave the right credentials, on this connection.
LoginIsOfThisSession == logined => cur # None /\ client[cur].authed

\* No polite client ends the process: with it a payload is never followed by
\* more bytes (utils/websocket.c:334), however its messages are cut.
PoliteNeverCrash == pc = "crashed" => cur \notin Polite

\* A polite client is answered once it is its turn, and its closing frame ends
\* its session, whatever the clients before it did.
PoliteIsAnswered ==
  \A c \in Polite : (cur = c /\ client[c].owed) ~> ~ client[c].owed

\* recbuf is full behind what was read as a ping without payload.
Stuffed == Len(recbuf) = Room /\ (recbuf[1].kind = "ping0" \/ recbuf[1].part # 1)

\* A client that has left is let go and the next one gets its turn, whatever was
\* received and left incomplete, with one exception: when what came behind a ping
\* without payload has filled recbuf, the end of the stream is never read
\* (debugThread.c:164-168) and the thread goes round for ever.
LeavingIsNoticed ==
  \A c \in Clients : (cur = c /\ client[c].at = "gone") ~> (cur # c \/ Stuffed)
=============================================================================
