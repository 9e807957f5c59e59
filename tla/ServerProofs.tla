------------------------------ MODULE ServerProofs ------------------------------
(***************************************************************************)
(* Proofs about Server, for any number of clients, listeners and lines.    *)
(***************************************************************************)
EXTENDS Server, SequenceTheorems, TLAPS

-----------------------------------------------------------------------------
(* A thread that starts within the sleep of its listener finds its own     *)
(* descriptor in the listener's variable.                                  *)
Arrives(c) ==
    talker[c] = "start" =>
        /\ creator[c] \in Listeners
        /\ listener[creator[c]] = "sleep" /\ the_new_socket[creator[c]] = c

SocketInv == TypeOK /\ TalkerOwnsItsSocket /\ \A c \in Clients : Arrives(c)

(* A client is connected once: it waits to be accepted, or is in the hands *)
(* of one listener, or has a talker, and never again.                      *)
Taken(l, c) == listener[l] = "got" /\ the_new_socket[l] = c

Fresh(c) == client[c] # "off" /\ talker[c] = "none"

ConnectedOnce(c) ==
    /\ \A i, j \in 1 .. Len(backlog) : backlog[i] = c /\ backlog[j] = c => i = j
    /\ \A i \in 1 .. Len(backlog) :
          backlog[i] = c => Fresh(c) /\ \A l \in Listeners : ~Taken(l, c)
    /\ \A l \in Listeners : Taken(l, c) => Fresh(c)
    /\ \A k, l \in Listeners : Taken(k, c) /\ Taken(l, c) => k = l
    /\ client[c] = "off" => talker[c] = "none"

(* What talker c takes the next line for.                                  *)
Expected(c) ==
    IF talker[c] \in {"none", "start", "loop", "read"} THEN "prompt"
    ELSE IF talker[c] = "ask" THEN "question" ELSE "none"

AskedAt(c, k) == s2c[c][k] \in {"prompt", "question"}

(* Of a client that has not typed ahead at most one thing is under way:    *)
(* the request for a line, on its way or on screen, or the line, and it is *)
(* what its talker expects.                                                *)
OneUnderWay(c) ==
    /\ shown[c] \in {"nothing", Expected(c)}
    /\ Len(c2s[c]) <= 1 /\ \A i \in 1 .. Len(c2s[c]) : c2s[c][i] = Expected(c)
    /\ \A k \in 1 .. Len(s2c[c]) : AskedAt(c, k) => s2c[c][k] = Expected(c)
    /\ \A j, k \in 1 .. Len(s2c[c]) : AskedAt(c, j) /\ AskedAt(c, k) => j = k
    /\ c2s[c] # <<>> => shown[c] = "nothing"
    /\ (\E k \in 1 .. Len(s2c[c]) : AskedAt(c, k)) =>
          shown[c] = "nothing" /\ c2s[c] = <<>>
    /\ client[c] \in {"off", "probe"} =>
          /\ shown[c] = "nothing" /\ c2s[c] = <<>> /\ Expected(c) = "prompt"
          /\ \A k \in 1 .. Len(s2c[c]) : ~AskedAt(c, k)

(* A connection its client has left carries nothing back.  A client that   *)
(* left quietly is written to at most once, by a talker that ends with it. *)
Gone(c) == client[c] \in {"left", "torn"}

LineInv(c) ==
    /\ peer[c] # "open" => Gone(c) /\ s2c[c] = <<>> /\ shown[c] = "nothing"
    /\ c \notin ahead /\ talker[c] # "done" => OneUnderWay(c)
    /\ client[c] = "left" =>
          /\ c2s[c] = <<>> /\ talker[c] \notin {"execute", "prompt"}
          /\ peer[c] = "closed" \/ (peer[c] = "reset" /\ talker[c] = "done")

(* A display is started by a talker, for a client that is there to answer  *)
(* its questions, and a client that leaves it running leaves it torn.      *)
Displays(c) == display[c] => talker[c] \notin {"none", "start"} /\ client[c] # "left"

ServerInv ==
    /\ SocketInv
    /\ \A c \in Clients : ConnectedOnce(c) /\ LineInv(c) /\ Displays(c)
    /\ OneLinePerCommand /\ QuietLeaverIsHarmless

-----------------------------------------------------------------------------
(* What is left of a stream after a read, and what a write leaves.         *)
LEMMA Rest ==
    ASSUME NEW S, NEW es \in Seq(S), NEW n \in 1 .. Len(es)
    PROVE  LET rest == SubSeq(es, n + 1, Len(es))
           IN  /\ rest \in Seq(S)
               /\ Len(es) \in Nat /\ Len(rest) = Len(es) - n
               /\ \A i \in 1 .. Len(rest) : rest[i] = es[n + i]
  <1>1. Len(es) \in Nat /\ n + 1 \in Int /\ Len(es) \in Int
    BY LenProperties
  <1>2. \A i \in n + 1 .. Len(es) : es[i] \in S
    BY <1>1, ElementOfSeq
  <1>3. /\ SubSeq(es, n + 1, Len(es)) \in Seq(S)
        /\ Len(SubSeq(es, n + 1, Len(es))) =
             IF n + 1 <= Len(es) THEN Len(es) - (n + 1) + 1 ELSE 0
        /\ \A i \in 1 .. Len(es) - (n + 1) + 1 :
              SubSeq(es, n + 1, Len(es))[i] = es[n + 1 + i - 1]
    BY <1>1, <1>2, SubSeqProperties
  <1> QED
    BY <1>1, <1>3

LEMMA OnlyOne ==
    ASSUME NEW S, NEW es \in Seq(S), NEW n \in 1 .. Len(es), NEW e,
           Len(es) <= 1, \A i \in 1 .. Len(es) : es[i] = e
    PROVE  n = 1 /\ Head(es) = e /\ es # <<>> /\ SubSeq(es, n + 1, Len(es)) = <<>>
  <1>1. Len(es) \in Nat
    BY LenProperties
  <1>2. n = 1 /\ Len(es) = 1 /\ es # <<>>
    <2>1. n \in Int /\ 1 <= n /\ n <= Len(es)
      BY <1>1
    <2>2. Len(es) = 1
      BY <1>1, <2>1
    <2>3. n = 1
      BY <1>1, <2>1, <2>2
    <2>4. Len(<<>>) = 0
      OBVIOUS
    <2> QED
      BY <2>2, <2>3, <2>4
  <1>3. Head(es) = e
    BY <1>2, HeadTailProperties
  <1>4. SubSeq(es, n + 1, Len(es)) = <<>>
    BY <1>2, Rest, EmptySeq
  <1> QED
    BY <1>2, <1>3, <1>4

LEMMA Written ==
    ASSUME TypeOK, NEW c \in Clients, NEW text \in Texts, Write(c, text)
    PROVE  /\ s2c' \in [Clients -> Seq(Texts)]
           /\ peer' \in [Clients -> {"open", "closed", "reset"}]
           /\ alive' = (peer[c] # "reset")
           /\ s2c'[c] = IF peer[c] = "open" THEN Append(s2c[c], text) ELSE s2c[c]
           /\ peer'[c] = IF peer[c] = "closed" THEN "reset" ELSE peer[c]
           /\ \A d \in Clients \ {c} : s2c'[d] = s2c[d] /\ peer'[d] = peer[d]
  <1>1. c # None /\ s2c[c] \in Seq(Texts) /\ Append(s2c[c], text) \in Seq(Texts)
    BY NoneAssumption, AppendProperties DEF TypeOK
  <1>2. CASE peer[c] = "open"
    BY <1>1, <1>2 DEF TypeOK, Write
  <1>3. CASE peer[c] = "closed"
    BY <1>1, <1>3 DEF TypeOK, Write
  <1>4. CASE peer[c] = "reset"
    BY <1>1, <1>4 DEF TypeOK, Write
  <1>5. peer[c] \in {"open", "closed", "reset"}
    BY DEF TypeOK
  <1> QED
    BY <1>2, <1>3, <1>4, <1>5

-----------------------------------------------------------------------------
LEMMA InitSocketInv == Init => SocketInv
  <1>1. ASSUME Init PROVE TypeOK
    <2>1. <<>> \in Seq(Clients) /\ <<>> \in Seq(Texts)
          /\ <<>> \in Seq({"nothing", "prompt", "question"})
      OBVIOUS
    <2>2. sent \in 0 .. MaxLines
      BY <1>1, BoundsAssumption DEF Init
    <2> QED
      BY <1>1, <2>1, <2>2 DEF Init, TypeOK
  <1> QED
    BY <1>1 DEF Init, SocketInv, TalkerOwnsItsSocket, Arrives

(* Where neither talkers nor what they read changes, the owners stay.      *)
LEMMA SameSockets ==
    ASSUME SocketInv, UNCHANGED <<talker, the_socket, creator, the_new_socket>>,
           \A l \in Listeners : listener[l] = "sleep" => listener'[l] = "sleep"
    PROVE  TalkerOwnsItsSocket' /\ \A c \in Clients : Arrives(c)'
  BY DEF SocketInv, TalkerOwnsItsSocket, Arrives

LEMMA ListenerSockets ==
    ASSUME PromptThreads, SocketInv, NEW l \in Listeners, ListenerStep(l)
    PROVE  SocketInv'
  <1>0. TypeOK /\ TalkerOwnsItsSocket /\ \A c \in Clients : Arrives(c)
    BY DEF SocketInv
  <1> USE DEF threads, users, channels
  <1>1. CASE Bind(l)
    BY <1>0, <1>1, SameSockets DEF Bind, TypeOK, SocketInv
  <1>2. CASE ListenerLoop(l)
    <2>1. <<>> \in Seq(Clients)
      OBVIOUS
    <2> QED
      BY <1>0, <1>2, <2>1, SameSockets DEF ListenerLoop, CloseSocket, TypeOK, SocketInv
  <1>3. CASE Accept(l)
    <2>1. /\ listener[l] = "accept" /\ listener' = [listener EXCEPT ![l] = "got"]
          /\ \E d \in Clients \cup {None} :
                the_new_socket' = [the_new_socket EXCEPT ![l] = d]
          /\ backlog' \in Seq(Clients)
          /\ UNCHANGED <<talker, the_socket, creator>>
      <3>1. CASE port = l /\ backlog # <<>>
        <4>1. Head(backlog) \in Clients /\ Tail(backlog) \in Seq(Clients)
          BY <1>0, <3>1, HeadTailProperties DEF TypeOK
        <4> QED
          BY <1>3, <3>1, <4>1 DEF Accept
      <3>2. CASE ~(port = l /\ backlog # <<>>)
        BY <1>0, <1>3, <3>2 DEF Accept, TypeOK
      <3> QED
        BY <3>1, <3>2
    <2>2. TypeOK'
      BY <1>0, <1>3, <2>1 DEF Accept, TypeOK
    <2>3. TalkerOwnsItsSocket' /\ \A c \in Clients : Arrives(c)'
      BY <1>0, <2>1 DEF TypeOK, TalkerOwnsItsSocket, Arrives
    <2> QED
      BY <2>2, <2>3 DEF SocketInv
  <1>4. CASE CreateTalker(l)
    <2>1. ASSUME NEW c \in Clients, c = the_new_socket[l], server_running
          PROVE  SocketInv'
      <3>1. /\ creator' = [creator EXCEPT ![c] = l]
            /\ talker' = [talker EXCEPT ![c] = "start"]
            /\ listener' = [listener EXCEPT ![l] = "sleep"]
            /\ UNCHANGED <<the_new_socket, the_socket>>
        BY <1>4, <2>1, NoneAssumption DEF CreateTalker
      <3>2. TypeOK'
        BY <1>0, <1>4, <2>1, <3>1 DEF CreateTalker, TypeOK
      <3>3. TalkerOwnsItsSocket'
        BY <1>0, <3>1 DEF TypeOK, TalkerOwnsItsSocket
      <3>4. Arrives(c)'
        BY <1>0, <2>1, <3>1 DEF TypeOK, Arrives
      <3>5. \A d \in Clients \ {c} : Arrives(d)'
        BY <1>0, <3>1 DEF TypeOK, Arrives
      <3> QED
        BY <3>2, <3>3, <3>4, <3>5 DEF SocketInv
    <2>2. CASE ~(server_running /\ the_new_socket[l] # None)
      <3>1. /\ TypeOK' /\ UNCHANGED <<talker, the_socket, creator, the_new_socket>>
            /\ \A k \in Listeners : listener[k] = "sleep" => listener'[k] = "sleep"
        BY <1>0, <1>4, <2>2 DEF CreateTalker, TypeOK
      <3> QED
        BY <3>1, SameSockets DEF SocketInv
    <2> QED
      BY <1>0, <2>1, <2>2 DEF TypeOK
  <1>5. CASE Wake(l)
    <2>1. TypeOK' /\ TalkerOwnsItsSocket'
      BY <1>0, <1>5 DEF Wake, TypeOK, TalkerOwnsItsSocket
    <2>2. \A c \in Clients : creator[c] = l => talker[c] # "start"
      BY <1>5 DEF Wake, Slept
    <2>3. \A c \in Clients : Arrives(c)'
      BY <1>0, <1>5, <2>2 DEF Wake, TypeOK, Arrives
    <2> QED
      BY <2>1, <2>3 DEF SocketInv
  <1> QED
    BY <1>1, <1>2, <1>3, <1>4, <1>5 DEF ListenerStep

(* A step of talker c that it takes on its own connection.                 *)
Later == {"loop", "read", "execute", "ask", "prompt", "done"}

LEMMA TalkerGoesOn ==
    ASSUME SocketInv, NEW c \in Clients, talker[c] \in Later, NEW label \in Later,
           talker' = [talker EXCEPT ![c] = label],
           UNCHANGED <<listener, the_socket, creator, the_new_socket>>
    PROVE  TalkerOwnsItsSocket' /\ \A d \in Clients : Arrives(d)'
  BY DEF SocketInv, TypeOK, TalkerOwnsItsSocket, Arrives, Later

LEMMA Received ==
    ASSUME TypeOK, NEW c \in Clients, NEW n \in 1 .. Len(c2s[c])
    PROVE  SubSeq(c2s[c], n + 1, Len(c2s[c])) \in Seq({"nothing", "prompt", "question"})
  <1>1. c2s[c] \in Seq({"nothing", "prompt", "question"})
    BY DEF TypeOK
  <1> QED
    BY <1>1, Rest

LEMMA ReceivedTypes ==
    ASSUME TypeOK, NEW c \in Clients, NEW n \in 1 .. Len(c2s[c]), NEW for,
           Receive(c, n, for)
    PROVE  /\ c2s' \in [Clients -> Seq({"nothing", "prompt", "question"})]
           /\ misread' \subseteq Clients
  BY Received DEF Receive, TypeOK

(* A talker changes nothing but the streams and the place it is at.        *)
LEMMA TalkerTypes ==
    ASSUME TypeOK, NEW c \in Clients, NEW label \in Later,
           talker' = [talker EXCEPT ![c] = label],
           UNCHANGED <<server_running, threads, the_socket, users>>,
           alive' \in BOOLEAN, display' \in [Clients -> BOOLEAN],
           c2s' \in [Clients -> Seq({"nothing", "prompt", "question"})],
           s2c' \in [Clients -> Seq(Texts)],
           peer' \in [Clients -> {"open", "closed", "reset"}],
           misread' \subseteq Clients
    PROVE  TypeOK'
  <1>1. talker' \in [Clients -> {"none", "start", "loop", "read", "execute", "ask",
                                "prompt", "done"}]
    BY DEF TypeOK, Later
  <1>2. UNCHANGED <<server_running, listener, port, backlog, the_new_socket, creator,
                    the_socket, client, told, shown, sent, ahead>>
    BY DEF threads, users
  <1> QED
    BY <1>1, <1>2 DEF TypeOK

LEMMA TalkerSockets ==
    ASSUME SocketInv, NEW c \in Clients, TalkerStep(c)
    PROVE  SocketInv'
  <1>0. TypeOK /\ TalkerOwnsItsSocket /\ \A d \in Clients : Arrives(d)
    BY DEF SocketInv
  <1>a. talker[c] \notin {"none", "start"} => the_socket[c] = c
    BY <1>0 DEF TalkerOwnsItsSocket
  <1>b. /\ alive \in BOOLEAN /\ misread \subseteq Clients
        /\ display \in [Clients -> BOOLEAN]
        /\ c2s \in [Clients -> Seq({"nothing", "prompt", "question"})]
        /\ s2c \in [Clients -> Seq(Texts)]
        /\ peer \in [Clients -> {"open", "closed", "reset"}]
    BY <1>0 DEF TypeOK
  <1> USE NoneAssumption DEF threads, users, channels
  <1>1. CASE TalkerStart(c)
    <2>1. /\ creator[c] \in Listeners /\ the_new_socket[creator[c]] = c
          /\ the_socket' = [the_socket EXCEPT ![c] = c]
          /\ creator' = [creator EXCEPT ![c] = None]
          /\ talker' = [talker EXCEPT ![c] = "loop"]
          /\ UNCHANGED <<listener, the_new_socket>>
      BY <1>0, <1>1 DEF TalkerStart, TakeSocket, Arrives
    <2>2. TypeOK'
      BY <1>0, <1>1, <2>1 DEF TalkerStart, TakeSocket, TypeOK
    <2>3. TalkerOwnsItsSocket'
      BY <1>0, <2>1 DEF TypeOK, TalkerOwnsItsSocket
    <2>4. \A d \in Clients : Arrives(d)'
      BY <1>0, <2>1 DEF TypeOK, Arrives
    <2> QED
      BY <2>2, <2>3, <2>4 DEF SocketInv
  <1>2. CASE TalkerLoop(c)
    <2>1. CASE GoesOn(c)
      <3>1. /\ talker[c] = "loop" /\ talker' = [talker EXCEPT ![c] = "read"]
            /\ UNCHANGED <<alive, s2c, peer, server_running, threads, the_socket,
                           display, users, c2s, misread>>
        BY <1>2, <2>1 DEF TalkerLoop
      <3>2. TypeOK'
        BY <1>0, <1>b, <3>1, TalkerTypes DEF Later
      <3> QED
        BY <3>1, <3>2, TalkerGoesOn DEF SocketInv, Later
    <2>2. CASE ~GoesOn(c)
      <3>1. Write(c, "exit")
        BY <1>a, <1>2, <2>2 DEF TalkerLoop
      <3>2. TypeOK'
        BY <1>0, <1>b, <1>2, <2>2, <3>1, Written, TalkerTypes
        DEF TalkerLoop, Texts, Later
      <3> QED
        BY <1>2, <2>2, <3>2, TalkerGoesOn DEF TalkerLoop, SocketInv, Later
    <2> QED
      BY <2>1, <2>2
  <1>3. CASE TalkerRead(c)
    <2>0. the_socket[c] = c
      BY <1>a, <1>3 DEF TalkerRead
    <2>1. /\ talker[c] = "read"
          /\ UNCHANGED <<server_running, threads, the_socket, display, users>>
      BY <1>3 DEF TalkerRead
    <2>2. ASSUME NEW n \in 1 .. Len(c2s[c]), Receive(c, n, "prompt"),
                 talker' = [talker EXCEPT ![c] = "execute"],
                 UNCHANGED <<alive, s2c, peer>>
          PROVE  SocketInv'
      <3>1. TypeOK'
        BY <1>0, <1>b, <2>1, <2>2, ReceivedTypes, TalkerTypes DEF Later
      <3> QED
        BY <2>1, <2>2, <3>1, TalkerGoesOn DEF SocketInv, Later
    <2>3. ASSUME NEW n \in 1 .. Len(c2s[c]),
                 c2s' = [c2s EXCEPT ![c] = SubSeq(@, n + 1, Len(@))],
                 talker' = [talker EXCEPT ![c] = "done"],
                 Write(c, "exit"), UNCHANGED misread
          PROVE  SocketInv'
      <3>1. TypeOK'
        BY <1>0, <1>b, <2>1, <2>3, Received, Written, TalkerTypes DEF Texts, Later
      <3> QED
        BY <2>1, <2>3, <3>1, TalkerGoesOn DEF SocketInv, Later
    <2>4. ASSUME ReadAgain(c), UNCHANGED <<alive, channels, misread>>
          PROVE  SocketInv'
      <3>1. TypeOK'
        BY <1>0, <1>b, <2>1, <2>4, TalkerTypes DEF ReadAgain, Later
      <3> QED
        BY <2>1, <2>4, <3>1, TalkerGoesOn DEF ReadAgain, SocketInv, Later
    <2> QED
      BY <1>3, <2>0, <2>2, <2>3, <2>4 DEF TalkerRead
  <1>4. ASSUME NEW text \in Texts, NEW label \in Later, talker[c] \in Later,
               talker' = [talker EXCEPT ![c] = label], Write(the_socket[c], text),
               display' \in [Clients -> BOOLEAN],
               UNCHANGED <<server_running, threads, the_socket, users, c2s, misread>>
        PROVE  SocketInv'
    <2>1. Write(c, text)
      BY <1>a, <1>4 DEF Later
    <2>2. TypeOK'
      BY <1>0, <1>b, <1>4, <2>1, Written, TalkerTypes
    <2> QED
      BY <1>4, <2>2, TalkerGoesOn DEF SocketInv
  <1>5. CASE Prompt(c) \/ Ask(c) \/ Reply(c)
    BY <1>b, <1>4, <1>5 DEF Prompt, Ask, Reply, StopDisplay, Texts, Later
  <1>6. CASE GetInput(c)
    <2>0. the_socket[c] = c
      BY <1>a, <1>6 DEF GetInput
    <2>1. /\ talker[c] = "ask" /\ talker' = [talker EXCEPT ![c] = "execute"]
          /\ display' \in [Clients -> BOOLEAN]
          /\ UNCHANGED <<alive, server_running, threads, the_socket, users, s2c, peer>>
      BY <1>b, <1>6 DEF GetInput, StartDisplay
    <2>2. ASSUME NEW n \in 1 .. Len(c2s[c]), Receive(c, n, "question")
          PROVE  TypeOK'
      BY <1>0, <1>b, <2>1, <2>2, ReceivedTypes, TalkerTypes DEF Later
    <2>3. ASSUME UNCHANGED <<c2s, misread>> PROVE TypeOK'
      BY <1>0, <1>b, <2>1, <2>3, TalkerTypes DEF Later
    <2>4. TypeOK'
      BY <1>6, <2>0, <2>2, <2>3 DEF GetInput
    <2> QED
      BY <2>1, <2>4, TalkerGoesOn DEF SocketInv, Later
  <1> QED
    BY <1>1, <1>2, <1>3, <1>5, <1>6 DEF TalkerStep

LEMMA ClientSockets ==
    ASSUME SocketInv, NEW c \in Clients, ClientStep(c)
    PROVE  SocketInv'
  <1>0. TypeOK
    BY DEF SocketInv
  <1> USE DEF threads, users, channels
  <1>a. /\ c2s[c] \in Seq({"nothing", "prompt", "question"}) /\ s2c[c] \in Seq(Texts)
        /\ <<>> \in Seq(Texts) /\ backlog \in Seq(Clients)
    BY <1>0 DEF TypeOK
  <1>1. TypeOK'
    <2>1. CASE Connect(c)
      <3>1. Append(backlog, c) \in Seq(Clients)
        BY <1>a, AppendProperties
      <3> QED
        BY <1>0, <2>1, <3>1 DEF Connect, TypeOK
    <2>2. CASE Probe(c)
      BY <1>0, <1>a, <2>2 DEF Probe, TypeOK
    <2>3. CASE TextRead(c)
      <3>1. PICK n \in 1 .. Len(s2c[c]) :
              LET asks   == {k \in 1 .. n : s2c[c][k] \in {"prompt", "question"}}
                  halted == Head(s2c[c]) = "exit"
              IN  /\ s2c' = [s2c EXCEPT ![c] = SubSeq(@, n + 1, Len(@))]
                  /\ told' = [told EXCEPT ![c] = halted]
                  /\ IF halted \/ asks = {} THEN UNCHANGED shown
                     ELSE \E last \in asks :
                            /\ \A k \in asks : k <= last
                            /\ shown' = [shown EXCEPT ![c] = s2c[c][last]]
        BY <2>3 DEF TextRead
      <3>2. SubSeq(s2c[c], n + 1, Len(s2c[c])) \in Seq(Texts)
        BY <1>a, Rest
      <3>3. shown' \in [Clients -> {"nothing", "prompt", "question"}]
        BY <1>0, <3>1 DEF TypeOK
      <3>4. s2c' \in [Clients -> Seq(Texts)] /\ told' \in [Clients -> BOOLEAN]
        BY <1>0, <3>1, <3>2 DEF TypeOK
      <3> QED
        BY <1>0, <2>3, <3>3, <3>4 DEF TextRead, TypeOK
    <2>4. CASE Type(c)
      <3>1. Append(c2s[c], shown[c]) \in Seq({"nothing", "prompt", "question"})
        BY <1>0, <1>a, AppendProperties DEF TypeOK
      <3>2. sent' \in 0 .. MaxLines
        BY <1>0, <2>4, BoundsAssumption DEF Type, TypeOK
      <3> QED
        BY <1>0, <2>4, <3>1, <3>2 DEF Type, TypeOK
    <2>5. CASE TypeLocal(c) \/ UserExit(c)
      BY <1>0, <2>5 DEF TypeLocal, UserExit, TypeOK
    <2>6. CASE Leave(c)
      BY <1>0, <1>a, <2>6 DEF Leave, TypeOK
    <2> QED
      BY <2>1, <2>2, <2>3, <2>4, <2>5, <2>6 DEF ClientStep
  <1>2. UNCHANGED <<talker, the_socket, creator, the_new_socket, listener>>
    BY DEF ClientStep, Connect, Probe, TextRead, Type, TypeLocal, UserExit, Leave
  <1> QED
    BY <1>1, <1>2, SameSockets DEF SocketInv

LEMMA FrameSockets ==
    ASSUME SocketInv, NEW c \in Clients, Frame(c)
    PROVE  SocketInv'
  <1>0. TypeOK
    BY DEF SocketInv
  <1>1. /\ alive' \in BOOLEAN
        /\ peer' \in [Clients -> {"open", "closed", "reset"}]
        /\ s2c' \in [Clients -> Seq(Texts)]
    <2>1. CASE Write(the_socket[c], "frame")
      <3>1. \A d \in Clients : Append(s2c[d], "frame") \in Seq(Texts)
        BY <1>0, AppendProperties DEF TypeOK, Texts
      <3>2. alive' \in BOOLEAN /\ peer' \in [Clients -> {"open", "closed", "reset"}]
        BY <1>0, <2>1 DEF Write, TypeOK
      <3>3. s2c' \in [Clients -> Seq(Texts)]
        BY <1>0, <2>1, <3>1 DEF Write, TypeOK
      <3> QED
        BY <3>2, <3>3
    <2>2. CASE alive' = (peer[the_socket[c]] # "reset") /\ UNCHANGED <<s2c, peer>>
      BY <1>0, <2>2 DEF TypeOK
    <2> QED
      BY <2>1, <2>2 DEF Frame
  <1>2. UNCHANGED <<server_running, listener, port, backlog, the_new_socket, creator,
                    talker, the_socket, display, client, told, shown, sent, ahead, c2s,
                    misread>>
    BY DEF Frame, threads, users
  <1>3. TypeOK'
    BY <1>0, <1>1, <1>2 DEF TypeOK
  <1> QED
    BY <1>2, <1>3, SameSockets DEF SocketInv

LEMMA StepSocketInv ==
    ASSUME PromptThreads
    PROVE  SocketInv /\ [Next]_vars => SocketInv'
  <1> SUFFICES ASSUME SocketInv, [Next]_vars PROVE SocketInv'
    OBVIOUS
  <1>0. TypeOK
    BY DEF SocketInv
  <1> USE DEF threads, users, channels
  <1>1. CASE Off
    <2>1. TypeOK'
      BY <1>0, <1>1 DEF Off, TypeOK
    <2> QED
      BY <1>1, <2>1, SameSockets DEF Off, SocketInv
  <1>2. ASSUME NEW l \in Listeners, On(l) PROVE SocketInv'
    <2>1. listener[l] = "none" /\ listener' = [listener EXCEPT ![l] = "bind"]
      BY <1>2 DEF On, Unused
    <2>2. TypeOK'
      BY <1>0, <1>2, <2>1 DEF On, TypeOK
    <2> QED
      BY <1>0, <1>2, <2>1, <2>2, SameSockets DEF On, SocketInv, TypeOK
  <1>3. CASE UNCHANGED vars
    <2>1. TypeOK'
      BY <1>0, <1>3 DEF vars, TypeOK
    <2> QED
      BY <1>3, <2>1, SameSockets DEF vars, SocketInv
  <1> QED
    BY <1>1, <1>2, <1>3, ListenerSockets, TalkerSockets, FrameSockets, ClientSockets
    DEF Next

(* If threads start in time, every variable keeps its type.                *)
THEOREM TypeCorrect ==
    ASSUME PromptThreads
    PROVE  Spec => []TypeOK
  <1>1. SocketInv => TypeOK
    BY DEF SocketInv
  <1>2. SocketInv /\ [Next]_vars => SocketInv'
    BY StepSocketInv
  <1> QED
    BY <1>1, <1>2, InitSocketInv, PTL DEF Spec

(* If threads start in time, a talker works on the connection it was       *)
(* created for (server.cpp:25, 94-98).                                     *)
THEOREM OwnSocket ==
    ASSUME PromptThreads
    PROVE  Spec => []TalkerOwnsItsSocket
  <1>1. SocketInv => TalkerOwnsItsSocket
    BY DEF SocketInv
  <1>2. SocketInv /\ [Next]_vars => SocketInv'
    BY StepSocketInv
  <1> QED
    BY <1>1, <1>2, InitSocketInv, PTL DEF Spec

-----------------------------------------------------------------------------
(* Each client is connected once.                                          *)
LEMMA SameConnections ==
    ASSUME TypeOK, NEW c \in Clients, ConnectedOnce(c),
           backlog' = backlog \/ backlog' = <<>>,
           \A l \in Listeners :
              listener'[l] = "got" /\ the_new_socket'[l] = c =>
                 listener[l] = "got" /\ the_new_socket[l] = c,
           talker[c] = "none" => talker'[c] = "none",
           client'[c] = "off" => client[c] = "off"
    PROVE  ConnectedOnce(c)'
  <1>1. \A i \in 1 .. Len(backlog') : i \in 1 .. Len(backlog) /\ backlog'[i] = backlog[i]
    OBVIOUS
  <1>2. \A i, j \in 1 .. Len(backlog') : backlog'[i] = c /\ backlog'[j] = c => i = j
    BY <1>1 DEF ConnectedOnce
  <1>3. \A l \in Listeners : Taken(l, c)' => Taken(l, c)
    BY DEF Taken
  <1>4. Fresh(c) => Fresh(c)'
    BY DEF Fresh
  <1> QED
    BY <1>1, <1>2, <1>3, <1>4 DEF ConnectedOnce

LEMMA ListenerConnections ==
    ASSUME SocketInv, \A c \in Clients : ConnectedOnce(c),
           NEW l \in Listeners, ListenerStep(l), NEW c \in Clients
    PROVE  ConnectedOnce(c)'
  <1>0. TypeOK /\ ConnectedOnce(c)
    BY DEF SocketInv
  <1> USE DEF threads, users, channels
  <1>1. CASE Bind(l) \/ ListenerLoop(l) \/ Wake(l)
    <2>1. /\ backlog' = backlog \/ backlog' = <<>>
          /\ UNCHANGED <<the_new_socket, talker, client>>
          /\ \A k \in Listeners : listener'[k] = "got" => listener[k] = "got"
      BY <1>0, <1>1 DEF Bind, ListenerLoop, CloseSocket, Wake, TypeOK
    <2> QED
      BY <1>0, <2>1, SameConnections
  <1>2. CASE Accept(l)
    <2>1. /\ listener[l] = "accept" /\ listener' = [listener EXCEPT ![l] = "got"]
          /\ UNCHANGED <<talker, client>>
      BY <1>2 DEF Accept, users
    <2>2. CASE port = l /\ backlog # <<>>
      <3>1. /\ the_new_socket' = [the_new_socket EXCEPT ![l] = Head(backlog)]
            /\ backlog' = Tail(backlog)
        BY <1>2, <2>2 DEF Accept
      <3>2. /\ backlog \in Seq(Clients) /\ Len(backlog) \in Nat /\ Len(backlog) > 0
            /\ Head(backlog) = backlog[1] /\ Len(Tail(backlog)) = Len(backlog) - 1
            /\ \A i \in 1 .. Len(Tail(backlog)) : Tail(backlog)[i] = backlog[i + 1]
        BY <1>0, <2>2, HeadTailProperties, LenProperties DEF TypeOK
      <3>3. \A i \in 1 .. Len(backlog') :
              i + 1 \in 1 .. Len(backlog) /\ backlog'[i] = backlog[i + 1]
        BY <3>1, <3>2
      <3>4. \A i, j \in 1 .. Len(backlog') : backlog'[i] = c /\ backlog'[j] = c => i = j
        <4> SUFFICES ASSUME NEW i \in 1 .. Len(backlog'), NEW j \in 1 .. Len(backlog'),
                            backlog'[i] = c, backlog'[j] = c
                     PROVE  i = j
          OBVIOUS
        <4>1. i + 1 = j + 1
          BY <1>0, <3>3 DEF ConnectedOnce
        <4> QED
          BY <4>1
      <3>5. \A k \in Listeners :
              Taken(k, c)' <=> IF k = l THEN backlog[1] = c ELSE Taken(k, c)
        BY <1>0, <2>1, <3>1, <3>2 DEF Taken, TypeOK
      <3>6. Fresh(c)' = Fresh(c)
        BY <2>1 DEF Fresh
      <3>7. 1 \in 1 .. Len(backlog)
        BY <3>2
      <3>8. \A i \in 1 .. Len(backlog') : backlog'[i] = c =>
              Fresh(c)' /\ \A k \in Listeners : ~Taken(k, c)'
        <4> SUFFICES ASSUME NEW i \in 1 .. Len(backlog'), backlog'[i] = c
                     PROVE  Fresh(c)' /\ \A k \in Listeners : ~Taken(k, c)'
          OBVIOUS
        <4>1. backlog[i + 1] = c /\ i + 1 \in 1 .. Len(backlog) /\ i + 1 # 1
          BY <3>3
        <4>2. Fresh(c) /\ backlog[1] # c /\ \A k \in Listeners : ~Taken(k, c)
          BY <1>0, <3>7, <4>1 DEF ConnectedOnce
        <4> QED
          BY <3>5, <3>6, <4>2
      <3>9. /\ \A k \in Listeners : Taken(k, c)' => Fresh(c)'
            /\ \A j, k \in Listeners : Taken(j, c)' /\ Taken(k, c)' => j = k
        BY <1>0, <3>5, <3>6, <3>7 DEF ConnectedOnce
      <3> QED
        BY <1>0, <2>1, <3>4, <3>8, <3>9 DEF ConnectedOnce
    <2>3. CASE ~(port = l /\ backlog # <<>>)
      <3>1. the_new_socket' = [the_new_socket EXCEPT ![l] = None] /\ backlog' = backlog
        BY <1>2, <2>3 DEF Accept
      <3>2. \A k \in Listeners :
              listener'[k] = "got" /\ the_new_socket'[k] = c =>
                 listener[k] = "got" /\ the_new_socket[k] = c
        BY <1>0, <2>1, <3>1, NoneAssumption DEF TypeOK
      <3> QED
        BY <1>0, <2>1, <3>1, <3>2, SameConnections
    <2> QED
      BY <2>2, <2>3
  <1>3. CASE CreateTalker(l)
    <2>1. /\ listener[l] = "got" /\ listener' = [listener EXCEPT ![l] = "sleep"]
          /\ UNCHANGED <<client, backlog, the_new_socket>>
      BY <1>3 DEF CreateTalker
    <2>2. CASE c = the_new_socket[l]
      <3>1. Taken(l, c)
        BY <2>1, <2>2 DEF Taken
      <3>2. Fresh(c) /\ \A k \in Listeners : Taken(k, c) => k = l
        BY <1>0, <3>1 DEF ConnectedOnce
      <3>3. \A k \in Listeners : ~Taken(k, c)'
        BY <1>0, <2>1, <3>2 DEF Taken, TypeOK
      <3>4. \A i \in 1 .. Len(backlog) : backlog[i] # c
        BY <1>0, <3>1 DEF ConnectedOnce
      <3>5. client'[c] # "off"
        BY <2>1, <3>2 DEF Fresh
      <3> QED
        BY <2>1, <3>3, <3>4, <3>5 DEF ConnectedOnce
    <2>3. CASE c # the_new_socket[l]
      <3>1. talker'[c] = talker[c]
        BY <1>0, <1>3, <2>3 DEF CreateTalker, TypeOK
      <3>2. \A k \in Listeners : listener'[k] = "got" => listener[k] = "got"
        BY <1>0, <2>1 DEF TypeOK
      <3> QED
        BY <1>0, <2>1, <3>1, <3>2, SameConnections
    <2> QED
      BY <2>2, <2>3
  <1> QED
    BY <1>1, <1>2, <1>3 DEF ListenerStep

LEMMA StepConnections ==
    ASSUME SocketInv, \A c \in Clients : ConnectedOnce(c), [Next]_vars
    PROVE  \A c \in Clients : ConnectedOnce(c)'
  <1> SUFFICES ASSUME NEW c \in Clients PROVE ConnectedOnce(c)'
    OBVIOUS
  <1>0. TypeOK /\ ConnectedOnce(c)
    BY DEF SocketInv
  <1> USE DEF threads, users, channels
  <1>1. CASE Off \/ UNCHANGED vars
    BY <1>0, <1>1, SameConnections DEF Off, vars
  <1>2. ASSUME NEW l \in Listeners, On(l) PROVE ConnectedOnce(c)'
    <2>1. \A k \in Listeners : listener'[k] = "got" => listener[k] = "got"
      BY <1>0, <1>2 DEF On, TypeOK
    <2> QED
      BY <1>0, <1>2, <2>1, SameConnections DEF On
  <1>3. ASSUME NEW d \in Clients, TalkerStep(d) PROVE ConnectedOnce(c)'
    <2>1. /\ UNCHANGED <<backlog, listener, the_new_socket, client>>
          /\ talker[d] # "none"
          /\ \E label : talker' = [talker EXCEPT ![d] = label]
      BY <1>3 DEF TalkerStep, TalkerStart, TakeSocket, TalkerLoop, TalkerRead, ReadAgain,
                 Prompt, Ask, GetInput, Reply
    <2>2. talker[c] = "none" => talker'[c] = "none"
      BY <1>0, <2>1 DEF TypeOK
    <2> QED
      BY <1>0, <2>1, <2>2, SameConnections
  <1>4. ASSUME NEW d \in Clients, ClientStep(d) PROVE ConnectedOnce(c)'
    <2>1. CASE Connect(d)
      <3>1. /\ client[d] = "off" /\ client' = [client EXCEPT ![d] = "probe"]
            /\ backlog' = Append(backlog, d)
            /\ UNCHANGED <<talker, listener, the_new_socket>>
        BY <2>1 DEF Connect, Unused
      <3>2. /\ backlog \in Seq(Clients) /\ Len(backlog) \in Nat
            /\ Len(backlog') = Len(backlog) + 1 /\ backlog'[Len(backlog) + 1] = d
            /\ \A i \in 1 .. Len(backlog) : backlog'[i] = backlog[i]
        BY <1>0, <3>1, AppendProperties, LenProperties DEF TypeOK
      <3>3. \A i \in 1 .. Len(backlog') : i \in 1 .. Len(backlog) \/ i = Len(backlog) + 1
        BY <3>2
      <3>4. \A l \in Listeners : Taken(l, c)' = Taken(l, c)
        BY <3>1 DEF Taken
      <3>5. CASE d # c
        <4>1. Fresh(c)' = Fresh(c) /\ client'[c] = client[c] /\ talker'[c] = talker[c]
          BY <1>0, <3>1, <3>5 DEF Fresh, TypeOK
        <4>2. \A i \in 1 .. Len(backlog') : backlog'[i] = c =>
                i \in 1 .. Len(backlog) /\ backlog[i] = c
          BY <3>2, <3>3, <3>5
        <4> QED
          BY <1>0, <3>4, <4>1, <4>2 DEF ConnectedOnce
      <3>6. CASE d = c
        <4>1. /\ \A i \in 1 .. Len(backlog) : backlog[i] # c
              /\ \A l \in Listeners : ~Taken(l, c)
              /\ talker[c] = "none"
          BY <1>0, <3>1, <3>6 DEF ConnectedOnce, Fresh
        <4>2. Fresh(c)' /\ client'[c] # "off"
          BY <1>0, <3>1, <3>6, <4>1 DEF Fresh, TypeOK
        <4>3. \A i \in 1 .. Len(backlog') : backlog'[i] = c => i = Len(backlog) + 1
          BY <3>2, <3>3, <4>1
        <4> QED
          BY <3>4, <4>1, <4>2, <4>3 DEF ConnectedOnce
      <3> QED
        BY <3>5, <3>6
    <2>2. CASE Probe(d) \/ TextRead(d) \/ Type(d) \/ TypeLocal(d) \/ UserExit(d) \/ Leave(d)
      <3>1. /\ UNCHANGED <<backlog, listener, the_new_socket, talker>>
            /\ client'[c] = "off" => client[c] = "off"
        BY <1>0, <2>2 DEF Probe, TextRead, Type, TypeLocal, UserExit, Leave, TypeOK
      <3> QED
        BY <1>0, <3>1, SameConnections
    <2> QED
      BY <1>4, <2>1, <2>2 DEF ClientStep
  <1>5. ASSUME NEW d \in Clients, Frame(d) PROVE ConnectedOnce(c)'
    BY <1>0, <1>5, SameConnections DEF Frame
  <1> QED
    BY <1>1, <1>2, <1>3, <1>4, <1>5, ListenerConnections DEF Next

-----------------------------------------------------------------------------
(* One line, or the request for it, is under way.                          *)
Waiting == {"none", "start", "loop", "read"}

(* Nothing that concerns d changes, or its talker goes on waiting.         *)
LEMMA SameLine ==
    ASSUME NEW d \in Clients, LineInv(d),
           client'[d] = client[d], shown'[d] = shown[d], c2s'[d] = c2s[d],
           s2c'[d] = s2c[d], peer'[d] = peer[d], d \notin ahead' => d \notin ahead,
           talker'[d] = talker[d] \/ {talker[d], talker'[d]} \subseteq Waiting
    PROVE  LineInv(d)'
  <1>1. \A k : AskedAt(d, k)' <=> AskedAt(d, k)
    BY DEF AskedAt
  <1>2. Expected(d)' = Expected(d)
    BY DEF Expected, Waiting
  <1>3. /\ talker'[d] = "done" => talker[d] = "done"
        /\ talker[d] = "done" => talker'[d] = "done"
        /\ talker'[d] \in {"execute", "prompt"} => talker[d] \in {"execute", "prompt"}
    BY DEF Waiting
  <1>4. OneUnderWay(d) => OneUnderWay(d)'
    BY <1>1, <1>2 DEF OneUnderWay
  <1> QED
    BY <1>3, <1>4 DEF LineInv, Gone

(* A client that gets nothing more may be asked, and nothing else.         *)
LEMMA Silent ==
    ASSUME TypeOK, NEW c \in Clients, OneUnderWay(c), Expected(c) = "none"
    PROVE  /\ shown[c] = "nothing" /\ c2s[c] = <<>>
           /\ \A k \in 1 .. Len(s2c[c]) : ~AskedAt(c, k)
           /\ client[c] \notin {"off", "probe"}
  <1>1. /\ shown[c] \in {"nothing", "prompt", "question"}
        /\ c2s[c] \in Seq({"nothing", "prompt", "question"}) /\ Len(c2s[c]) \in Nat
    BY LenProperties DEF TypeOK
  <1>2. \A i \in 1 .. Len(c2s[c]) : c2s[c][i] \in {"nothing", "prompt", "question"}
    BY <1>1, ElementOfSeq
  <1>3. Len(c2s[c]) = 0
    <2> SUFFICES ASSUME 1 \in 1 .. Len(c2s[c]) PROVE FALSE
      BY <1>1
    <2> QED
      BY <1>2 DEF OneUnderWay
  <1> QED
    BY <1>1, <1>3, EmptySeq DEF OneUnderWay, AskedAt

(* A line that waits waits alone.                                          *)
LEMMA OnlyLine ==
    ASSUME TypeOK, NEW c \in Clients, OneUnderWay(c), NEW n \in 1 .. Len(c2s[c])
    PROVE  /\ n = 1 /\ Head(c2s[c]) = Expected(c)
           /\ SubSeq(c2s[c], n + 1, Len(c2s[c])) = <<>>
           /\ shown[c] = "nothing" /\ client[c] \notin {"off", "probe"}
           /\ \A k \in 1 .. Len(s2c[c]) : ~AskedAt(c, k)
  <1>1. c2s[c] \in Seq({"nothing", "prompt", "question"})
    BY DEF TypeOK
  <1>2. Len(c2s[c]) <= 1 /\ \A i \in 1 .. Len(c2s[c]) : c2s[c][i] = Expected(c)
    BY DEF OneUnderWay
  <1>3. /\ n = 1 /\ Head(c2s[c]) = Expected(c) /\ c2s[c] # <<>>
        /\ SubSeq(c2s[c], n + 1, Len(c2s[c])) = <<>>
    BY <1>1, <1>2, OnlyOne
  <1>4. c2s[c] # <<>> =>
          /\ shown[c] = "nothing" /\ client[c] \notin {"off", "probe"}
          /\ \A k \in 1 .. Len(s2c[c]) : ~AskedAt(c, k)
    BY DEF OneUnderWay
  <1> QED
    BY <1>3, <1>4

(* What a talker reads is what it expects.                                 *)
LEMMA ReadLine ==
    ASSUME TypeOK, NEW c \in Clients, LineInv(c), Expected(c) \in {"prompt", "question"},
           talker[c] # "done", NEW n \in 1 .. Len(c2s[c]), Receive(c, n, Expected(c)),
           talker' = [talker EXCEPT ![c] = "execute"],
           UNCHANGED <<users, s2c, peer>>
    PROVE  LineInv(c)' /\ misread' \subseteq misread \cup {c}
           /\ (c \notin ahead => misread' = misread)
  <1>1. /\ c2s[c] \in Seq({"nothing", "prompt", "question"}) /\ Len(c2s[c]) \in Nat
        /\ c2s[c] # <<>> /\ 1 \in 1 .. Len(c2s[c]) /\ 1 <= Len(c2s[c])
    BY LenProperties, EmptySeq DEF TypeOK
  <1>2. /\ talker'[c] = "execute" /\ Expected(c)' = "none"
        /\ c2s'[c] = SubSeq(c2s[c], n + 1, Len(c2s[c]))
        /\ UNCHANGED <<client, shown, s2c, peer, ahead>>
    BY DEF TypeOK, Expected, Receive, users
  <1>3. client[c] # "left"
    BY <1>1 DEF LineInv
  <1>4. ASSUME c \notin ahead PROVE OneUnderWay(c)' /\ misread' = misread
    <2>1. OneUnderWay(c)
      BY <1>4 DEF LineInv
    <2>2. /\ n = 1 /\ Head(c2s[c]) = Expected(c) /\ c2s'[c] = <<>>
          /\ shown[c] = "nothing" /\ client[c] \notin {"off", "probe"}
          /\ \A k \in 1 .. Len(s2c[c]) : ~AskedAt(c, k)
      BY <1>2, <2>1, OnlyLine
    <2>3. \A k : AskedAt(c, k)' <=> AskedAt(c, k)
      BY <1>2 DEF AskedAt
    <2>4. Len(<<>>) = 0
      OBVIOUS
    <2>5. OneUnderWay(c)'
      BY <1>2, <2>2, <2>3, <2>4 DEF OneUnderWay
    <2> QED
      BY <2>2, <2>5 DEF Receive
  <1>5. misread' \subseteq misread \cup {c}
    BY DEF Receive
  <1> QED
    BY <1>2, <1>3, <1>4, <1>5 DEF LineInv, Gone

(* What a talker writes when it has read a line is the output, or the      *)
(* request for what it then expects.                                       *)
LEMMA WriteLine ==
    ASSUME TypeOK, NEW c \in Clients, LineInv(c), talker[c] \in {"execute", "prompt"},
           NEW label \in {"ask", "prompt", "loop"}, NEW text \in {"out", "question", "prompt"},
           talker' = [talker EXCEPT ![c] = label],
           text # "out" => text = Expected(c)', Write(c, text), UNCHANGED <<users, c2s>>
    PROVE  LineInv(c)'
  <1>1. text \in Texts /\ talker'[c] = label /\ Expected(c) = "none"
    BY DEF Texts, TypeOK, Expected
  <1>2. /\ s2c'[c] = IF peer[c] = "open" THEN Append(s2c[c], text) ELSE s2c[c]
        /\ peer'[c] = IF peer[c] = "closed" THEN "reset" ELSE peer[c]
        /\ UNCHANGED <<client, shown, c2s, ahead>>
    BY <1>1, Written DEF users
  <1>3. client[c] # "left"
    BY DEF LineInv
  <1>4. peer'[c] # "open" => Gone(c)' /\ s2c'[c] = <<>> /\ shown'[c] = "nothing"
    BY <1>2 DEF LineInv, Gone
  <1>5. ASSUME c \notin ahead PROVE OneUnderWay(c)'
    <2>1. /\ shown[c] = "nothing" /\ c2s[c] = <<>> /\ client[c] \notin {"off", "probe"}
          /\ \A k \in 1 .. Len(s2c[c]) : ~AskedAt(c, k)
      BY <1>1, <1>5, Silent DEF LineInv
    <2>2. CASE peer[c] = "open"
      <3>1. /\ s2c[c] \in Seq(Texts) /\ Len(s2c[c]) \in Nat
            /\ Len(s2c'[c]) = Len(s2c[c]) + 1 /\ s2c'[c][Len(s2c[c]) + 1] = text
            /\ \A k \in 1 .. Len(s2c[c]) : s2c'[c][k] = s2c[c][k]
        BY <1>1, <1>2, <2>2, AppendProperties, LenProperties DEF TypeOK
      <3>2. \A k \in 1 .. Len(s2c'[c]) :
              AskedAt(c, k)' => k = Len(s2c[c]) + 1 /\ s2c'[c][k] = Expected(c)'
        <4> SUFFICES ASSUME NEW k \in 1 .. Len(s2c'[c]), AskedAt(c, k)'
                     PROVE  k = Len(s2c[c]) + 1 /\ s2c'[c][k] = Expected(c)'
          OBVIOUS
        <4>1. s2c'[c][k] \in {"prompt", "question"}
          BY DEF AskedAt
        <4>2. k = Len(s2c[c]) + 1
          BY <2>1, <3>1, <4>1 DEF AskedAt
        <4> QED
          BY <3>1, <4>1, <4>2
      <3> QED
        BY <1>2, <2>1, <3>2 DEF OneUnderWay
    <2>3. CASE peer[c] # "open"
      <3>1. \A k : AskedAt(c, k)' <=> AskedAt(c, k)
        BY <1>2, <2>3 DEF AskedAt
      <3> QED
        BY <1>2, <2>1, <2>3, <3>1 DEF OneUnderWay
    <2> QED
      BY <2>2, <2>3
  <1> QED
    BY <1>2, <1>3, <1>4, <1>5 DEF LineInv

(* A talker that ends writes __Exit__ to its client, left or not.          *)
LEMMA LastLine ==
    ASSUME TypeOK, NEW c \in Clients, LineInv(c), talker[c] # "done",
           talker' = [talker EXCEPT ![c] = "done"], Write(c, "exit"), UNCHANGED users,
           c2s[c] = <<>> => c2s'[c] = <<>>
    PROVE  LineInv(c)'
  <1>1. /\ s2c'[c] = IF peer[c] = "open" THEN Append(s2c[c], "exit") ELSE s2c[c]
        /\ peer'[c] = IF peer[c] = "closed" THEN "reset" ELSE peer[c]
        /\ talker'[c] = "done" /\ UNCHANGED <<client, shown, ahead>>
    BY Written DEF TypeOK, Texts, users
  <1> QED
    BY <1>1 DEF LineInv, Gone

LEMMA TalkerLines ==
    ASSUME SocketInv, \A d \in Clients : LineInv(d), NEW c \in Clients, TalkerStep(c)
    PROVE  /\ \A d \in Clients : LineInv(d)'
           /\ OneLinePerCommand => OneLinePerCommand'
           /\ alive' \/ client'[c] = "torn"
  <1>0. TypeOK /\ LineInv(c)
    BY DEF SocketInv
  <1>a. talker[c] \notin {"none", "start"} => the_socket[c] = c
    BY DEF SocketInv, TalkerOwnsItsSocket
  <1> USE DEF threads, users, channels
  (* What concerns another client stays as it is.                         *)
  <1>1. ASSUME NEW d \in Clients, d # c PROVE LineInv(d)'
    <2>1. /\ talker'[d] = talker[d] /\ c2s'[d] = c2s[d]
          /\ s2c'[d] = s2c[d] /\ peer'[d] = peer[d]
      <3>1. CASE TalkerStart(c)
        BY <1>0, <1>1, <3>1 DEF TalkerStart, TakeSocket, TypeOK
      <3>2. CASE TalkerLoop(c)
        BY <1>0, <1>a, <1>1, <3>2 DEF TalkerLoop, Write, TypeOK
      <3>3. CASE TalkerRead(c)
        <4>1. the_socket[c] = c
          BY <1>a, <3>3 DEF TalkerRead
        <4>2. \E label : talker' = [talker EXCEPT ![c] = label]
          BY <3>3 DEF TalkerRead, ReadAgain
        <4>3. c2s' = c2s \/ \E rest : c2s' = [c2s EXCEPT ![c] = rest]
          BY <3>3, <4>1 DEF TalkerRead, Receive
        <4>4. UNCHANGED <<s2c, peer>> \/ Write(c, "exit")
          BY <3>3, <4>1 DEF TalkerRead
        <4>5. s2c'[d] = s2c[d] /\ peer'[d] = peer[d]
          BY <1>0, <1>1, <4>4 DEF Write, TypeOK
        <4> QED
          BY <1>0, <1>1, <4>2, <4>3, <4>5 DEF TypeOK
      <3>4. CASE Prompt(c) \/ Ask(c) \/ Reply(c)
        BY <1>0, <1>a, <1>1, <3>4 DEF Prompt, Ask, Reply, Write, TypeOK
      <3>5. CASE GetInput(c)
        BY <1>0, <1>a, <1>1, <3>5 DEF GetInput, Receive, TypeOK
      <3> QED
        BY <3>1, <3>2, <3>3, <3>4, <3>5 DEF TalkerStep
    <2>2. UNCHANGED <<client, shown, ahead>>
      BY DEF TalkerStep, TalkerStart, TakeSocket, TalkerLoop, TalkerRead, Prompt, Ask,
             GetInput, Reply
    <2> QED
      BY <1>1, <2>1, <2>2, SameLine
  <1>2. UNCHANGED <<client, ahead>>
    BY DEF TalkerStep, TalkerStart, TakeSocket, TalkerLoop, TalkerRead, Prompt, Ask,
           GetInput, Reply
  <1>3. ASSUME NEW text \in Texts, Write(c, text), talker[c] # "done"
        PROVE  alive' \/ client'[c] = "torn"
    BY <1>0, <1>2, <1>3, Written DEF LineInv, Gone
  <1>4. ASSUME UNCHANGED misread PROVE OneLinePerCommand => OneLinePerCommand'
    BY <1>2, <1>4 DEF OneLinePerCommand
  <1>5. ASSUME misread' \subseteq misread \cup {c}, c \notin ahead => misread' = misread
        PROVE  OneLinePerCommand => OneLinePerCommand'
    BY <1>2, <1>5 DEF OneLinePerCommand
  <1> DEFINE Goal == /\ LineInv(c)' /\ (OneLinePerCommand => OneLinePerCommand')
                     /\ alive' \/ client'[c] = "torn"
  <1>6. Goal
    <2>1. CASE TalkerStart(c)
      <3>1. /\ talker[c] = "start" /\ talker'[c] = "loop"
            /\ alive' /\ UNCHANGED <<users, channels, misread>>
        BY <1>0, <2>1 DEF TalkerStart, TakeSocket, TypeOK
      <3>2. LineInv(c)'
        BY <1>0, <3>1, SameLine DEF Waiting
      <3> QED
        BY <1>4, <3>1, <3>2
    <2>2. CASE TalkerLoop(c)
      <3>1. talker[c] = "loop" /\ UNCHANGED <<users, c2s, misread>>
        BY <2>2 DEF TalkerLoop
      <3>2. CASE GoesOn(c)
        <4>1. talker'[c] = "read" /\ alive' /\ UNCHANGED <<s2c, peer>>
          BY <1>0, <2>2, <3>2 DEF TalkerLoop, TypeOK
        <4>2. LineInv(c)'
          BY <1>0, <3>1, <4>1, SameLine DEF Waiting
        <4> QED
          BY <1>4, <3>1, <4>1, <4>2
      <3>3. CASE ~GoesOn(c)
        <4>1. Write(c, "exit") /\ talker' = [talker EXCEPT ![c] = "done"]
          BY <1>a, <2>2, <3>3 DEF TalkerLoop
        <4>2. LineInv(c)'
          BY <1>0, <3>1, <4>1, LastLine
        <4> QED
          BY <1>3, <1>4, <3>1, <4>1, <4>2 DEF Texts
      <3> QED
        BY <3>2, <3>3
    <2>3. CASE TalkerRead(c)
      <3>1. talker[c] = "read" /\ the_socket[c] = c /\ alive /\ UNCHANGED users
        BY <1>a, <2>3 DEF TalkerRead
      <3>2. ASSUME NEW n \in 1 .. Len(c2s[c]), Receive(c, n, "prompt"),
                   talker' = [talker EXCEPT ![c] = "execute"],
                   UNCHANGED <<alive, s2c, peer>>
            PROVE  Goal
        <4>1. Expected(c) = "prompt"
          BY <3>1 DEF Expected
        <4>2. /\ LineInv(c)' /\ misread' \subseteq misread \cup {c}
              /\ (c \notin ahead => misread' = misread)
          BY <1>0, <3>1, <3>2, <4>1, ReadLine
        <4> QED
          BY <1>5, <3>1, <3>2, <4>2
      <3>3. ASSUME NEW n \in 1 .. Len(c2s[c]),
                   c2s' = [c2s EXCEPT ![c] = SubSeq(@, n + 1, Len(@))],
                   talker' = [talker EXCEPT ![c] = "done"],
                   Write(c, "exit"), UNCHANGED misread
            PROVE  Goal
        <4>1. c2s[c] # <<>>
          <5>1. Len(<<>>) = 0
            OBVIOUS
          <5> QED
            BY <5>1
        <4>2. LineInv(c)'
          BY <1>0, <3>1, <3>3, <4>1, LastLine
        <4> QED
          BY <1>3, <1>4, <3>1, <3>3, <4>2 DEF Texts
      <3>4. ASSUME ReadAgain(c), UNCHANGED <<alive, channels, misread>>
            PROVE  Goal
        <4>1. talker'[c] = "loop"
          BY <1>0, <3>4 DEF ReadAgain, TypeOK
        <4>2. LineInv(c)'
          BY <1>0, <3>1, <3>4, <4>1, SameLine DEF Waiting
        <4> QED
          BY <1>4, <3>1, <3>4, <4>2
      <3> HIDE DEF Goal
      <3>5. \/ /\ \E n \in 1 .. Len(c2s[c]) : Receive(c, n, "prompt")
               /\ talker' = [talker EXCEPT ![c] = "execute"]
               /\ UNCHANGED <<alive, s2c, peer>>
            \/ /\ \E n \in 1 .. Len(c2s[c]) :
                     c2s' = [c2s EXCEPT ![c] = SubSeq(@, n + 1, Len(@))]
               /\ talker' = [talker EXCEPT ![c] = "done"]
               /\ Write(c, "exit") /\ UNCHANGED misread
            \/ ReadAgain(c) /\ UNCHANGED <<alive, channels, misread>>
        BY <2>3, <3>1 DEF TalkerRead
      <3> QED
        BY <3>2, <3>3, <3>4, <3>5
    <2>4. ASSUME NEW text \in {"out", "question", "prompt"},
                 NEW label \in {"ask", "prompt", "loop"},
                 talker[c] \in {"execute", "prompt"}, Write(the_socket[c], text),
                 talker' = [talker EXCEPT ![c] = label],
                 text # "out" => text = Expected(c)',
                 UNCHANGED <<users, c2s, misread>>
          PROVE  Goal
      <3>1. Write(c, text) /\ talker[c] # "done" /\ text \in Texts
        BY <1>a, <2>4 DEF Texts
      <3>2. LineInv(c)'
        BY <1>0, <2>4, <3>1, WriteLine
      <3> QED
        BY <1>3, <1>4, <2>4, <3>1, <3>2
    <2>5. CASE Prompt(c) \/ Ask(c) \/ Reply(c)
      <3>1. CASE Prompt(c)
        <4>1. Expected(c)' = "prompt"
          BY <1>0, <3>1 DEF Prompt, Expected, TypeOK
        <4> HIDE DEF Goal
        <4> QED
          BY <2>4, <3>1, <4>1 DEF Prompt
      <3>2. CASE Ask(c)
        <4>1. Expected(c)' = "question"
          BY <1>0, <3>2 DEF Ask, Expected, TypeOK
        <4> HIDE DEF Goal
        <4> QED
          BY <2>4, <3>2, <4>1 DEF Ask
      <3>3. CASE Reply(c)
        <4> HIDE DEF Goal
        <4> QED
          BY <2>4, <3>3 DEF Reply
      <3> QED
        BY <2>5, <3>1, <3>2, <3>3
    <2>6. CASE GetInput(c)
      <3>1. /\ talker[c] = "ask" /\ the_socket[c] = c /\ alive'
            /\ talker' = [talker EXCEPT ![c] = "execute"] /\ UNCHANGED <<users, s2c, peer>>
            /\ Expected(c) = "question"
        BY <1>a, <2>6 DEF GetInput, Expected
      <3>2. ASSUME NEW n \in 1 .. Len(c2s[c]), Receive(c, n, "question") PROVE Goal
        <4>1. /\ LineInv(c)' /\ misread' \subseteq misread \cup {c}
              /\ (c \notin ahead => misread' = misread)
          BY <1>0, <3>1, <3>2, ReadLine
        <4> QED
          BY <1>5, <3>1, <4>1
      <3>3. ASSUME c2s[c] = <<>>, peer[c] = "reset", UNCHANGED <<c2s, misread>> PROVE Goal
        <4>1. /\ talker'[c] = "execute" /\ Expected(c)' = "none"
              /\ UNCHANGED <<client, shown, ahead>>
          BY <1>0, <3>1 DEF TypeOK, Expected
        <4>2. shown[c] = "nothing" /\ s2c[c] = <<>> /\ Gone(c) /\ client[c] # "left"
          BY <1>0, <3>1, <3>3 DEF LineInv
        <4>3. Len(<<>>) = 0
          OBVIOUS
        <4>4. OneUnderWay(c)'
          BY <3>1, <3>3, <4>1, <4>2, <4>3 DEF OneUnderWay, Gone
        <4>5. LineInv(c)'
          BY <3>1, <4>1, <4>2, <4>4 DEF LineInv, Gone
        <4> QED
          BY <1>4, <3>1, <3>3, <4>5
      <3> HIDE DEF Goal
      <3> QED
        BY <2>6, <3>1, <3>2, <3>3 DEF GetInput
    <2> HIDE DEF Goal
    <2> QED
      BY <2>1, <2>2, <2>3, <2>5, <2>6 DEF TalkerStep
  <1> QED
    BY <1>1, <1>6

(* What the user does with what is shown.                                  *)
LEMMA TextLines ==
    ASSUME TypeOK, NEW c \in Clients, LineInv(c), TextRead(c) PROVE LineInv(c)'
  <1>1. PICK n \in 1 .. Len(s2c[c]) :
          LET asks   == {k \in 1 .. n : s2c[c][k] \in {"prompt", "question"}}
              halted == Head(s2c[c]) = "exit"
          IN  /\ s2c' = [s2c EXCEPT ![c] = SubSeq(@, n + 1, Len(@))]
              /\ IF halted \/ asks = {} THEN UNCHANGED shown
                 ELSE \E last \in asks :
                        /\ \A k \in asks : k <= last
                        /\ shown' = [shown EXCEPT ![c] = s2c[c][last]]
    BY DEF TextRead
  <1>2. /\ client[c] = "typing" /\ s2c'[c] = SubSeq(s2c[c], n + 1, Len(s2c[c]))
        /\ UNCHANGED <<client, talker, c2s, peer, ahead>>
    BY <1>1 DEF TextRead, TypeOK, channels, threads
  <1>3. Len(s2c[c]) \in Nat /\ Len(s2c'[c]) = Len(s2c[c]) - n
        /\ \A k \in 1 .. Len(s2c'[c]) : s2c'[c][k] = s2c[c][n + k]
    BY <1>2, Rest DEF TypeOK
  <1>4. \A k \in 1 .. Len(s2c'[c]) :
          n + k \in 1 .. Len(s2c[c]) /\ (AskedAt(c, k)' => AskedAt(c, n + k))
    BY <1>3 DEF AskedAt
  <1>5. peer[c] = "open"
    BY <1>2 DEF LineInv, Gone, TypeOK
  <1>6. ASSUME OneUnderWay(c) PROVE OneUnderWay(c)'
    <2>1. Expected(c)' = Expected(c)
      BY <1>2 DEF Expected
    <2>2. \A k \in 1 .. Len(s2c'[c]) : AskedAt(c, k)' => s2c'[c][k] = Expected(c)'
      BY <1>3, <1>4, <1>6, <2>1 DEF OneUnderWay
    <2>3. \A j, k \in 1 .. Len(s2c'[c]) : AskedAt(c, j)' /\ AskedAt(c, k)' => j = k
      <3> SUFFICES ASSUME NEW j \in 1 .. Len(s2c'[c]), NEW k \in 1 .. Len(s2c'[c]),
                          AskedAt(c, j)', AskedAt(c, k)'
                   PROVE  j = k
        OBVIOUS
      <3>1. n + j = n + k
        BY <1>4, <1>6 DEF OneUnderWay
      <3> QED
        BY <1>3, <3>1
    <2>4. CASE shown' = shown
      <3>1. /\ shown[c] \in {"nothing", Expected(c)} /\ Len(c2s[c]) <= 1
            /\ \A i \in 1 .. Len(c2s[c]) : c2s[c][i] = Expected(c)
            /\ c2s[c] # <<>> => shown[c] = "nothing"
            /\ (\E k \in 1 .. Len(s2c[c]) : AskedAt(c, k)) =>
                  shown[c] = "nothing" /\ c2s[c] = <<>>
        BY <1>6 DEF OneUnderWay
      <3> QED
        BY <1>2, <1>4, <2>1, <2>2, <2>3, <2>4, <3>1 DEF OneUnderWay
    <2>5. ASSUME NEW last \in 1 .. n, AskedAt(c, last),
                 shown' = [shown EXCEPT ![c] = s2c[c][last]]
          PROVE  OneUnderWay(c)'
      <3>1. last \in 1 .. Len(s2c[c])
        BY <1>3
      <3>2. /\ s2c[c][last] = Expected(c) /\ c2s[c] = <<>>
            /\ \A k \in 1 .. Len(s2c[c]) : AskedAt(c, k) => k = last
        BY <1>6, <2>5, <3>1 DEF OneUnderWay
      <3>3. \A k \in 1 .. Len(s2c'[c]) : ~AskedAt(c, k)'
        <4> SUFFICES ASSUME NEW k \in 1 .. Len(s2c'[c]), AskedAt(c, k)' PROVE FALSE
          OBVIOUS
        <4>1. n + k = last
          BY <1>4, <3>2
        <4> QED
          BY <1>3, <4>1
      <3>4. shown'[c] = Expected(c)
        BY <2>5, <3>2 DEF TypeOK
      <3>5. Len(<<>>) = 0
        OBVIOUS
      <3> QED
        BY <1>2, <2>1, <3>2, <3>3, <3>4, <3>5 DEF OneUnderWay
    <2> QED
      BY <1>1, <2>4, <2>5 DEF AskedAt
  <1> QED
    BY <1>2, <1>5, <1>6 DEF LineInv

LEMMA TypeLine ==
    ASSUME TypeOK, NEW c \in Clients, LineInv(c), Type(c) PROVE LineInv(c)'
  <1>1. /\ client[c] = "typing" /\ client'[c] \in {"typing", "stopped"}
        /\ shown'[c] = "nothing"
        /\ c2s'[c] = IF told[c] THEN c2s[c] ELSE Append(c2s[c], shown[c])
        /\ UNCHANGED <<s2c, talker, peer>>
        /\ c \notin ahead' => c \notin ahead /\ (shown[c] # "nothing" \/ told[c])
    BY DEF Type, TypeOK, threads
  <1>2. peer[c] = "open"
    BY <1>1 DEF LineInv, Gone, TypeOK
  <1>3. (\A k : AskedAt(c, k)' <=> AskedAt(c, k)) /\ Expected(c)' = Expected(c)
    BY <1>1 DEF AskedAt, Expected
  <1>4. ASSUME c \notin ahead', talker[c] # "done" PROVE OneUnderWay(c)'
    <2>1. OneUnderWay(c)
      BY <1>1, <1>4 DEF LineInv
    <2>2. CASE told[c]
      BY <1>1, <1>3, <2>1, <2>2 DEF OneUnderWay
    <2>3. CASE ~told[c]
      <3>1. /\ shown[c] = Expected(c) /\ c2s[c] = <<>>
            /\ \A k \in 1 .. Len(s2c[c]) : ~AskedAt(c, k)
        BY <1>1, <1>4, <2>1, <2>3 DEF OneUnderWay
      <3>2. c2s'[c] = <<Expected(c)>>
        BY <1>1, <2>3, <3>1
      <3>3. Len(c2s'[c]) = 1 /\ c2s'[c][1] = Expected(c)
        BY <3>2
      <3> QED
        BY <1>1, <1>3, <3>1, <3>3 DEF OneUnderWay
    <2> QED
      BY <2>2, <2>3
  <1> QED
    BY <1>1, <1>2, <1>4 DEF LineInv

LEMMA ClientLines ==
    ASSUME SocketInv, \A d \in Clients : LineInv(d), NEW c \in Clients, ClientStep(c)
    PROVE  \A d \in Clients : LineInv(d)'
  <1>0. TypeOK /\ LineInv(c)
    BY DEF SocketInv
  <1> USE DEF threads, users, channels
  <1>1. ASSUME NEW d \in Clients, d # c PROVE LineInv(d)'
    <2>1. /\ client'[d] = client[d] /\ shown'[d] = shown[d] /\ c2s'[d] = c2s[d]
          /\ s2c'[d] = s2c[d] /\ peer'[d] = peer[d] /\ talker' = talker
          /\ ahead \subseteq ahead'
      <3>1. CASE Connect(c) \/ Probe(c)
        BY <1>0, <1>1, <3>1 DEF Connect, Probe, TypeOK
      <3>2. CASE TextRead(c)
        BY <1>0, <1>1, <3>2 DEF TextRead, TypeOK
      <3>3. CASE Type(c) \/ TypeLocal(c) \/ UserExit(c) \/ Leave(c)
        BY <1>0, <1>1, <3>3 DEF Type, TypeLocal, UserExit, Leave, TypeOK
      <3> QED
        BY <3>1, <3>2, <3>3 DEF ClientStep
    <2> QED
      BY <1>1, <2>1, SameLine
  <1>2. LineInv(c)'
    <2>0. Len(<<>>) = 0
      OBVIOUS
    <2>1. CASE Connect(c)
      <3>1. /\ client[c] = "off" /\ client'[c] = "probe"
            /\ UNCHANGED <<shown, c2s, s2c, talker, peer, ahead>>
        BY <1>0, <2>1 DEF Connect, Unused, TypeOK
      <3>2. peer[c] = "open"
        BY <1>0, <3>1 DEF LineInv, Gone, TypeOK
      <3>3. (\A k : AskedAt(c, k)' <=> AskedAt(c, k)) /\ Expected(c)' = Expected(c)
        BY <3>1 DEF AskedAt, Expected
      <3>4. OneUnderWay(c) => OneUnderWay(c)'
        BY <3>1, <3>3 DEF OneUnderWay
      <3> QED
        BY <1>0, <3>1, <3>2, <3>4 DEF LineInv
    <2>2. CASE Probe(c)
      <3>1. /\ client[c] = "probe" /\ client'[c] = "typing" /\ shown'[c] = "prompt"
            /\ s2c'[c] = <<>> /\ UNCHANGED <<c2s, talker, peer, ahead>>
        BY <1>0, <2>2 DEF Probe, TypeOK
      <3>2. peer[c] = "open"
        BY <1>0, <3>1 DEF LineInv, Gone, TypeOK
      <3>3. Expected(c)' = Expected(c)
        BY <3>1 DEF Expected
      <3>4. OneUnderWay(c) => OneUnderWay(c)'
        BY <2>0, <3>1, <3>3 DEF OneUnderWay
      <3> QED
        BY <1>0, <3>1, <3>2, <3>4 DEF LineInv
    <2>3. CASE TextRead(c)
      BY <1>0, <2>3, TextLines
    <2>4. CASE Type(c)
      BY <1>0, <2>4, TypeLine
    <2>5. CASE TypeLocal(c) \/ UserExit(c)
      <3>1. /\ client[c] = "typing" /\ client'[c] \in {"typing", "stopped"}
            /\ UNCHANGED <<c2s, s2c, talker, peer>>
            /\ c \notin ahead' => c \notin ahead /\ shown'[c] = shown[c]
        BY <1>0, <2>5 DEF TypeLocal, UserExit, TypeOK
      <3>2. peer[c] = "open"
        BY <1>0, <3>1 DEF LineInv, Gone, TypeOK
      <3>3. (\A k : AskedAt(c, k)' <=> AskedAt(c, k)) /\ Expected(c)' = Expected(c)
        BY <3>1 DEF AskedAt, Expected
      <3>4. OneUnderWay(c) /\ shown'[c] = shown[c] => OneUnderWay(c)'
        BY <3>1, <3>3 DEF OneUnderWay
      <3> QED
        BY <1>0, <3>1, <3>2, <3>4 DEF LineInv
    <2>6. CASE Leave(c)
      <3>1. /\ client[c] \in {"typing", "stopped"}
            /\ client'[c] = IF s2c[c] = <<>> /\ c2s[c] = <<>>
                                 /\ talker[c] \notin {"execute", "prompt"}
                                 /\ ~display[c]
                               THEN "left" ELSE "torn"
            /\ peer'[c] = IF s2c[c] = <<>> THEN "closed" ELSE "reset"
            /\ s2c'[c] = <<>> /\ shown'[c] = "nothing"
            /\ UNCHANGED <<c2s, talker, ahead>>
        BY <1>0, <2>6 DEF Leave, TypeOK
      <3>2. Expected(c)' = Expected(c)
        BY <3>1 DEF Expected
      <3>3. OneUnderWay(c) => OneUnderWay(c)'
        BY <2>0, <3>1, <3>2 DEF OneUnderWay
      <3> QED
        BY <1>0, <3>1, <3>3 DEF LineInv, Gone
    <2> QED
      BY <2>1, <2>2, <2>3, <2>4, <2>5, <2>6 DEF ClientStep
  <1> QED
    BY <1>1, <1>2

(* A frame of the display asks for nothing and answers nothing, and it is  *)
(* written to the client the display was started for.                      *)
LEMMA FrameLines ==
    ASSUME SocketInv, \A d \in Clients : LineInv(d), NEW c \in Clients, Displays(c),
           Frame(c)
    PROVE  /\ \A d \in Clients : LineInv(d)'
           /\ alive' \/ client'[c] = "torn"
  <1>0. TypeOK /\ LineInv(c) /\ the_socket[c] = c /\ client[c] # "left"
    BY DEF SocketInv, TalkerOwnsItsSocket, Displays, Frame
  <1>1. UNCHANGED <<client, shown, ahead, c2s, talker>>
    BY DEF Frame, users
  <1>2. /\ alive' = (peer[c] # "reset")
        /\ \A d \in Clients \ {c} : s2c'[d] = s2c[d] /\ peer'[d] = peer[d]
        /\ \/ s2c'[c] = Append(s2c[c], "frame") /\ peer[c] = "open"
           \/ s2c'[c] = s2c[c]
        /\ peer'[c] = peer[c] \/ (peer[c] = "closed" /\ peer'[c] = "reset")
    <2>1. CASE Write(c, "frame")
      BY <1>0, <2>1, Written DEF Texts
    <2>2. CASE alive' = (peer[c] # "reset") /\ UNCHANGED <<s2c, peer>>
      BY <2>2
    <2> QED
      BY <1>0, <2>1, <2>2 DEF Frame
  <1>3. alive' \/ client'[c] = "torn"
    BY <1>0, <1>1, <1>2 DEF LineInv, Gone
  <1>4. ASSUME NEW d \in Clients, d # c PROVE LineInv(d)'
    BY <1>1, <1>2, <1>4, SameLine
  <1>5. CASE s2c'[c] = s2c[c]
    <2>1. (\A k : AskedAt(c, k)' <=> AskedAt(c, k)) /\ Expected(c)' = Expected(c)
      BY <1>1, <1>5 DEF AskedAt, Expected
    <2>2. OneUnderWay(c) => OneUnderWay(c)'
      BY <1>1, <1>5, <2>1 DEF OneUnderWay
    <2>3. LineInv(c)'
      BY <1>0, <1>1, <1>2, <1>5, <2>2 DEF LineInv, Gone
    <2> QED
      BY <1>3, <1>4, <2>3
  <1>6. CASE s2c'[c] = Append(s2c[c], "frame") /\ peer[c] = "open"
    <2>1. /\ s2c[c] \in Seq(Texts) /\ Len(s2c[c]) \in Nat
          /\ Len(s2c'[c]) = Len(s2c[c]) + 1 /\ s2c'[c][Len(s2c[c]) + 1] = "frame"
          /\ \A k \in 1 .. Len(s2c[c]) : s2c'[c][k] = s2c[c][k]
      BY <1>0, <1>6, AppendProperties, LenProperties DEF TypeOK, Texts
    <2>2. Expected(c)' = Expected(c)
      BY <1>1 DEF Expected
    <2>3. \A k \in 1 .. Len(s2c'[c]) :
            AskedAt(c, k)' => k \in 1 .. Len(s2c[c]) /\ AskedAt(c, k)
                              /\ s2c'[c][k] = s2c[c][k]
      BY <2>1 DEF AskedAt
    <2>4. OneUnderWay(c) => OneUnderWay(c)'
      BY <1>1, <2>2, <2>3 DEF OneUnderWay
    <2>5. LineInv(c)'
      BY <1>0, <1>1, <1>2, <1>6, <2>4 DEF LineInv, Gone
    <2> QED
      BY <1>3, <1>4, <2>5
  <1> QED
    BY <1>2, <1>5, <1>6

LEMMA StepDisplays ==
    ASSUME SocketInv, [Next]_vars,
           \A c \in Clients : ConnectedOnce(c) /\ LineInv(c) /\ Displays(c)
    PROVE  \A c \in Clients : Displays(c)'
  <1> SUFFICES ASSUME NEW c \in Clients PROVE Displays(c)'
    OBVIOUS
  <1>0. TypeOK /\ ConnectedOnce(c) /\ LineInv(c) /\ Displays(c)
    BY DEF SocketInv
  <1> USE DEF threads, users, channels
  <1>1. CASE Off \/ (\E l \in Listeners : On(l)) \/ UNCHANGED vars
    BY <1>0, <1>1 DEF Off, On, vars, Displays
  <1>2. ASSUME NEW l \in Listeners, ListenerStep(l) PROVE Displays(c)'
    <2>1. UNCHANGED <<display, client>>
      BY <1>2 DEF ListenerStep, Bind, ListenerLoop, Accept, CreateTalker, Wake
    <2>2. talker'[c] = talker[c] \/ talker[c] = "none"
      <3>1. CASE CreateTalker(l)
        BY <1>0, <3>1 DEF CreateTalker, ConnectedOnce, Taken, Fresh, TypeOK
      <3>2. CASE ~CreateTalker(l)
        BY <1>2, <3>2 DEF ListenerStep, Bind, ListenerLoop, Accept, Wake
      <3> QED
        BY <3>1, <3>2
    <2> QED
      BY <1>0, <2>1, <2>2 DEF Displays
  <1>3. ASSUME NEW d \in Clients, TalkerStep(d) PROVE Displays(c)'
    <2>1. /\ UNCHANGED client /\ talker[d] # "none"
          /\ \E label \in Later : talker' = [talker EXCEPT ![d] = label]
      BY <1>3 DEF TalkerStep, TalkerStart, TakeSocket, TalkerLoop, TalkerRead, ReadAgain,
                 Prompt, Ask, GetInput, Reply, Later
    <2>2. CASE GetInput(d) /\ d = c
      <3>1. the_socket[c] = c /\ talker[c] = "ask" /\ talker'[c] = "execute"
        BY <1>0, <2>2 DEF GetInput, SocketInv, TalkerOwnsItsSocket, TypeOK
      <3>2. c2s[c] # <<>> \/ peer[c] = "reset"
        <4>1. Len(<<>>) = 0
          OBVIOUS
        <4> QED
          BY <2>2, <3>1, <4>1 DEF GetInput
      <3>3. client[c] # "left"
        BY <1>0, <3>1, <3>2 DEF LineInv
      <3> QED
        BY <2>1, <3>1, <3>3 DEF Displays
    <2>3. CASE ~(GetInput(d) /\ d = c)
      <3>1. display'[c] => display[c]
        BY <1>0, <1>3, <2>3
        DEF TalkerStep, TalkerStart, TakeSocket, TalkerLoop, TalkerRead, Prompt, Ask,
            GetInput, Reply, StartDisplay, StopDisplay, TypeOK
      <3>2. talker'[c] = talker[c] \/ talker'[c] \notin {"none", "start"}
        BY <1>0, <2>1 DEF TypeOK, Later
      <3> QED
        BY <1>0, <2>1, <3>1, <3>2 DEF Displays
    <2> QED
      BY <2>2, <2>3
  <1>4. ASSUME NEW d \in Clients, Frame(d) PROVE Displays(c)'
    BY <1>0, <1>4 DEF Frame, Displays
  <1>5. ASSUME NEW d \in Clients, ClientStep(d) PROVE Displays(c)'
    <2>1. UNCHANGED <<talker, display>>
      BY <1>5 DEF ClientStep, Connect, Probe, TextRead, Type, TypeLocal, UserExit, Leave
    <2>2. display[c] /\ client'[c] = "left" => client[c] = "left"
      <3>1. CASE Leave(d)
        BY <1>0, <3>1 DEF Leave, TypeOK
      <3>2. CASE Connect(d) \/ Probe(d) \/ TextRead(d)
        BY <1>0, <3>2 DEF Connect, Probe, TextRead, TypeOK
      <3>3. CASE Type(d) \/ TypeLocal(d) \/ UserExit(d)
        BY <1>0, <3>3 DEF Type, TypeLocal, UserExit, TypeOK
      <3> QED
        BY <1>5, <3>1, <3>2, <3>3 DEF ClientStep
    <2> QED
      BY <1>0, <2>1, <2>2 DEF Displays
  <1> QED
    BY <1>1, <1>2, <1>3, <1>4, <1>5 DEF Next

-----------------------------------------------------------------------------
LEMMA InitServerInv == Init => ServerInv
  <1> SUFFICES ASSUME Init PROVE ServerInv
    OBVIOUS
  <1>0. Len(<<>>) = 0
    OBVIOUS
  <1>1. SocketInv
    BY InitSocketInv
  <1>2. ASSUME NEW c \in Clients PROVE ConnectedOnce(c)
    BY <1>0, <1>2 DEF Init, ConnectedOnce, Taken
  <1>3. ASSUME NEW c \in Clients PROVE LineInv(c)
    <2>1. /\ talker[c] = "none" /\ client[c] = "off" /\ shown[c] = "nothing"
          /\ c2s[c] = <<>> /\ s2c[c] = <<>> /\ peer[c] = "open"
      BY <1>3 DEF Init
    <2> QED
      BY <1>0, <2>1 DEF LineInv, OneUnderWay, Expected
  <1>4. OneLinePerCommand /\ QuietLeaverIsHarmless
    BY DEF Init, OneLinePerCommand, QuietLeaverIsHarmless
  <1>5. \A c \in Clients : Displays(c)
    BY DEF Init, Displays
  <1> QED
    BY <1>1, <1>2, <1>3, <1>4, <1>5 DEF ServerInv

LEMMA StepServerInv ==
    ASSUME PromptThreads
    PROVE  ServerInv /\ [Next]_vars => ServerInv'
  <1> SUFFICES ASSUME ServerInv, [Next]_vars PROVE ServerInv'
    OBVIOUS
  <1>0. /\ SocketInv /\ TypeOK /\ \A c \in Clients : ConnectedOnce(c)
        /\ \A c \in Clients : LineInv(c) /\ Displays(c)
        /\ OneLinePerCommand /\ QuietLeaverIsHarmless
    BY DEF ServerInv, SocketInv
  <1>1. SocketInv' /\ \A c \in Clients : ConnectedOnce(c)' /\ Displays(c)'
    BY <1>0, StepSocketInv, StepConnections, StepDisplays
  <1> USE DEF threads, users, channels
  <1>2. CASE Off \/ (\E l \in Listeners : On(l)) \/ UNCHANGED vars
    <2>1. UNCHANGED <<alive, talker, users, channels, misread>>
      BY <1>2 DEF Off, On, vars
    <2>2. \A c \in Clients : LineInv(c)'
      BY <1>0, <2>1, SameLine
    <2> QED
      BY <1>0, <1>1, <2>1, <2>2 DEF ServerInv, OneLinePerCommand, QuietLeaverIsHarmless
  <1>3. ASSUME NEW l \in Listeners, ListenerStep(l) PROVE ServerInv'
    <2>1. UNCHANGED <<alive, users, channels, misread>>
      BY <1>3 DEF ListenerStep, Bind, ListenerLoop, Accept, CreateTalker, Wake
    <2>2. \A c \in Clients : talker'[c] = talker[c] \/ {talker[c], talker'[c]} \subseteq Waiting
      <3> SUFFICES ASSUME NEW c \in Clients, talker'[c] # talker[c]
                   PROVE  {talker[c], talker'[c]} \subseteq Waiting
        OBVIOUS
      <3>1. CreateTalker(l) /\ c = the_new_socket[l] /\ talker'[c] = "start"
        BY <1>0, <1>3 DEF ListenerStep, Bind, ListenerLoop, Accept, CreateTalker, Wake, TypeOK
      <3>2. talker[c] = "none"
        BY <1>0, <3>1 DEF CreateTalker, ConnectedOnce, Taken, Fresh
      <3> QED
        BY <3>1, <3>2 DEF Waiting
    <2>3. \A c \in Clients : LineInv(c)'
      BY <1>0, <2>1, <2>2, SameLine
    <2> QED
      BY <1>0, <1>1, <2>1, <2>3 DEF ServerInv, OneLinePerCommand, QuietLeaverIsHarmless
  <1>4. ASSUME NEW c \in Clients, TalkerStep(c) PROVE ServerInv'
    <2>1. /\ \A d \in Clients : LineInv(d)'
          /\ OneLinePerCommand' /\ (alive' \/ client'[c] = "torn")
      BY <1>0, <1>4, TalkerLines
    <2> QED
      BY <1>1, <2>1 DEF ServerInv, QuietLeaverIsHarmless
  <1>5. ASSUME NEW c \in Clients, ClientStep(c) PROVE ServerInv'
    <2>1. \A d \in Clients : LineInv(d)'
      BY <1>0, <1>5, ClientLines
    <2>2. alive /\ UNCHANGED <<alive, misread>> /\ ahead \subseteq ahead'
      BY <1>5 DEF ClientStep, Connect, Probe, TextRead, Type, TypeLocal, UserExit, Leave
    <2> QED
      BY <1>0, <1>1, <2>1, <2>2 DEF ServerInv, OneLinePerCommand, QuietLeaverIsHarmless
  <1>6. ASSUME NEW c \in Clients, Frame(c) PROVE ServerInv'
    <2>1. /\ \A d \in Clients : LineInv(d)'
          /\ alive' \/ client'[c] = "torn"
      BY <1>0, <1>6, FrameLines
    <2>2. UNCHANGED <<misread, ahead>>
      BY <1>6 DEF Frame
    <2> QED
      BY <1>0, <1>1, <2>1, <2>2
      DEF ServerInv, QuietLeaverIsHarmless, OneLinePerCommand
  <1> QED
    BY <1>2, <1>3, <1>4, <1>5, <1>6 DEF Next

(* A command, or a question, gets one line and the one typed for it,       *)
(* unless its client typed ahead (server.cpp:42-48, 117-125).              *)
THEOREM OneLine ==
    ASSUME PromptThreads
    PROVE  Spec => []OneLinePerCommand
  <1>1. ServerInv => OneLinePerCommand
    BY DEF ServerInv
  <1> QED
    BY <1>1, InitServerInv, StepServerInv, PTL DEF Spec

(* Only a connection that was torn brings the server down, whichever       *)
(* thread writes to it (server.cpp:45-48, 55-56, sniff.cpp:411).           *)
THEOREM QuietLeavers ==
    ASSUME PromptThreads
    PROVE  Spec => []QuietLeaverIsHarmless
  <1>1. ServerInv => QuietLeaverIsHarmless
    BY DEF ServerInv
  <1> QED
    BY <1>1, InitServerInv, StepServerInv, PTL DEF Spec
=============================================================================
