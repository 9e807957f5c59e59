-------------------------------- MODULE Server --------------------------------
(***************************************************************************)
(* Remote access: listener and talker threads (server.cpp), the console    *)
(* commands "server on" and "server off" (cli.cpp), the display thread of  *)
(* a sniffer that a client has started (sniff.cpp), and the client with    *)
(* its text thread (client.cpp).                                           *)
(*                                                                         *)
(* A connection is named by its client.  Of a line only what it was typed  *)
(* at matters (the prompt, or the question of a command that is running),  *)
(* of the server's output only which text it is: a command's output, its   *)
(* question, the prompt, a frame of the display, or "__Exit__".  TCP keeps *)
(* the bytes in order and nothing else: a read returns any number of the   *)
(* writes that wait, joined.                                               *)
(* Listeners, and clients, are told apart by nothing but their names, so   *)
(* they take the names in a fixed order.                                   *)
(*                                                                         *)
(* A definition marked "variant" is not the code: it is a mistake that the *)
(* definition after it could have, and that a property has to notice.      *)
(***************************************************************************)
EXTENDS Naturals, Sequences, FiniteSets

CONSTANTS
    Clients,
    Listeners,     \* bound: one for each "server on" that starts a listener
    None,          \* no client; as a descriptor, -1
    MaxLines,      \* bound: lines all the clients send together
    MaxStarts,     \* bound: listeners started and clients connected together
    PromptThreads  \* does a new thread start within listener's sleep(1)

ASSUME BoundsAssumption ==
    MaxLines \in Nat /\ MaxStarts \in Nat /\ PromptThreads \in BOOLEAN
ASSUME NoneAssumption == None \notin Clients \cup Listeners

VARIABLES
    alive,            \* the server process has not died of a SIGPIPE
    server_running,
    listener,         \* listener[l]: where listener thread l is
    port,             \* the listener whose socket is bound to the port
    backlog,          \* connections waiting to be accepted
    the_new_socket,   \* the local variable of each listener
    talker,           \* talker[c]: where the thread created for c is
    creator,          \* the listener whose variable it has yet to read
    the_socket,       \* the connection talker c works on
    display,          \* display[c]: c's sniffer runs, and its display thread
    client,           \* client[c]: where the user of c is
    told,             \* the text thread has seen __Exit__ (the_socket is -1)
    shown,            \* what the user has on screen to answer, or "nothing"
    sent,             \* lines sent so far
    c2s, s2c,         \* lines, and texts, under way
    peer,             \* c's end as TCP shows it to the server
    ahead,            \* history: clients that typed before they were asked
    misread           \* history: clients a line of which was taken for another

threads  == <<listener, port, backlog, the_new_socket, creator>>
users    == <<client, told, shown, sent, ahead>>
channels == <<c2s, s2c, peer>>
vars ==
    <<alive, server_running, threads, talker, the_socket, display, users, channels,
      misread>>

Texts == {"out", "question", "prompt", "frame", "exit"}

TypeOK ==
    /\ alive \in BOOLEAN /\ server_running \in BOOLEAN
    /\ listener \in [Listeners ->
                       {"none", "bind", "loop", "accept", "got", "sleep", "done"}]
    /\ port \in Listeners \cup {None}
    /\ backlog \in Seq(Clients)
    /\ the_new_socket \in [Listeners -> Clients \cup {None}]
    /\ talker \in [Clients ->
                     {"none", "start", "loop", "read", "execute", "ask", "prompt",
                      "done"}]
    /\ creator \in [Clients -> Listeners \cup {None}]
    /\ the_socket \in [Clients -> Clients \cup {None}]
    /\ display \in [Clients -> BOOLEAN]
    /\ client \in [Clients -> {"off", "probe", "typing", "stopped", "left", "torn"}]
    /\ told \in [Clients -> BOOLEAN]
    /\ shown \in [Clients -> {"nothing", "prompt", "question"}]
    /\ sent \in 0 .. MaxLines
    /\ c2s \in [Clients -> Seq({"nothing", "prompt", "question"})]
    /\ s2c \in [Clients -> Seq(Texts)]
    /\ peer \in [Clients -> {"open", "closed", "reset"}]
    /\ ahead \subseteq Clients /\ misread \subseteq Clients

Init ==
    /\ alive = TRUE /\ server_running = FALSE
    /\ listener = [l \in Listeners |-> "none"]
    /\ port = None /\ backlog = <<>>
    /\ the_new_socket = [l \in Listeners |-> None]
    /\ talker = [c \in Clients |-> "none"]
    /\ creator = [c \in Clients |-> None]
    /\ the_socket = [c \in Clients |-> None]
    /\ display = [c \in Clients |-> FALSE]
    /\ client = [c \in Clients |-> "off"]
    /\ told = [c \in Clients |-> FALSE] /\ shown = [c \in Clients |-> "nothing"]
    /\ sent = 0 /\ c2s = [c \in Clients |-> <<>>]
    /\ s2c = [c \in Clients |-> <<>>]
    /\ peer = [c \in Clients |-> "open"]
    /\ ahead = {} /\ misread = {}

(* The next name of a listener, or of a client, that is still unused.      *)
Unused(x, names, state, unused) ==
    /\ state[x] = unused
    /\ x = CHOOSE y \in names : state[y] = unused
    /\ Cardinality({l \in Listeners : listener[l] # "none"})
         + Cardinality({c \in Clients : client[c] # "off"}) < MaxStarts

-----------------------------------------------------------------------------
(* The console.                                                            *)
On(l) ==
    /\ alive /\ ~server_running
    /\ Unused(l, Listeners, listener, "none")
    /\ server_running' = TRUE
    /\ listener' = [listener EXCEPT ![l] = "bind"]
    /\ UNCHANGED <<alive, port, backlog, the_new_socket, creator, talker,
                   the_socket, display, users, channels, misread>>

Off ==
    /\ alive
    /\ server_running' = FALSE
    /\ UNCHANGED <<alive, threads, talker, the_socket, display, users, channels,
                   misread>>

-----------------------------------------------------------------------------
(* listener.  Binding fails while another listener's socket has the port;  *)
(* the new listener then switches the server off, the old one's too.       *)
Bind(l) ==
    /\ alive /\ listener[l] = "bind"
    /\ listener' = [listener EXCEPT ![l] = "loop"]
    /\ IF port = None
       THEN port' = l /\ UNCHANGED server_running
       ELSE server_running' = FALSE /\ UNCHANGED port
    /\ UNCHANGED <<alive, backlog, the_new_socket, creator, talker, the_socket, display,
                   users, channels, misread>>

(* variant: listener ends without closing its socket.                      *)
CloseNothing(l) == UNCHANGED <<port, backlog>>
CloseSocket(l) ==
    IF port = l THEN port' = None /\ backlog' = <<>> ELSE UNCHANGED <<port,
                                                                      backlog>>

(* while(server_running), and close after the loop.                        *)
ListenerLoop(l) ==
    /\ alive /\ listener[l] = "loop"
    /\ IF server_running
       THEN /\ listener' = [listener EXCEPT ![l] = "accept"]
            /\ UNCHANGED <<port, backlog>>
       ELSE /\ listener' = [listener EXCEPT ![l] = "done"]
            /\ CloseSocket(l)
    /\ UNCHANGED <<alive, server_running, the_new_socket, creator, talker,
                   the_socket, display, users, channels, misread>>

Accept(l) ==
    /\ alive /\ listener[l] = "accept"
    /\ listener' = [listener EXCEPT ![l] = "got"]
    /\ IF port = l /\ backlog # <<>>
       THEN /\ the_new_socket' = [the_new_socket EXCEPT ![l] = Head(backlog)]
            /\ backlog' = Tail(backlog)
       ELSE /\ the_new_socket' = [the_new_socket EXCEPT ![l] = None]
            /\ UNCHANGED backlog
    /\ UNCHANGED <<alive, server_running, port, creator, talker, the_socket, display,
                   users, channels, misread>>

(* A client accepted while the server is being switched off gets no talker.*)
CreateTalker(l) ==
    LET c == the_new_socket[l] IN
    /\ alive /\ listener[l] = "got"
    /\ listener' = [listener EXCEPT ![l] = "sleep"]
    /\ IF server_running /\ c # None
       THEN /\ creator' = [creator EXCEPT ![c] = l]
            /\ talker' = [talker EXCEPT ![c] = "start"]
       ELSE UNCHANGED <<creator, talker>>
    /\ UNCHANGED <<alive, server_running, port, backlog, the_new_socket,
                   the_socket, display, users, channels, misread>>

(* sleep(1) gives a new talker the time to read its argument.  variant: no *)
(* sleep.                                                                  *)
NoSleep(l) == TRUE
Slept(l) == PromptThreads => \A c \in Clients : creator[c] = l => talker[c] # "start"

Wake(l) ==
    /\ alive /\ listener[l] = "sleep"
    /\ Slept(l)
    /\ listener' = [listener EXCEPT ![l] = "loop"]
    /\ UNCHANGED <<alive, server_running, port, backlog, the_new_socket,
                   creator, talker, the_socket, display, users, channels, misread>>

ListenerStep(l) ==
    Bind(l) \/ ListenerLoop(l) \/ Accept(l) \/ CreateTalker(l) \/ Wake(l)

-----------------------------------------------------------------------------
(* Writing to a client that has left makes its end answer with a reset;    *)
(* writing after the reset raises SIGPIPE, which nobody handles.  Talkers  *)
(* write, and display threads.                                             *)
Write(d, text) ==
    /\ s2c' = IF d # None /\ peer[d] = "open"
              THEN [s2c EXCEPT ![d] = Append(@, text)] ELSE s2c
    /\ peer' = IF d # None /\ peer[d] = "closed"
               THEN [peer EXCEPT ![d] = "reset"] ELSE peer
    /\ alive' = ~(d # None /\ peer[d] = "reset")

(* talker.  Its argument is the address of listener's the_new_socket.      *)
TakeSocket(c) ==
    /\ alive /\ talker[c] = "start"
    /\ the_socket' = [the_socket EXCEPT ![c] = the_new_socket[creator[c]]]
    /\ creator' = [creator EXCEPT ![c] = None]
    /\ UNCHANGED <<alive, server_running, listener, port, backlog,
                   the_new_socket, display, users, channels, misread>>

(* variant: the talker greets its client with a prompt.                    *)
TalkerGreets(c) ==
    /\ TakeSocket(c)
    /\ talker' = [talker EXCEPT ![c] = "prompt"]
TalkerStart(c) ==
    /\ TakeSocket(c)
    /\ talker' = [talker EXCEPT ![c] = "loop"]

(* variant: the talker goes on until its client has left.                  *)
NeverStops(c) == TRUE
GoesOn(c) == server_running

TalkerLoop(c) ==
    /\ alive /\ talker[c] = "loop"
    /\ IF GoesOn(c)
       THEN /\ talker' = [talker EXCEPT ![c] = "read"]
            /\ UNCHANGED <<alive, s2c, peer>>
       ELSE /\ talker' = [talker EXCEPT ![c] = "done"]
            /\ Write(the_socket[c], "exit")
    /\ UNCHANGED <<server_running, threads, the_socket, display, users, c2s, misread>>

(* A read takes n of the lines that wait on d.  They are what they are     *)
(* taken for only if they are one line, typed at that prompt or question.  *)
Receive(d, n, for) ==
    /\ c2s' = [c2s EXCEPT ![d] = SubSeq(@, n + 1, Len(@))]
    /\ misread' = IF n > 1 \/ Head(c2s[d]) # for THEN misread \cup {d} ELSE misread

(* After a read of nothing there is nothing to run.  variant: run it.      *)
RunAnyway(c) == talker' = [talker EXCEPT ![c] = "execute"]
ReadAgain(c) == talker' = [talker EXCEPT ![c] = "loop"]

(* read blocks until there is something to read or the client is gone; in  *)
(* that case it returns nothing, at once and for ever.                     *)
TalkerRead(c) ==
    LET d == the_socket[c] IN
    /\ alive /\ talker[c] = "read"
    /\ \/ /\ d # None /\ c2s[d] # <<>> /\ server_running
          /\ \E n \in 1 .. Len(c2s[d]) : Receive(d, n, "prompt")
          /\ talker' = [talker EXCEPT ![c] = "execute"]
          /\ UNCHANGED <<alive, s2c, peer>>
       \/ /\ d # None /\ c2s[d] # <<>> /\ ~server_running
          /\ \E n \in 1 .. Len(c2s[d]) :
                c2s' = [c2s EXCEPT ![d] = SubSeq(@, n + 1, Len(@))]
          /\ talker' = [talker EXCEPT ![c] = "done"]
          /\ Write(d, "exit")
          /\ UNCHANGED misread
       \/ /\ d = None \/ (c2s[d] = <<>> /\ peer[d] # "open")
          /\ ReadAgain(c)
          /\ UNCHANGED <<alive, channels, misread>>
    /\ UNCHANGED <<server_running, threads, the_socket, display, users>>

(* A command that parse runs puts a question, and get_input waits for the  *)
(* answer whether the server is still on or not.  While a client that has  *)
(* left is all there is to read, get_input tries again for ever; only the  *)
(* error of a reset connection makes it return, with nothing.              *)
Ask(c) ==
    /\ alive /\ talker[c] = "execute"
    /\ talker' = [talker EXCEPT ![c] = "ask"]
    /\ Write(the_socket[c], "question")
    /\ UNCHANGED <<server_running, threads, the_socket, display, users, c2s, misread>>

(* "sniffer on" starts the display thread once its questions are answered, *)
(* "sniffer off" stops it.  Bound: one client at a time has a display.     *)
StartDisplay(c) ==
    \/ UNCHANGED display
    \/ (\A d \in Clients : ~display[d]) /\ display' = [display EXCEPT ![c] = TRUE]
StopDisplay(c) == UNCHANGED display \/ display' = [display EXCEPT ![c] = FALSE]

GetInput(c) ==
    LET d == the_socket[c] IN
    /\ alive /\ talker[c] = "ask"
    /\ \/ \E n \in 1 .. Len(c2s[d]) : Receive(d, n, "question")
       \/ c2s[d] = <<>> /\ peer[d] = "reset" /\ UNCHANGED <<c2s, misread>>
    /\ talker' = [talker EXCEPT ![c] = "execute"]
    /\ StartDisplay(c)
    /\ UNCHANGED <<alive, server_running, threads, the_socket, users, s2c, peer>>

(* parse has run the command; its output is written, and then the prompt.  *)
Reply(c) ==
    /\ alive /\ talker[c] = "execute"
    /\ talker' = [talker EXCEPT ![c] = "prompt"]
    /\ StopDisplay(c)
    /\ Write(the_socket[c], "out")
    /\ UNCHANGED <<server_running, threads, the_socket, users, c2s, misread>>

Prompt(c) ==
    /\ alive /\ talker[c] = "prompt"
    /\ talker' = [talker EXCEPT ![c] = "loop"]
    /\ Write(the_socket[c], "prompt")
    /\ UNCHANGED <<server_running, threads, the_socket, display, users, c2s, misread>>

TalkerStep(c) ==
    TalkerStart(c) \/ TalkerLoop(c) \/ TalkerRead(c) \/ Prompt(c)
    \/ Ask(c) \/ GetInput(c) \/ Reply(c)

(* The display thread outlives the talker and the stay of its client.  It  *)
(* writes to the client five times a second: a frame if packets or a scan  *)
(* are to be shown, else no bytes at all, which only a connection that was *)
(* reset resents.  Bound: no frame while the client has something to read. *)
Frame(c) ==
    LET d == the_socket[c] IN
    /\ alive /\ display[c]
    /\ \/ s2c[d] = <<>> /\ Write(d, "frame")
       \/ alive' = (peer[d] # "reset") /\ UNCHANGED <<s2c, peer>>
    /\ UNCHANGED <<server_running, threads, talker, the_socket, display, users, c2s,
                   misread>>

-----------------------------------------------------------------------------
(* remote_access and threaded_text.                                        *)
Connect(c) ==
    /\ Unused(c, Clients, client, "off")
    /\ port # None
    /\ client' = [client EXCEPT ![c] = "probe"]
    /\ backlog' = Append(backlog, c)
    /\ UNCHANGED <<alive, server_running, listener, port, the_new_socket,
                   creator, talker, the_socket, display, told, shown, sent, ahead,
                   channels, misread>>

(* The first read only tests the connection: what it returns is dropped.   *)
Probe(c) ==
    /\ client[c] = "probe"
    /\ client' = [client EXCEPT ![c] = "typing"]
    /\ shown' = [shown EXCEPT ![c] = "prompt"]
    /\ s2c' = [s2c EXCEPT ![c] = <<>>]
    /\ UNCHANGED <<alive, server_running, threads, talker, the_socket, display, told,
                   sent, ahead, c2s, peer, misread>>

(* The text thread stops at an __Exit__ that begins a read and displays    *)
(* everything else.                                                        *)
TextRead(c) ==
    /\ client[c] = "typing" /\ ~told[c] /\ s2c[c] # <<>>
    /\ \E n \in 1 .. Len(s2c[c]) :
          LET asks   == {k \in 1 .. n : s2c[c][k] \in {"prompt", "question"}}
              halted == Head(s2c[c]) = "exit"
          IN  /\ s2c' = [s2c EXCEPT ![c] = SubSeq(@, n + 1, Len(@))]
              /\ told' = [told EXCEPT ![c] = halted]
              /\ IF halted \/ asks = {} THEN UNCHANGED shown
                 ELSE \E last \in asks :
                        /\ \A k \in asks : k <= last
                        /\ shown' = [shown EXCEPT ![c] = s2c[c][last]]
    /\ UNCHANGED <<alive, server_running, threads, talker, the_socket, display, client,
                   sent, ahead, c2s, peer, misread>>

(* The user enters a line for the server.  After it was sent, or lost      *)
(* because the_socket is -1, remote_access looks whether it has been told  *)
(* to stop.                                                                *)
Type(c) ==
    /\ client[c] = "typing" /\ sent < MaxLines
    /\ ahead' = IF shown[c] # "nothing" \/ told[c] THEN ahead ELSE ahead \cup {c}
    /\ shown' = [shown EXCEPT ![c] = "nothing"]
    /\ sent' = sent + 1
    /\ c2s' = [c2s EXCEPT ![c] = IF told[c] THEN @ ELSE Append(@, shown[c])]
    /\ client' = [client EXCEPT ![c] = IF told[c] THEN "stopped" ELSE @]
    /\ UNCHANGED <<alive, server_running, threads, talker, the_socket, display, told,
                   s2c, peer, misread>>

(* The user enters a line that the client answers itself (help, connect,   *)
(* server, navigator), with a prompt of its own: whoever does that at a    *)
(* question is shown a prompt although the command still waits.            *)
TypeLocal(c) ==
    /\ client[c] = "typing"
    /\ ahead' = IF shown[c] = "prompt" THEN ahead ELSE ahead \cup {c}
    /\ shown' = [shown EXCEPT ![c] = "prompt"]
    /\ client' = [client EXCEPT ![c] = IF told[c] THEN "stopped" ELSE @]
    /\ UNCHANGED <<alive, server_running, threads, talker, the_socket, display, told,
                   sent, channels, misread>>

(* The user enters exit: the loop ends, the socket stays open.             *)
UserExit(c) ==
    /\ client[c] = "typing"
    /\ client' = [client EXCEPT ![c] = "stopped"]
    /\ UNCHANGED <<alive, server_running, threads, talker, the_socket, display, told,
                   shown, sent, ahead, channels, misread>>

(* The client's process ends, and with it the connection.  Unread output   *)
(* makes TCP reset it instead of closing it.  (A "torn" connection is one  *)
(* left with a line unanswered, an answer unread or a sniffer running.)    *)
Leave(c) ==
    /\ client[c] \in {"typing", "stopped"}
    /\ client' = [client EXCEPT ![c] =
         IF s2c[c] = <<>> /\ c2s[c] = <<>> /\ talker[c] \notin {"execute", "prompt"}
            /\ ~display[c]
         THEN "left" ELSE "torn"]
    /\ peer' = [peer EXCEPT ![c] = IF s2c[c] = <<>> THEN "closed" ELSE "reset"]
    /\ s2c' = [s2c EXCEPT ![c] = <<>>]
    /\ told' = [told EXCEPT ![c] = FALSE] /\ shown' = [shown EXCEPT ![c] = "nothing"]
    /\ UNCHANGED <<alive, server_running, threads, talker, the_socket, display, sent,
                   ahead, c2s, misread>>

(* What clients do after the server has died is not modelled.              *)
ClientStep(c) ==
    /\ alive
    /\ \/ Connect(c) \/ Probe(c) \/ TextRead(c)
       \/ Type(c) \/ TypeLocal(c) \/ UserExit(c) \/ Leave(c)

-----------------------------------------------------------------------------
Next ==
    \/ Off \/ \E l \in Listeners : On(l) \/ ListenerStep(l)
    \/ \E c \in Clients : TalkerStep(c) \/ Frame(c) \/ ClientStep(c)

Spec == Init /\ [][Next]_vars

(* Threads run and are scheduled; users owe the program nothing.           *)
Fairness ==
    /\ \A l \in Listeners : WF_vars(ListenerStep(l))
    /\ \A c \in Clients : WF_vars(TalkerStep(c)) /\ WF_vars(TextRead(c))

FairSpec == Spec /\ Fairness

-----------------------------------------------------------------------------
(* A talker works on the connection it was created for, although it reads  *)
(* its descriptor from a variable that listener goes on to change          *)
(* (server.cpp:25, 94-98).                                                 *)
TalkerOwnsItsSocket ==
    \A c \in Clients : talker[c] \notin {"none", "start"} => the_socket[c] = c

(* "We want to read a line from the remote client" (server.cpp:117): what  *)
(* a command gets, or an answer, is one line and was typed at that prompt  *)
(* or question, unless the client typed before it was asked or asked its   *)
(* own program for help in the middle of a command.                        *)
OneLinePerCommand == misread \subseteq ahead

(* A client that leaves with every line answered, every answer read and no *)
(* sniffer of its own running, even at a question, does not bring the      *)
(* server down, whatever the server is told later (server.cpp:45-48,       *)
(* 55-56, sniff.cpp:411; only a reset connection raises SIGPIPE).          *)
QuietLeaverIsHarmless ==
    ~alive => \E c \in Clients : client[c] = "torn"

(* Once the server stays off, its port is free again (server.cpp:93-101).  *)
PortIsReleased == (<>[]~server_running) => <>[](~alive \/ port = None)

(* Once the server stays off, every talker ends but those that wait for    *)
(* the next line of a client that is still there (server.cpp:31-37), and   *)
(* those that wait for an answer: these do not notice that the server is   *)
(* off, nor that the client has left (server.cpp:118-120).                 *)
Settled(c) ==
    \/ talker[c] \in {"none", "done"}
    \/ talker[c] = "read" /\ c2s[c] = <<>> /\ peer[c] = "open"
    \/ talker[c] = "ask" /\ c2s[c] = <<>>
TalkersEnd ==
    (<>[]~server_running) => \A c \in Clients : <>[](~alive \/ Settled(c))
=============================================================================
