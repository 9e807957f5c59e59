------------------------------- MODULE Sniffer -------------------------------
(***************************************************************************)
(* The packet sniffer of one session (sniff.cpp, sniff.h): the commands    *)
(* sniffer and psd, which may wait for an answer in the middle, and the    *)
(* capture and display threads a start creates.                            *)
(*                                                                         *)
(* start_sniff keeps its SnifferState on the heap; open_case forgets it.   *)
(* A cancelled thread goes on until its next cancellation point, and       *)
(* processPacket has none.  Of a packet only its number counts, and what   *)
(* the detector makes of it is any of its two answers.                     *)
(*                                                                         *)
(* A definition marked "variant" is not the code: it is a mistake that the *)
(* definition after it could have, and that a property has to notice.      *)
(***************************************************************************)
EXTENDS Naturals

CONSTANTS
    Cases,
    States,      \* bound: SnifferState structures allocated
    Threads,     \* bound: starts that get as far as pthread_create
    MaxPackets,  \* bound: packets a thread receives
    None

ASSUME BoundAssumption == MaxPackets \in Nat
ASSUME NoneAssumption == None \notin Cases \cup States \cup Threads

VARIABLES
    theCase,       \* the open case of the session
    snifferState,  \* Case.snifferState
    pc,            \* where the session is in a command
    allocated, sniffing, psd, showSniff, scanDetected, sniffThreads, file,
                   \* the SnifferState structures and their fields
    stateOf,       \* stateOf[t]: the structure thread pair t was given
    capture,       \* where capture thread t is
    display,       \* where display thread t is
    cancelled,     \* pthread_cancel was called for pair t
    received       \* packets capture thread t has logged

session == <<theCase, snifferState, pc>>
flags   == <<sniffing, psd, showSniff, scanDetected>>
structs == <<allocated, flags, sniffThreads, file>>
threads == <<stateOf, capture, display, cancelled>>
vars    == <<session, structs, threads, received>>

TypeOK ==
    /\ theCase \in Cases \cup {None}
    /\ snifferState \in allocated \cup {None}
    /\ pc \in {"idle", "device", "create", "display", "confirm"}
    /\ allocated \subseteq States
    /\ sniffing \in [States -> BOOLEAN] /\ psd \in [States -> BOOLEAN]
    /\ showSniff \in [States -> BOOLEAN] /\ scanDetected \in [States -> BOOLEAN]
    /\ sniffThreads \in [States -> Threads \cup {None}]
    /\ file \in [States -> Cases \cup {None}]
    /\ stateOf \in [Threads -> States \cup {None}]
    /\ capture \in [Threads -> {"none", "open", "loop", "packet", "alert", "dead"}]
    /\ display \in [Threads -> {"none", "on", "dead"}]
    /\ cancelled \in [Threads -> BOOLEAN]
    /\ received \in [Threads -> 0 .. MaxPackets]

Init ==
    /\ theCase = None /\ snifferState = None /\ pc = "idle"
    /\ allocated = {}
    /\ sniffing = [x \in States |-> FALSE] /\ psd = [x \in States |-> FALSE]
    /\ showSniff = [x \in States |-> FALSE]
    /\ scanDetected = [x \in States |-> FALSE]
    /\ sniffThreads = [x \in States |-> None] /\ file = [x \in States |-> None]
    /\ stateOf = [t \in Threads |-> None]
    /\ capture = [t \in Threads |-> "none"] /\ display = [t \in Threads |-> "none"]
    /\ cancelled = [t \in Threads |-> FALSE]
    /\ received = [t \in Threads |-> 0]

-----------------------------------------------------------------------------
(* A command may be typed: the session is at its prompt; parse lets the    *)
(* sniffer commands through only when a case is open.                      *)
AtPrompt == pc = "idle" /\ theCase # None

goto(label) == pc' = label /\ UNCHANGED <<theCase, snifferState>>

ForgetSniffer == snifferState' = None

(* open_case and close_case, as far as the sniffer is concerned.           *)
OpenCase(c) ==
    /\ pc = "idle" /\ theCase = None
    /\ theCase' = c
    /\ ForgetSniffer
    /\ UNCHANGED <<pc, structs, threads, received>>

CloseCase ==
    /\ AtPrompt
    /\ theCase' = None
    /\ UNCHANGED <<pc, snifferState, structs, threads, received>>

(* New structures and threads are told apart by nothing but their names,   *)
(* so the names are taken in a fixed order.                                *)
FirstOf(unused) == {x \in unused : x = CHOOSE y \in unused : TRUE}

(* Only a sniffer that is not running may start; cancelled threads of the  *)
(* last start may still be there.                                          *)
MayStart(x) == ~sniffing[x]

Allocate(x) == snifferState' = x /\ allocated' = allocated \cup {x}

(* sniffer on: allocates the structure the first time, then asks for the   *)
(* device until it is told one there is, and whether to show the packets.  *)
StartSniff ==
    /\ AtPrompt
    /\ IF snifferState = None
       THEN \E x \in FirstOf(States \ allocated) : Allocate(x)
       ELSE MayStart(snifferState) /\ UNCHANGED <<snifferState, allocated>>
    /\ pc' = "device"
    /\ UNCHANGED <<theCase, flags, sniffThreads, file, threads, received>>

ChooseDevice ==
    /\ pc = "device"
    /\ goto("create")
    /\ file' = [file EXCEPT ![snifferState] = theCase]
    /\ UNCHANGED <<allocated, flags, sniffThreads, threads, received>>

(* The capture thread is created; if that fails the command ends.          *)
CreateCapture ==
    /\ pc = "create"
    /\ \/ /\ goto("idle")
          /\ UNCHANGED <<sniffThreads, threads>>
       \/ \E t \in FirstOf({u \in Threads : capture[u] = "none"}) :
             /\ goto("display")
             /\ sniffThreads' = [sniffThreads EXCEPT ![snifferState] = t]
             /\ stateOf' = [stateOf EXCEPT ![t] = snifferState]
             /\ capture' = [capture EXCEPT ![t] = "open"]
             /\ UNCHANGED <<display, cancelled>>
    /\ UNCHANGED <<allocated, flags, file, received>>

(* The flags are set when the capture thread may already be at work; the   *)
(* result of creating the display thread is not looked at.                 *)
CreateDisplay ==
    /\ pc = "display"
    /\ goto("idle")
    /\ sniffing' = [sniffing EXCEPT ![snifferState] = TRUE]
    /\ \E yes \in BOOLEAN :
          showSniff' = [showSniff EXCEPT ![snifferState] = yes]
    /\ \E d \in {"on", "none"} :
          display' = [display EXCEPT ![sniffThreads[snifferState]] = d]
    /\ UNCHANGED <<allocated, psd, scanDetected, sniffThreads, file, stateOf,
                   capture, cancelled, received>>

(* The end of stop_sniff.  variant: only the display thread is cancelled.  *)
Switched(x) ==
    /\ sniffing' = [sniffing EXCEPT ![x] = FALSE]
    /\ showSniff' = [showSniff EXCEPT ![x] = FALSE]
CancelDisplay(x) ==
    /\ Switched(x)
    /\ display' = [display EXCEPT ![sniffThreads[x]] = "dead"]
    /\ UNCHANGED cancelled
CancelBoth(x) ==
    /\ Switched(x)
    /\ cancelled' = [cancelled EXCEPT ![sniffThreads[x]] = TRUE]
    /\ UNCHANGED display

(* sniffer off, without port scan detection.  variant: never ask.          *)
NeverAsk(x) == FALSE
MustAsk(x) == psd[x]

StopSniff ==
    LET x == snifferState IN
    /\ AtPrompt
    /\ x # None /\ sniffing[x]
    /\ IF MustAsk(x)
       THEN goto("confirm") /\ UNCHANGED <<structs, threads>>
       ELSE /\ CancelBoth(x)
            /\ UNCHANGED <<session, allocated, psd, scanDetected, sniffThreads,
                           file, stateOf, capture>>
    /\ UNCHANGED received

(* "This will also stop port scan detection. Continue? [y/n]"              *)
Confirm(yes) ==
    LET x == snifferState IN
    /\ pc = "confirm"
    /\ goto("idle")
    /\ IF yes
       THEN /\ CancelBoth(x)
            /\ psd' = [psd EXCEPT ![x] = FALSE]
            /\ scanDetected' = [scanDetected EXCEPT ![x] = FALSE]
            /\ UNCHANGED <<allocated, sniffThreads, file, stateOf, capture>>
       ELSE UNCHANGED <<structs, threads>>
    /\ UNCHANGED received

StartPsd ==
    LET x == snifferState IN
    /\ AtPrompt
    /\ x # None /\ ~psd[x] /\ sniffing[x]
    /\ psd' = [psd EXCEPT ![x] = TRUE]
    /\ UNCHANGED <<session, allocated, sniffing, showSniff, scanDetected,
                   sniffThreads, file, threads, received>>

StopPsd ==
    LET x == snifferState IN
    /\ AtPrompt
    /\ x # None /\ psd[x]
    /\ psd' = [psd EXCEPT ![x] = FALSE]
    /\ scanDetected' = [scanDetected EXCEPT ![x] = FALSE]
    /\ UNCHANGED <<session, allocated, sniffing, showSniff, sniffThreads, file,
                   threads, received>>

(* sniffer show and sniffer hide.                                          *)
ShowOrHide ==
    LET x == snifferState IN
    /\ AtPrompt
    /\ x # None /\ sniffing[x]
    /\ showSniff' = [showSniff EXCEPT ![x] = ~@]
    /\ UNCHANGED <<session, allocated, sniffing, psd, scanDetected, sniffThreads,
                   file, threads, received>>

Command ==
    \/ CloseCase \/ StartSniff \/ ChooseDevice \/ CreateCapture
    \/ CreateDisplay \/ StopSniff \/ StartPsd \/ StopPsd \/ ShowOrHide
    \/ \E c \in Cases : OpenCase(c)
    \/ \E yes \in BOOLEAN : Confirm(yes)

-----------------------------------------------------------------------------
at(t, label) == capture' = [capture EXCEPT ![t] = label]
threadOnly == UNCHANGED <<session, stateOf, display, cancelled>>

(* sniff: the device and the output streams are opened.  If the device     *)
(* cannot be used pcap_loop returns at once and the thread ends, while     *)
(* everybody else takes the sniffer for running.                           *)
OpenStreams(t) ==
    /\ capture[t] = "open"
    /\ at(t, "loop") \/ at(t, "dead")
    /\ threadOnly /\ UNCHANGED <<structs, received>>

(* processPacket: the packet is logged, in the files of the case that the  *)
(* structure names.                                                        *)
Receive(t) ==
    /\ capture[t] = "loop" /\ received[t] < MaxPackets
    /\ at(t, "packet")
    /\ received' = [received EXCEPT ![t] = @ + 1]
    /\ threadOnly /\ UNCHANGED structs

(* psdProcessPacket, when detection is on, may find a scan ...             *)
Detect(t) ==
    /\ capture[t] = "packet"
    /\ at(t, "loop") \/ (psd[stateOf[t]] /\ at(t, "alert"))
    /\ threadOnly /\ UNCHANGED <<structs, received>>

(* ... and alertScan reports it.                                           *)
Alert(t) ==
    /\ capture[t] = "alert"
    /\ at(t, "loop")
    /\ scanDetected' = [scanDetected EXCEPT ![stateOf[t]] = TRUE]
    /\ threadOnly
    /\ UNCHANGED <<allocated, sniffing, psd, showSniff, sniffThreads, file, received>>

(* Between two packets cancellation is enabled.  variant: processPacket    *)
(* disables it for good.                                                   *)
Disabled(t) == received[t] = 0
Enabled(t) == TRUE

(* A cancelled capture thread ends while it waits for a packet.  (Its raw  *)
(* stream is neither flushed nor closed.)                                  *)
EndCapture(t) ==
    /\ capture[t] \in {"open", "loop"} /\ cancelled[t] /\ Enabled(t)
    /\ at(t, "dead")
    /\ threadOnly /\ UNCHANGED <<structs, received>>

EndDisplay(t) ==
    /\ display[t] = "on" /\ cancelled[t]
    /\ display' = [display EXCEPT ![t] = "dead"]
    /\ UNCHANGED <<session, structs, stateOf, capture, cancelled, received>>

ThreadStep(t) ==
    \/ OpenStreams(t) \/ Receive(t) \/ Detect(t) \/ Alert(t)
    \/ EndCapture(t) \/ EndDisplay(t)

Next == Command \/ \E t \in Threads : ThreadStep(t)

Spec == Init /\ [][Next]_vars

(* Threads are scheduled, and a cancelled thread reaches the wait for the  *)
(* next packet, where it ends: packets do not come without a pause.        *)
FairSpec ==
    /\ Spec
    /\ \A t \in Threads :
          /\ WF_vars(Detect(t)) /\ WF_vars(Alert(t)) /\ WF_vars(OpenStreams(t))
          /\ SF_vars(EndCapture(t)) /\ WF_vars(EndDisplay(t))

-----------------------------------------------------------------------------
Alive(t) == capture[t] \notin {"none", "dead"} /\ ~cancelled[t]

(* "(sniffer must be on)" (cli.cpp:76): port scan detection is never on,   *)
(* and no packets are shown, without the sniffer, through stops, refused   *)
(* stops and restarts (sniff.cpp:415-442, 521-578).                        *)
PsdNeedsSniffer == \A x \in States : psd[x] \/ showSniff[x] => sniffing[x]

(* What start_sniff started for a structure stop_sniff stops: at most one  *)
(* of its capture threads is not cancelled, it is the one the structure    *)
(* knows, and there is none when the structure says not sniffing and no    *)
(* start is under way (sniff.cpp:457-460, 498-511, 540-544).               *)
FlagsTellThreads ==
    \A t \in Threads : Alive(t) =>
        /\ sniffThreads[stateOf[t]] = t
        /\ sniffing[stateOf[t]] \/ (pc = "display" /\ stateOf[t] = snifferState)

(* A cancelled pair of threads ends (sniff.cpp:278, 304, 540-541).         *)
CancelledThreadsEnd ==
    \A t \in Threads :
        cancelled[t] ~> (capture[t] = "dead" /\ display[t] \in {"none", "dead"})
=============================================================================
