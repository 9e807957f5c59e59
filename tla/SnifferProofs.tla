----------------------------- MODULE SnifferProofs -----------------------------
(***************************************************************************)
(* Proofs about Sniffer, for any number of cases, structures and threads.  *)
(***************************************************************************)
EXTENDS Sniffer, TLAPS

(* In the middle of a command there is a structure; a start is under way   *)
(* only on one that says not sniffing.                                     *)
UnderWay ==
    /\ pc # "idle" => snifferState # None
    /\ pc \in {"device", "create", "display"} => ~sniffing[snifferState]

(* Memory that is not allocated yet says not sniffing.                     *)
Fresh == \A x \in States \ allocated : ~sniffing[x]

SnifferInv == TypeOK /\ Fresh /\ UnderWay /\ PsdNeedsSniffer /\ FlagsTellThreads

-----------------------------------------------------------------------------
LEMMA InitSnifferInv == Init => SnifferInv
  <1> SUFFICES ASSUME Init PROVE SnifferInv
    OBVIOUS
  <1>1. TypeOK
    BY BoundAssumption DEF Init, TypeOK
  <1>2. Fresh /\ UnderWay /\ PsdNeedsSniffer /\ FlagsTellThreads
    BY DEF Init, Fresh, UnderWay, PsdNeedsSniffer, FlagsTellThreads, Alive
  <1> QED
    BY <1>1, <1>2 DEF SnifferInv

(* Threads set no flag that says what runs, and none comes to life.        *)
LEMMA StepOfThread ==
    ASSUME SnifferInv, NEW t \in Threads, ThreadStep(t)
    PROVE  SnifferInv'
  <1>0. TypeOK
    BY DEF SnifferInv
  <1> USE DEF threadOnly, at, session, flags, structs, threads
  <1>1. /\ UNCHANGED <<session, allocated, sniffing, psd, showSniff, sniffThreads, stateOf,
                       cancelled>>
        /\ \A u \in Threads : capture[u] \in {"none", "dead"} => capture'[u] = capture[u]
    <2>1. CASE OpenStreams(t) \/ Receive(t) \/ Detect(t) \/ EndCapture(t)
      BY <1>0, <2>1 DEF OpenStreams, Receive, Detect, EndCapture, TypeOK
    <2>2. CASE Alert(t) \/ EndDisplay(t)
      BY <1>0, <2>2 DEF Alert, EndDisplay, TypeOK
    <2> QED
      BY <2>1, <2>2 DEF ThreadStep
  <1>2. TypeOK'
    <2>1. CASE OpenStreams(t)
      BY <1>0, <2>1 DEF OpenStreams, TypeOK
    <2>2. CASE Receive(t)
      <3>1. received[t] + 1 \in 0 .. MaxPackets
        BY <1>0, <2>2, BoundAssumption DEF Receive, TypeOK
      <3> QED
        BY <1>0, <2>2, <3>1 DEF Receive, TypeOK
    <2>3. CASE Detect(t)
      BY <1>0, <2>3 DEF Detect, TypeOK
    <2>4. CASE Alert(t)
      BY <1>0, <2>4 DEF Alert, TypeOK
    <2>5. CASE EndCapture(t)
      BY <1>0, <2>5 DEF EndCapture, TypeOK
    <2>6. CASE EndDisplay(t)
      BY <1>0, <2>6 DEF EndDisplay, TypeOK
    <2> QED
      BY <2>1, <2>2, <2>3, <2>4, <2>5, <2>6 DEF ThreadStep
  <1>3. Fresh' /\ UnderWay' /\ PsdNeedsSniffer'
    BY <1>1 DEF SnifferInv, Fresh, UnderWay, PsdNeedsSniffer
  <1>4. FlagsTellThreads'
    BY <1>1 DEF SnifferInv, FlagsTellThreads, Alive
  <1> QED
    BY <1>2, <1>3, <1>4 DEF SnifferInv

(* Commands that leave sniffing and the threads alone.                     *)
LEMMA SameThreads ==
    ASSUME SnifferInv, TypeOK', UnderWay', PsdNeedsSniffer',
           UNCHANGED <<sniffing, sniffThreads, threads>>, allocated \subseteq allocated',
           pc = "display" => pc' = "display" /\ snifferState' = snifferState
    PROVE  SnifferInv'
  BY DEF SnifferInv, Fresh, FlagsTellThreads, Alive, threads

(* stop_sniff: the threads the structure knows are all there are.          *)
LEMMA StopThreads ==
    ASSUME SnifferInv, snifferState \in States, CancelBoth(snifferState),
           pc' = "idle", UNCHANGED <<allocated, stateOf, capture, sniffThreads>>
    PROVE  Fresh' /\ UnderWay' /\ FlagsTellThreads'
  <1> DEFINE x == snifferState
  <1>0. TypeOK /\ Fresh /\ FlagsTellThreads
    BY DEF SnifferInv
  <1>1. /\ sniffing' = [sniffing EXCEPT ![x] = FALSE]
        /\ cancelled' = [cancelled EXCEPT ![sniffThreads[x]] = TRUE]
    BY DEF CancelBoth, Switched
  <1>2. ASSUME NEW t \in Threads, Alive(t)'
        PROVE  sniffThreads'[stateOf'[t]] = t /\ sniffing'[stateOf'[t]]
    <2>1. Alive(t) /\ cancelled'[t] = FALSE
      BY <1>0, <1>1, <1>2 DEF Alive, TypeOK
    <2>2. /\ sniffThreads[stateOf[t]] = t
          /\ sniffing[stateOf[t]] \/ stateOf[t] = x
      BY <1>0, <2>1 DEF FlagsTellThreads
    <2>3. stateOf[t] # x
      BY <1>0, <1>1, <2>1, <2>2 DEF TypeOK
    <2> QED
      BY <1>0, <1>1, <2>2, <2>3 DEF TypeOK
  <1>3. Fresh'
    BY <1>0, <1>1 DEF Fresh, TypeOK
  <1> QED
    BY <1>2, <1>3 DEF UnderWay, FlagsTellThreads

LEMMA StepOfCommand ==
    ASSUME SnifferInv, Command
    PROVE  SnifferInv'
  <1>0. TypeOK /\ Fresh /\ UnderWay /\ PsdNeedsSniffer /\ FlagsTellThreads
    BY DEF SnifferInv
  <1>a. snifferState # None => snifferState \in States /\ snifferState \in allocated
    BY <1>0 DEF TypeOK
  <1> USE DEF AtPrompt, goto, session, flags, structs, threads
  <1>1. ASSUME NEW c \in Cases, OpenCase(c) PROVE SnifferInv'
    BY <1>0, <1>1, SameThreads
    DEF OpenCase, ForgetSniffer, TypeOK, UnderWay, PsdNeedsSniffer
  <1>2. CASE CloseCase
    BY <1>0, <1>2, SameThreads DEF CloseCase, TypeOK, UnderWay, PsdNeedsSniffer
  <1>3. CASE StartSniff
    <2>1. CASE snifferState = None
      <3>1. PICK x \in States \ allocated : Allocate(x)
        BY <1>3, <2>1 DEF StartSniff, FirstOf
      <3>2. ~sniffing[x]
        BY <1>0 DEF Fresh
      <3>3. /\ snifferState' = x /\ allocated' = allocated \cup {x} /\ x \in States
            /\ pc = "idle" /\ pc' = "device"
            /\ UNCHANGED <<theCase, flags, sniffThreads, file, threads, received>>
        BY <1>3, <3>1 DEF StartSniff, Allocate
      <3>4. x # None
        BY <3>3, NoneAssumption
      <3>5. TypeOK'
        BY <1>0, <3>3 DEF TypeOK
      <3>6. UnderWay' /\ PsdNeedsSniffer'
        BY <1>0, <3>2, <3>3, <3>4 DEF UnderWay, PsdNeedsSniffer
      <3> QED
        BY <3>3, <3>5, <3>6, SameThreads
    <2>2. CASE snifferState # None
      BY <1>0, <1>3, <2>2, SameThreads
      DEF StartSniff, MayStart, TypeOK, UnderWay, PsdNeedsSniffer
    <2> QED
      BY <2>1, <2>2
  <1>4. CASE ChooseDevice
    BY <1>0, <1>4, SameThreads DEF ChooseDevice, TypeOK, UnderWay, PsdNeedsSniffer
  <1>5. CASE CreateCapture
    <2>1. CASE goto("idle") /\ UNCHANGED <<sniffThreads, threads>>
      BY <1>0, <1>5, <2>1, SameThreads
      DEF CreateCapture, TypeOK, UnderWay, PsdNeedsSniffer
    <2>2. ASSUME NEW t \in Threads, goto("display"),
                 sniffThreads' = [sniffThreads EXCEPT ![snifferState] = t],
                 stateOf' = [stateOf EXCEPT ![t] = snifferState],
                 capture' = [capture EXCEPT ![t] = "open"],
                 UNCHANGED <<display, cancelled>>
          PROVE  SnifferInv'
      <3>1. /\ snifferState \in States /\ ~sniffing[snifferState] /\ pc = "create"
            /\ UNCHANGED <<allocated, sniffing, psd, showSniff, scanDetected, file, received>>
        BY <1>0, <1>a, <1>5 DEF CreateCapture, UnderWay
      <3>2. TypeOK' /\ Fresh' /\ UnderWay' /\ PsdNeedsSniffer'
        BY <1>0, <2>2, <3>1 DEF TypeOK, Fresh, UnderWay, PsdNeedsSniffer
      <3>3. ASSUME NEW u \in Threads, Alive(u)'
            PROVE  /\ sniffThreads'[stateOf'[u]] = u
                   /\ sniffing'[stateOf'[u]]
                      \/ (pc' = "display" /\ stateOf'[u] = snifferState')
        <4>1. CASE u = t
          BY <1>0, <2>2, <3>1, <4>1 DEF TypeOK
        <4>2. CASE u # t
          <5>1. Alive(u) /\ stateOf'[u] = stateOf[u]
            BY <1>0, <2>2, <3>3, <4>2 DEF Alive, TypeOK
          <5>2. sniffThreads[stateOf[u]] = u /\ sniffing[stateOf[u]]
            BY <1>0, <3>1, <5>1 DEF FlagsTellThreads
          <5> QED
            BY <1>0, <2>2, <3>1, <5>1, <5>2 DEF TypeOK
        <4> QED
          BY <4>1, <4>2
      <3> QED
        BY <3>2, <3>3 DEF SnifferInv, FlagsTellThreads
    <2> QED
      BY <1>5, <2>1, <2>2 DEF CreateCapture, FirstOf
  <1>6. CASE CreateDisplay
    <2>1. PICK yes \in BOOLEAN, d \in {"on", "none"} :
            /\ showSniff' = [showSniff EXCEPT ![snifferState] = yes]
            /\ display' = [display EXCEPT ![sniffThreads[snifferState]] = d]
      BY <1>6 DEF CreateDisplay
    <2>2. /\ snifferState \in States /\ pc' = "idle" /\ pc = "display"
          /\ sniffing' = [sniffing EXCEPT ![snifferState] = TRUE]
          /\ UNCHANGED <<theCase, snifferState, allocated, psd, scanDetected, sniffThreads,
                         file, stateOf, capture, cancelled, received>>
      BY <1>0, <1>a, <1>6 DEF CreateDisplay, UnderWay
    <2>3. TypeOK'
      BY <1>0, <2>1, <2>2 DEF TypeOK
    <2>4. snifferState \in allocated
      BY <1>0, <1>a, <1>6 DEF CreateDisplay, UnderWay
    <2>5. Fresh' /\ UnderWay' /\ PsdNeedsSniffer'
      BY <1>0, <2>1, <2>2, <2>4 DEF TypeOK, Fresh, UnderWay, PsdNeedsSniffer
    <2>6. ASSUME NEW u \in Threads, Alive(u)'
          PROVE  sniffThreads'[stateOf'[u]] = u /\ sniffing'[stateOf'[u]]
      <3>1. Alive(u)
        BY <2>2, <2>6 DEF Alive
      <3> QED
        BY <1>0, <2>2, <3>1 DEF FlagsTellThreads, TypeOK
    <2> QED
      BY <2>3, <2>5, <2>6 DEF SnifferInv, FlagsTellThreads
  <1>7. CASE StopSniff
    <2>1. snifferState \in States /\ pc = "idle"
      BY <1>a, <1>7 DEF StopSniff
    <2>2. CASE psd[snifferState]
      BY <1>0, <1>7, <2>1, <2>2, SameThreads
      DEF StopSniff, MustAsk, TypeOK, UnderWay, PsdNeedsSniffer
    <2>3. CASE ~psd[snifferState]
      <3>1. /\ CancelBoth(snifferState)
            /\ UNCHANGED <<theCase, snifferState, pc, allocated, psd, scanDetected,
                           sniffThreads, file, stateOf, capture, received>>
        BY <1>7, <2>3 DEF StopSniff, MustAsk
      <3>2. TypeOK'
        BY <1>0, <3>1 DEF CancelBoth, Switched, TypeOK
      <3>3. PsdNeedsSniffer'
        BY <1>0, <2>1, <2>3, <3>1 DEF CancelBoth, Switched, TypeOK, PsdNeedsSniffer
      <3> QED
        BY <2>1, <3>1, <3>2, <3>3, StopThreads DEF SnifferInv
    <2> QED
      BY <2>2, <2>3
  <1>8. ASSUME NEW yes \in BOOLEAN, Confirm(yes) PROVE SnifferInv'
    <2>1. snifferState \in States /\ pc = "confirm" /\ pc' = "idle"
      BY <1>0, <1>a, <1>8 DEF Confirm, UnderWay
    <2>2. CASE yes
      <3>1. /\ CancelBoth(snifferState)
            /\ psd' = [psd EXCEPT ![snifferState] = FALSE]
            /\ scanDetected' = [scanDetected EXCEPT ![snifferState] = FALSE]
            /\ UNCHANGED <<theCase, snifferState, allocated, sniffThreads, file, stateOf,
                           capture, received>>
        BY <1>8, <2>2 DEF Confirm
      <3>2. TypeOK'
        BY <1>0, <2>1, <3>1 DEF CancelBoth, Switched, TypeOK
      <3>3. PsdNeedsSniffer'
        BY <1>0, <2>1, <3>1 DEF CancelBoth, Switched, TypeOK, PsdNeedsSniffer
      <3> QED
        BY <2>1, <3>1, <3>2, <3>3, StopThreads DEF SnifferInv
    <2>3. CASE ~yes
      BY <1>0, <1>8, <2>3, SameThreads DEF Confirm, TypeOK, UnderWay, PsdNeedsSniffer
    <2> QED
      BY <2>2, <2>3
  <1>9. CASE StartPsd \/ StopPsd \/ ShowOrHide
    <2>1. /\ snifferState \in States
          /\ UNCHANGED <<session, allocated, sniffing, sniffThreads, file, threads, received>>
      BY <1>a, <1>9 DEF StartPsd, StopPsd, ShowOrHide
    <2>2. TypeOK'
      BY <1>0, <1>9 DEF StartPsd, StopPsd, ShowOrHide, TypeOK
    <2>3. PsdNeedsSniffer'
      BY <1>0, <1>9, <2>1 DEF StartPsd, StopPsd, ShowOrHide, TypeOK, PsdNeedsSniffer
    <2> QED
      BY <1>0, <2>1, <2>2, <2>3, SameThreads DEF UnderWay
  <1> QED
    BY <1>1, <1>2, <1>3, <1>4, <1>5, <1>6, <1>7, <1>8, <1>9 DEF Command

LEMMA StepSnifferInv == SnifferInv /\ [Next]_vars => SnifferInv'
  <1> SUFFICES ASSUME SnifferInv, [Next]_vars PROVE SnifferInv'
    OBVIOUS
  <1>1. CASE UNCHANGED vars
    <2>1. TypeOK' /\ UnderWay' /\ PsdNeedsSniffer'
      BY <1>1 DEF vars, session, flags, structs, threads, SnifferInv, TypeOK, UnderWay,
                  PsdNeedsSniffer
    <2> QED
      BY <1>1, <2>1, SameThreads DEF vars, session, flags, structs
  <1> QED
    BY <1>1, StepOfThread, StepOfCommand DEF Next

LEMMA SnifferInvHolds == Spec => []SnifferInv
  BY InitSnifferInv, StepSnifferInv, PTL DEF Spec

-----------------------------------------------------------------------------
(* Every variable keeps its type.                                          *)
THEOREM TypeCorrect == Spec => []TypeOK
  <1>1. SnifferInv => TypeOK
    BY DEF SnifferInv
  <1> QED
    BY <1>1, SnifferInvHolds, PTL

(* Port scan detection, or the display of packets, is never on without the *)
(* sniffer (sniff.cpp:415-442, 521-578).                                   *)
THEOREM PsdOnlySniffing == Spec => []PsdNeedsSniffer
  <1>1. SnifferInv => PsdNeedsSniffer
    BY DEF SnifferInv
  <1> QED
    BY <1>1, SnifferInvHolds, PTL

(* A structure knows the one capture thread of its own that is not         *)
(* cancelled, and there is none when it says not sniffing                  *)
(* (sniff.cpp:457-460, 498-511, 540-544).                                  *)
THEOREM OneCapture == Spec => []FlagsTellThreads
  <1>1. SnifferInv => FlagsTellThreads
    BY DEF SnifferInv
  <1> QED
    BY <1>1, SnifferInvHolds, PTL
=============================================================================
