------------------------- MODULE StreamServerProofs -------------------------
(* What StreamServer promises for every set of requests, any number of        *)
(* recorders and any buffer sizes: its types, that only the newest request    *)
(* lives, and that its cancel function is never lost.                         *)
EXTENDS StreamServer, FiniteSets, FiniteSetTheorems, TLAPS

(* The groups of variables an action leaves alone are always expanded. *)
USE DEF serverVars, locals, observed

\* The inductive strengthening of OnlyNewestLives and CancelReachable: ids are
\* unique among the requests that hold one, none is beyond the counter, a
\* request is cancelled only after it took the slot, and the slot names the
\* newest request while that one is inside the handler.
SlotInv ==
    /\ \A r \in Requests : pc[r] \in Holding => myID[r] <= streamID
    /\ \A r, q \in Requests :
          pc[r] \in Holding /\ pc[q] \in Holding /\ myID[r] = myID[q] => r = q
    /\ \A r \in cancelled : pc[r] \notin {"idle", "enter", "refused"}
    /\ streamCancel # None =>
          pc[streamCancel] \in Holding /\ myID[streamCancel] = streamID
    /\ OnlyNewestLives
    /\ CancelReachable

\* A function on 1..n is a sequence of its values.
LEMMA SeqFromFunction ==
    ASSUME NEW S, NEW n \in Nat, NEW f \in [1..n -> S]
    PROVE  f \in Seq(S)
OBVIOUS

\* Replacing one channel by a sequence of chunks keeps the type of chan.
LEMMA ChanUpdate ==
    ASSUME NEW S, NEW n \in Nat, NEW c \in [1..n -> Seq(S)], NEW g, NEW s,
           g \in 1..n => s \in Seq(S)
    PROVE  [c EXCEPT ![g] = s] \in [1..n -> Seq(S)]
<1>1. CASE g \in 1..n
  BY <1>1
<1>2. CASE g \notin 1..n
  <2>1. [c EXCEPT ![g] = s] = c
    BY <1>2
  <2> QED BY <2>1
<1> QED BY <1>1, <1>2

\* What is left of a channel after a receive is a sequence of chunks.
LEMMA TailType ==
    ASSUME NEW S, NEW s \in Seq(S), s # <<>>
    PROVE  Tail(s) \in Seq(S)
OBVIOUS

\* Whatever the recorder loop does, channels and handlers stay as they are.
LEMMA SourceFrame == SourceStep => UNCHANGED <<chan, handlerVars>>
BY DEF SourceStep, StartRecorder, PublishRecorder, PumpExit, UnpublishRecorder

\* Type correctness: every step of the handlers and of the recorder loop keeps
\* the variables in their sets (all actions of stream.go's model).
THEOREM TypeCorrect == Spec => []TypeOK
<1>1. Init => TypeOK
  <2> SUFFICES ASSUME Init PROVE TypeOK
    OBVIOUS
  <2>1. pump = 0 /\ slot = 0 /\ opened = 0 /\ fresh \in BOOLEAN
    BY DEF Init, Source!Init
  <2>2. /\ chan \in [Recorders -> Seq(SUBSET Requests)]
        /\ fed \in [Requests -> {"nothing", "fresh", "stale"}]
    BY DEF Init
  <2>3. /\ pc \in [Requests -> Labels]
        /\ src \in [Requests -> 0..MaxRecorders]
        /\ myID \in [Requests -> Nat]
        /\ buffered \in [Requests -> 0..Batch]
    BY StreamServerAssumption DEF Init, Labels
  <2>4. /\ streamID \in Nat /\ streamCancel \in Requests \cup {None}
        /\ active \in Int /\ lastPlay \in Requests \cup {None}
        /\ cancelled \subseteq Requests /\ closed \subseteq Requests
    BY DEF Init
  <2> QED BY <2>1, <2>2, <2>3, <2>4, StreamServerAssumption DEF TypeOK
<1>2. TypeOK /\ [Next]_vars => TypeOK'
  <2> SUFFICES ASSUME TypeOK, [Next]_vars PROVE TypeOK'
    OBVIOUS
  <2> USE StreamServerAssumption DEF TypeOK, Recorders, Labels, GoTo,
          recorderVars, swapVars
  <2>1. CASE SourceStep
    <3> USE DEF handlerVars
    <3>1. CASE StartRecorder BY <2>1, <3>1 DEF StartRecorder, Source!Start
    <3>2. CASE PublishRecorder BY <2>1, <3>2 DEF PublishRecorder, Source!Publish
    <3>3. CASE PumpExit BY <2>1, <3>3 DEF PumpExit, Source!PumpEnds
    <3>4. CASE UnpublishRecorder
      BY <2>1, <3>4 DEF UnpublishRecorder, Source!Unpublish
    <3> QED BY <2>1, <3>1, <3>2, <3>3, <3>4 DEF SourceStep
  <2>2. CASE PumpSend
    <3>1. pump \in 1..MaxRecorders
      BY <2>2 DEF PumpSend
    <3>2. Append(chan[pump], {}) \in Seq(SUBSET Requests)
      BY <3>1
    <3> QED BY <2>2, <3>1, <3>2 DEF PumpSend
  <2>4. ASSUME NEW r \in Requests, Request(r) PROVE TypeOK'
    <3>1. CASE Arrive(r)
      <4>1. CASE GoTo(r, "refused") /\ UNCHANGED src
        BY <3>1, <4>1 DEF Arrive
      <4>2. CASE GoTo(r, "enter") /\ src' = [src EXCEPT ![r] = slot]
        BY <3>1, <4>2 DEF Arrive
      <4> QED BY <3>1, <4>1, <4>2 DEF Arrive
    <3>2. CASE Enter(r)
      BY <3>2 DEF Enter
    <3>3. CASE BeginFlush(r)
      <4> DEFINE c == chan[src[r]]
                 t == [i \in 1..Len(c) |-> c[i] \cup {r}]
      <4>1. chan' = [chan EXCEPT ![src[r]] = t]
        BY <3>3 DEF BeginFlush
      <4>2. ASSUME src[r] \in 1..MaxRecorders PROVE t \in Seq(SUBSET Requests)
        <5>1. c \in Seq(SUBSET Requests)
          BY <4>2
        <5>2. t \in [1..Len(c) -> SUBSET Requests] /\ Len(c) \in Nat
          BY <5>1
        <5> QED BY <5>2, SeqFromFunction
      <4>3. chan' \in [1..MaxRecorders -> Seq(SUBSET Requests)]
        <5> HIDE DEF t
        <5> QED BY <4>1, <4>2, ChanUpdate
      <4> QED BY <3>3, <4>3 DEF BeginFlush
    <3>4. CASE Drain(r)
      <4> DEFINE t == Tail(chan[src[r]])
      <4>1. chan' = [chan EXCEPT ![src[r]] = t]
        BY <3>4 DEF Drain
      <4>2. src[r] \in 1..MaxRecorders => t \in Seq(SUBSET Requests)
        BY <3>4, TailType DEF Drain
      <4>3. chan' \in [1..MaxRecorders -> Seq(SUBSET Requests)]
        <5> HIDE DEF t
        <5> QED BY <4>1, <4>2, ChanUpdate
      <4> QED BY <3>4, <4>3 DEF Drain
    <3>5. CASE Take(r)
      <4> DEFINE t == Tail(chan[src[r]])
      <4>1. chan' = [chan EXCEPT ![src[r]] = t]
        BY <3>5 DEF Take
      <4>2. src[r] \in 1..MaxRecorders => t \in Seq(SUBSET Requests)
        BY <3>5, TailType DEF Take
      <4>3. chan' \in [1..MaxRecorders -> Seq(SUBSET Requests)]
        <5> HIDE DEF t
        <5> QED BY <4>1, <4>2, ChanUpdate
      <4>4. fed' \in [Requests -> {"nothing", "fresh", "stale"}]
        BY <3>5 DEF Take
      <4>5. \/ pc' = [pc EXCEPT ![r] = "write"] /\ UNCHANGED buffered
            \/ /\ UNCHANGED pc /\ buffered[r] < Batch
               /\ buffered' = [buffered EXCEPT ![r] = buffered[r] + 1]
        BY <3>5 DEF Take
      <4>6. pc' \in [Requests -> Labels]
        BY <4>5
      <4>7. buffered' \in [Requests -> 0..Batch]
        <5>1. CASE UNCHANGED buffered
          BY <5>1
        <5>2. CASE /\ buffered[r] < Batch
                   /\ buffered' = [buffered EXCEPT ![r] = buffered[r] + 1]
          <6>1. buffered[r] + 1 \in 0..Batch
            BY <5>2
          <6> QED BY <5>2, <6>1
        <5> QED BY <4>5, <5>1, <5>2
      <4>8. UNCHANGED <<recorderVars, swapVars, src, myID, active, closed, lastPlay>>
        BY <3>5 DEF Take
      <4> QED BY <4>3, <4>4, <4>6, <4>7, <4>8
    <3>6. CASE EndFlush(r)
      BY <3>6 DEF EndFlush
    <3>7. CASE Play(r)
      BY <3>7 DEF Play
    <3>8. CASE WriteHeader(r)
      BY <3>8 DEF WriteHeader
    <3>9. CASE WriteReturns(r)
      BY <3>9 DEF WriteReturns
    <3>10. CASE StopStream(r)
      BY <3>10 DEF StopStream
    <3>11. CASE Leave(r)
      BY <3>11 DEF Leave
    <3>12. CASE Cleanup(r)
      BY <3>12 DEF Cleanup
    <3>13. CASE Disconnect(r)
      BY <3>13 DEF Disconnect
    <3> QED BY <2>4, <3>1, <3>2, <3>3, <3>4, <3>5, <3>6, <3>7, <3>8, <3>9,
               <3>10, <3>11, <3>12, <3>13 DEF Request
  <2>5. CASE UNCHANGED vars
    BY <2>5 DEF vars, handlerVars
  <2> QED BY <2>1, <2>2, <2>4, <2>5 DEF Next
<1> QED BY <1>1, <1>2, PTL DEF Spec

\* The steps that touch neither the slot nor any id, and keep every request on
\* its side of the streamMu sections, keep SlotInv.
LEMMA SlotFrame ==
    ASSUME TypeOK, SlotInv,
           UNCHANGED <<swapVars, myID>>,
           \A r \in Requests :
              \/ pc'[r] = pc[r]
              \/ pc[r] \in Holding /\ pc'[r] \in Holding
              \/ pc[r] = "idle" /\ pc'[r] \in {"enter", "refused"}
    PROVE  SlotInv'
BY DEF SlotInv, OnlyNewestLives, CancelReachable, TypeOK, swapVars, Holding

\* SlotInv is inductive: ids grow with each entry and are never shared, so a
\* cleanup that compares ids erases only its own cancel function.
LEMMA SlotStep == TypeOK /\ SlotInv /\ [Next]_vars => SlotInv'
<1> SUFFICES ASSUME TypeOK, SlotInv, [Next]_vars PROVE SlotInv'
  OBVIOUS
<1>1. CASE SourceStep \/ PumpSend \/ UNCHANGED vars
  <2>1. UNCHANGED <<swapVars, myID, pc>>
    BY <1>1, SourceFrame DEF PumpSend, vars, handlerVars, swapVars
  <2> QED BY <2>1, SlotFrame
<1>2. ASSUME NEW r \in Requests, Request(r) PROVE SlotInv'
  <2>1. CASE Enter(r)
    <3>1. pc' = [pc EXCEPT ![r] = "flush"] /\ pc[r] = "enter"
      BY <2>1 DEF Enter, GoTo
    <3>2. /\ myID' = [myID EXCEPT ![r] = streamID + 1]
          /\ streamID' = streamID + 1
          /\ streamCancel' = r
          /\ cancelled' = cancelled \cup ({streamCancel} \ {None})
      BY <2>1 DEF Enter
    <3>3. r \notin cancelled'
      BY <3>1, <3>2 DEF SlotInv, Holding
    <3>4. ASSUME NEW q \in Requests, q # r, pc'[q] \in Holding
          PROVE  /\ pc[q] \in Holding
                 /\ myID'[q] = myID[q]
                 /\ myID[q] <= streamID
                 /\ q \in cancelled'
      <4>1. pc[q] \in Holding /\ myID'[q] = myID[q]
        BY <3>1, <3>2, <3>4 DEF TypeOK
      <4>2. myID[q] <= streamID
        BY <4>1 DEF SlotInv
      <4>3. q \in cancelled \/ q = streamCancel
        BY <4>1 DEF SlotInv, OnlyNewestLives, CancelReachable
      <4>4. q # None
        BY StreamServerAssumption
      <4> QED BY <3>2, <4>1, <4>2, <4>3, <4>4
    <3>5. pc'[r] \in Holding /\ myID'[r] = streamID'
      BY <3>1, <3>2 DEF TypeOK, Holding
    <3>6. \A q \in cancelled' : pc'[q] \notin {"idle", "enter", "refused"}
      BY <3>1, <3>2 DEF SlotInv, Holding, TypeOK
    <3>7. \A q \in Requests : q # r /\ pc'[q] \in Holding => myID'[q] < streamID'
      BY <3>2, <3>4 DEF TypeOK
    <3>8. OnlyNewestLives'
      BY <3>3, <3>4, <3>5, <3>7 DEF OnlyNewestLives, TypeOK
    <3>9. CancelReachable'
      BY <3>2, <3>7 DEF CancelReachable, TypeOK
    <3>10. \A p, q \in Requests :
             pc'[p] \in Holding /\ pc'[q] \in Holding /\ myID'[p] = myID'[q]
               => p = q
      <4>1. SUFFICES ASSUME NEW p \in Requests, NEW q \in Requests,
                            pc'[p] \in Holding, pc'[q] \in Holding,
                            myID'[p] = myID'[q]
                     PROVE  p = q
        OBVIOUS
      <4>2. CASE p # r /\ q # r
        BY <3>4, <4>1, <4>2 DEF SlotInv
      <4>3. CASE p = r \/ q = r
        <5>1. streamID' \in Nat /\ myID'[p] \in Nat
          BY <3>2 DEF TypeOK
        <5> QED BY <3>5, <3>7, <4>1, <4>3, <5>1
      <4> QED BY <4>2, <4>3
    <3>11. \A q \in Requests : pc'[q] \in Holding => myID'[q] <= streamID'
      BY <3>2, <3>5, <3>7 DEF TypeOK
    <3> QED BY <3>2, <3>5, <3>6, <3>8, <3>9, <3>10, <3>11 DEF SlotInv
  <2>2. CASE Cleanup(r)
    <3>1. /\ pc' = [pc EXCEPT ![r] = "done"] /\ pc[r] = "cleanup"
          /\ streamCancel' = IF streamID = myID[r] THEN None ELSE streamCancel
          /\ UNCHANGED <<streamID, cancelled, myID>>
      BY <2>2 DEF Cleanup, GoTo
    <3>2. \A q \in Requests : pc'[q] \in Holding => q # r /\ pc[q] \in Holding
      BY <3>1 DEF TypeOK, Holding
    <3>3. OnlyNewestLives'
      BY <3>1, <3>2 DEF OnlyNewestLives, SlotInv
    <3>4. CancelReachable'
      <4>1. SUFFICES ASSUME NEW q \in Requests, pc'[q] \in Holding,
                            myID'[q] = streamID'
                     PROVE  streamCancel' = q
        BY DEF CancelReachable
      <4>2. myID[r] # streamID
        BY <3>1, <3>2, <4>1 DEF SlotInv, Holding
      <4> QED BY <3>1, <3>2, <4>1, <4>2 DEF SlotInv, CancelReachable
    <3>5. streamCancel' # None => pc'[streamCancel'] \in Holding
      <4>1. SUFFICES ASSUME streamCancel' # None
                     PROVE  pc'[streamCancel'] \in Holding
        OBVIOUS
      <4>2. streamCancel' = streamCancel /\ myID[r] # streamID
        BY <3>1, <4>1
      <4>3. PICK q \in Requests : q = streamCancel
        BY <4>1, <4>2 DEF TypeOK
      <4>4. pc[q] \in Holding
        BY <4>1, <4>2, <4>3 DEF SlotInv
      <4>5. q # r
        BY <4>1, <4>2, <4>3 DEF SlotInv
      <4> QED BY <3>1, <4>2, <4>3, <4>4, <4>5 DEF TypeOK
    <3> QED BY <3>1, <3>2, <3>3, <3>4, <3>5 DEF SlotInv, TypeOK
  <2>3. CASE ~Enter(r) /\ ~Cleanup(r)
    <3>1. UNCHANGED <<swapVars, myID>>
      BY <1>2, <2>3 DEF Request, Arrive, BeginFlush, Drain, EndFlush, Play,
         WriteHeader, Take, WriteReturns, StopStream, Leave, Disconnect, swapVars
    <3>2. \A q \in Requests :
              \/ pc'[q] = pc[q]
              \/ pc[q] \in Holding /\ pc'[q] \in Holding
              \/ pc[q] = "idle" /\ pc'[q] \in {"enter", "refused"}
      BY <1>2, <2>3 DEF Request, Arrive, BeginFlush, Drain, EndFlush, Play,
         WriteHeader, Take, WriteReturns, StopStream, Leave, Disconnect, GoTo,
         Holding, TypeOK
    <3> QED BY <3>1, <3>2, SlotFrame
  <2> QED BY <2>1, <2>2, <2>3
<1> QED BY <1>1, <1>2 DEF Next

\* Hot-swap leaves one live stream, for every set of requests and every
\* interleaving of their handlers: each older one was cancelled by its successor
\* and the newest by no one (the streamMu section of handleStream).
THEOREM OnlyNewestLivesAlways == Spec => []OnlyNewestLives
<1>1. Init => SlotInv
  BY StreamServerAssumption
     DEF Init, SlotInv, OnlyNewestLives, CancelReachable, Holding
<1>2. SlotInv => OnlyNewestLives
  BY DEF SlotInv
<1> QED BY <1>1, <1>2, SlotStep, TypeCorrect, PTL DEF Spec

\* The newest stream's cancel function is never lost to an older handler's
\* cleanup, so the next hot-swap stops it (streamCancel, streamID == myID).
THEOREM CancelReachableAlways == Spec => []CancelReachable
<1>1. Init => SlotInv
  BY StreamServerAssumption
     DEF Init, SlotInv, OnlyNewestLives, CancelReachable, Holding
<1>2. SlotInv => CancelReachable
  BY DEF SlotInv
<1> QED BY <1>1, <1>2, SlotStep, TypeCorrect, PTL DEF Spec

-----------------------------------------------------------------------------
(* The live edge. *)

\* A chunk is pre-fill only for requests that are draining its channel now, so
\* a stream that left the drain finds none; and only a request that fetched a
\* recorder gets past the 503.
EdgeInv ==
    /\ \A r \in Requests : pc[r] \in Holding \cup {"enter"} => src[r] \in Recorders
    /\ \A g \in Recorders : \A i \in 1..Len(chan[g]) : \A r \in chan[g][i] :
          pc[r] = "drain" /\ src[r] = g
    /\ LiveEdge

\* The marks of a buffered chunk are requests.
LEMMA ChunkRequests ==
    ASSUME TypeOK, NEW g \in Recorders, NEW i \in 1..Len(chan[g])
    PROVE  chan[g][i] \subseteq Requests
<1>1. chan[g] \in Seq(SUBSET Requests)
  BY DEF TypeOK
<1> QED BY <1>1

\* Every element of a tail stood one place later in the sequence.
LEMMA TailElements ==
    ASSUME NEW S, NEW s \in Seq(S), s # <<>>, NEW i \in 1..Len(Tail(s))
    PROVE  i + 1 \in 1..Len(s) /\ Tail(s)[i] = s[i + 1]
OBVIOUS

\* Steps that leave the channels, sources and the drains alone keep EdgeInv.
LEMMA EdgeFrame ==
    ASSUME TypeOK, EdgeInv,
           UNCHANGED <<chan, src, fed>>,
           \A r \in Requests :
              \/ pc'[r] = pc[r]
              \/ pc[r] # "drain" /\ pc[r] \in Holding \cup {"enter"}
    PROVE  EdgeInv'
<1>1. \A r \in Requests : pc'[r] \in Holding \cup {"enter"} => src'[r] \in Recorders
  BY DEF EdgeInv
<1>2. \A g \in Recorders : \A i \in 1..Len(chan[g]) : \A r \in chan[g][i] :
        pc'[r] = "drain" /\ src[r] = g
  <2>1. SUFFICES ASSUME NEW g \in Recorders, NEW i \in 1..Len(chan[g]),
                        NEW r \in chan[g][i]
                 PROVE  pc'[r] = "drain" /\ src[r] = g
    OBVIOUS
  <2>2. r \in Requests
    BY ChunkRequests
  <2>3. pc[r] = "drain" /\ src[r] = g
    BY DEF EdgeInv
  <2> QED BY <2>2, <2>3
<1> QED BY <1>1, <1>2 DEF EdgeInv, LiveEdge

\* EdgeInv is inductive: only a Flush that holds the mutex has pre-fill left in
\* the channel, and it ends only when the channel is empty.
LEMMA EdgeStep == TypeOK /\ EdgeInv /\ [Next]_vars => EdgeInv'
<1> SUFFICES ASSUME TypeOK, EdgeInv, [Next]_vars PROVE EdgeInv'
  OBVIOUS
<1>1. CASE SourceStep \/ UNCHANGED vars
  <2>1. UNCHANGED <<chan, src, fed, pc>>
    BY <1>1, SourceFrame DEF vars, handlerVars
  <2> QED BY <2>1, EdgeFrame
<1>2. CASE PumpSend
  <2>1. /\ chan' = [chan EXCEPT ![pump] = Append(chan[pump], {})]
        /\ UNCHANGED <<src, fed, pc>>
    BY <1>2 DEF PumpSend
  <2>2. \A g \in Recorders : \A i \in 1..Len(chan'[g]) :
          chan'[g][i] = {} \/ (i \in 1..Len(chan[g]) /\ chan'[g][i] = chan[g][i])
    BY <2>1 DEF TypeOK, Recorders
  <2> QED BY <2>1, <2>2 DEF EdgeInv, LiveEdge
<1>3. ASSUME NEW r \in Requests, Request(r) PROVE EdgeInv'
  <2>1. CASE Arrive(r)
    <3>1. /\ pc[r] = "idle" /\ UNCHANGED <<chan, fed>>
          /\ \/ pc' = [pc EXCEPT ![r] = "refused"] /\ UNCHANGED src
             \/ /\ slot \in Recorders
                /\ pc' = [pc EXCEPT ![r] = "enter"]
                /\ src' = [src EXCEPT ![r] = slot]
      BY <2>1 DEF Arrive, GoTo, TypeOK, Recorders
    <3>2. \A g \in Recorders : \A i \in 1..Len(chan[g]) : \A q \in chan[g][i] :
            q \in Requests /\ q # r /\ pc[q] = "drain" /\ src[q] = g
      BY <3>1, ChunkRequests DEF EdgeInv
    <3>3. \A q \in Requests : q # r => pc'[q] = pc[q] /\ src'[q] = src[q]
      BY <3>1 DEF TypeOK
    <3>4. \A q \in Requests :
            pc'[q] \in Holding \cup {"enter"} => src'[q] \in Recorders
      BY <3>1, <3>3 DEF EdgeInv, TypeOK, Holding
    <3>5. \A g \in Recorders : \A i \in 1..Len(chan'[g]) : \A q \in chan'[g][i] :
            pc'[q] = "drain" /\ src'[q] = g
      BY <3>1, <3>2, <3>3
    <3> QED BY <3>1, <3>4, <3>5 DEF EdgeInv, LiveEdge
  <2>2. CASE BeginFlush(r)
    <3> DEFINE c == chan[src[r]]
               t == [i \in 1..Len(c) |-> c[i] \cup {r}]
    <3>1. /\ chan' = [chan EXCEPT ![src[r]] = t]
          /\ pc[r] = "flush" /\ pc' = [pc EXCEPT ![r] = "drain"]
          /\ UNCHANGED <<src, fed>>
      BY <2>2 DEF BeginFlush, GoTo
    <3>2. src[r] \in Recorders
      BY <3>1 DEF EdgeInv, Holding
    <3>3. chan'[src[r]] = t
      BY <3>1, <3>2 DEF TypeOK
    <3>4. Len(t) = Len(c)
      BY <3>2 DEF TypeOK
    <3>5. \A g \in Recorders : \A i \in 1..Len(chan'[g]) : \A q \in chan'[g][i] :
            pc'[q] = "drain" /\ src'[q] = g
      <4>1. SUFFICES ASSUME NEW g \in Recorders, NEW i \in 1..Len(chan'[g]),
                            NEW q \in chan'[g][i]
                     PROVE  pc'[q] = "drain" /\ src'[q] = g
        OBVIOUS
      <4>2. CASE g = src[r]
        <5>1. i \in 1..Len(c) /\ q \in c[i] \cup {r}
          BY <3>3, <3>4, <4>2
        <5>2. CASE q = r
          BY <3>1, <4>2, <5>2 DEF TypeOK
        <5>3. CASE q \in c[i]
          BY <3>1, <3>2, <4>2, <5>1, <5>3 DEF EdgeInv, TypeOK
        <5> QED BY <5>1, <5>2, <5>3
      <4>3. CASE g # src[r]
        <5>1. chan'[g] = chan[g]
          BY <3>1, <4>3 DEF TypeOK
        <5>2. pc[q] = "drain" /\ src[q] = g
          BY <4>1, <5>1 DEF EdgeInv
        <5> QED BY <3>1, <5>2 DEF TypeOK
      <4> QED BY <4>2, <4>3
    <3>6. \A q \in Requests :
            pc'[q] \in Holding \cup {"enter"} => src'[q] \in Recorders
      BY <3>1, <3>2 DEF EdgeInv, TypeOK
    <3> QED BY <3>1, <3>5, <3>6 DEF EdgeInv, LiveEdge
  <2>3. ASSUME chan[src[r]] # <<>>, chan' = [chan EXCEPT ![src[r]] = Tail(@)],
               src[r] \in Recorders
        PROVE  \A g \in Recorders : \A i \in 1..Len(chan'[g]) :
                  \E j \in 1..Len(chan[g]) : chan'[g][i] = chan[g][j]
    <3>1. SUFFICES ASSUME NEW g \in Recorders, NEW i \in 1..Len(chan'[g])
                   PROVE  \E j \in 1..Len(chan[g]) : chan'[g][i] = chan[g][j]
      OBVIOUS
    <3>2. CASE g = src[r]
      <4>1. chan'[g] = Tail(chan[g]) /\ chan[g] \in Seq(SUBSET Requests)
        BY <2>3, <3>2 DEF TypeOK
      <4>2. i + 1 \in 1..Len(chan[g]) /\ chan'[g][i] = chan[g][i + 1]
        BY <2>3, <3>1, <3>2, <4>1, TailElements
      <4> QED BY <4>2
    <3>3. CASE g # src[r]
      <4>1. chan'[g] = chan[g]
        BY <2>3, <3>3 DEF TypeOK
      <4> QED BY <4>1
    <3> QED BY <3>2, <3>3
  <2>4. CASE Drain(r)
    <3>1. src[r] \in Recorders /\ UNCHANGED <<pc, src, fed>>
      BY <2>4 DEF Drain, EdgeInv, Holding
    <3>2. \A g \in Recorders : \A i \in 1..Len(chan'[g]) :
            \E j \in 1..Len(chan[g]) : chan'[g][i] = chan[g][j]
      BY <2>3, <2>4, <3>1 DEF Drain
    <3> QED BY <3>1, <3>2 DEF EdgeInv, LiveEdge
  <2>5. CASE Take(r)
    <3>1. src[r] \in Recorders /\ UNCHANGED src /\ pc[r] = "select"
      BY <2>5 DEF Take, EdgeInv, Holding
    <3>2. pc' = pc \/ pc' = [pc EXCEPT ![r] = "write"]
      BY <2>5 DEF Take, GoTo
    <3>3. \A g \in Recorders : \A i \in 1..Len(chan'[g]) :
            \E j \in 1..Len(chan[g]) : chan'[g][i] = chan[g][j]
      BY <2>3, <2>5, <3>1 DEF Take
    <3>4. \A g \in Recorders : \A i \in 1..Len(chan'[g]) : \A q \in chan'[g][i] :
            pc'[q] = "drain" /\ src'[q] = g
      <4>1. SUFFICES ASSUME NEW g \in Recorders, NEW i \in 1..Len(chan'[g]),
                            NEW q \in chan'[g][i]
                     PROVE  pc'[q] = "drain" /\ src'[q] = g
        OBVIOUS
      <4>2. PICK j \in 1..Len(chan[g]) : chan'[g][i] = chan[g][j]
        BY <3>3
      <4>3. q \in Requests /\ pc[q] = "drain" /\ src[q] = g
        BY <4>2, ChunkRequests DEF EdgeInv
      <4> QED BY <3>1, <3>2, <4>3 DEF TypeOK
    <3>5. r \notin Head(chan[src[r]])
      <4>1. chan[src[r]] \in Seq(SUBSET Requests) /\ chan[src[r]] # <<>>
        BY <2>5, <3>1 DEF Take, TypeOK
      <4>2. 1 \in 1..Len(chan[src[r]]) /\ Head(chan[src[r]]) = chan[src[r]][1]
        BY <4>1
      <4> QED BY <3>1, <4>2 DEF EdgeInv
    <3>6. LiveEdge'
      BY <2>5, <3>5 DEF Take, LiveEdge, EdgeInv, TypeOK
    <3>7. \A q \in Requests :
            pc'[q] \in Holding \cup {"enter"} => src'[q] \in Recorders
      BY <3>1, <3>2 DEF EdgeInv, TypeOK, Holding
    <3> QED BY <3>4, <3>6, <3>7 DEF EdgeInv
  <2>6. CASE EndFlush(r)
    <3>1. /\ pc[r] = "drain" /\ pc' = [pc EXCEPT ![r] = "play"]
          /\ chan[src[r]] = <<>> /\ UNCHANGED <<chan, src, fed>>
      BY <2>6 DEF EndFlush, GoTo
    <3>2. \A g \in Recorders : \A i \in 1..Len(chan[g]) : r \notin chan[g][i]
      BY <3>1 DEF EdgeInv
    <3>3. \A g \in Recorders : \A i \in 1..Len(chan'[g]) : \A q \in chan'[g][i] :
            pc'[q] = "drain" /\ src'[q] = g
      BY <3>1, <3>2 DEF EdgeInv, TypeOK
    <3>4. \A q \in Requests :
            pc'[q] \in Holding \cup {"enter"} => src'[q] \in Recorders
      BY <3>1 DEF EdgeInv, TypeOK, Holding
    <3> QED BY <3>1, <3>3, <3>4 DEF EdgeInv, LiveEdge
  <2>7. CASE \/ Enter(r) \/ Play(r) \/ WriteHeader(r) \/ WriteReturns(r)
           \/ StopStream(r) \/ Leave(r) \/ Cleanup(r) \/ Disconnect(r)
    <3>1. UNCHANGED <<chan, src, fed>>
      BY <2>7 DEF Enter, Play, WriteHeader, WriteReturns, StopStream, Leave,
                  Cleanup, Disconnect
    <3>2. \A q \in Requests :
            \/ pc'[q] = pc[q]
            \/ pc[q] # "drain" /\ pc[q] \in Holding \cup {"enter"}
      BY <2>7 DEF Enter, Play, WriteHeader, WriteReturns, StopStream, Leave,
                  Cleanup, Disconnect, GoTo, Holding, TypeOK
    <3> QED BY <3>1, <3>2, EdgeFrame
  <2> QED BY <1>3, <2>1, <2>2, <2>4, <2>5, <2>6, <2>7 DEF Request
<1> QED BY <1>1, <1>2, <1>3 DEF Next

\* Every stream starts at the live edge: whatever the pump sends and superseded
\* streams receive during its drain, a request never delivers a chunk that was
\* buffered before its Flush began (flushStalePreFill, PulseRecorder.Flush).
THEOREM LiveEdgeAlways == Spec => []LiveEdge
<1>1. Init => EdgeInv
  BY StreamServerAssumption DEF Init, EdgeInv, LiveEdge, Holding, Recorders
<1>2. EdgeInv => LiveEdge
  BY DEF EdgeInv
<1> QED BY <1>1, <1>2, EdgeStep, TypeCorrect, PTL DEF Spec
-----------------------------------------------------------------------------
(* The count of active streams. *)

\* The requests between active.Add(1) and active.Add(-1).
Serving == {r \in Requests : pc[r] \in Counted}

\* However many requests may arrive, finitely many are being served, and active
\* is their number.
ActiveInv == IsFiniteSet(Serving) /\ active = Cardinality(Serving)

\* ActiveInv is inductive: a request enters Serving with the increment and
\* leaves it with the decrement.
LEMMA ActiveStep == TypeOK /\ ActiveInv /\ [Next]_vars => ActiveInv'
<1> SUFFICES ASSUME TypeOK, ActiveInv, [Next]_vars PROVE ActiveInv'
  OBVIOUS
<1>1. CASE Serving' = Serving /\ active' = active
  BY <1>1 DEF ActiveInv
<1>2. CASE SourceStep \/ PumpSend \/ UNCHANGED vars
  <2>1. UNCHANGED <<pc, active>>
    BY <1>2, SourceFrame DEF PumpSend, vars, handlerVars
  <2> QED BY <1>1, <2>1 DEF Serving
<1>3. ASSUME NEW r \in Requests, Request(r) PROVE ActiveInv'
  <2>1. CASE WriteHeader(r)
    <3>1. pc[r] \notin Counted /\ pc' = [pc EXCEPT ![r] = "select"]
      BY <2>1 DEF WriteHeader, GoTo, Counted
    <3>2. r \notin Serving /\ Serving' = Serving \cup {r}
      BY <3>1 DEF Serving, Counted, TypeOK
    <3>3. active' = active + 1
      BY <2>1 DEF WriteHeader
    <3> QED BY <3>2, <3>3, FS_AddElement DEF ActiveInv
  <2>2. CASE Leave(r)
    <3>1. pc[r] \in Counted /\ pc' = [pc EXCEPT ![r] = "cleanup"]
      BY <2>2 DEF Leave, GoTo, Counted
    <3>2. r \in Serving /\ Serving' = Serving \ {r}
      BY <3>1 DEF Serving, Counted, TypeOK
    <3>3. active' = active - 1
      BY <2>2 DEF Leave
    <3> QED BY <3>2, <3>3, FS_RemoveElement DEF ActiveInv
  <2>3. CASE ~WriteHeader(r) /\ ~Leave(r)
    <3>1. active' = active
      BY <1>3, <2>3 DEF Request, Arrive, Enter, BeginFlush, Drain, EndFlush, Play,
         Take, WriteReturns, StopStream, Cleanup, Disconnect
    <3>2. \A q \in Requests : pc'[q] \in Counted <=> pc[q] \in Counted
      BY <1>3, <2>3 DEF Request, Arrive, Enter, BeginFlush, Drain, EndFlush, Play,
         Take, WriteReturns, StopStream, Cleanup, Disconnect, GoTo, Counted, TypeOK
    <3> QED BY <1>1, <3>1, <3>2 DEF Serving
  <2> QED BY <2>1, <2>2, <2>3
<1> QED BY <1>2, <1>3 DEF Next

\* No path through the handler leaks a count: with nobody served ActiveStreams
\* is zero, for any set of requests (active.Add and its deferred reverse).
THEOREM ActiveBalancedAlways == Spec => []ActiveBalanced
<1>1. Init => ActiveInv
  <2>1. Init => Serving = {}
    BY DEF Init, Serving, Counted
  <2> QED BY <2>1, FS_EmptySet DEF Init, ActiveInv
<1>2. ActiveInv => ActiveBalanced
  <2>1. SUFFICES ASSUME ActiveInv,
                        \A r \in Requests : pc[r] \in {"idle", "done", "refused"}
                 PROVE  active = 0
    BY DEF ActiveBalanced
  <2>2. Serving = {}
    BY <2>1 DEF Serving, Counted
  <2> QED BY <2>1, <2>2, FS_EmptySet DEF ActiveInv
<1> QED BY <1>1, <1>2, ActiveStep, TypeCorrect, PTL DEF Spec

-----------------------------------------------------------------------------
(* The refinement. *)

\* Phase by the place of the handler.
LEMMA PhaseCases ==
    ASSUME TypeOK, NEW r \in Requests
    PROVE  /\ pc[r] \in {"idle", "enter"} => Phase(r) = "new"
           /\ pc[r] \in {"done", "refused"} => Phase(r) = "gone"
           /\ pc[r] \in Holding =>
                Phase(r) = IF r \in cancelled THEN "stopping" ELSE "live"
BY DEF TypeOK, Labels, Holding, Phase

\* The same of the next state.
LEMMA PhaseCasesNext ==
    ASSUME TypeOK', NEW r \in Requests
    PROVE  /\ pc'[r] \in {"idle", "enter"} => Phase(r)' = "new"
           /\ pc'[r] \in {"done", "refused"} => Phase(r)' = "gone"
           /\ pc'[r] \in Holding =>
                Phase(r)' = IF r \in cancelled' THEN "stopping" ELSE "live"
BY DEF TypeOK, Labels, Holding, Phase

\* Every step of the handlers is a step of the slot or none.
LEMMA SlotRefined ==
    ASSUME TypeOK, TypeOK', SlotInv, [Next]_vars
    PROVE  [Slot!Next]_(Slot!slotVars)
<1> DEFINE phase == [q \in Requests |-> Phase(q)]
<1> USE DEF Slot!slotVars
<1>1. ASSUME UNCHANGED streamCancel,
             \A q \in Requests : Phase(q)' = Phase(q)
      PROVE  UNCHANGED Slot!slotVars
  BY <1>1
<1>2. ASSUME UNCHANGED <<streamCancel, cancelled>>,
             \A q \in Requests :
                \/ pc'[q] = pc[q]
                \/ pc[q] \in Holding /\ pc'[q] \in Holding
                \/ pc[q] = "idle" /\ pc'[q] = "enter"
      PROVE  UNCHANGED Slot!slotVars
  <2>1. ASSUME NEW q \in Requests PROVE Phase(q)' = Phase(q)
    <3>1. pc[q] \in {"idle", "enter"} \cup {"done", "refused"} \cup Holding
      BY DEF TypeOK, Labels, Holding
    <3> QED BY <1>2, <3>1, PhaseCases, PhaseCasesNext
  <2> QED BY <1>1, <1>2, <2>1
<1>3. CASE SourceStep \/ PumpSend \/ UNCHANGED vars
  <2>1. UNCHANGED <<swapVars, pc>>
    BY <1>3, SourceFrame DEF PumpSend, vars, handlerVars
  <2> QED BY <1>2, <2>1 DEF swapVars
<1>4. ASSUME NEW r \in Requests, Request(r)
      PROVE  [Slot!Next]_(Slot!slotVars)
  <2>1. CASE Enter(r)
    <3>1. /\ pc[r] = "enter" /\ pc' = [pc EXCEPT ![r] = "flush"]
          /\ streamCancel' = r
          /\ cancelled' = cancelled \cup ({streamCancel} \ {None})
      BY <2>1 DEF Enter, GoTo
    <3>2. Phase(r) = "new" /\ Phase(r)' = "live"
      <4>1. r \notin cancelled'
        BY <3>1 DEF SlotInv, Holding
      <4> QED BY <3>1, <4>1, PhaseCases, PhaseCasesNext DEF Holding, TypeOK
    <3>3. ASSUME NEW q \in Requests, q # r
          PROVE  Phase(q)' = IF Phase(q) = "live" THEN "stopping" ELSE Phase(q)
      <4>1. pc'[q] = pc[q]
        BY <3>1, <3>3 DEF TypeOK
      <4>2. CASE pc[q] \in Holding
        <5>1. q \in cancelled \/ q = streamCancel
          BY <4>2 DEF SlotInv, OnlyNewestLives, CancelReachable
        <5>2. q \in cancelled'
          BY <3>1, <5>1, StreamServerAssumption
        <5> QED BY <4>1, <4>2, <5>2, PhaseCases, PhaseCasesNext
      <4>3. CASE pc[q] \notin Holding
        <5>1. pc[q] \in {"idle", "enter"} \cup {"done", "refused"}
          BY <4>3 DEF TypeOK, Labels, Holding
        <5> QED BY <4>1, <5>1, PhaseCases, PhaseCasesNext
      <4> QED BY <4>2, <4>3
    <3>4. Slot!Take(r)
      BY <3>1, <3>2, <3>3 DEF Slot!Take
    <3> QED BY <3>4 DEF Slot!Next
  <2>2. CASE Cleanup(r)
    <3>1. /\ pc[r] = "cleanup" /\ pc' = [pc EXCEPT ![r] = "done"]
          /\ streamCancel' = IF streamID = myID[r] THEN None ELSE streamCancel
          /\ UNCHANGED cancelled
      BY <2>2 DEF Cleanup, GoTo
    <3>2. streamID = myID[r] <=> streamCancel = r
      BY <3>1, StreamServerAssumption DEF SlotInv, CancelReachable, Holding
    <3>3. Phase(r) \in {"live", "stopping"} /\ Phase(r)' = "gone"
      BY <3>1, PhaseCases, PhaseCasesNext DEF Holding, TypeOK
    <3>4. ASSUME NEW q \in Requests, q # r PROVE Phase(q)' = Phase(q)
      <4>1. pc'[q] = pc[q]
        BY <3>1, <3>4 DEF TypeOK
      <4>2. pc[q] \in {"idle", "enter"} \cup {"done", "refused"} \cup Holding
        BY DEF TypeOK, Labels, Holding
      <4> QED BY <3>1, <4>1, <4>2, PhaseCases, PhaseCasesNext
    <3>5. Slot!End(r)
      BY <3>1, <3>2, <3>3, <3>4 DEF Slot!End
    <3> QED BY <3>5 DEF Slot!Next
  <2>3. CASE Arrive(r) /\ GoTo(r, "refused")
    <3>1. /\ pc[r] = "idle" /\ pc' = [pc EXCEPT ![r] = "refused"]
          /\ UNCHANGED <<streamCancel, cancelled>>
      BY <2>3 DEF Arrive, GoTo, swapVars
    <3>2. Phase(r) = "new" /\ Phase(r)' = "gone"
      BY <3>1, PhaseCases, PhaseCasesNext DEF TypeOK
    <3>3. ASSUME NEW q \in Requests, q # r PROVE Phase(q)' = Phase(q)
      <4>1. pc'[q] = pc[q]
        BY <3>1, <3>3 DEF TypeOK
      <4>2. pc[q] \in {"idle", "enter"} \cup {"done", "refused"} \cup Holding
        BY DEF TypeOK, Labels, Holding
      <4> QED BY <3>1, <4>1, <4>2, PhaseCases, PhaseCasesNext
    <3>4. Slot!Refuse(r)
      BY <3>1, <3>2, <3>3 DEF Slot!Refuse
    <3> QED BY <3>4 DEF Slot!Next
  <2>4. CASE ~Enter(r) /\ ~Cleanup(r) /\ ~(Arrive(r) /\ GoTo(r, "refused"))
    <3>1. UNCHANGED <<streamCancel, cancelled>>
      BY <1>4, <2>4 DEF Request, Arrive, BeginFlush, Drain, EndFlush, Play,
         WriteHeader, Take, WriteReturns, StopStream, Leave, Disconnect, swapVars
    <3>2. \A q \in Requests :
              \/ pc'[q] = pc[q]
              \/ pc[q] \in Holding /\ pc'[q] \in Holding
              \/ pc[q] = "idle" /\ pc'[q] = "enter"
      BY <1>4, <2>4 DEF Request, Arrive, BeginFlush, Drain, EndFlush, Play,
         WriteHeader, Take, WriteReturns, StopStream, Leave, Disconnect, GoTo,
         Holding, TypeOK
    <3> QED BY <1>2, <3>1, <3>2
  <2> QED BY <2>1, <2>2, <2>3, <2>4
<1> QED BY <1>3, <1>4 DEF Next

\* The handlers implement the one-owner playback slot for every set of requests
\* and any buffers: hot-swap, refusal and return are its only visible steps.
THEOREM SlotImplemented == Spec => ImplementsPlaybackSlot
<1>1. Init => SlotInv
  BY StreamServerAssumption
     DEF Init, SlotInv, OnlyNewestLives, CancelReachable, Holding
<1>2. Init => Slot!Init
  <2>1. ASSUME Init, NEW r \in Requests PROVE Phase(r) = "new"
    <3>1. pc[r] = "idle"
      BY <2>1 DEF Init
    <3> QED BY <3>1 DEF Phase, Holding
  <2> QED BY <2>1 DEF Init, Slot!Init
<1>3. TypeOK /\ TypeOK' /\ SlotInv /\ [Next]_vars => [Slot!Next]_(Slot!slotVars)
  BY SlotRefined
<1> QED BY <1>1, <1>2, <1>3, SlotStep, TypeCorrect, PTL
        DEF Spec, ImplementsPlaybackSlot, Slot!Spec
=============================================================================
