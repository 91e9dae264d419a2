-------------------------- MODULE ControlPathProofs --------------------------
(* What ControlPath promises for any number of events, lines in flight,         *)
(* subscriptions and sessions: its types, that one goroutine at a time writes,  *)
(* to the connection of the current session, and that commands keep the order   *)
(* of their events.                                                             *)
EXTENDS ControlPath, TLAPS

(* The groups of variables an action leaves alone are always expanded. *)
USE DEF listener, connector, soloist, others

SupLabels == {"dial", "activate", "volume", "consume", "detach", "returned"}

InSession == {"activate", "volume", "consume", "detach"}

\* The inductive strengthening of OneWriter: a writer holds the mutex, the
\* connector has a connection exactly between attach and detach, and it is the
\* last one dialled, which only wsConsume closes while it is attached.
WriterInv ==
    /\ \A w \in Subs \cup {Handler} : Writing(w) => lock = w /\ conn # 0
    /\ conn \in {0, dialed}
    /\ conn # 0 <=> sup \in InSession
    /\ conn # 0 => (ws[conn] = "closed" => ctxDone)

Live(s) == reader[s] \in {"scan", "want", "write"}

\* At most the current subscription has a reader, and the listener opens the next
\* one only when that reader has ended: a cancelled consume leaves it behind, but
\* then no other follows.
ReadersInv ==
    /\ \A s \in Subs : Live(s) => s = sub
    /\ run \in {"connect", "sleep"} /\ ~ctxDone => \A s \in Subs : ~Live(s)
    /\ \A s \in Subs : s > sub => sse[s] = "none" /\ wire[s] = <<>>

\* The inductive strengthening of EventOrder: the lines of a subscription are in
\* the order they were sent, whatever the reader in charge has before it is later
\* than every command delivered, and nothing is delivered that was not sent.
OrderInv ==
    /\ \A s \in Subs : \A i \in 1..Len(wire[s]) : wire[s][i] <= sent
    /\ \A s \in Subs : \A i, j \in 1..Len(wire[s]) :
          i < j /\ wire[s][i] # 0 /\ wire[s][j] # 0 => wire[s][i] < wire[s][j]
    /\ \A s \in Subs : Live(s) =>
          \A i \in 1..Len(delivered), j \in 1..Len(wire[s]) :
             wire[s][j] # 0 => delivered[i] < wire[s][j]
    /\ \A i \in 1..Len(delivered) : delivered[i] <= sent
    /\ EventOrder

-----------------------------------------------------------------------------
(* Sequences. *)

\* The line in front.
LEMMA HeadOfLines ==
    ASSUME NEW S, NEW q \in Seq(S), q # <<>>
    PROVE  Head(q) \in S
OBVIOUS

\* The lines that are left after one is handled.
LEMMA TailOfLines ==
    ASSUME NEW S, NEW q \in Seq(S), q # <<>>
    PROVE  /\ Tail(q) \in Seq(S)
           /\ Len(Tail(q)) = Len(q) - 1
           /\ \A i \in 1..Len(Tail(q)) : Tail(q)[i] = q[i + 1]
OBVIOUS

\* The lines that are left when a body ends.
LEMMA CutLines ==
    ASSUME NEW S, NEW q \in Seq(S), NEW n \in 0..Len(q)
    PROVE  /\ SubSeq(q, 1, n) \in Seq(S)
           /\ Len(SubSeq(q, 1, n)) = n
           /\ \A i \in 1..n : SubSeq(q, 1, n)[i] = q[i]
OBVIOUS

\* A line or a command is added at the end.
LEMMA AppendLine ==
    ASSUME NEW S, NEW q \in Seq(S), NEW e \in S
    PROVE  /\ Append(q, e) \in Seq(S)
           /\ Len(Append(q, e)) = Len(q) + 1
           /\ \A i \in 1..Len(q) : Append(q, e)[i] = q[i]
           /\ Append(q, e)[Len(q) + 1] = e
OBVIOUS

-----------------------------------------------------------------------------
(* Types. *)

LabelsOK ==
    /\ run \in {"connect", "consume", "sleep", "returned"}
    /\ sse \in [Subs -> {"none", "open", "silent", "broken"}]
    /\ reader \in [Subs -> {"none", "scan", "want", "write", "ended"}]
    /\ idle \in BOOLEAN
    /\ ws \in [Conns -> {"none", "open", "stalled", "broken", "closed"}]
    /\ sup \in SupLabels
    /\ handler \in {"away", "write"}
    /\ ctxDone \in BOOLEAN

CountsOK ==
    /\ sub \in 0..MaxSubs
    /\ sent \in 0..MaxEvents
    /\ lock \in Subs \cup {Handler, None}
    /\ conn \in 0..MaxConns
    /\ dialed \in 0..MaxConns

LinesOK ==
    /\ wire \in [Subs -> Seq(0..MaxEvents)]
    /\ delivered \in Seq(1..MaxEvents)
    /\ \A s \in Subs : Handling(s) => wire[s] # <<>> /\ Head(wire[s]) # 0

\* Labels stay in their sets, whatever action of listener, connector,
\* supervisor or environment is taken.
LEMMA LabelsStep == LabelsOK /\ [Next]_vars => LabelsOK'
<1> SUFFICES ASSUME LabelsOK, [Next]_vars PROVE LabelsOK'
  OBVIOUS
<1> USE DEF LabelsOK, SupLabels
<1>1. CASE RunStep
  BY <1>1 DEF RunStep, Refused, Subscribe, ConsumeEnds, Sleep, Unsubscribe, BodyEnds
<1>2. CASE SupStep
  BY <1>2 DEF SupStep, SupCancelled, Attach, SupSends, ConsumeFails, Detach, SupGoes
<1>3. CASE CloseOnCancel
  BY <1>3 DEF CloseOnCancel
<1>4. CASE HandlerSends \/ HandlerSent
  BY <1>4 DEF HandlerSends, HandlerSent
<1>5. CASE Emit \/ Cancel \/ IdleFires
  BY <1>5 DEF Emit, Cancel, IdleFires
<1>6. ASSUME NEW s \in Subs, Break(s) \/ FallSilent(s) PROVE LabelsOK'
  BY <1>6 DEF Break, BodyEnds, FallSilent
<1>7. ASSUME NEW c \in Conns, WebSocketChanges(c) PROVE LabelsOK'
  BY <1>7 DEF WebSocketChanges
<1>8. ASSUME NEW s \in Subs, Reader(s) PROVE LabelsOK'
  BY <1>8 DEF Reader, ReaderScans, ReaderEnds, ReaderSends, ReaderSent, ReaderGoes,
              Looked
<1>9. CASE UNCHANGED vars
  BY <1>9 DEF vars
<1> QED BY <1>1, <1>2, <1>3, <1>4, <1>5, <1>6, <1>7, <1>8, <1>9 DEF Next, Environment

\* Counters stay within their bounds and the mutex with its holders.
LEMMA CountsStep == CountsOK /\ [Next]_vars => CountsOK'
<1> SUFFICES ASSUME CountsOK, [Next]_vars PROVE CountsOK'
  OBVIOUS
<1> USE ControlPathAssumption DEF CountsOK, Subs, Handler
<1>1. CASE RunStep
  BY <1>1 DEF RunStep, Refused, Subscribe, ConsumeEnds, Sleep, Unsubscribe
<1>2. CASE SupStep
  BY <1>2 DEF SupStep, SupCancelled, Attach, SupSends, ConsumeFails, Detach
<1>3. CASE CloseOnCancel
  BY <1>3 DEF CloseOnCancel
<1>4. CASE HandlerSends \/ HandlerSent
  BY <1>4 DEF HandlerSends, HandlerSent, Locks, WriteReturns
<1>5. CASE Emit \/ Cancel \/ IdleFires
  BY <1>5 DEF Emit, Cancel, IdleFires
<1>6. ASSUME NEW s \in Subs, Break(s) \/ FallSilent(s) PROVE CountsOK'
  BY <1>6 DEF Break, BodyEnds, FallSilent
<1>7. ASSUME NEW c \in Conns, WebSocketChanges(c) PROVE CountsOK'
  BY <1>7 DEF WebSocketChanges
<1>8. ASSUME NEW s \in Subs, Reader(s) PROVE CountsOK'
  BY <1>8 DEF Reader, ReaderScans, ReaderEnds, ReaderSends, ReaderSent, Locks,
              WriteReturns
<1>9. CASE UNCHANGED vars
  BY <1>9 DEF vars
<1> QED BY <1>1, <1>2, <1>3, <1>4, <1>5, <1>6, <1>7, <1>8, <1>9 DEF Next, Environment

\* A body that ends leaves the line that is being handled.
LEMMA BodyEndsLines ==
    ASSUME LabelsOK, LinesOK, NEW s, BodyEnds(s), UNCHANGED <<reader, delivered>>
    PROVE  LinesOK'
<1>1. CASE s \in Subs
  <2>1. PICK n \in 0..Len(wire[s]) :
            /\ Handling(s) => n > 0
            /\ wire' = [wire EXCEPT ![s] = SubSeq(@, 1, n)]
    BY DEF BodyEnds
  <2>2. wire[s] \in Seq(0..MaxEvents)
    BY <1>1 DEF LinesOK
  <2>3. /\ SubSeq(wire[s], 1, n) \in Seq(0..MaxEvents)
        /\ Len(SubSeq(wire[s], 1, n)) = n
        /\ \A i \in 1..n : SubSeq(wire[s], 1, n)[i] = wire[s][i]
    BY <2>2, CutLines
  <2>4. wire' \in [Subs -> Seq(0..MaxEvents)]
    BY <2>1, <2>3 DEF LinesOK
  <2>5. ASSUME NEW t \in Subs, Handling(t)'
        PROVE  wire'[t] # <<>> /\ Head(wire'[t]) # 0
    <3>1. Handling(t)
      BY <2>5 DEF Handling
    <3>2. wire[t] # <<>> /\ Head(wire[t]) # 0
      BY <3>1 DEF LinesOK
    <3>3. CASE t = s
      <4>1. n > 0 /\ wire'[s] = SubSeq(wire[s], 1, n)
        BY <1>1, <2>1, <3>1, <3>3 DEF LinesOK
      <4>2. SubSeq(wire[s], 1, n)[1] = wire[s][1]
        BY <2>1, <2>3, <4>1
      <4>3. wire[s] # <<>> /\ wire[s][1] # 0
        BY <2>2, <3>2, <3>3
      <4> QED BY <2>3, <3>3, <4>1, <4>2, <4>3
    <3>4. CASE t # s
      BY <2>1, <3>2, <3>4 DEF LinesOK
    <3> QED BY <3>3, <3>4
  <2> QED BY <2>4, <2>5 DEF LinesOK
<1>2. CASE s \notin Subs
  <2>1. wire' = wire
    BY <1>2 DEF BodyEnds, LinesOK
  <2> QED BY <2>1 DEF LinesOK, Handling
<1> QED BY <1>1, <1>2

\* A reader that has dealt with its line takes it off.
LEMMA LineHandled ==
    ASSUME LabelsOK, LinesOK, NEW s \in Subs, wire[s] # <<>>,
           wire' = [wire EXCEPT ![s] = Tail(@)],
           NEW label \in {"scan", "ended"}, reader' = [reader EXCEPT ![s] = label]
    PROVE  /\ wire' \in [Subs -> Seq(0..MaxEvents)]
           /\ \A t \in Subs : Handling(t)' => wire'[t] # <<>> /\ Head(wire'[t]) # 0
<1>1. wire[s] \in Seq(0..MaxEvents)
  BY DEF LinesOK
<1>2. Tail(wire[s]) \in Seq(0..MaxEvents)
  BY <1>1, TailOfLines
<1>3. wire' \in [Subs -> Seq(0..MaxEvents)]
  BY <1>2 DEF LinesOK
<1>4. ASSUME NEW t \in Subs, Handling(t)'
      PROVE  wire'[t] # <<>> /\ Head(wire'[t]) # 0
  <2>1. t # s /\ Handling(t)
    BY <1>4 DEF Handling, LabelsOK
  <2> QED BY <2>1 DEF LinesOK
<1> QED BY <1>3, <1>4

\* Lines and commands stay in their sets, and a reader that handles a line has a
\* command at the head of its wire.
LEMMA LinesStep == LabelsOK /\ CountsOK /\ LinesOK /\ [Next]_vars => LinesOK'
<1> SUFFICES ASSUME LabelsOK, CountsOK, LinesOK, [Next]_vars PROVE LinesOK'
  OBVIOUS
<1>1. CASE RunStep
  <2>1. CASE Refused \/ Sleep
    BY <2>1 DEF Refused, Sleep, LinesOK, Handling
  <2>2. CASE Subscribe
    BY <2>2 DEF Subscribe, LinesOK, LabelsOK, Handling
  <2>3. CASE ConsumeEnds
    BY <2>3, BodyEndsLines DEF ConsumeEnds, Unsubscribe
  <2> QED BY <1>1, <2>1, <2>2, <2>3 DEF RunStep
<1>2. CASE SupStep
  BY <1>2 DEF SupStep, SupCancelled, Attach, SupSends, ConsumeFails, Detach, LinesOK,
              Handling
<1>3. CASE CloseOnCancel
  BY <1>3 DEF CloseOnCancel, LinesOK, Handling
<1>4. CASE HandlerSends \/ HandlerSent
  BY <1>4 DEF HandlerSends, HandlerSent, LinesOK, Handling
<1>5. CASE Cancel \/ IdleFires
  BY <1>5 DEF Cancel, IdleFires, LinesOK, Handling
<1>6. CASE Emit
  <2>1. /\ UNCHANGED <<reader, delivered>>
        /\ \A s \in Subs : \/ wire'[s] = wire[s]
                           \/ \E e \in 0..MaxEvents : wire'[s] = Append(wire[s], e)
        /\ wire' = [s \in Subs |-> wire'[s]]
    <3>1. CASE /\ sent < MaxEvents
               /\ wire' = [s \in Subs |->
                             IF sse[s] = "open" THEN Append(wire[s], sent + 1)
                                                ELSE wire[s]]
               /\ UNCHANGED <<reader, delivered>>
      <4>1. sent + 1 \in 0..MaxEvents
        BY <3>1, ControlPathAssumption DEF CountsOK
      <4> QED BY <3>1, <4>1
    <3>2. CASE /\ UNCHANGED <<reader, delivered>>
               /\ \E s \in Subs : wire' = [wire EXCEPT ![s] = Append(@, 0)]
      <4>1. 0 \in 0..MaxEvents
        BY ControlPathAssumption
      <4> QED BY <3>2, <4>1 DEF LinesOK
    <3> QED BY <1>6, <3>1, <3>2 DEF Emit
  <2>2. ASSUME NEW s \in Subs
        PROVE  /\ wire'[s] \in Seq(0..MaxEvents)
               /\ Handling(s)' => wire'[s] # <<>> /\ Head(wire'[s]) # 0
    <3>1. wire[s] \in Seq(0..MaxEvents)
      BY DEF LinesOK
    <3>2. CASE wire'[s] = wire[s]
      BY <2>1, <3>1, <3>2 DEF LinesOK, Handling
    <3>3. ASSUME NEW e \in 0..MaxEvents, wire'[s] = Append(wire[s], e)
          PROVE  /\ wire'[s] \in Seq(0..MaxEvents)
                 /\ wire[s] # <<>> => wire'[s] # <<>> /\ Head(wire'[s]) = Head(wire[s])
      BY <3>1, <3>3, AppendLine
    <3>4. Handling(s)' => wire[s] # <<>> /\ Head(wire[s]) # 0
      BY <2>1 DEF LinesOK, Handling
    <3> QED BY <2>1, <3>2, <3>3, <3>4
  <2> QED BY <2>1, <2>2 DEF LinesOK
<1>7. ASSUME NEW s \in Subs, Break(s) PROVE LinesOK'
  BY <1>7, BodyEndsLines DEF Break
<1>8. ASSUME NEW s \in Subs, FallSilent(s) PROVE LinesOK'
  BY <1>8 DEF FallSilent, LinesOK, Handling
<1>9. ASSUME NEW c \in Conns, WebSocketChanges(c) PROVE LinesOK'
  BY <1>9 DEF WebSocketChanges, LinesOK, Handling
<1>10. ASSUME NEW s \in Subs, ReaderScans(s) PROVE LinesOK'
  <2>1. CASE Head(wire[s]) = 0
    <3>1. Looked(FALSE) \in {"scan", "ended"}
      BY DEF Looked
    <3> QED BY <1>10, <2>1, <3>1, LineHandled DEF ReaderScans, ReaderGoes, LinesOK
  <2>2. CASE Head(wire[s]) # 0
    BY <1>10, <2>2 DEF ReaderScans, ReaderGoes, LinesOK, LabelsOK, Handling
  <2> QED BY <2>1, <2>2
<1>11. ASSUME NEW s \in Subs, ReaderEnds(s) PROVE LinesOK'
  BY <1>11 DEF ReaderEnds, ReaderGoes, LinesOK, LabelsOK, Handling
<1>12. ASSUME NEW s \in Subs, ReaderSends(s) PROVE LinesOK'
  <2>1. Handling(s) /\ wire[s] # <<>> /\ Head(wire[s]) # 0
    BY <1>12 DEF ReaderSends, ReaderGoes, Handling, LinesOK
  <2>2. CASE conn = 0
    <3>1. Looked(idle) \in {"scan", "ended"}
      BY DEF Looked
    <3> QED BY <1>12, <2>1, <2>2, <3>1, LineHandled DEF ReaderSends, ReaderGoes, LinesOK
  <2>3. CASE conn # 0
    BY <1>12, <2>1, <2>3 DEF ReaderSends, ReaderGoes, LinesOK, LabelsOK, Handling
  <2> QED BY <2>2, <2>3
<1>13. ASSUME NEW s \in Subs, ReaderSent(s) PROVE LinesOK'
  <2>1. Handling(s) /\ wire[s] # <<>> /\ Head(wire[s]) # 0
    BY <1>13 DEF ReaderSent, ReaderGoes, Handling, LinesOK
  <2>2. Looked(idle) \in {"scan", "ended"}
    BY DEF Looked
  <2>3. Head(wire[s]) \in 1..MaxEvents
    <3>1. wire[s] \in Seq(0..MaxEvents) /\ wire[s] # <<>>
      BY <2>1 DEF LinesOK
    <3>2. Head(wire[s]) \in 0..MaxEvents
      BY <3>1, HeadOfLines
    <3> QED BY <2>1, <3>2, ControlPathAssumption
  <2>4. delivered' \in Seq(1..MaxEvents)
    BY <1>13, <2>3, AppendLine DEF ReaderSent, LinesOK
  <2> QED BY <1>13, <2>1, <2>2, <2>4, LineHandled DEF ReaderSent, ReaderGoes, LinesOK
<1>14. CASE UNCHANGED vars
  BY <1>14 DEF vars, LinesOK, Handling
<1> QED BY <1>1, <1>2, <1>3, <1>4, <1>5, <1>6, <1>7, <1>8, <1>9, <1>10, <1>11, <1>12,
           <1>13, <1>14 DEF Next, Environment, Reader

TypesOK == LabelsOK /\ CountsOK /\ LinesOK

LEMMA TypesAlways == Spec => []TypesOK
<1>1. Init => TypesOK
  <2> SUFFICES ASSUME Init PROVE TypesOK
    OBVIOUS
  <2>1. LabelsOK
    BY DEF Init, LabelsOK, SupLabels
  <2>2. CountsOK
    BY ControlPathAssumption DEF Init, CountsOK
  <2>3. LinesOK
    BY DEF Init, LinesOK, Handling
  <2> QED BY <2>1, <2>2, <2>3 DEF TypesOK
<1>2. TypesOK /\ [Next]_vars => TypesOK'
  BY LabelsStep, CountsStep, LinesStep DEF TypesOK
<1> QED BY <1>1, <1>2, PTL DEF Spec

\* Type correctness: every step of listener, connector, supervisor and network
\* keeps the variables in their sets (all actions of the model).
THEOREM TypeCorrect == Spec => []TypeOK
<1>1. TypesOK => TypeOK
  BY DEF TypesOK, LabelsOK, CountsOK, LinesOK, SupLabels, TypeOK
<1> QED BY <1>1, TypesAlways, PTL

-----------------------------------------------------------------------------
(* One writer. *)

\* WriterInv is inductive: attach and detach need the mutex, so neither falls
\* into a write, and only wsConsume closes an attached connection, when the
\* context is done.
LEMMA WriterStep == TypesOK /\ WriterInv /\ [Next]_vars => WriterInv'
<1> SUFFICES ASSUME TypesOK, WriterInv, [Next]_vars PROVE WriterInv'
  OBVIOUS
<1> USE ControlPathAssumption
    DEF TypesOK, LabelsOK, CountsOK, WriterInv, Writing, Subs, Handler, SupLabels,
        InSession
<1>1. CASE RunStep
  BY <1>1 DEF RunStep, Refused, Subscribe, ConsumeEnds, Sleep, Unsubscribe, BodyEnds
<1>2. CASE SupCancelled \/ SupSends \/ ConsumeFails
  BY <1>2 DEF SupCancelled, SupSends, ConsumeFails, SupGoes
<1>3. CASE Attach
  BY <1>3 DEF Attach, SupGoes, Conns
<1>4. CASE Detach
  BY <1>4 DEF Detach, SupGoes
<1>5. CASE CloseOnCancel
  BY <1>5 DEF CloseOnCancel
<1>6. CASE HandlerSends \/ HandlerSent
  BY <1>6 DEF HandlerSends, HandlerSent, Locks, WriteReturns
<1>7. CASE Emit \/ Cancel \/ IdleFires
  BY <1>7 DEF Emit, Cancel, IdleFires
<1>8. ASSUME NEW s \in Subs, Break(s) \/ FallSilent(s) PROVE WriterInv'
  BY <1>8 DEF Break, BodyEnds, FallSilent
<1>9. ASSUME NEW c \in Conns, WebSocketChanges(c) PROVE WriterInv'
  BY <1>9 DEF WebSocketChanges, Conns
<1>10. ASSUME NEW s \in Subs, ReaderScans(s) \/ ReaderEnds(s) PROVE WriterInv'
  BY <1>10 DEF ReaderScans, ReaderEnds, ReaderGoes, Looked
<1>11. ASSUME NEW s \in Subs, ReaderSends(s) PROVE WriterInv'
  BY <1>11 DEF ReaderSends, ReaderGoes, Looked, Locks
<1>12. ASSUME NEW s \in Subs, ReaderSent(s) PROVE WriterInv'
  BY <1>12 DEF ReaderSent, ReaderGoes, Looked, WriteReturns
<1>13. CASE UNCHANGED vars
  BY <1>13 DEF vars
<1> QED BY <1>1, <1>2, <1>3, <1>4, <1>5, <1>6, <1>7, <1>8, <1>9, <1>10, <1>11, <1>12,
           <1>13 DEF Next, Environment, SupStep, Reader

\* Two goroutines are never inside WriteMessage at once, and the one that is
\* writes to the current session's connection (write, attach, detach).
THEOREM OneWriterAlways == Spec => []OneWriter
<1>1. Init => WriterInv
  BY DEF Init, WriterInv, Writing, InSession, Subs, Handler
<1>2. TypesOK /\ WriterInv /\ TypesOK' /\ [Next]_vars => WriterInv'
  BY WriterStep
<1>3. WriterInv => OneWriter
  BY DEF WriterInv, OneWriter
<1> QED BY <1>1, <1>2, <1>3, TypesAlways, PTL DEF Spec

-----------------------------------------------------------------------------
(* One reader. *)

\* ReadersInv is inductive: without a cancellation consume returns only after its
\* reader has ended, and a cancelled listener opens no further subscription.
LEMMA ReadersStep == TypesOK /\ ReadersInv /\ [Next]_vars => ReadersInv'
<1> SUFFICES ASSUME TypesOK, ReadersInv, [Next]_vars PROVE ReadersInv'
  OBVIOUS
<1> USE ControlPathAssumption
    DEF TypesOK, LabelsOK, CountsOK, LinesOK, ReadersInv, Live, Subs
<1>1. CASE Refused \/ Sleep
  BY <1>1 DEF Refused, Sleep
<1>2. CASE Subscribe
  <2>1. \A s \in Subs : ~Live(s)
    BY <1>2 DEF Subscribe
  <2>2. \A s \in Subs : s # sub + 1 => reader'[s] = reader[s] /\ sse'[s] = sse[s]
    BY <1>2 DEF Subscribe
  <2>3. sub' = sub + 1 /\ run' = "consume" /\ UNCHANGED wire
    BY <1>2 DEF Subscribe
  <2>4. \A s \in Subs : Live(s)' => s = sub'
    BY <2>1, <2>2, <2>3
  <2>5. \A s \in Subs : s > sub' => sse'[s] = "none" /\ wire'[s] = <<>>
    <3>1. ASSUME NEW s \in Subs, s > sub' PROVE s > sub /\ s # sub + 1
      BY <2>3, <3>1
    <3> QED BY <2>2, <2>3, <3>1
  <2> QED BY <2>3, <2>4, <2>5
<1>3. CASE ConsumeEnds
  BY <1>3 DEF ConsumeEnds, Unsubscribe, BodyEnds
<1>4. CASE SupStep \/ CloseOnCancel
  BY <1>4 DEF SupStep, SupCancelled, Attach, SupSends, ConsumeFails, Detach,
              CloseOnCancel
<1>5. CASE HandlerSends \/ HandlerSent
  BY <1>5 DEF HandlerSends, HandlerSent
<1>6. CASE Emit
  BY <1>6 DEF Emit
<1>7. CASE Cancel \/ IdleFires
  BY <1>7 DEF Cancel, IdleFires
<1>8. ASSUME NEW s \in Subs, Break(s) \/ FallSilent(s) PROVE ReadersInv'
  BY <1>8 DEF Break, BodyEnds, FallSilent
<1>9. ASSUME NEW c \in Conns, WebSocketChanges(c) PROVE ReadersInv'
  BY <1>9 DEF WebSocketChanges
<1>10. ASSUME NEW s \in Subs, Reader(s) PROVE ReadersInv'
  <2>1. Live(s) /\ s = sub
    BY <1>10 DEF Reader, ReaderScans, ReaderEnds, ReaderSends, ReaderSent, ReaderGoes
  <2>2. UNCHANGED <<run, sub, sse, ctxDone>>
    BY <1>10 DEF Reader, ReaderScans, ReaderEnds, ReaderSends, ReaderSent
  <2>3. \A t \in Subs : t # s => reader'[t] = reader[t] /\ wire'[t] = wire[t]
    BY <1>10 DEF Reader, ReaderScans, ReaderEnds, ReaderSends, ReaderSent, ReaderGoes
  <2> QED BY <2>1, <2>2, <2>3
<1>11. CASE UNCHANGED vars
  BY <1>11 DEF vars
<1> QED BY <1>1, <1>2, <1>3, <1>4, <1>5, <1>6, <1>7, <1>8, <1>9, <1>10, <1>11
        DEF Next, Environment, RunStep

-----------------------------------------------------------------------------
(* A mutex that is held can be given back. *)

\* The inductive strengthening of HolderCanReturn: only wsConsume's connection
\* stalls, whether somebody writes to it or not.
HolderInv ==
    /\ lock # None => Writing(lock)
    /\ conn # 0 /\ ws[conn] = "stalled" => sup = "consume"

\* Every step keeps HolderInv: each Lock is followed by its write, each return
\* of a write by its Unlock, and nobody leaves wsConsume on a stalled connection.
LEMMA HolderStep == TypesOK /\ WriterInv /\ ReadersInv /\ HolderInv /\ [Next]_vars => HolderInv'
<1> SUFFICES ASSUME TypesOK, WriterInv, ReadersInv, HolderInv, [Next]_vars
             PROVE  HolderInv'
  OBVIOUS
<1> USE ControlPathAssumption
    DEF TypesOK, LabelsOK, CountsOK, WriterInv, HolderInv, Writing, Subs, Handler,
        SupLabels, InSession
<1>1. CASE RunStep
  BY <1>1 DEF RunStep, Refused, Subscribe, ConsumeEnds, Sleep, Unsubscribe, BodyEnds,
              ReadersInv, Live
<1>2. CASE SupCancelled \/ SupSends \/ ConsumeFails
  BY <1>2 DEF SupCancelled, SupSends, ConsumeFails, SupGoes
<1>3. CASE Attach
  BY <1>3 DEF Attach, SupGoes, Conns
<1>4. CASE Detach
  BY <1>4 DEF Detach, SupGoes
<1>5. CASE CloseOnCancel
  BY <1>5 DEF CloseOnCancel
<1>6. CASE HandlerSends \/ HandlerSent
  BY <1>6 DEF HandlerSends, HandlerSent, Locks, WriteReturns
<1>7. CASE Emit \/ Cancel \/ IdleFires
  BY <1>7 DEF Emit, Cancel, IdleFires
<1>8. ASSUME NEW s \in Subs, Break(s) \/ FallSilent(s) PROVE HolderInv'
  BY <1>8 DEF Break, BodyEnds, FallSilent
<1>9. ASSUME NEW c \in Conns, WebSocketChanges(c) PROVE HolderInv'
  BY <1>9 DEF WebSocketChanges, Conns
<1>10. ASSUME NEW s \in Subs, ReaderScans(s) \/ ReaderEnds(s) PROVE HolderInv'
  BY <1>10 DEF ReaderScans, ReaderEnds, ReaderGoes, Looked
<1>11. ASSUME NEW s \in Subs, ReaderSends(s) PROVE HolderInv'
  BY <1>11 DEF ReaderSends, ReaderGoes, Looked, Locks
<1>12. ASSUME NEW s \in Subs, ReaderSent(s) PROVE HolderInv'
  BY <1>12 DEF ReaderSent, ReaderGoes, Looked, WriteReturns
<1>13. CASE UNCHANGED vars
  BY <1>13 DEF vars
<1> QED BY <1>1, <1>2, <1>3, <1>4, <1>5, <1>6, <1>7, <1>8, <1>9, <1>10, <1>11, <1>12,
           <1>13 DEF Next, Environment, SupStep, Reader

\* The mutex is held only by a goroutine in WriteMessage, which can return or
\* whose connection a cancellation closes (write, wsConsume).
THEOREM HolderCanReturnAlways == Spec => []HolderCanReturn
<1>1. Init => WriterInv
  BY DEF Init, WriterInv, Writing, InSession, Subs, Handler
<1>2. Init => HolderInv
  BY DEF Init, HolderInv
<1>3. TypesOK /\ WriterInv /\ HolderInv => HolderCanReturn
  BY ControlPathAssumption
     DEF TypesOK, CountsOK, WriterInv, HolderInv, HolderCanReturn, Writing, Subs, Handler
<1>4. Init => ReadersInv
  BY DEF Init, ReadersInv, Live
<1> QED BY <1>1, <1>2, <1>3, <1>4, WriterStep, ReadersStep, HolderStep, TypesAlways, PTL
        DEF Spec

-----------------------------------------------------------------------------
(* The order of events. *)

\* What the elements of the lines and of the commands are.
LEMMA Elements ==
    ASSUME TypesOK
    PROVE  /\ \A s \in Subs : /\ wire[s] \in Seq(0..MaxEvents)
                              /\ Len(wire[s]) \in Nat
                              /\ \A i \in 1..Len(wire[s]) : wire[s][i] \in Nat
           /\ delivered \in Seq(1..MaxEvents)
           /\ Len(delivered) \in Nat
           /\ \A i \in 1..Len(delivered) : delivered[i] \in Nat
           /\ sent \in Nat
<1>1. \A s \in Subs : wire[s] \in Seq(0..MaxEvents)
  BY DEF TypesOK, LinesOK
<1>2. delivered \in Seq(1..MaxEvents)
  BY DEF TypesOK, LinesOK
<1>3. ASSUME NEW S, S \subseteq Nat, NEW q \in Seq(S)
      PROVE  Len(q) \in Nat /\ \A i \in 1..Len(q) : q[i] \in Nat
  <2>1. Len(q) \in Nat /\ \A i \in 1..Len(q) : q[i] \in S
    OBVIOUS
  <2> QED BY <1>3, <2>1
<1>4. 0..MaxEvents \subseteq Nat /\ 1..MaxEvents \subseteq Nat
  BY ControlPathAssumption
<1> QED BY <1>1, <1>2, <1>3, <1>4, ControlPathAssumption DEF TypesOK, CountsOK

\* p is a contiguous part of q.
Part(p, q) ==
    \E k \in Nat : /\ Len(p) + k <= Len(q)
                   /\ \A i \in 1..Len(p) : p[i] = q[i + k]

LEMMA TailIsPart ==
    ASSUME NEW S, NEW q \in Seq(S), q # <<>>
    PROVE  Part(Tail(q), q)
<1>1. /\ Len(Tail(q)) + 1 <= Len(q)
      /\ \A i \in 1..Len(Tail(q)) : Tail(q)[i] = q[i + 1]
  BY TailOfLines
<1> QED BY <1>1 DEF Part

LEMMA CutIsPart ==
    ASSUME NEW S, NEW q \in Seq(S), NEW n \in 0..Len(q)
    PROVE  Part(SubSeq(q, 1, n), q)
<1>1. /\ Len(SubSeq(q, 1, n)) = n
      /\ \A i \in 1..n : SubSeq(q, 1, n)[i] = q[i]
  BY CutLines
<1>2. /\ Len(SubSeq(q, 1, n)) + 0 <= Len(q)
      /\ \A i \in 1..Len(SubSeq(q, 1, n)) : SubSeq(q, 1, n)[i] = q[i + 0]
  BY <1>1
<1> QED BY <1>2 DEF Part

LEMMA WholeIsPart ==
    ASSUME NEW S, NEW q \in Seq(S)
    PROVE  Part(q, q)
<1>1. Len(q) + 0 <= Len(q) /\ \A i \in 1..Len(q) : q[i] = q[i + 0]
  OBVIOUS
<1> QED BY <1>1 DEF Part

\* The order of the lines that are left, and of the commands, when lines are only
\* taken away and no command is added.
LEMMA FewerLines ==
    ASSUME TypesOK, TypesOK', OrderInv, UNCHANGED <<sent, delivered>>,
           \A s \in Subs : Part(wire'[s], wire[s]),
           \A s \in Subs : Live(s)' => Live(s) \/ wire[s] = <<>>
    PROVE  OrderInv'
<1>1. ASSUME NEW s \in Subs
      PROVE  /\ \A i \in 1..Len(wire'[s]) : wire'[s][i] <= sent
             /\ \A i, j \in 1..Len(wire'[s]) :
                  i < j /\ wire'[s][i] # 0 /\ wire'[s][j] # 0
                      => wire'[s][i] < wire'[s][j]
             /\ Live(s)' => \A i \in 1..Len(delivered), j \in 1..Len(wire'[s]) :
                  wire'[s][j] # 0 => delivered[i] < wire'[s][j]
  <2>1. PICK k \in Nat : /\ Len(wire'[s]) + k <= Len(wire[s])
                         /\ \A i \in 1..Len(wire'[s]) : wire'[s][i] = wire[s][i + k]
    BY DEF Part
  <2>2. Len(wire'[s]) \in Nat /\ Len(wire[s]) \in Nat
    BY Elements DEF TypesOK, LinesOK
  <2>3. \A i \in 1..Len(wire'[s]) : i + k \in 1..Len(wire[s])
    BY <2>1, <2>2
  <2>4. \A i \in 1..Len(wire'[s]) : wire'[s][i] <= sent
    BY <2>1, <2>3 DEF OrderInv
  <2>5. ASSUME NEW i \in 1..Len(wire'[s]), NEW j \in 1..Len(wire'[s]), i < j,
               wire'[s][i] # 0, wire'[s][j] # 0
        PROVE  wire'[s][i] < wire'[s][j]
    <3>1. i + k < j + k
      BY <2>2, <2>5
    <3> QED BY <2>1, <2>3, <2>5, <3>1 DEF OrderInv
  <2>6. ASSUME Live(s)', NEW i \in 1..Len(delivered), NEW j \in 1..Len(wire'[s]),
               wire'[s][j] # 0
        PROVE  delivered[i] < wire'[s][j]
    <3>1. j + k \in 1..Len(wire[s]) /\ wire[s] # <<>>
      BY <2>2, <2>3
    <3>2. Live(s)
      BY <2>6, <3>1
    <3> QED BY <2>1, <2>6, <3>1, <3>2 DEF OrderInv
  <2> QED BY <2>4, <2>5, <2>6
<1>2. (\A i \in 1..Len(delivered) : delivered[i] <= sent) /\ EventOrder
  BY DEF OrderInv
<1> QED BY <1>1, <1>2 DEF OrderInv, EventOrder

\* The order when lines arrive: a line without a command, or one that is later
\* than everything sent before.
LEMMA MoreLines ==
    ASSUME TypesOK, TypesOK', OrderInv, UNCHANGED <<reader, delivered>>,
           sent <= sent',
           \A s \in Subs :
              \/ wire'[s] = wire[s]
              \/ \E e \in Nat : /\ wire'[s] = Append(wire[s], e)
                                /\ e = 0 \/ (sent < e /\ e <= sent')
    PROVE  OrderInv'
<1>1. sent \in Nat /\ sent' \in Nat
  BY DEF TypesOK, CountsOK
<1>2. \A s \in Subs : \A i \in 1..Len(wire[s]) : wire[s][i] \in Nat /\ wire[s][i] <= sent
  BY Elements DEF OrderInv
<1>3. \A i \in 1..Len(delivered) : delivered[i] \in Nat /\ delivered[i] <= sent
  BY Elements DEF OrderInv
<1>4. ASSUME NEW s \in Subs
      PROVE  /\ \A i \in 1..Len(wire'[s]) : wire'[s][i] <= sent'
             /\ \A i, j \in 1..Len(wire'[s]) :
                  i < j /\ wire'[s][i] # 0 /\ wire'[s][j] # 0
                      => wire'[s][i] < wire'[s][j]
             /\ Live(s) => \A i \in 1..Len(delivered), j \in 1..Len(wire'[s]) :
                  wire'[s][j] # 0 => delivered[i] < wire'[s][j]
  <2>1. CASE wire'[s] = wire[s]
    BY <1>1, <1>2, <2>1 DEF OrderInv
  <2>2. ASSUME NEW e \in Nat, wire'[s] = Append(wire[s], e),
               e = 0 \/ (sent < e /\ e <= sent')
        PROVE  /\ \A i \in 1..Len(wire'[s]) : wire'[s][i] <= sent'
               /\ \A i, j \in 1..Len(wire'[s]) :
                    i < j /\ wire'[s][i] # 0 /\ wire'[s][j] # 0
                        => wire'[s][i] < wire'[s][j]
               /\ Live(s) => \A i \in 1..Len(delivered), j \in 1..Len(wire'[s]) :
                    wire'[s][j] # 0 => delivered[i] < wire'[s][j]
    <3> DEFINE n == Len(wire[s])
    <3>1. n \in Nat /\ wire[s] \in Seq(Nat)
      BY Elements
    <3>2. /\ Len(wire'[s]) = n + 1
          /\ \A i \in 1..n : wire'[s][i] = wire[s][i]
          /\ wire'[s][n + 1] = e
      BY <2>2, <3>1, AppendLine
    <3>3. \A i \in 1..Len(wire'[s]) : i \in 1..n \/ i = n + 1
      BY <3>1, <3>2
    <3>4. \A i, j \in 1..Len(wire'[s]) : i < j => i \in 1..n
      BY <3>1, <3>2
    <3>5. \A i \in 1..n : wire[s][i] \in Nat /\ wire[s][i] <= sent
      BY <1>2
    <3> HIDE DEF n
    <3>6. \A i \in 1..Len(wire'[s]) : wire'[s][i] <= sent'
      BY <1>1, <2>2, <3>2, <3>3, <3>5
    <3>7. ASSUME NEW i \in 1..Len(wire'[s]), NEW j \in 1..Len(wire'[s]), i < j,
                 wire'[s][i] # 0, wire'[s][j] # 0
          PROVE  wire'[s][i] < wire'[s][j]
      <4>1. CASE j \in 1..n
        BY <3>2, <3>4, <3>7, <4>1 DEF OrderInv, n
      <4>2. CASE j = n + 1
        BY <1>1, <2>2, <3>2, <3>4, <3>5, <3>7, <4>2
      <4> QED BY <3>3, <4>1, <4>2
    <3>8. ASSUME Live(s), NEW i \in 1..Len(delivered), NEW j \in 1..Len(wire'[s]),
                 wire'[s][j] # 0
          PROVE  delivered[i] < wire'[s][j]
      <4>1. CASE j \in 1..n
        BY <3>2, <3>8, <4>1 DEF OrderInv, n
      <4>2. CASE j = n + 1
        BY <1>1, <1>3, <2>2, <3>2, <3>8, <4>2
      <4> QED BY <3>3, <4>1, <4>2
    <3> QED BY <3>6, <3>7, <3>8
  <2> QED BY <2>1, <2>2
<1>5. \A i \in 1..Len(delivered) : delivered[i] <= sent'
  BY <1>1, <1>3
<1> QED BY <1>4, <1>5 DEF OrderInv, EventOrder, Live

\* The order when a command is delivered: its event is later than those before
\* and earlier than the lines behind it.
LEMMA Delivers ==
    ASSUME TypesOK, ReadersInv, OrderInv, NEW s \in Subs, ReaderSent(s),
           ws[conn] = "open"
    PROVE  OrderInv'
<1>1. Live(s) /\ s = sub /\ wire[s] # <<>> /\ Head(wire[s]) # 0
  BY DEF ReaderSent, ReaderGoes, Handling, Live, TypesOK, LinesOK, ReadersInv
<1> DEFINE e == Head(wire[s])
           n == Len(delivered)
<1>2. /\ n \in Nat /\ sent \in Nat
      /\ wire[s] \in Seq(0..MaxEvents)
      /\ delivered \in Seq(1..MaxEvents)
      /\ \A i \in 1..n : delivered[i] \in Nat
      /\ \A i \in 1..Len(wire[s]) : wire[s][i] \in Nat
  BY Elements
<1>3. e = wire[s][1] /\ 1 \in 1..Len(wire[s]) /\ e \in 1..MaxEvents
  <2>1. e \in 0..MaxEvents
    BY <1>1, <1>2, HeadOfLines
  <2>2. e = wire[s][1] /\ 1 \in 1..Len(wire[s])
    BY <1>1, <1>2
  <2> QED BY <1>1, <2>1, <2>2, ControlPathAssumption
<1>4. /\ sent' = sent
      /\ delivered' = Append(delivered, e)
      /\ wire' = [wire EXCEPT ![s] = Tail(@)]
      /\ \A t \in Subs : t # s => reader'[t] = reader[t]
  BY DEF ReaderSent, ReaderGoes, TypesOK, LabelsOK
<1>5. /\ Len(delivered') = n + 1
      /\ \A i \in 1..n : delivered'[i] = delivered[i]
      /\ delivered'[n + 1] = e
  BY <1>2, <1>3, <1>4, AppendLine
<1>6. \A t \in Subs : t # s => wire'[t] = wire[t] /\ ~Live(t)'
  BY <1>1, <1>4 DEF ReadersInv, Live, TypesOK, LinesOK
<1>7. /\ wire'[s] = Tail(wire[s])
      /\ Len(wire'[s]) = Len(wire[s]) - 1
      /\ \A i \in 1..Len(wire'[s]) : wire'[s][i] = wire[s][i + 1]
  <2>1. wire'[s] = Tail(wire[s])
    BY <1>4 DEF TypesOK, LinesOK
  <2> QED BY <1>1, <1>2, <2>1, TailOfLines
<1>8. \A i \in 1..Len(wire'[s]) : i + 1 \in 1..Len(wire[s]) /\ 1 < i + 1
  BY <1>2, <1>7
<1>9. e \in Nat /\ e <= sent /\ \A i \in 1..n : delivered[i] < e
  BY <1>1, <1>3, ControlPathAssumption DEF OrderInv
<1>10. \A i \in 1..n + 1 : i \in 1..n \/ i = n + 1
  BY <1>2
<1>11. \A j \in 1..Len(wire'[s]) : wire'[s][j] # 0 => e < wire'[s][j]
  BY <1>1, <1>3, <1>7, <1>8 DEF OrderInv
<1> HIDE DEF e
<1>12. \A t \in Subs : \A i \in 1..Len(wire'[t]) : wire'[t][i] <= sent
  BY <1>6, <1>7, <1>8 DEF OrderInv
<1>13. \A t \in Subs : \A i, j \in 1..Len(wire'[t]) :
          i < j /\ wire'[t][i] # 0 /\ wire'[t][j] # 0 => wire'[t][i] < wire'[t][j]
  <2>1. ASSUME NEW i \in 1..Len(wire'[s]), NEW j \in 1..Len(wire'[s]), i < j,
               wire'[s][i] # 0, wire'[s][j] # 0
        PROVE  wire'[s][i] < wire'[s][j]
    <3>1. i + 1 < j + 1
      BY <1>2, <1>7, <2>1
    <3> QED BY <1>7, <1>8, <2>1, <3>1 DEF OrderInv
  <2> QED BY <1>6, <2>1 DEF OrderInv
<1> HIDE DEF n
<1>14. \A i \in 1..n + 1, j \in 1..Len(wire'[s]) :
          wire'[s][j] # 0 => delivered'[i] < wire'[s][j]
  <2>1. ASSUME NEW i \in 1..n + 1, NEW j \in 1..Len(wire'[s]), wire'[s][j] # 0
        PROVE  delivered'[i] < wire'[s][j]
    <3>1. wire'[s][j] \in Nat /\ e < wire'[s][j]
      BY <1>2, <1>7, <1>8, <1>11, <2>1
    <3>2. CASE i \in 1..n
      BY <1>2, <1>5, <1>9, <3>1, <3>2
    <3>3. CASE i = n + 1
      BY <1>5, <3>1, <3>3
    <3> QED BY <1>10, <3>2, <3>3
  <2> QED BY <2>1
<1>15. \A i \in 1..n + 1 : delivered'[i] <= sent
  BY <1>5, <1>9, <1>10 DEF OrderInv, n
<1>16. \A i, j \in 1..n + 1 : i < j => delivered'[i] < delivered'[j]
  <2>1. ASSUME NEW i \in 1..n + 1, NEW j \in 1..n + 1, i < j
        PROVE  delivered'[i] < delivered'[j]
    <3>1. i \in 1..n
      BY <1>2, <2>1 DEF n
    <3>2. CASE j \in 1..n
      BY <1>5, <2>1, <3>1, <3>2 DEF OrderInv, EventOrder, n
    <3>3. CASE j = n + 1
      BY <1>5, <1>9, <3>1, <3>3
    <3> QED BY <1>10, <3>2, <3>3
  <2> QED BY <2>1
<1>17. \A t \in Subs : Live(t)' =>
          \A i \in 1..Len(delivered'), j \in 1..Len(wire'[t]) :
             wire'[t][j] # 0 => delivered'[i] < wire'[t][j]
  <2>1. ASSUME NEW t \in Subs, Live(t)' PROVE t = s
    BY <1>6, <2>1
  <2> QED BY <1>5, <1>14, <2>1
<1>18. /\ \A i \in 1..Len(delivered') : delivered'[i] <= sent'
       /\ EventOrder'
  BY <1>4, <1>5, <1>15, <1>16 DEF EventOrder
<1> QED BY <1>4, <1>12, <1>13, <1>17, <1>18 DEF OrderInv

\* OrderInv is inductive: lines arrive and leave in order, one reader has them,
\* and the next subscription starts without lines.
LEMMA OrderStep ==
    TypesOK /\ TypesOK' /\ ReadersInv /\ OrderInv /\ [Next]_vars => OrderInv'
<1> SUFFICES ASSUME TypesOK, TypesOK', ReadersInv, OrderInv, [Next]_vars
             PROVE  OrderInv'
  OBVIOUS
<1>1. \A s \in Subs : wire[s] \in Seq(0..MaxEvents) /\ Part(wire[s], wire[s])
  BY Elements, WholeIsPart
<1>2. ASSUME UNCHANGED <<wire, sent, delivered>>,
             \A s \in Subs : Live(s)' => Live(s) \/ wire[s] = <<>>
      PROVE  OrderInv'
  BY <1>1, <1>2, FewerLines
<1>3. ASSUME NEW s, BodyEnds(s), UNCHANGED <<reader, sent, delivered>>
      PROVE  OrderInv'
  <2>1. CASE s \in Subs
    <3>1. PICK n \in 0..Len(wire[s]) : wire' = [wire EXCEPT ![s] = SubSeq(@, 1, n)]
      BY <1>3 DEF BodyEnds
    <3>2. Part(SubSeq(wire[s], 1, n), wire[s])
      BY <1>1, <2>1, CutIsPart
    <3>3. \A t \in Subs : Part(wire'[t], wire[t])
      BY <1>1, <3>1, <3>2 DEF TypesOK, LinesOK
    <3> QED BY <1>3, <3>3, FewerLines DEF Live
  <2>2. CASE s \notin Subs
    <3>1. wire' = wire
      BY <1>3, <2>2 DEF BodyEnds, TypesOK, LinesOK
    <3> QED BY <1>2, <1>3, <3>1 DEF Live
  <2> QED BY <2>1, <2>2
<1>4. ASSUME NEW s \in Subs, wire[s] # <<>>, wire' = [wire EXCEPT ![s] = Tail(@)],
             UNCHANGED <<sent, delivered>>,
             Live(s), \A t \in Subs : t # s => reader'[t] = reader[t]
      PROVE  OrderInv'
  <2>1. Part(Tail(wire[s]), wire[s])
    BY <1>1, <1>4, TailIsPart
  <2>2. \A t \in Subs : Part(wire'[t], wire[t])
    BY <1>1, <1>4, <2>1 DEF TypesOK, LinesOK
  <2>3. \A t \in Subs : Live(t)' => Live(t)
    BY <1>4 DEF Live
  <2> QED BY <1>4, <2>2, <2>3, FewerLines
<1>5. CASE RunStep
  <2>1. CASE Refused \/ Sleep
    BY <1>2, <2>1 DEF Refused, Sleep, Live
  <2>2. CASE Subscribe
    <3>1. \A s \in Subs : Live(s)' => Live(s) \/ s = sub + 1
      BY <2>2 DEF Subscribe, Live, TypesOK, LabelsOK
    <3>2. \A s \in Subs : s = sub + 1 => wire[s] = <<>>
      BY DEF ReadersInv, TypesOK, CountsOK
    <3> QED BY <1>2, <2>2, <3>1, <3>2 DEF Subscribe
  <2>3. CASE ConsumeEnds
    BY <1>3, <2>3 DEF ConsumeEnds, Unsubscribe
  <2> QED BY <1>5, <2>1, <2>2, <2>3 DEF RunStep
<1>6. CASE SupStep \/ CloseOnCancel
  BY <1>2, <1>6 DEF SupStep, SupCancelled, Attach, SupSends, ConsumeFails, Detach,
                    CloseOnCancel, Live
<1>7. CASE HandlerSends \/ HandlerSent
  BY <1>2, <1>7 DEF HandlerSends, HandlerSent, Live
<1>8. CASE Cancel \/ IdleFires
  BY <1>2, <1>8 DEF Cancel, IdleFires, Live
<1>9. CASE Emit
  <2>1. sent \in Nat
    BY Elements
  <2>2. CASE /\ sent' = sent + 1
             /\ wire' = [s \in Subs |->
                           IF sse[s] = "open" THEN Append(wire[s], sent + 1)
                                              ELSE wire[s]]
             /\ UNCHANGED <<reader, delivered>>
    <3>1. ASSUME NEW s \in Subs
          PROVE  \/ wire'[s] = wire[s]
                 \/ \E e \in Nat : /\ wire'[s] = Append(wire[s], e)
                                   /\ e = 0 \/ (sent < e /\ e <= sent')
      <4>1. sent + 1 \in Nat /\ sent < sent + 1 /\ sent + 1 <= sent'
        BY <2>1, <2>2
      <4> QED BY <2>2, <4>1
    <3>2. sent <= sent'
      BY <2>1, <2>2
    <3> QED BY <2>2, <3>1, <3>2, MoreLines
  <2>3. CASE /\ \E s \in Subs : wire' = [wire EXCEPT ![s] = Append(@, 0)]
             /\ UNCHANGED <<reader, sent, delivered>>
    <3>1. \A s \in Subs : wire'[s] = wire[s] \/ wire'[s] = Append(wire[s], 0)
      BY <2>3 DEF TypesOK, LinesOK
    <3>2. sent <= sent'
      BY <2>1, <2>3
    <3> QED BY <2>3, <3>1, <3>2, MoreLines
  <2> QED BY <1>9, <2>2, <2>3 DEF Emit
<1>10. ASSUME NEW s \in Subs, Break(s) PROVE OrderInv'
  BY <1>3, <1>10 DEF Break
<1>11. ASSUME NEW s \in Subs, FallSilent(s) PROVE OrderInv'
  BY <1>2, <1>11 DEF FallSilent, Live
<1>12. ASSUME NEW c \in Conns, WebSocketChanges(c) PROVE OrderInv'
  BY <1>2, <1>12 DEF WebSocketChanges, Live
<1>13. ASSUME NEW s \in Subs, Reader(s) PROVE OrderInv'
  <2>1. Live(s) /\ \A t \in Subs : t # s => reader'[t] = reader[t]
    BY <1>13 DEF Reader, ReaderScans, ReaderEnds, ReaderSends, ReaderSent, ReaderGoes,
                 Live, TypesOK, LabelsOK
  <2>2. \A t \in Subs : Live(t)' => Live(t)
    BY <2>1 DEF Live
  <2>3. reader[s] \in {"want", "write"} => wire[s] # <<>>
    BY DEF TypesOK, LinesOK, Handling
  <2>4. CASE ReaderScans(s)
    BY <1>2, <1>4, <2>1, <2>2, <2>4 DEF ReaderScans
  <2>5. CASE ReaderEnds(s)
    BY <1>2, <2>2, <2>5 DEF ReaderEnds
  <2>6. CASE ReaderSends(s)
    BY <1>2, <1>4, <2>1, <2>2, <2>3, <2>6 DEF ReaderSends, ReaderGoes
  <2>7. CASE ReaderSent(s) /\ ws[conn] = "open"
    BY <2>7, Delivers
  <2>8. CASE ReaderSent(s) /\ ws[conn] # "open"
    BY <1>4, <2>1, <2>3, <2>8 DEF ReaderSent, ReaderGoes
  <2> QED BY <1>13, <2>4, <2>5, <2>6, <2>7, <2>8 DEF Reader
<1>14. CASE UNCHANGED vars
  BY <1>2, <1>14 DEF vars, Live
<1> QED BY <1>5, <1>6, <1>7, <1>8, <1>9, <1>10, <1>11, <1>12, <1>13, <1>14
        DEF Next, Environment

\* Commands reach Soloist in the order of their events and none of them twice,
\* across any number of subscriptions and sessions (consume, dispatch, send).
THEOREM EventOrderAlways == Spec => []EventOrder
<1>1. Init => ReadersInv /\ OrderInv
  <2> SUFFICES ASSUME Init PROVE ReadersInv /\ OrderInv
    OBVIOUS
  <2>1. ReadersInv
    BY DEF Init, ReadersInv, Live
  <2>2. Len(delivered) = 0 /\ \A s \in Subs : Len(wire[s]) = 0
    BY DEF Init
  <2>3. OrderInv
    BY <2>2 DEF OrderInv, EventOrder
  <2> QED BY <2>1, <2>3
<1>2. TypesOK /\ TypesOK' /\ ReadersInv /\ OrderInv /\ [Next]_vars
        => ReadersInv' /\ OrderInv'
  BY ReadersStep, OrderStep
<1>3. OrderInv => EventOrder
  BY DEF OrderInv
<1> QED BY <1>1, <1>2, <1>3, TypesAlways, PTL DEF Spec
==============================================================================
