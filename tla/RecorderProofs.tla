--------------------------- MODULE RecorderProofs ---------------------------
(* What the recorder promises for every chunk size, buffer length and source. *)
EXTENDS Recorder, TLAPS

(* The groups of variables an action leaves alone are always expanded. *)
USE DEF counters, taken

\* The two halves of TypeOK: flags, and labels and counters.
FlagsOK ==
    /\ started \in BOOLEAN
    /\ stopped \in BOOLEAN
    /\ ctxDone \in BOOLEAN
    /\ sourceErr \in BOOLEAN
    /\ flushing \in BOOLEAN

\* There is no pump before the first Start; the pump reads only when less than a
\* chunk is left over, so that acc is bounded, and a partial chunk is all it ever
\* ends with.
CountsOK ==
    /\ stop \in {"nil", "open", "closed"}
    /\ pump \in {"none", "top", "read", "emit", "count", "done"}
    /\ read \in 0..MaxBytes
    /\ acc \in 0..(2 * ChunkSize - 1)
    /\ buffered \in 0..BufferLen
    /\ chunksSent \in Nat /\ dropped \in Nat
    /\ received \in Nat /\ flushed \in Nat
    /\ pump # "none" => started
    /\ pump \in {"none", "top", "read", "count", "done"} => acc < ChunkSize

\* Flags stay flags.
LEMMA FlagsStep == FlagsOK /\ [Next]_vars => FlagsOK'
<1> SUFFICES ASSUME FlagsOK, [Next]_vars PROVE FlagsOK'
  OBVIOUS
<1> USE RecorderAssumption DEF FlagsOK, control, source
<1>1. CASE Start BY <1>1 DEF Start
<1>2. CASE Stop BY <1>2 DEF Stop
<1>3. CASE Cancel BY <1>3 DEF Cancel
<1>4. CASE Receive BY <1>4 DEF Receive
<1>5. CASE BeginFlush BY <1>5 DEF BeginFlush
<1>6. CASE FlushOne BY <1>6 DEF FlushOne
<1>7. CASE EndFlush BY <1>7 DEF EndFlush
<1>8. CASE PumpTop BY <1>8 DEF PumpTop
<1>9. CASE PumpRead BY <1>9 DEF PumpRead
<1>10. CASE PumpEmit BY <1>10 DEF PumpEmit
<1>11. CASE PumpCount BY <1>11 DEF PumpCount
<1>12. CASE PumpEmitted BY <1>12 DEF PumpEmitted
<1>13. CASE UNCHANGED vars
  BY <1>13 DEF vars
<1> QED BY <1>1, <1>2, <1>3, <1>4, <1>5, <1>6, <1>7,
           <1>8, <1>9, <1>10, <1>11, <1>12, <1>13 DEF Next, Pump

\* CountsOK is inductive: a chunk is cut off before acc can reach two chunks.
LEMMA CountsStep == CountsOK /\ [Next]_vars => CountsOK'
<1> SUFFICES ASSUME CountsOK, [Next]_vars PROVE CountsOK'
  OBVIOUS
<1> USE RecorderAssumption DEF CountsOK, control, source
<1>1. CASE Start
  <2>1. CASE started BY <1>1, <2>1 DEF Start
  <2>2. CASE ~started BY <1>1, <2>2 DEF Start
  <2> QED BY <2>1, <2>2
<1>2. CASE Stop BY <1>2 DEF Stop
<1>3. CASE Cancel BY <1>3 DEF Cancel
<1>4. CASE Receive BY <1>4 DEF Receive
<1>5. CASE BeginFlush BY <1>5 DEF BeginFlush
<1>6. CASE FlushOne BY <1>6 DEF FlushOne
<1>7. CASE EndFlush BY <1>7 DEF EndFlush
<1>8. CASE PumpTop BY <1>8 DEF PumpTop
<1>9. CASE PumpRead BY <1>9 DEF PumpRead
<1>10. CASE PumpEmit BY <1>10 DEF PumpEmit
<1>11. CASE PumpCount BY <1>11 DEF PumpCount
<1>12. CASE PumpEmitted BY <1>12 DEF PumpEmitted
<1>13. CASE UNCHANGED vars
  BY <1>13 DEF vars
<1> QED BY <1>1, <1>2, <1>3, <1>4, <1>5, <1>6, <1>7,
           <1>8, <1>9, <1>10, <1>11, <1>12, <1>13 DEF Next, Pump

\* Both halves hold in every reachable state.
LEMMA CountsAlways == Spec => [](FlagsOK /\ CountsOK)
<1>1. Init => FlagsOK
  BY DEF Init, FlagsOK
<1>2. Init => CountsOK
  BY RecorderAssumption DEF Init, CountsOK
<1> QED BY <1>1, <1>2, FlagsStep, CountsStep, PTL DEF Spec

\* Type correctness of the recorder's state (every action).
THEOREM TypeCorrect == Spec => []TypeOK
<1>1. FlagsOK /\ CountsOK => TypeOK
  BY DEF FlagsOK, CountsOK, TypeOK
<1> QED BY <1>1, CountsAlways, PTL

\* Only partial chunks are left when the pump goes round or ends (the emit loop
\* of pump runs before the read error is looked at).
THEOREM NoChunkLeftAlways == Spec => []NoChunkLeft
<1>1. CountsOK => NoChunkLeft
  BY DEF CountsOK, NoChunkLeft
<1> QED BY <1>1, CountsAlways, PTL

\* A step of the recorder keeps the chunks accounted for.
LEMMA SentStep == CountsOK /\ SentAccounted /\ [Next]_vars => SentAccounted'
<1> SUFFICES ASSUME CountsOK, SentAccounted, [Next]_vars PROVE SentAccounted'
  OBVIOUS
<1> USE RecorderAssumption DEF CountsOK, SentAccounted, control, source
<1>1. CASE Start
  <2>1. CASE started BY <1>1, <2>1 DEF Start
  <2>2. CASE ~started BY <1>1, <2>2 DEF Start
  <2> QED BY <2>1, <2>2
<1>2. CASE Stop BY <1>2 DEF Stop
<1>3. CASE Cancel BY <1>3 DEF Cancel
<1>4. CASE Receive BY <1>4 DEF Receive
<1>5. CASE BeginFlush BY <1>5 DEF BeginFlush
<1>6. CASE FlushOne BY <1>6 DEF FlushOne
<1>7. CASE EndFlush BY <1>7 DEF EndFlush
<1>8. CASE PumpTop BY <1>8 DEF PumpTop
<1>9. CASE PumpRead BY <1>9 DEF PumpRead
<1>10. CASE PumpEmit BY <1>10 DEF PumpEmit
<1>11. CASE PumpCount BY <1>11 DEF PumpCount
<1>12. CASE PumpEmitted BY <1>12 DEF PumpEmitted
<1>13. CASE UNCHANGED vars
  BY <1>13 DEF vars
<1> QED BY <1>1, <1>2, <1>3, <1>4, <1>5, <1>6, <1>7, <1>8, <1>9, <1>10, <1>11,
           <1>12, <1>13 DEF Next, Pump

\* Every chunk sent is buffered, received or flushed (pump, Flush, Chunks).
THEOREM SentAccountedAlways == Spec => []SentAccounted
<1>1. Init => SentAccounted
  BY DEF Init, SentAccounted
<1> QED BY <1>1, SentStep, CountsAlways, PTL DEF Spec

\* One more chunk of audio is ChunkSize more bytes.
LEMMA OneChunkMore ==
    ASSUME NEW n \in Nat, NEW c \in Nat PROVE (n + 1) * c = n * c + c
OBVIOUS

\* A step of the recorder keeps the bytes counted.
LEMMA BytesStep == CountsOK /\ BytesCounted /\ [Next]_vars => BytesCounted'
<1> SUFFICES ASSUME CountsOK, BytesCounted, [Next]_vars PROVE BytesCounted'
  OBVIOUS
<1> DEFINE made == chunksSent + dropped + (IF pump = "count" THEN 1 ELSE 0)
<1>0. made \in Nat /\ ChunkSize \in Nat /\ acc \in Nat /\ read \in Nat
  BY RecorderAssumption DEF CountsOK
<1>a. CASE made' = made /\ read' - acc' = read - acc /\ acc' \in Nat /\ read' \in Nat
  BY <1>0, <1>a DEF BytesCounted
<1>b. CASE PumpEmit
  <2>1. made' = made + 1 /\ read' = read /\ acc' = acc - ChunkSize
    BY <1>b DEF PumpEmit, source, CountsOK
  <2>2. (made + 1) * ChunkSize = made * ChunkSize + ChunkSize
    BY <1>0, OneChunkMore
  <2> QED BY <2>1, <2>2, <1>0 DEF BytesCounted
<1> USE RecorderAssumption DEF CountsOK, control, source
<1>c. CASE PumpRead
  BY <1>a, <1>c DEF PumpRead
<1>1. CASE Start
  <2>1. CASE started BY <1>a, <1>1, <2>1 DEF Start
  <2>2. CASE ~started BY <1>a, <1>1, <2>2 DEF Start
  <2> QED BY <2>1, <2>2
<1>2. CASE Stop
  BY <1>a, <1>2 DEF Stop
<1>3. CASE Cancel
  BY <1>a, <1>3 DEF Cancel
<1>4. CASE Receive
  BY <1>a, <1>4 DEF Receive
<1>5. CASE BeginFlush
  BY <1>a, <1>5 DEF BeginFlush
<1>6. CASE FlushOne
  BY <1>a, <1>6 DEF FlushOne
<1>7. CASE EndFlush
  BY <1>a, <1>7 DEF EndFlush
<1>8. CASE PumpTop
  BY <1>a, <1>8 DEF PumpTop
<1>9. CASE PumpCount
  BY <1>a, <1>9 DEF PumpCount
<1>10. CASE PumpEmitted
  BY <1>a, <1>10 DEF PumpEmitted
<1>11. CASE UNCHANGED vars
  BY <1>a, <1>11 DEF vars
<1> QED BY <1>b, <1>c, <1>1, <1>2, <1>3, <1>4, <1>5, <1>6, <1>7, <1>8, <1>9,
           <1>10, <1>11 DEF Next, Pump

\* Every byte read is in a counted chunk or in acc, for every chunk size, and less
\* than a chunk stays there when the pump goes round or ends.
THEOREM BytesAccountedAlways == Spec => []BytesAccounted
<1>1. Init => BytesCounted
  BY RecorderAssumption DEF Init, BytesCounted
<1>2. BytesCounted /\ NoChunkLeft => BytesAccounted
  BY DEF BytesAccounted
<1> QED BY <1>1, <1>2, BytesStep, CountsAlways, NoChunkLeftAlways, PTL DEF Spec

\* No second pump follows the first (the sync.Once of Start).
THEOREM OneShotAlways == Spec => OneShot
<1>1. CountsOK /\ [Next]_vars => [pump = "done" => pump' \in {"done", "none"}]_vars
  BY DEF CountsOK, Next, Pump, Start, Stop, Cancel, Receive, BeginFlush,
     FlushOne, EndFlush, PumpTop, PumpRead, PumpEmit, PumpCount, PumpEmitted
<1> QED BY <1>1, CountsAlways, PTL DEF Spec, OneShot
=============================================================================
