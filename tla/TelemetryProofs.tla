--------------------------- MODULE TelemetryProofs ---------------------------
(* The telemetry never reports more than the recorders counted, for every     *)
(* number of replacements, every chunk size, buffer and source.               *)
EXTENDS Telemetry, RecorderProofs

(* The groups of variables an action leaves alone are always expanded. *)
USE DEF loopVars, prevVars, sums, reading, counters, taken

\* What is known of the latest recorder, whichever it is.
RecorderOK == FlagsOK /\ CountsOK /\ BytesCounted

\* Types, with the counters of one recorder below Modulus.
SamplerOK ==
    /\ epoch \in 1..MaxRecorders
    /\ slot \in {"unset", "set", "cleared"}
    /\ held \in {"no", "latest", "replaced", "nil"}
    /\ set \in BOOLEAN /\ counted \in BOOLEAN
    /\ pastChunks \in Nat /\ pastDropped \in Nat
    /\ snapChunks \in 0..MaxBytes
    /\ lastChunks \in 0..MaxBytes /\ lastDropped \in 0..MaxBytes
    /\ prevChunks \in 0..MaxBytes /\ prevDropped \in 0..MaxBytes
    /\ sumChunks \in Nat /\ sumDropped \in Nat

\* Nothing of the latest recorder was reported yet.
OnlyPast == sumChunks <= pastChunks /\ sumDropped <= pastDropped

\* The strengthening of NeverOverreports: what was reported of the latest
\* recorder is at most the baseline, as long as a sample of it can still come,
\* and a baseline that is not of the latest recorder means nothing of it was
\* reported.
ReportInv ==
    /\ NeverOverreports
    /\ ~set => sumChunks = 0 /\ sumDropped = 0
    /\ held # "no" /\ ~counted => held \in {"latest", "replaced"}
    /\ held = "latest" => slot # "unset"
    /\ held = "latest" /\ counted => snapChunks <= chunksSent
    /\ slot = "unset" => OnlyPast
    /\ (held = "latest" \/ slot = "set") =>
          /\ sumChunks <= pastChunks + prevChunks
          /\ sumDropped <= pastDropped + prevDropped
    /\ slot = "set" =>
          \/ OnlyPast
          \/ /\ prevChunks <= chunksSent /\ prevDropped <= dropped
             /\ held = "latest" /\ counted => prevChunks <= snapChunks
    /\ held \in {"no", "nil"} => snapChunks = 0
    /\ (held = "nil" /\ slot = "set") => OnlyPast
    /\ held = "replaced" =>
          /\ OnlyPast
          /\ sumChunks + (IF counted THEN snapChunks ELSE lastChunks)
                <= pastChunks + prevChunks
          /\ sumDropped + lastDropped <= pastDropped + prevDropped

\* A number of chunks is at most the number of their bytes.
LEMMA ProductGrows ==
    ASSUME NEW n \in Nat, NEW c \in Nat \ {0} PROVE n <= n * c
OBVIOUS

\* What is at most a sum is at most the sum after a term has grown.
LEMMA SumGrows ==
    ASSUME NEW a \in Nat, NEW p \in Nat, NEW c \in Nat, NEW d \in Nat,
           a <= p + c, c <= d
    PROVE  a <= p + d
OBVIOUS

\* The counters of a recorder stay below Modulus.
LEMMA CountersBounded ==
    ASSUME RecorderOK PROVE chunksSent \in 0..MaxBytes /\ dropped \in 0..MaxBytes
<1> DEFINE made == chunksSent + dropped + (IF pump = "count" THEN 1 ELSE 0)
<1>1. /\ made \in Nat /\ ChunkSize \in Nat \ {0} /\ acc \in Nat
      /\ read \in 0..MaxBytes
      /\ chunksSent \in Nat /\ dropped \in Nat
      /\ chunksSent <= made /\ dropped <= made
  BY RecorderAssumption DEF RecorderOK, CountsOK
<1>2. made <= made * ChunkSize
  BY <1>1, ProductGrows
<1>3. read = made * ChunkSize + acc
  BY DEF RecorderOK, BytesCounted
<1>4. made * ChunkSize \in Nat
  BY <1>1
<1> HIDE DEF made
<1>5. made <= MaxBytes
  BY <1>1, <1>2, <1>3, <1>4, RecorderAssumption
<1> QED BY <1>1, <1>5, RecorderAssumption

\* The counters of a recorder only grow.
LEMMA CountersGrow ==
    ASSUME CountsOK, Next PROVE chunksSent <= chunksSent' /\ dropped <= dropped'
<1>1. CASE PumpEmit
  BY <1>1 DEF PumpEmit, CountsOK
<1>2. CASE PumpCount
  BY <1>2 DEF PumpCount, CountsOK
<1>3. CASE ~PumpEmit /\ ~PumpCount
  <2>1. UNCHANGED counters
    BY <1>3 DEF Next, Pump, Start, Stop, Cancel, Receive, BeginFlush, FlushOne,
       EndFlush, PumpTop, PumpRead, PumpEmitted
  <2> QED BY <2>1 DEF CountsOK
<1> QED BY <1>1, <1>2, <1>3

\* A difference of two counters that did not run backwards is exact.
LEMMA ExactDifference ==
    ASSUME NEW m \in Nat, NEW n \in Nat, n < m, NEW a \in 0..n, NEW b \in 0..a
    PROVE  (a - b) % m = a - b
OBVIOUS

\* What the reader holds when it reads the second counter.
LEMMA SnapBounded ==
    ASSUME RecorderOK, SamplerOK
    PROVE  /\ SnapDropped \in 0..MaxBytes
           /\ held = "latest" => SnapDropped = dropped
           /\ held = "replaced" => SnapDropped = lastDropped
           /\ held \in {"no", "nil"} => SnapDropped = 0
BY CountersBounded, RecorderAssumption DEF SamplerOK, SnapDropped

\* Sample in numbers: the sums grow by what the counters gained, or not at all.
LEMMA SampleSums ==
    ASSUME RecorderOK, SamplerOK, Sample
    PROVE  \/ (~set \/ Backwards) /\ UNCHANGED sums
           \/ /\ set /\ ~Backwards
              /\ sumChunks' = sumChunks + (snapChunks - prevChunks)
              /\ sumDropped' = sumDropped + (SnapDropped - prevDropped)
<1>1. CASE ~set \/ Backwards
  BY <1>1 DEF Sample
<1>2. CASE set /\ ~Backwards
  <2>1. prevChunks <= snapChunks /\ prevDropped <= SnapDropped
    BY <1>2, SnapBounded DEF Backwards, SamplerOK
  <2>2. Difference(snapChunks, prevChunks) = snapChunks - prevChunks
    BY <2>1, ExactDifference, TelemetryAssumption, RecorderAssumption
       DEF Difference, SamplerOK
  <2>3. Difference(SnapDropped, prevDropped) = SnapDropped - prevDropped
    BY <2>1, SnapBounded, ExactDifference, TelemetryAssumption, RecorderAssumption
       DEF Difference, SamplerOK
  <2> QED BY <1>2, <2>2, <2>3 DEF Sample
<1> QED BY <1>1, <1>2

-----------------------------------------------------------------------------

\* The latest recorder stays as the lemmas of RecorderProofs have it, also when
\* it is replaced.
LEMMA RecorderStepOK == RecorderOK /\ [TelemetryNext]_allVars => RecorderOK'
<1> SUFFICES ASSUME RecorderOK, [TelemetryNext]_allVars PROVE RecorderOK'
  OBVIOUS
<1>1. CASE [Next]_vars
  BY <1>1, FlagsStep, CountsStep, BytesStep DEF RecorderOK
<1>2. CASE Replace
  <2>1. FlagsOK'
    BY <1>2 DEF Replace, Fresh, FlagsOK, RecorderOK
  <2>2. CountsOK'
    BY <1>2, RecorderAssumption DEF Replace, Fresh, CountsOK
  <2>3. BytesCounted'
    BY <1>2, RecorderAssumption DEF Replace, Fresh, BytesCounted
  <2> QED BY <2>1, <2>2, <2>3 DEF RecorderOK
<1>3. [Next]_vars \/ Replace
  BY DEF TelemetryNext, RecorderStep, Publish, Unpublish, Fetch, ReadChunks, Sample, allVars
<1> QED BY <1>1, <1>2, <1>3

\* The sampler's variables keep their types.
LEMMA SamplerStepOK ==
    RecorderOK /\ SamplerOK /\ [TelemetryNext]_allVars => SamplerOK'
<1> SUFFICES ASSUME RecorderOK, SamplerOK, [TelemetryNext]_allVars
             PROVE  SamplerOK'
  OBVIOUS
<1> USE TelemetryAssumption, RecorderAssumption DEF SamplerOK
<1>1. CASE RecorderStep BY <1>1 DEF RecorderStep
<1>2. CASE Publish BY <1>2 DEF Publish
<1>3. CASE Unpublish BY <1>3 DEF Unpublish
<1>4. CASE Replace
  <2>1. /\ pastChunks' \in Nat /\ pastDropped' \in Nat
        /\ lastChunks' \in 0..MaxBytes /\ lastDropped' \in 0..MaxBytes
    BY <1>4, CountersBounded DEF Replace
  <2>2. /\ epoch' \in 1..MaxRecorders /\ slot' = "unset"
        /\ held' \in {"no", "latest", "replaced", "nil"}
    BY <1>4 DEF Replace
  <2> QED BY <1>4, <2>1, <2>2 DEF Replace
<1>5. CASE Fetch BY <1>5 DEF Fetch
<1>6. CASE ReadChunks
  <2>1. snapChunks' \in 0..MaxBytes
    BY <1>6, CountersBounded DEF ReadChunks
  <2> QED BY <1>6, <2>1 DEF ReadChunks
<1>7. CASE Sample
  <2>1. sumChunks' \in Nat /\ sumDropped' \in Nat
    BY <1>7, SampleSums, SnapBounded DEF Backwards
  <2>2. /\ prevChunks' \in 0..MaxBytes /\ prevDropped' \in 0..MaxBytes
        /\ snapChunks' \in 0..MaxBytes
        /\ lastChunks' \in 0..MaxBytes /\ lastDropped' \in 0..MaxBytes
    BY <1>7, SnapBounded DEF Sample
  <2>3. set' \in BOOLEAN /\ counted' \in BOOLEAN
        /\ held' \in {"no", "latest", "replaced", "nil"}
    BY <1>7 DEF Sample
  <2> QED BY <1>7, <2>1, <2>2, <2>3 DEF Sample
<1>8. CASE UNCHANGED allVars BY <1>8 DEF allVars
<1> QED BY <1>1, <1>2, <1>3, <1>4, <1>5, <1>6, <1>7, <1>8 DEF TelemetryNext

\* ReportInv is inductive.
LEMMA ReportStep ==
    RecorderOK /\ SamplerOK /\ ReportInv /\ [TelemetryNext]_allVars => ReportInv'
<1> SUFFICES ASSUME RecorderOK, SamplerOK, ReportInv, [TelemetryNext]_allVars
             PROVE  ReportInv'
  OBVIOUS
<1> USE DEF OnlyPast, NeverOverreports
<1>0. chunksSent \in Nat /\ dropped \in Nat
  BY DEF RecorderOK, CountsOK
<1>1. CASE RecorderStep
  <2>1. chunksSent <= chunksSent' /\ dropped <= dropped'
    BY <1>1, CountersGrow DEF RecorderStep, RecorderOK
  <2>2. chunksSent' \in Nat /\ dropped' \in Nat
    BY RecorderStepOK DEF RecorderOK, CountsOK
  <2>3. UNCHANGED <<slot, pastChunks, pastDropped, held, counted, snapChunks,
                    lastChunks, lastDropped, set, prevChunks, prevDropped, sumChunks, sumDropped>>
    BY <1>1 DEF RecorderStep
  <2>4. NeverOverreports'
    <3>1. /\ sumChunks \in Nat /\ sumDropped \in Nat
          /\ pastChunks \in Nat /\ pastDropped \in Nat
          /\ sumChunks <= pastChunks + chunksSent
          /\ sumDropped <= pastDropped + dropped
      BY DEF ReportInv, SamplerOK
    <3>2. /\ sumChunks <= pastChunks + chunksSent'
          /\ sumDropped <= pastDropped + dropped'
      BY <1>0, <2>1, <2>2, <3>1, SumGrows
    <3> QED BY <2>3, <3>2
  <2>5. held = "latest" /\ counted => snapChunks <= chunksSent'
    BY <1>0, <2>1, <2>2 DEF ReportInv, SamplerOK
  <2>6. slot = "set" =>
          \/ OnlyPast
          \/ /\ prevChunks <= chunksSent' /\ prevDropped <= dropped'
             /\ held = "latest" /\ counted => prevChunks <= snapChunks
    BY <1>0, <2>1, <2>2 DEF ReportInv, SamplerOK
  <2> HIDE DEF NeverOverreports
  <2> QED BY <2>3, <2>4, <2>5, <2>6 DEF ReportInv
<1>2. CASE Publish
  BY <1>0, <1>2 DEF Publish, ReportInv, SamplerOK, vars
<1>3. CASE Unpublish
  BY <1>0, <1>3 DEF Unpublish, ReportInv, SamplerOK, vars
<1>4. CASE Replace
  BY <1>0, <1>4 DEF Replace, Fresh, ReportInv, SamplerOK
<1>5. CASE Fetch
  BY <1>0, <1>5 DEF Fetch, ReportInv, SamplerOK, vars
<1>6. CASE ReadChunks
  BY <1>0, <1>6 DEF ReadChunks, ReportInv, SamplerOK, vars
<1>7. CASE Sample
  <2>1. /\ UNCHANGED <<chunksSent, dropped, slot, pastChunks, pastDropped>>
        /\ held # "no" /\ counted /\ held' = "no" /\ set' = TRUE
        /\ prevChunks' = snapChunks /\ prevDropped' = SnapDropped /\ snapChunks' = 0
    BY <1>7 DEF Sample, vars
  <2>2. \/ (~set \/ Backwards) /\ UNCHANGED sums
        \/ /\ set /\ ~Backwards
           /\ sumChunks' = sumChunks + (snapChunks - prevChunks)
           /\ sumDropped' = sumDropped + (SnapDropped - prevDropped)
    BY <1>7, SampleSums
  <2>3. CASE held = "latest"
    <3>1. SnapDropped = dropped
      BY <2>3, SnapBounded
    <3> QED BY <1>0, <2>1, <2>2, <2>3, <3>1 DEF Backwards, ReportInv, SamplerOK
  <2>4. CASE held = "replaced"
    <3>1. SnapDropped = lastDropped
      BY <2>4, SnapBounded
    <3> QED BY <1>0, <2>1, <2>2, <2>4, <3>1 DEF Backwards, ReportInv, SamplerOK
  <2>5. CASE held = "nil"
    <3>1. SnapDropped = 0 /\ snapChunks = 0
      BY <2>5, SnapBounded DEF ReportInv
    <3> QED BY <1>0, <2>1, <2>2, <2>5, <3>1 DEF Backwards, ReportInv, SamplerOK
  <2> QED BY <2>1, <2>3, <2>4, <2>5 DEF SamplerOK
<1>8. CASE UNCHANGED allVars
  BY <1>8 DEF allVars, vars, ReportInv
<1> QED BY <1>1, <1>2, <1>3, <1>4, <1>5, <1>6, <1>7, <1>8 DEF TelemetryNext

\* The three invariants hold in every reachable state.
LEMMA SamplerInvAlways == TelemetrySpec => [](RecorderOK /\ SamplerOK /\ ReportInv)
<1>1. TelemetryInit => RecorderOK
  <2>1. TelemetryInit => FlagsOK
    BY DEF TelemetryInit, Init, FlagsOK
  <2>2. TelemetryInit => CountsOK
    BY RecorderAssumption DEF TelemetryInit, Init, CountsOK
  <2>3. TelemetryInit => BytesCounted
    BY RecorderAssumption DEF TelemetryInit, Init, BytesCounted
  <2> QED BY <2>1, <2>2, <2>3 DEF RecorderOK
<1>2. TelemetryInit => SamplerOK
  <2>1. 0 \in 0..MaxBytes /\ 1 \in 1..MaxRecorders
    BY TelemetryAssumption, RecorderAssumption
  <2>2. TelemetryInit => /\ slot \in {"unset", "set", "cleared"}
                         /\ held \in {"no", "latest", "replaced", "nil"}
                         /\ set \in BOOLEAN /\ counted \in BOOLEAN
    BY DEF TelemetryInit
  <2>3. TelemetryInit => /\ epoch = 1 /\ pastChunks = 0 /\ pastDropped = 0
                         /\ snapChunks = 0 /\ lastChunks = 0 /\ lastDropped = 0
                         /\ prevChunks = 0 /\ prevDropped = 0 /\ sumChunks = 0 /\ sumDropped = 0
    BY DEF TelemetryInit
  <2> QED BY <2>1, <2>2, <2>3 DEF SamplerOK
<1>3. TelemetryInit => ReportInv
  BY DEF TelemetryInit, Init, ReportInv, NeverOverreports, OnlyPast
<1> QED BY <1>1, <1>2, <1>3, RecorderStepOK, SamplerStepOK, ReportStep, PTL
        DEF TelemetrySpec

\* Type correctness of recorder, loop and sampler together.
THEOREM TelemetryTypeCorrect == TelemetrySpec => []TelemetryTypeOK
<1>1. RecorderOK /\ SamplerOK => TelemetryTypeOK
  <2>1. FlagsOK /\ CountsOK => TypeOK
    BY DEF FlagsOK, CountsOK, TypeOK
  <2> QED BY <2>1, RecorderAssumption DEF RecorderOK, SamplerOK, TelemetryTypeOK
<1> QED BY <1>1, SamplerInvAlways, PTL

\* For any number of recorders, however their replacement falls between or into
\* the samples, the telemetry reports at most what they counted (Sample).
THEOREM NeverOverreportsAlways == TelemetrySpec => []NeverOverreports
<1>1. ReportInv => NeverOverreports
  BY DEF ReportInv
<1> QED BY <1>1, SamplerInvAlways, PTL

\* Audio stays accounted for over any number of recorders: the latest one's
\* bytes are in the chunks it sent or dropped or in its accumulator, less than a
\* chunk of them when its pump has ended ...
THEOREM BytesAccountedAcross == TelemetrySpec => []BytesAccounted
<1>1. RecorderOK => BytesAccounted
  BY DEF RecorderOK, CountsOK, NoChunkLeft, BytesAccounted
<1> QED BY <1>1, SamplerInvAlways, PTL

\* ... and its chunks are buffered, received or flushed, through replacements
\* at whatever point of a sample (runRecorder, runTelemetry).
THEOREM SentAccountedAcross == TelemetrySpec => []SentAccounted
<1>1. TelemetryInit => SentAccounted
  BY DEF TelemetryInit, Init, SentAccounted
<1>2. RecorderOK /\ SentAccounted /\ [TelemetryNext]_allVars => SentAccounted'
  <2> SUFFICES ASSUME RecorderOK, SentAccounted, [TelemetryNext]_allVars
               PROVE  SentAccounted'
    OBVIOUS
  <2>1. CASE [Next]_vars
    BY <2>1, SentStep DEF RecorderOK
  <2>2. CASE Replace
    BY <2>2 DEF Replace, Fresh, SentAccounted
  <2>3. [Next]_vars \/ Replace
    BY DEF TelemetryNext, RecorderStep, Publish, Unpublish, Fetch, ReadChunks, Sample, allVars
  <2> QED BY <2>1, <2>2, <2>3
<1> QED BY <1>1, <1>2, SamplerInvAlways, PTL DEF TelemetrySpec

-----------------------------------------------------------------------------
(* The recorder loop as the telemetry has it is that of every other reader.   *)

\* A recorder is in the slot only after its Start.
SlotStarted == slot # "unset" => started

\* Every step keeps SlotStarted.
LEMMA SlotStartedStep == SlotStarted /\ [TelemetryNext]_allVars => SlotStarted'
<1> SUFFICES ASSUME SlotStarted, [TelemetryNext]_allVars PROVE SlotStarted'
  OBVIOUS
<1> USE DEF SlotStarted
<1>1. CASE RecorderStep
  <2>1. started => started'
    BY <1>1 DEF RecorderStep, Next, Pump, Start, Stop, Cancel, Receive, BeginFlush,
       FlushOne, EndFlush, PumpTop, PumpRead, PumpEmit, PumpCount, PumpEmitted, control
  <2> QED BY <1>1, <2>1 DEF RecorderStep
<1>2. CASE Publish BY <1>2 DEF Publish, vars, control
<1>3. CASE Unpublish BY <1>3 DEF Unpublish, vars, control
<1>4. CASE Replace BY <1>4 DEF Replace
<1>5. CASE Fetch BY <1>5 DEF Fetch, vars, control
<1>6. CASE ReadChunks BY <1>6 DEF ReadChunks, vars, control
<1>7. CASE Sample BY <1>7 DEF Sample, vars, control
<1>8. CASE UNCHANGED allVars BY <1>8 DEF allVars, vars, control
<1> QED BY <1>1, <1>2, <1>3, <1>4, <1>5, <1>6, <1>7, <1>8 DEF TelemetryNext

\* Every step is a step of AudioSource or leaves its five variables alone.
LEMMA SourceStep ==
    RecorderOK /\ SamplerOK /\ SlotStarted /\ [TelemetryNext]_allVars
        => [Source!Next]_(Source!sourceVars)
<1> SUFFICES ASSUME RecorderOK, SamplerOK, SlotStarted, [TelemetryNext]_allVars
             PROVE  Source!Next \/ UNCHANGED Source!sourceVars
  OBVIOUS
<1> USE TelemetryAssumption
    DEF RecorderOK, FlagsOK, CountsOK, SamplerOK, SlotStarted, control, source,
        Source!sourceVars, Source!Next, Source!Start, Source!Publish,
        Source!PumpEnds, Source!Unpublish, Source!Stop
<1>1. CASE RecorderStep
  <2> USE DEF RecorderStep
  <2>1. CASE Start BY <1>1, <2>1 DEF Start
  <2>2. CASE Stop BY <1>1, <2>2 DEF Stop
  <2>3. CASE Cancel BY <1>1, <2>3 DEF Cancel
  <2>4. CASE Receive BY <1>1, <2>4 DEF Receive
  <2>5. CASE BeginFlush BY <1>1, <2>5 DEF BeginFlush
  <2>6. CASE FlushOne BY <1>1, <2>6 DEF FlushOne
  <2>7. CASE EndFlush BY <1>1, <2>7 DEF EndFlush
  <2>8. CASE PumpTop BY <1>1, <2>8 DEF PumpTop
  <2>9. CASE PumpRead BY <1>1, <2>9 DEF PumpRead
  <2>10. CASE PumpEmit BY <1>1, <2>10 DEF PumpEmit
  <2>11. CASE PumpCount BY <1>1, <2>11 DEF PumpCount
  <2>12. CASE PumpEmitted BY <1>1, <2>12 DEF PumpEmitted
  <2> QED BY <1>1, <2>1, <2>2, <2>3, <2>4, <2>5, <2>6, <2>7, <2>8, <2>9, <2>10,
             <2>11, <2>12 DEF Next, Pump
<1>2. CASE Publish BY <1>2 DEF Publish, vars
<1>3. CASE Unpublish BY <1>3 DEF Unpublish, vars
<1>4. CASE Replace BY <1>4 DEF Replace, Fresh
<1>5. CASE Fetch BY <1>5 DEF Fetch, vars
<1>6. CASE ReadChunks BY <1>6 DEF ReadChunks, vars
<1>7. CASE Sample BY <1>7 DEF Sample, vars
<1>8. CASE UNCHANGED allVars BY <1>8 DEF allVars, vars
<1> QED BY <1>1, <1>2, <1>3, <1>4, <1>5, <1>6, <1>7, <1>8 DEF TelemetryNext

\* The telemetry is modelled over the same recorder loop as the /stream handlers
\* (recorderSlot, runRecorder), for any number of recorders.
THEOREM TelemetrySource == TelemetrySpec => ImplementsAudioSource
<1>1. TelemetryInit => SlotStarted
  BY DEF TelemetryInit, SlotStarted
<1>2. TelemetryInit => Source!Init
  BY DEF TelemetryInit, Init, Source!Init
<1> QED BY <1>1, <1>2, SlotStartedStep, SourceStep, SamplerInvAlways, PTL
        DEF TelemetrySpec, ImplementsAudioSource, Source!Spec
=============================================================================
