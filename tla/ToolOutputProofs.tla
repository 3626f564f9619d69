-------------------------- MODULE ToolOutputProofs --------------------------
(* Theorems about ToolOutput, for any limits, any pieces and any tool.       *)
EXTENDS ToolOutput, SequenceTheorems, FiniteSetTheorems, TLAPS

Buffers == [limit : Nat, kept : Seq(Units), overflow : BOOLEAN, wrote : Seq(Units)]

Exact(b) ==
    /\ Len(b.kept) <= b.limit /\ Len(b.kept) <= Len(b.wrote)
    /\ b.kept = SubSeq(b.wrote, 1, Len(b.kept))
    /\ b.overflow => Len(b.kept) = b.limit
    /\ b.overflow <=> Len(b.wrote) > Len(b.kept)

-----------------------------------------------------------------------------
(* Beginnings of sequences.                                                  *)

Begins(s, t) == Len(s) <= Len(t) /\ \A i \in 1..Len(s) : s[i] = t[i]

(* A beginning is what SubSeq cuts off. *)
LEMMA BeginsIsSubSeq ==
    ASSUME NEW s \in Seq(Units), NEW t \in Seq(Units)
    PROVE  s = SubSeq(t, 1, Len(s)) /\ Len(s) <= Len(t) <=> Begins(s, t)
<1> DEFINE n == Len(s)
           u == SubSeq(t, 1, n)
<1>1. n \in Nat /\ Len(t) \in Nat
  BY LenProperties
<1>2. ASSUME n <= Len(t)
      PROVE  u \in Seq(Units) /\ Len(u) = n /\ \A i \in 1..n : u[i] = t[i]
  <2>1. \A i \in 1..n : t[i] \in Units
    BY <1>1, <1>2, ElementOfSeq
  <2>2. /\ u \in Seq(Units)
        /\ Len(u) = IF 1 <= n THEN n - 1 + 1 ELSE 0
        /\ \A i \in 1..(n - 1 + 1) : u[i] = t[1 + i - 1]
    BY <1>1, <2>1, SubSeqProperties
  <2> QED
    BY <1>1, <2>2
<1> HIDE DEF u
<1>3. s = u /\ n <= Len(t) => Begins(s, t)
  BY <1>2 DEF Begins
<1>4. Begins(s, t) => s = u
  BY <1>1, <1>2, SeqEqual DEF Begins
<1> QED
  BY <1>3, <1>4 DEF Begins, u

(* cappedBuffer.Write: what is kept stays the beginning of what was written, *)
(* within the limit, and the flag stays true to the losses.                  *)
LEMMA WriteIsExact ==
    ASSUME NEW b \in Buffers, Exact(b), NEW piece \in Seq(Units)
    PROVE  /\ Write(b, piece) \in Buffers
           /\ Exact(Write(b, piece))
           /\ Write(b, piece).limit = b.limit
<1> DEFINE room == b.limit - Len(b.kept)
           w == Write(b, piece)
           part == IF Len(piece) <= room THEN piece ELSE SubSeq(piece, 1, room)
<1>1. /\ b.limit \in Nat /\ b.kept \in Seq(Units) /\ b.wrote \in Seq(Units)
      /\ b.overflow \in BOOLEAN
  BY DEF Buffers
<1>2. /\ Len(b.kept) \in Nat /\ Len(b.wrote) \in Nat /\ Len(piece) \in Nat
      /\ room \in Nat
  BY <1>1, LenProperties DEF Exact
<1>3. w = [limit |-> b.limit, kept |-> b.kept \o part,
           overflow |-> b.overflow \/ Len(piece) > room, wrote |-> b.wrote \o piece]
  <2>1. Lost(room, piece) <=> Len(piece) > room
    BY DEF Lost
  <2>2. (IF ~Lost(room, piece) THEN piece ELSE SubSeq(piece, 1, room)) = part
    BY <1>2, <2>1
  <2>3. w = [b EXCEPT !.kept = @ \o part, !.overflow = @ \/ Len(piece) > room,
                      !.wrote = @ \o piece]
    BY <2>1, <2>2 DEF Write
  <2> HIDE DEF part, w
  <2> QED
    BY <1>1, <2>3 DEF Buffers
<1>4. /\ part \in Seq(Units)
      /\ Len(part) = IF Len(piece) <= room THEN Len(piece) ELSE room
      /\ \A i \in 1..Len(part) : part[i] = piece[i]
  <2>1. CASE Len(piece) <= room
    BY <2>1
  <2>2. CASE Len(piece) > room
    <3>1. \A i \in 1..room : piece[i] \in Units
      BY <1>2, <2>2, ElementOfSeq
    <3>2. /\ SubSeq(piece, 1, room) \in Seq(Units)
          /\ Len(SubSeq(piece, 1, room)) = IF 1 <= room THEN room - 1 + 1 ELSE 0
          /\ \A i \in 1..(room - 1 + 1) : SubSeq(piece, 1, room)[i] = piece[1 + i - 1]
      BY <1>2, <3>1, SubSeqProperties
    <3> QED
      BY <1>2, <2>2, <3>2
  <2> QED
    BY <1>2, <2>1, <2>2
<1> HIDE DEF part, w
<1>5. /\ b.kept \o part \in Seq(Units)
      /\ Len(b.kept \o part) = Len(b.kept) + Len(part)
      /\ \A i \in 1..(Len(b.kept) + Len(part)) :
            (b.kept \o part)[i] = IF i <= Len(b.kept) THEN b.kept[i]
                                  ELSE part[i - Len(b.kept)]
  BY <1>1, <1>4, ConcatProperties
<1>6. /\ b.wrote \o piece \in Seq(Units)
      /\ Len(b.wrote \o piece) = Len(b.wrote) + Len(piece)
      /\ \A i \in 1..(Len(b.wrote) + Len(piece)) :
            (b.wrote \o piece)[i] = IF i <= Len(b.wrote) THEN b.wrote[i]
                                    ELSE piece[i - Len(b.wrote)]
  BY <1>1, ConcatProperties
<1>7. w \in Buffers /\ w.limit = b.limit
  BY <1>1, <1>3, <1>5, <1>6 DEF Buffers
<1>8. Len(b.kept) <= Len(b.wrote) /\ Begins(b.kept, b.wrote)
  BY <1>1, BeginsIsSubSeq DEF Exact
<1>9. /\ b.overflow => Len(b.kept) = b.limit /\ room = 0
      /\ ~b.overflow => Len(b.kept) = Len(b.wrote)
  BY <1>2, <1>8 DEF Exact
<1>10. Begins(b.kept \o part, b.wrote \o piece)
  <2>1. Len(b.kept \o part) <= Len(b.wrote \o piece)
    BY <1>2, <1>4, <1>5, <1>6, <1>8
  <2>2. ASSUME NEW i \in 1..Len(b.kept \o part)
        PROVE  (b.kept \o part)[i] = (b.wrote \o piece)[i]
    <3>1. i \in 1..(Len(b.kept) + Len(part)) /\ i \in 1..(Len(b.wrote) + Len(piece))
      BY <1>2, <1>4, <1>5, <1>6, <2>1
    <3>2. CASE i <= Len(b.kept)
      BY <1>2, <1>5, <1>6, <1>8, <3>1, <3>2 DEF Begins
    <3>3. CASE i > Len(b.kept)
      <4>1. Len(b.kept) = Len(b.wrote)
        BY <1>2, <1>4, <1>9, <3>1, <3>3
      <4>2. i - Len(b.kept) \in 1..Len(part)
        BY <1>2, <1>4, <3>1, <3>3
      <4>3. (b.kept \o part)[i] = part[i - Len(b.kept)]
        BY <1>5, <3>1, <3>3, <1>2
      <4>4. (b.wrote \o piece)[i] = piece[i - Len(b.kept)]
        BY <1>6, <3>1, <3>3, <4>1, <1>2
      <4>5. part[i - Len(b.kept)] = piece[i - Len(b.kept)]
        BY <1>4, <4>2
      <4> QED
        BY <4>3, <4>4, <4>5
    <3> QED
      BY <1>2, <3>1, <3>2, <3>3
  <2> QED
    BY <2>1, <2>2 DEF Begins
<1>11. b.kept \o part = SubSeq(b.wrote \o piece, 1, Len(b.kept \o part))
  BY <1>5, <1>6, <1>10, BeginsIsSubSeq
<1>12. /\ Len(b.kept \o part) <= b.limit
       /\ Len(b.kept \o part) <= Len(b.wrote \o piece)
       /\ (b.overflow \/ Len(piece) > room) => Len(b.kept \o part) = b.limit
       /\ (b.overflow \/ Len(piece) > room)
             <=> Len(b.wrote \o piece) > Len(b.kept \o part)
  BY <1>1, <1>2, <1>4, <1>5, <1>6, <1>8, <1>9 DEF Exact
<1>13. Exact(w)
  BY <1>3, <1>11, <1>12 DEF Exact
<1> QED
  BY <1>7, <1>13 DEF w

-----------------------------------------------------------------------------
(* The invariant.                                                            *)

IInv ==
    /\ tool \in {"ffprobe", "silencedetect", "cut", "none"}
    /\ pipes \in [Pipes -> Buffers]
    /\ \A pipe \in Pipes : Exact(pipes[pipe])
    /\ pipes["stderr"].limit = MaxProbeOutputBytes
    /\ durationMs \in (-Int64Max - 1)..Int64Max
    /\ silent \in BOOLEAN
    /\ wav \in Seq(Units)

(* A new buffer has lost nothing. *)
LEMMA BufferIsExact ==
    ASSUME NEW limit \in Nat
    PROVE  Buffer(limit) \in Buffers /\ Exact(Buffer(limit)) /\ Buffer(limit).limit = limit
<1>1. <<>> \in Seq(Units) /\ Len(<<>>) = 0 /\ SubSeq(<<>>, 1, 0) = <<>>
  BY EmptySeq, SubSeqEmpty
<1> QED
  BY <1>1 DEF Buffer, Buffers, Exact

(* The buffers a child is started with. *)
LEMMA NewBuffers ==
    \A ps \in {ProbeBuffers, CutBuffers} :
        /\ ps \in [Pipes -> Buffers]
        /\ \A pipe \in Pipes : Exact(ps[pipe])
        /\ ps["stderr"].limit = MaxProbeOutputBytes
<1>1. /\ Buffer(MaxProbeOutputBytes) \in Buffers /\ Exact(Buffer(MaxProbeOutputBytes))
      /\ Buffer(MaxProbeOutputBytes).limit = MaxProbeOutputBytes
      /\ Buffer(MaxSegmentBytes) \in Buffers /\ Exact(Buffer(MaxSegmentBytes))
  BY LimitsAssumption, BufferIsExact
<1> QED
  BY <1>1 DEF ProbeBuffers, CutBuffers, Pipes

(* parseSecondsToMs, and so toResult, gives an int64. *)
LEMMA DurationIsInt64 ==
    ASSUME NEW container \in StatedDurations, NEW stream \in StatedDurations,
           NEW ms \in DurationMs(container, stream)
    PROVE  ms \in (-Int64Max - 1)..Int64Max
<1>1. ASSUME NEW d \in StatedDurations, NEW n \in ParseSecondsToMs(d)
      PROVE  n \in (-Int64Max - 1)..Int64Max
  <2>1. d \subseteq Int /\ (\A a, b \in d : a = b) /\ Int64Max \in Nat
    BY DurationsAssumption, LimitsAssumption
  <2>2. CASE \A k \in d : k <= 0
    BY <1>1, <2>1, <2>2 DEF ParseSecondsToMs
  <2>3. CASE ~\A k \in d : k <= 0
    <3>1. PICK k \in Int : d = {k} /\ k > 0
      <4>1. PICK k \in d : ~(k <= 0)
        BY <2>3
      <4>2. d = {k}
        BY <2>1
      <4> QED
        BY <2>1, <4>1, <4>2
    <3>2. n \in IF k <= Int64Max THEN {k} ELSE {-Int64Max - 1, Int64Max}
      BY <1>1, <2>3, <3>1 DEF ParseSecondsToMs
    <3> QED
      BY <2>1, <3>1, <3>2
  <2> QED
    BY <2>2, <2>3
<1>2. PICK n \in ParseSecondsToMs(container) :
          ms \in IF n > 0 THEN {n} ELSE ParseSecondsToMs(stream)
  BY DEF DurationMs
<1> QED
  BY <1>1, <1>2

(* A child writes. *)
LEMMA WriteKeeps ==
    ASSUME IInv, NEW pipe \in Pipes, NEW piece \in Pieces[pipe], ChildWrites(pipe, piece)
    PROVE  IInv'
<1>1. /\ pipes[pipe] \in Buffers /\ Exact(pipes[pipe])
      /\ piece \in Seq(Units)
  BY PiecesAssumption DEF IInv
<1>2. /\ Write(pipes[pipe], piece) \in Buffers /\ Exact(Write(pipes[pipe], piece))
      /\ Write(pipes[pipe], piece).limit = pipes[pipe].limit
  BY <1>1, WriteIsExact
<1>3. pipes' = [pipes EXCEPT ![pipe] = Write(pipes[pipe], piece)]
  BY DEF ChildWrites
<1>4. /\ pipes' \in [Pipes -> Buffers]
      /\ \A p \in Pipes : Exact(pipes'[p])
      /\ pipes'["stderr"].limit = MaxProbeOutputBytes
  BY <1>2, <1>3 DEF IInv, Pipes
<1>5. UNCHANGED <<tool, durationMs, silent, wav>>
  BY DEF ChildWrites
<1> QED
  BY <1>4, <1>5 DEF IInv

(* The engine answers, or goes on to silencedetect. *)
LEMMA AnswerKeeps ==
    ASSUME IInv, ChildFails \/ MetaRead \/ SilenceRead \/ CutRead
    PROVE  IInv'
<1>1. CASE ChildFails
  BY <1>1 DEF ChildFails, Fails, Answers, IInv
<1>2. CASE MetaRead
  <2>1. CASE \E e : Fails(e)
    BY <2>1 DEF Fails, Answers, IInv
  <2>2. CASE ~\E e : Fails(e)
    <3>1. /\ \E container, stream \in StatedDurations :
                 durationMs' \in DurationMs(container, stream)
          /\ silent' = (durationMs' <= 0)
          /\ IF silent' THEN tool' = "none" /\ UNCHANGED pipes
             ELSE tool' = "silencedetect" /\ pipes' = ProbeBuffers
          /\ wav' = wav
      BY <1>2, <2>2 DEF MetaRead
    <3>2. durationMs' \in (-Int64Max - 1)..Int64Max
      BY <3>1, DurationIsInt64
    <3>3. /\ pipes' \in [Pipes -> Buffers]
          /\ \A p \in Pipes : Exact(pipes'[p])
          /\ pipes'["stderr"].limit = MaxProbeOutputBytes
      BY <3>1, NewBuffers DEF IInv
    <3>4. silent' \in BOOLEAN /\ tool' \in {"none", "silencedetect"}
      BY <3>1
    <3> QED
      BY <3>1, <3>2, <3>3, <3>4 DEF IInv
  <2> QED
    BY <2>1, <2>2
<1>3. CASE SilenceRead
  <2>1. silent' \in BOOLEAN
    BY <1>3 DEF SilenceRead, SilentThroughout
  <2> QED
    BY <1>3, <2>1 DEF SilenceRead, Answers, IInv
<1>4. CASE CutRead
  <2>1. wav' \in Seq(Units)
    BY <1>4 DEF CutRead, Fails, Answers, IInv, Buffers, Pipes
  <2> QED
    BY <1>4, <2>1 DEF CutRead, Fails, Answers, IInv
<1> QED
  BY <1>1, <1>2, <1>3, <1>4

(* The inductive invariant: the buffers are exact whoever reads them. *)
THEOREM Invariance == Spec => []IInv
<1>1. Init => IInv
  <2> SUFFICES ASSUME Init PROVE IInv
    OBVIOUS
  <2>1. wav \in Seq(Units) /\ silent \in BOOLEAN
    BY EmptySeq DEF Init
  <2>2. durationMs \in (-Int64Max - 1)..Int64Max
    BY LimitsAssumption DEF Init
  <2>3. pipes \in {ProbeBuffers, CutBuffers} /\ tool \in {"ffprobe", "cut"}
    BY DEF Init
  <2> QED
    BY <2>1, <2>2, <2>3, NewBuffers DEF IInv
<1>2. IInv /\ [Next]_vars => IInv'
  <2>1. IInv /\ UNCHANGED vars => IInv'
    BY DEF IInv, vars
  <2> QED
    BY <2>1, WriteKeeps, AnswerKeeps DEF Next
<1> QED
  BY <1>1, <1>2, PTL DEF Spec

(* No buffer outgrows its limit and a duration is an int64 (cappedBuffer,    *)
(* parseSecondsToMs).                                                        *)
THEOREM TypeCorrect == Spec => []TypeOK
<1>1. IInv => TypeOK
  BY DEF IInv, TypeOK, Buffers, Exact
<1> QED
  BY <1>1, Invariance, PTL

(* Whatever the limits and the pieces, what is kept is the beginning of what *)
(* was written, and the flag says whether anything was lost (Write).         *)
THEOREM BuffersExact == Spec => []KeptIsExact
<1>1. IInv => KeptIsExact
  BY DEF IInv, KeptIsExact, Exact
<1> QED
  BY <1>1, Invariance, PTL

-----------------------------------------------------------------------------
(* What the readers make of it.                                              *)

(* A buffer whose flag is down holds everything. *)
LEMMA UnflaggedIsWhole ==
    ASSUME IInv, NEW pipe \in Pipes, ~pipes[pipe].overflow
    PROVE  pipes[pipe].kept = pipes[pipe].wrote
<1> DEFINE b == pipes[pipe]
<1>1. b \in Buffers /\ Exact(b)
  BY DEF IInv
<1>2. /\ b.kept \in Seq(Units) /\ b.wrote \in Seq(Units)
      /\ Len(b.kept) \in Nat /\ Len(b.wrote) \in Nat
  BY <1>1, LenProperties DEF Buffers
<1>3. Len(b.kept) = Len(b.wrote)
  BY <1>1, <1>2 DEF Exact
<1> QED
  BY <1>1, <1>2, <1>3, SubSeqFull DEF Exact

(* Metadata and segments are read from whole outputs only (ffprobeMeta,      *)
(* SegmentCut).                                                              *)
THEOREM WholeOnly == Spec => OnlyWholeIsRead
<1>1. ASSUME IInv, [Next]_vars, durationMs' # durationMs \/ wav' # wav
      PROVE  pipes["stdout"].kept = pipes["stdout"].wrote
  <2>1. ~Overflowed("stdout")
    <3>1. MetaRead \/ SilenceRead \/ CutRead
      BY <1>1 DEF Next, vars, ChildWrites, ChildFails, Fails, Answers
    <3> QED
      BY <1>1, <3>1 DEF MetaRead, SilenceRead, CutRead, Fails, Answers
  <2> QED
    BY <1>1, <2>1, UnflaggedIsWhole DEF Overflowed, Pipes
<1> QED
  BY <1>1, Invariance, PTL DEF Spec, OnlyWholeIsRead

(* A beginning of a log holds no more silence than the log. *)
LEMMA SilenceOfBeginning ==
    ASSUME NEW s \in Seq(Units), NEW t \in Seq(Units), Begins(s, t)
    PROVE  SilentMs(s) \in Nat /\ SilentMs(t) \in Nat /\ SilentMs(s) <= SilentMs(t)
<1> DEFINE S == {i \in DOMAIN s : s[i] = "silence"}
           T == {i \in DOMAIN t : t[i] = "silence"}
<1>1. /\ DOMAIN s = 1..Len(s) /\ DOMAIN t = 1..Len(t)
      /\ Len(s) \in Nat /\ Len(t) \in Nat
  BY LenProperties
<1>2. S \subseteq T
  BY <1>1 DEF Begins
<1>3. IsFiniteSet(1..Len(t)) /\ T \subseteq 1..Len(t)
  BY <1>1, FS_Interval
<1>4. /\ IsFiniteSet(T) /\ IsFiniteSet(S)
      /\ Cardinality(S) \in Nat /\ Cardinality(T) \in Nat
      /\ Cardinality(S) <= Cardinality(T)
  BY <1>2, <1>3, FS_Subset, FS_CardinalityType
<1>5. SilentMs(s) = SilenceMs * Cardinality(S) /\ SilentMs(t) = SilenceMs * Cardinality(T)
  BY DEF SilentMs
<1> HIDE DEF S, T
<1>6. \A k, m, n \in Nat : m <= n => k * m \in Nat /\ k * n \in Nat /\ k * m <= k * n
  OBVIOUS
<1> QED
  BY <1>4, <1>5, <1>6, LimitsAssumption

(* The verdict of silence stands on silence in the log, however the log was  *)
(* cut, and only a log that overflowed can hide any (detectSilentThroughout).*)
THEOREM SilenceSound == Spec => SilenceWasDetected
<1>1. ASSUME IInv, SilenceRead
      PROVE  LET log == pipes["stderr"]
                 throughout == 100 * SilentMs(log.wrote) >= 99 * durationMs
             IN  /\ silent' => throughout
                 /\ throughout => silent' \/ log.overflow
  <2> DEFINE log == pipes["stderr"]
  <2>1. log \in Buffers /\ Exact(log)
    BY <1>1 DEF IInv, Pipes
  <2>2. log.kept \in Seq(Units) /\ log.wrote \in Seq(Units) /\ Begins(log.kept, log.wrote)
    BY <2>1, BeginsIsSubSeq DEF Buffers, Exact
  <2>3. /\ SilentMs(log.kept) \in Nat /\ SilentMs(log.wrote) \in Nat
        /\ SilentMs(log.kept) <= SilentMs(log.wrote)
    BY <2>2, SilenceOfBeginning
  <2>4. silent' <=> 100 * SilentMs(log.kept) >= 99 * durationMs
    BY <1>1 DEF SilenceRead, SilentThroughout
  <2>5. ~log.overflow => log.kept = log.wrote
    BY <1>1, UnflaggedIsWhole DEF Pipes
  <2>6. durationMs \in Int
    BY <1>1, LimitsAssumption DEF IInv
  <2> HIDE DEF log
  <2>7. (silent' => 100 * SilentMs(log.wrote) >= 99 * durationMs)
    BY <2>3, <2>4, <2>6
  <2>8. (100 * SilentMs(log.wrote) >= 99 * durationMs) => silent' \/ log.overflow
    BY <2>4, <2>5
  <2> QED
    BY <2>7, <2>8 DEF log
<1> QED
  BY <1>1, Invariance, PTL DEF Spec, SilenceWasDetected

(* Only a marker the child printed condemns its content, and a transient one *)
(* within the limit never lets it happen (classifyProbeErr on what is kept). *)
THEOREM BlipsProtect == Spec => BlipProtects
<1>1. ASSUME IInv, ChildFails, "ErrInvalidAudio" \in err'
      PROVE  LET log == pipes["stderr"].wrote
             IN  /\ "invalid" \in Found(log)
                 /\ \A i \in DOMAIN log : log[i] = "transient" => i > MaxProbeOutputBytes
  <2> DEFINE b == pipes["stderr"]
  <2>1. err' = ClassifyProbeErr(Found(b.kept) \cap Markers)
    BY <1>1 DEF ChildFails, Fails, Answers, Error, NoError
  <2>2. "invalid" \in Found(b.kept) /\ "transient" \notin Found(b.kept)
    BY <1>1, <2>1 DEF ClassifyProbeErr, Error, Markers
  <2>3. b \in Buffers /\ Exact(b) /\ b.limit = MaxProbeOutputBytes
    BY <1>1 DEF IInv, Pipes
  <2>4. b.kept \in Seq(Units) /\ b.wrote \in Seq(Units) /\ Begins(b.kept, b.wrote)
    BY <2>3, BeginsIsSubSeq DEF Buffers, Exact
  <2>5. /\ DOMAIN b.kept = 1..Len(b.kept) /\ DOMAIN b.wrote = 1..Len(b.wrote)
        /\ Len(b.kept) \in Nat /\ Len(b.wrote) \in Nat
    BY <2>4, LenProperties
  <2> HIDE DEF b
  <2>6. "invalid" \in Found(b.wrote)
    <3>1. PICK i \in DOMAIN b.kept : b.kept[i] = "invalid"
      BY <2>2 DEF Found
    <3>2. i \in DOMAIN b.wrote /\ b.wrote[i] = "invalid"
      BY <2>4, <2>5, <3>1 DEF Begins
    <3> QED
      BY <3>2 DEF Found
  <2>7. ASSUME NEW i \in DOMAIN b.wrote, b.wrote[i] = "transient"
        PROVE  i > MaxProbeOutputBytes
    <3>1. i \notin DOMAIN b.kept
      BY <2>2, <2>4, <2>5, <2>7 DEF Begins, Found
    <3>2. i > Len(b.kept) /\ Len(b.wrote) > Len(b.kept)
      BY <2>5, <3>1
    <3>3. Len(b.kept) = MaxProbeOutputBytes
      BY <2>3, <3>2 DEF Exact
    <3> QED
      BY <3>2, <3>3
  <2> QED
    BY <2>6, <2>7 DEF b
<1> QED
  BY <1>1, Invariance, PTL DEF Spec, BlipProtects

=============================================================================
