----------------------------- MODULE ToolOutput -----------------------------
(* From what a child prints to what the engine answers: cappedBuffer, and    *)
(* its readers ffprobeMeta, toResult and detectSilentThroughout (Probe) and  *)
(* SegmentCut.  Slots and stages are AudioService's; here a child writes to  *)
(* its pipes in any pieces, and then ends well or with an error.             *)
EXTENDS Integers, Sequences, FiniteSets, StatusMap

CONSTANTS
    MaxProbeOutputBytes,    \* limit of every buffer but the segment's
    MaxSegmentBytes,        \* limit of the segment's
    Int64Max,               \* largest int64, scaled down for TLC
    SilenceMs,              \* silence one entry of silencedetect's log stands for
    StatedDurations,        \* durations in the metadata: optional numbers of ms
    Pieces,                 \* what a child may write at once, by pipe
    MaxWritten              \* bound for TLC on what a child writes to a pipe

Pipes == {"stdout", "stderr"}

(* What the engine looks for in an output, and all the rest. *)
Units == {"silence", "transient", "invalid", "other"}

ASSUME LimitsAssumption ==
    /\ MaxProbeOutputBytes \in Nat /\ MaxSegmentBytes \in Nat
    /\ Int64Max \in Nat /\ SilenceMs \in Nat /\ MaxWritten \in Nat
ASSUME PiecesAssumption == \A pipe \in Pipes : Pieces[pipe] \subseteq Seq(Units)
ASSUME DurationsAssumption ==
    \A d \in StatedDurations : d \subseteq Int /\ \A a, b \in d : a = b

VARIABLES
    tool,          \* "ffprobe", "silencedetect", "cut", or "none": answered
    pipes,         \* the child's cappedBuffers
    durationMs,    \* ProbeResult.DurationMs, once there is one
    silent,        \* ProbeResult.Silent
    wav,           \* SegmentAudio.WAV
    err            \* the error returned

vars == <<tool, pipes, durationMs, silent, wav, err>>

-----------------------------------------------------------------------------
(* cappedBuffer.  `wrote' is history: everything Write was given.            *)

Buffer(limit) == [limit |-> limit, kept |-> <<>>, overflow |-> FALSE, wrote |-> <<>>]

ProbeBuffers == [pipe \in Pipes |-> Buffer(MaxProbeOutputBytes)]
CutBuffers == [ProbeBuffers EXCEPT !["stdout"] = Buffer(MaxSegmentBytes)]

(* mutants of Lost: no limit; a piece that just fits taken for an overflow *)
LostNever(room, piece) == FALSE
LostOffByOne(room, piece) == Len(piece) >= room
Lost(room, piece) == Len(piece) > room

Write(b, piece) ==
    LET room == b.limit - Len(b.kept)
        fits == ~Lost(room, piece)
    IN  [b EXCEPT !.kept = @ \o IF fits THEN piece ELSE SubSeq(piece, 1, room),
                  !.overflow = @ \/ ~fits,
                  !.wrote = @ \o piece]

Found(text) == {text[i] : i \in DOMAIN text}

-----------------------------------------------------------------------------
(* The readers.                                                              *)

(* parseSecondsToMs: no number, zero or less is 0; what int64 cannot hold    *)
(* converts to whatever the machine makes of it (amd64 the least value,      *)
(* arm64 the largest).                                                       *)
ParseSecondsToMs(stated) ==
    IF \A ms \in stated : ms <= 0 THEN {0}
    ELSE UNION {IF ms <= Int64Max THEN {ms} ELSE {-Int64Max - 1, Int64Max} : ms \in stated}

(* toResult: the container's duration, else the stream's. *)
DurationMs(container, stream) ==
    UNION {IF ms > 0 THEN {ms} ELSE ParseSecondsToMs(stream) :
               ms \in ParseSecondsToMs(container)}

SilentMs(text) == SilenceMs * Cardinality({i \in DOMAIN text : text[i] = "silence"})

AnySilence(text, ms) == SilentMs(text) > 0    \* mutant of SilentThroughout
SilentThroughout(text, ms) == 100 * SilentMs(text) >= 99 * ms

Init ==
    /\ \/ tool = "ffprobe" /\ pipes = ProbeBuffers
       \/ tool = "cut" /\ pipes = CutBuffers
    /\ durationMs = 0 /\ silent = FALSE
    /\ wav = <<>>
    /\ err = NoError

(* silencedetect's stdout is not collected. *)
ChildWrites(pipe, piece) ==
    /\ tool # "none"
    /\ tool = "silencedetect" => pipe = "stderr"
    /\ Len(pipes[pipe].wrote) + Len(piece) <= MaxWritten
    /\ pipes' = [pipes EXCEPT ![pipe] = Write(@, piece)]
    /\ UNCHANGED <<tool, durationMs, silent, wav, err>>

Answers(e) ==
    /\ tool' = "none"
    /\ err' = e
    /\ UNCHANGED <<pipes, durationMs>>

Fails(e) == Answers(e) /\ UNCHANGED <<silent, wav>>

(* A child exits with an error, or is killed with its context.  Probe takes  *)
(* no notice when it is silencedetect.                                       *)
ChildFails ==
    \/ tool = "silencedetect" /\ Fails(NoError)
    \/ /\ tool \in {"ffprobe", "cut"}
       /\ \/ Fails(ClassifyProbeErr(Found(pipes["stderr"].kept) \cap Markers))
          \/ \E e \in {"DeadlineExceeded", "Canceled"} : Fails(Error({e}))

OverflowIgnored(pipe) == FALSE          \* mutant of Overflowed
Overflowed(pipe) == pipes[pipe].overflow

(* ffprobe exits 0.  An overflow or an undecodable output is a plain error,  *)
(* metadata without an audio stream a verdict.  With no duration the input   *)
(* is silent by definition; else silencedetect runs.                         *)
MetaRead ==
    /\ tool = "ffprobe"
    /\ \/ Fails(Error({}))
       \/ ~Overflowed("stdout") /\ Fails(Error({"ErrInvalidAudio"}))
       \/ /\ ~Overflowed("stdout")
          /\ \E container, stream \in StatedDurations :
                durationMs' \in DurationMs(container, stream)
          /\ silent' = (durationMs' <= 0)
          /\ IF silent' THEN tool' = "none" /\ UNCHANGED pipes
             ELSE tool' = "silencedetect" /\ pipes' = ProbeBuffers
          /\ UNCHANGED <<wav, err>>

(* silencedetect exits 0.  Its log is read whether it overflowed or not. *)
SilenceRead ==
    /\ tool = "silencedetect"
    /\ silent' = SilentThroughout(pipes["stderr"].kept, durationMs)
    /\ Answers(NoError)
    /\ UNCHANGED wav

(* ffmpeg exits 0 in SegmentCut. *)
CutRead ==
    /\ tool = "cut"
    /\ IF Overflowed("stdout") THEN Fails(Error({}))
       ELSE IF pipes["stdout"].kept = <<>> THEN Fails(Error({"ErrInvalidAudio"}))
       ELSE wav' = pipes["stdout"].kept /\ Answers(NoError) /\ UNCHANGED silent

Next ==
    \/ \E pipe \in Pipes : \E piece \in Pieces[pipe] : ChildWrites(pipe, piece)
    \/ ChildFails \/ MetaRead \/ SilenceRead \/ CutRead

Spec == Init /\ [][Next]_vars

-----------------------------------------------------------------------------

(* No buffer outgrows its limit, and a duration is an int64, whatever the    *)
(* child prints.                                                             *)
TypeOK ==
    /\ tool \in {"ffprobe", "silencedetect", "cut", "none"}
    /\ \A pipe \in Pipes :
          /\ pipes[pipe].kept \in Seq(Units) /\ pipes[pipe].wrote \in Seq(Units)
          /\ Len(pipes[pipe].kept) <= pipes[pipe].limit
          /\ pipes[pipe].overflow \in BOOLEAN
    /\ durationMs \in (-Int64Max - 1)..Int64Max
    /\ silent \in BOOLEAN
    /\ wav \in Seq(Units)

(* Whatever the pieces, a buffer holds the beginning of what was written and *)
(* owns up to exactly the losses: a loss not flagged passes a cut WAV for a  *)
(* whole one, a flag without a loss refuses good input (cappedBuffer.Write). *)
KeptIsExact ==
    \A pipe \in Pipes :
        LET b == pipes[pipe]
        IN  /\ b.kept = SubSeq(b.wrote, 1, Len(b.kept))
            /\ b.overflow => Len(b.kept) = b.limit
            /\ b.overflow <=> Len(b.wrote) > Len(b.kept)

(* Metadata and segments are taken only from all that the child wrote, never *)
(* from a beginning of it (the overflow checks of ffprobeMeta, SegmentCut).  *)
OnlyWholeIsRead ==
    [][(durationMs' # durationMs \/ wav' # wav)
          => pipes["stdout"].kept = pipes["stdout"].wrote]_vars

(* A log cut at the limit never makes audible audio silent: the verdict      *)
(* stands on silence that was detected, and misses some only when the log    *)
(* overflowed (detectSilentThroughout, which does not look at the flag).     *)
SilenceWasDetected ==
    [][SilenceRead =>
          LET log == pipes["stderr"]
              throughout == 100 * SilentMs(log.wrote) >= 99 * durationMs
          IN  /\ silent' => throughout
              /\ throughout => silent' \/ log.overflow]_vars

(* A failed child's content is condemned only on a marker it printed, and a  *)
(* transient marker within the limit protects the upload (classifyProbeErr). *)
BlipProtects ==
    [][(ChildFails /\ "ErrInvalidAudio" \in err') =>
          LET log == pipes["stderr"].wrote
          IN  /\ "invalid" \in Found(log)
              /\ \A i \in DOMAIN log : log[i] = "transient" => i > MaxProbeOutputBytes]_vars

=============================================================================
