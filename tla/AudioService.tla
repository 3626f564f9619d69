---------------------------- MODULE AudioService ----------------------------
(* The three RPCs of internal/server over internal/audioengine: each call    *)
(* from its request to its reply, through the worker pool (the contract that *)
(* WorkerPool implements), the ffprobe/ffmpeg children, the temp file, the   *)
(* presigned PUT and the Gemini request, with contexts that end and children *)
(* and peers that fail or hang.                                              *)
EXTENDS EngineContract, StatusMap

CONSTANTS
    Requests,    \* the requests of an instance: pairs of method and source
    LatePuts     \* whether a PUT may land after its client has given up on it

VARIABLES
    rpc,       \* the call's method
    source,    \* what the request points at
    stage,     \* where the call stands
    caller,    \* the RPC's context: "live" or the error it ended with
    opctx,     \* the context.WithTimeout derived under the slot, "none" outside
    err,       \* the error the engine is returning
    silent,    \* ProbeResult.Silent
    file,      \* Normalize's temp file
    object,    \* what lies at the destination the calls of Normalize share
    late,      \* what PUTs carry whose client has given up on them
    promised,  \* a Normalize of this upload was answered OK (history)
    segment,   \* the segment WAV or its request body is referenced
    code       \* the status code, the caller's once stage is "done"

bucket == <<object, late, promised>>
mine == <<rpc, source, stage, caller, opctx, err, silent, file, bucket, segment, code>>
vars == <<cvars, mine>>

(* What a request points at.  "invalid" is a request the handler refuses by  *)
(* itself; "nokey" one to a service without a Gemini key, "nomodel" one      *)
(* without a model to a service that has no default; "corrupt" is not audio; *)
(* "silent" decodes to silence; "empty" has no length; "undated" is audible  *)
(* audio whose container states no duration, "misdated" one that states less *)
(* than there is; "past" is a window behind the end.                         *)
AllRequests ==
    ({"Probe"}
        \X {"invalid", "corrupt", "silent", "empty", "undated", "misdated", "good"})
    \cup ({"Normalize"} \X {"invalid", "corrupt", "good"})
    \cup ({"TranscribeSegment"}
           \X {"invalid", "nokey", "nomodel", "corrupt", "past", "good"})

Methods == {"Probe", "Normalize", "TranscribeSegment"}
Sources == {"invalid", "nokey", "nomodel", "corrupt", "silent", "empty", "undated",
            "misdated", "past", "good"}

ASSUME WorkersAssumption == Workers \in Nat \ {0}
ASSUME ScavengeAssumption == ScavengeOnIdle \in BOOLEAN
ASSUME RequestsAssumption == Requests \subseteq AllRequests
ASSUME LatePutsAssumption == LatePuts \in BOOLEAN

(* Stages in which a child process runs. *)
ToolStages == {"ffprobe", "silencedetect", "transcode", "cut"}

(* Stages in which the call waits for something its context can interrupt. *)
Waits == ToolStages \cup {"acquire", "upload", "gemini"}

Stages == Waits \cup {"idle", "temp", "cleanup", "leave", "settle", "returned",
                      "release", "finish", "done"}

CtxErrors == {"DeadlineExceeded", "Canceled"}

(* What an error of the engine may hold. *)
Faults == CtxErrors \cup {"error", "ErrInvalidAudio", "ErrNormalize"}

Codes == CtxErrors \cup {"OK", "InvalidArgument", "Internal", "Unavailable",
                         "ResourceExhausted"}

Init ==
    /\ ContractInit
    /\ rpc = [c \in Calls |-> "none"]
    /\ source = [c \in Calls |-> "none"]
    /\ stage = [c \in Calls |-> "idle"]
    /\ caller = [c \in Calls |-> "live"]
    /\ opctx = [c \in Calls |-> "none"]
    /\ err = [c \in Calls |-> NoError]
    /\ silent = [c \in Calls |-> FALSE]
    /\ file = [c \in Calls |-> "none"]
    /\ object = "none" /\ late = {} /\ promised = FALSE
    /\ segment = [c \in Calls |-> FALSE]
    /\ code = [c \in Calls |-> "none"]

To(c, s) == stage' = [stage EXCEPT ![c] = s]
Fails(c, e) == err' = [err EXCEPT ![c] = e]

-----------------------------------------------------------------------------
(* The handler: validation, Hold, the reply.                                 *)

(* A request arrives.  What the handler refuses never reaches the engine; a  *)
(* TranscribeSegment that goes on holds the engine first.                    *)
Refusal(s) ==
    IF s \in {"invalid", "nomodel"} THEN "InvalidArgument"
    ELSE IF s = "nokey" THEN "Unavailable"
    ELSE "none"

Arrive(c, r, s) ==
    /\ stage[c] = "idle"
    /\ rpc' = [rpc EXCEPT ![c] = r]
    /\ source' = [source EXCEPT ![c] = s]
    /\ code' = [code EXCEPT ![c] = Refusal(s)]
    /\ To(c, IF Refusal(s) = "none" THEN "acquire" ELSE "finish")
    /\ IF r = "TranscribeSegment" /\ Refusal(s) = "none" THEN Hold(c) ELSE UNCHANGED cvars
    /\ UNCHANGED <<caller, opctx, err, silent, file, bucket, segment>>

(* mutant of AfterEngine: the hold is released at the end, not deferred *)
ReleasedAtEnd(c) ==
    IF rpc[c] = "TranscribeSegment" /\ err[c] = NoError THEN "gemini" ELSE "finish"

AfterEngine(c) ==
    IF rpc[c] # "TranscribeSegment" THEN "finish"
    ELSE IF err[c] = NoError THEN "gemini" ELSE "release"

(* The engine has returned: map its error, which is not kept, or go on to    *)
(* Gemini.                                                                   *)
EngineReturns(c) ==
    /\ stage[c] = "returned"
    /\ c \notin due
    /\ code' = [code EXCEPT ![c] = MapEngineErr(err[c])]
    /\ To(c, AfterEngine(c))
    /\ Fails(c, NoError)
    /\ UNCHANGED <<cvars, rpc, source, caller, opctx, silent, file, bucket, segment>>

(* Transcriber.Transcribe, under the handler's own context: a usable reply,  *)
(* a degenerate one, an HTTP error, or the end of the caller's context.      *)
GeminiOutcomes ==
    {NoError, Error({"ErrDegenerateOutput"}), Error({})}
        \cup {Error({h}) : h \in HTTPStatuses}

GeminiEnds(c, e) ==
    /\ stage[c] = "gemini"
    /\ code' = [code EXCEPT ![c] = MapTranscribeErr(e)]
    /\ To(c, "release")
    /\ UNCHANGED <<cvars, rpc, source, caller, opctx, err, silent, file, bucket, segment>>

GeminiAnswers(c) == \E e \in GeminiOutcomes : GeminiEnds(c, e)

GeminiInterrupted(c) == caller[c] # "live" /\ GeminiEnds(c, Error({caller[c]}))

(* The handler returns: the last reference to the segment is gone, and the   *)
(* deferred release ends the hold.                                           *)
Release(c) ==
    /\ stage[c] = "release"
    /\ Settle(c, "hold")
    /\ segment' = [segment EXCEPT ![c] = FALSE]
    /\ To(c, "finish")
    /\ UNCHANGED <<rpc, source, caller, opctx, err, silent, file, bucket, code>>

(* A drain to zero asks for a scavenge before the handler goes on. *)
AskScavenge(c) == Ask(c) /\ UNCHANGED mine

(* The reply leaves; the call is answered. *)
Finish(c) ==
    /\ stage[c] = "finish"
    /\ c \notin due
    /\ To(c, "done")
    /\ promised' = (promised \/ (rpc[c] = "Normalize" /\ code[c] = "OK"))
    /\ UNCHANGED <<cvars, rpc, source, caller, opctx, err, silent, file, object, late,
                   segment, code>>

(* The call is over and the model forgets it, and the upload with the last   *)
(* of its tries: the Normalize calls of an instance that overlap, or begin   *)
(* before the one before is forgotten, share one presigned URL.              *)
Forget(c) ==
    /\ stage[c] = "done"
    /\ rpc' = [rpc EXCEPT ![c] = "none"]
    /\ source' = [source EXCEPT ![c] = "none"]
    /\ To(c, "idle")
    /\ caller' = [caller EXCEPT ![c] = "live"]
    /\ silent' = [silent EXCEPT ![c] = FALSE]
    /\ code' = [code EXCEPT ![c] = "none"]
    /\ IF \E d \in Calls \ {c} : rpc[d] = "Normalize" THEN UNCHANGED bucket
       ELSE object' = "none" /\ late' = {} /\ promised' = FALSE
    /\ UNCHANGED <<cvars, opctx, err, file, segment>>

-----------------------------------------------------------------------------
(* Contexts.                                                                 *)

(* The caller's deadline passes or the caller cancels; a derived context     *)
(* that is still live ends with it.                                          *)
CallerDone(c, e) ==
    /\ stage[c] \in Waits
    /\ caller[c] = "live"
    /\ caller' = [caller EXCEPT ![c] = e]
    /\ opctx' = [opctx EXCEPT ![c] = IF @ = "live" THEN e ELSE @]
    /\ UNCHANGED <<cvars, rpc, source, stage, err, silent, file, bucket, segment, code>>

TimerMissing(c) == FALSE        \* mutant of TimerSet: no context.WithTimeout
TimerSet(c) == opctx[c] = "live"

(* The engine's own timeout for the operation. *)
TimerFires(c) ==
    /\ TimerSet(c)
    /\ stage[c] \in Waits
    /\ opctx' = [opctx EXCEPT ![c] = "DeadlineExceeded"]
    /\ UNCHANGED <<cvars, rpc, source, stage, caller, err, silent, file, bucket, segment, code>>

-----------------------------------------------------------------------------
(* The worker slot.                                                          *)

FirstStage(r) == IF r = "TranscribeSegment" THEN "cut" ELSE "ffprobe"

(* acquire succeeds; the operation's timeout starts only now. *)
Acquire(c) ==
    /\ stage[c] = "acquire"
    /\ Enter(c)
    /\ opctx' = [opctx EXCEPT ![c] = caller[c]]
    /\ To(c, FirstStage(rpc[c]))
    /\ UNCHANGED <<rpc, source, caller, err, silent, file, bucket, segment, code>>

(* mutant of WaitError: Canceled, whatever ended the wait *)
WaitErrorCanceled(c) == Error({"Canceled"})
WaitError(c) == Error({caller[c]})

(* acquire returns ctx.Err(): no slot was taken and none is released. *)
AcquireFails(c) ==
    /\ stage[c] = "acquire"
    /\ caller[c] # "live"
    /\ Fails(c, WaitError(c))
    /\ To(c, "returned")
    /\ UNCHANGED <<cvars, rpc, source, caller, opctx, silent, file, bucket, segment, code>>

(* The deferred cancel, then the receive of releaseWorker ... *)
LeaveSlot(c) ==
    /\ stage[c] = "leave"
    /\ Leave(c)
    /\ opctx' = [opctx EXCEPT ![c] = "none"]
    /\ To(c, "settle")
    /\ UNCHANGED <<rpc, source, caller, err, silent, file, bucket, segment, code>>

(* ... and its endActive. *)
SettleSlot(c) ==
    /\ stage[c] = "settle"
    /\ Settle(c, "slot")
    /\ To(c, "returned")
    /\ UNCHANGED <<rpc, source, caller, opctx, err, silent, file, bucket, segment, code>>

-----------------------------------------------------------------------------
(* Child processes.  A run ends well, ends with an error of its own, or is   *)
(* killed when its context ends.  What a failed run left on stderr depends   *)
(* on why it failed: content that is not media leaves a corruption marker, a *)
(* fault on the way may leave one too, but then - an assumption on ffmpeg -  *)
(* beside a transient marker that the capped log keeps.                      *)

FaultMarkers == {{}, {"transient"}, {"transient", "invalid"}}

RunErrors(c) ==
    IF opctx[c] # "live" THEN {Error({opctx[c]})}
    ELSE {ClassifyProbeErr(m) : m \in FaultMarkers}
         \cup (IF source[c] = "corrupt" THEN {ClassifyProbeErr({"invalid"})} ELSE {})

(* Context errors and the others are told apart by ctx.Err() alone. *)
Killed(c) == opctx[c] # "live"
Runs(c) == source[c] # "corrupt"    \* a run that can end well

(* The tool in Probe: metadata, or the error that ends the operation.  A     *)
(* well-ended run can still overflow the cap, be undecodable (both plain     *)
(* errors) or show no audio stream.                                          *)
ProbeFails(c, e) ==
    /\ stage[c] = "ffprobe" /\ rpc[c] = "Probe"
    /\ Fails(c, e)
    /\ To(c, "leave")
    /\ UNCHANGED <<cvars, rpc, source, caller, opctx, silent, file, bucket, segment, code>>

NoAudioStream(c) == source[c] = "corrupt"
NoDuration(c) == source[c] \in {"empty", "undated"}    \* DurationMs <= 0

ProbeReads(c) ==
    /\ stage[c] = "ffprobe" /\ rpc[c] = "Probe"
    /\ Runs(c)
    /\ silent' = [silent EXCEPT ![c] = NoDuration(c)]
    /\ To(c, IF NoDuration(c) THEN "leave" ELSE "silencedetect")
    /\ UNCHANGED <<cvars, rpc, source, caller, opctx, err, file, bucket, segment, code>>

ProbeEnds(c) ==
    \/ ProbeReads(c)
    \/ \E e \in RunErrors(c) \cup {Error({})} : ProbeFails(c, e)
    \/ NoAudioStream(c) /\ ProbeFails(c, Error({"ErrInvalidAudio"}))

(* The silences the log tells of may add up to the length that is stated.    *)
MayPassForSilent(c) == source[c] \in {"silent", "misdated"}

(* The silencedetect pass, which misses a silence whose log runs over the    *)
(* cap (ToolOutput).                                                         *)
SilenceDetected(c) ==
    /\ stage[c] = "silencedetect"
    /\ \E throughout \in {FALSE, MayPassForSilent(c)} :
          silent' = [silent EXCEPT ![c] = throughout]
    /\ To(c, "leave")
    /\ UNCHANGED <<cvars, rpc, source, caller, opctx, err, file, bucket, segment, code>>

(* Its failure is not the probe's. *)
SilenceFails(c) ==
    /\ stage[c] = "silencedetect"
    /\ To(c, "leave")
    /\ UNCHANGED <<cvars, rpc, source, caller, opctx, err, silent, file, bucket, segment, code>>

(* Normalize's duration probe is best effort: any outcome goes on. *)
DurationRead(c) ==
    /\ stage[c] = "ffprobe" /\ rpc[c] = "Normalize"
    /\ To(c, "temp")
    /\ UNCHANGED <<cvars, rpc, source, caller, opctx, err, silent, file, bucket, segment, code>>

Normalizing == Error({"ErrNormalize"})

CreateTemp(c) ==
    /\ stage[c] = "temp"
    /\ \/ /\ file' = [file EXCEPT ![c] = "blank"]
          /\ To(c, "transcode")
          /\ UNCHANGED err
       \/ /\ Fails(c, Normalizing)
          /\ To(c, "leave")
          /\ UNCHANGED file
    /\ UNCHANGED <<cvars, rpc, source, caller, opctx, silent, bucket, segment, code>>

SizeUnchecked(f) == TRUE        \* mutant of SizeChecked: an empty file is uploaded
SizeChecked(f) == f # "blank"

(* ffmpeg exits 0: the file is complete, or it was given nothing to write.   *)
(* That ffmpeg does not exit 0 on a source that breaks off is an assumption. *)
(* Stat and Seek may fail, too.                                              *)
Transcoded(c) ==
    /\ stage[c] = "transcode"
    /\ Runs(c)
    /\ \E f \in {"whole", "blank"} :
          /\ file' = [file EXCEPT ![c] = f]
          /\ \/ SizeChecked(f) /\ To(c, "upload") /\ UNCHANGED err
             \/ Fails(c, Normalizing) /\ To(c, "cleanup")
    /\ UNCHANGED <<cvars, rpc, source, caller, opctx, silent, bucket, segment, code>>

(* ffmpeg fails or is killed part-way; either way the chain holds only       *)
(* ErrNormalize, the context's error being formatted into the text.          *)
TranscodeFails(c) ==
    /\ stage[c] = "transcode"
    /\ file' = [file EXCEPT ![c] = "part"]
    /\ Fails(c, Normalizing)
    /\ To(c, "cleanup")
    /\ UNCHANGED <<cvars, rpc, source, caller, opctx, silent, bucket, segment, code>>

StatusIgnored(ok) == NoError    \* mutant of UploadErr: the PUT's status not checked
UploadErr(ok) == IF ok THEN NoError ELSE Normalizing

(* The PUT, whole or not at all: stored and answered 2xx; stored with the    *)
(* answer lost or not 2xx; refused or lost, which leaves what was there; or  *)
(* given up by the client - its context ended, the connection broke - while  *)
(* it is on its way still.                                                   *)
UploadEnds(c, ok, outcome) ==
    /\ stage[c] = "upload"
    /\ object' = IF outcome = "stored" THEN file[c] ELSE object
    /\ late' = IF outcome = "on its way" THEN late \cup {file[c]} ELSE late
    /\ Fails(c, UploadErr(ok))
    /\ To(c, "cleanup")
    /\ UNCHANGED <<cvars, rpc, source, caller, opctx, silent, file, promised, segment, code>>

Uploaded(c) ==
    \/ UploadEnds(c, TRUE, "stored")
    \/ \E outcome \in {"stored", "lost"} : UploadEnds(c, FALSE, outcome)
    \/ LatePuts /\ UploadEnds(c, FALSE, "on its way")

(* A PUT nobody waits for lands, before, between or after later tries. *)
LateLands ==
    \E f \in late :
        /\ object' = f
        /\ late' = late \ {f}
        /\ UNCHANGED <<cvars, rpc, source, stage, caller, opctx, err, silent, file, promised,
                       segment, code>>

CleanupAfterError(c) == IF err[c] = NoError THEN "none" ELSE file[c]  \* mutant
CleanedUp(c) == "none"

(* The deferred close and remove, before the slot's own defers. *)
Cleanup(c) ==
    /\ stage[c] = "cleanup"
    /\ file' = [file EXCEPT ![c] = CleanedUp(c)]
    /\ To(c, "leave")
    /\ UNCHANGED <<cvars, rpc, source, caller, opctx, err, silent, bucket, segment, code>>

(* ffmpeg exits 0 in SegmentCut: a WAV (of a window behind the end, perhaps  *)
(* a bare header), an overflow of the cap, or nothing behind the end.        *)
Cut(c) ==
    /\ stage[c] = "cut"
    /\ Runs(c)
    /\ \/ /\ segment' = [segment EXCEPT ![c] = TRUE]
          /\ UNCHANGED err
       \/ /\ source[c] = "good"
          /\ Fails(c, Error({}))
          /\ UNCHANGED segment
       \/ /\ source[c] = "past"
          /\ Fails(c, Error({"ErrInvalidAudio"}))
          /\ UNCHANGED segment
    /\ To(c, "leave")
    /\ UNCHANGED <<cvars, rpc, source, caller, opctx, silent, file, bucket, code>>

CutFails(c) ==
    /\ stage[c] = "cut"
    /\ \E e \in RunErrors(c) : Fails(c, e)
    /\ To(c, "leave")
    /\ UNCHANGED <<cvars, rpc, source, caller, opctx, silent, file, bucket, segment, code>>

-----------------------------------------------------------------------------

ToolEnds(c) ==
    \/ ProbeEnds(c) \/ SilenceDetected(c) \/ SilenceFails(c) \/ DurationRead(c)
    \/ Transcoded(c) \/ TranscodeFails(c) \/ Uploaded(c) \/ Cut(c) \/ CutFails(c)

(* What the program does without waiting for anything but a free slot. *)
Proceed(c) ==
    \/ EngineReturns(c) \/ Release(c) \/ AskScavenge(c) \/ Finish(c)
    \/ AcquireFails(c) \/ LeaveSlot(c) \/ SettleSlot(c)
    \/ CreateTemp(c) \/ Cleanup(c) \/ GeminiInterrupted(c)

Scavenges == (Reclaimed \/ Ended) /\ UNCHANGED mine

Next ==
    \/ \E c \in Calls :
          \/ \E q \in Requests : Arrive(c, q[1], q[2])
          \/ \E e \in CtxErrors : CallerDone(c, e)
          \/ TimerFires(c) \/ Acquire(c) \/ ToolEnds(c) \/ GeminiAnswers(c)
          \/ Proceed(c) \/ Forget(c)
    \/ Scavenges \/ LateLands

Spec == Init /\ [][Next]_vars

(* Timers fire and a child or a PUT whose context has ended ends.  A waiter  *)
(* in acquire gets a slot that keeps becoming free (the channel is FIFO:     *)
(* WorkerPool's WaitersServed).  Nothing is assumed of live children, of     *)
(* storage, of Gemini or of callers.                                         *)
FairSpec ==
    /\ Spec
    /\ \A c \in Calls :
          /\ WF_vars(TimerFires(c))
          /\ WF_vars(Killed(c) /\ ToolEnds(c))
          /\ WF_vars(Proceed(c))
          /\ SF_vars(Acquire(c))
    /\ WF_vars(Scavenges)

-----------------------------------------------------------------------------

TypeOK ==
    /\ using \subseteq Calls
    /\ busy \subseteq Calls \X {"slot", "hold"}
    /\ due \subseteq Calls
    /\ reclaim \in {"no", "running", "ending"}
    /\ rpc \in [Calls -> Methods \cup {"none"}]
    /\ source \in [Calls -> Sources \cup {"none"}]
    /\ \A c \in Calls : <<rpc[c], source[c]>> \in Requests \cup {<<"none", "none">>}
    /\ stage \in [Calls -> Stages]
    /\ caller \in [Calls -> CtxErrors \cup {"live"}]
    /\ opctx \in [Calls -> CtxErrors \cup {"live", "none"}]
    /\ err \in [Calls -> SUBSET Faults]
    /\ silent \in [Calls -> BOOLEAN]
    /\ file \in [Calls -> {"none", "blank", "part", "whole"}]
    /\ object \in {"none", "blank", "part", "whole"}
    /\ late \subseteq {"blank", "part", "whole"}
    /\ promised \in BOOLEAN
    /\ segment \in [Calls -> BOOLEAN]
    /\ code \in [Calls -> Codes \cup {"none"}]

(* Children, uploads and temp files exist only under a worker slot, whatever *)
(* ends the operation, so Workers bounds the processes and the temp disk     *)
(* (the order of the defers in Probe, Normalize and SegmentCut).             *)
SlotCoversWork ==
    /\ \A c \in Calls :
          (stage[c] \in ToolStages \cup {"upload"} \/ file[c] # "none") => c \in using
    /\ Cardinality({c \in Calls : file[c] # "none"}) <= Workers

(* Nothing but a complete derivative is ever put at the destination, now or  *)
(* later: a failed, killed or empty transcode is never uploaded (Normalize). *)
StoredIsWhole == object \in {"none", "whole"} /\ late \subseteq {"whole"}

(* From the moment a caller is told OK a complete derivative lies at the     *)
(* destination and stays there, whatever its other tries do, however they    *)
(* end and whenever PUTs land that it has given up on (Normalize).           *)
OKIsStored == promised => object = "whole"

(* InvalidArgument, the code that stops the caller from retrying, is given   *)
(* only for a request or content that is at fault, never for a timeout, a    *)
(* network fault, a full pool or anything Gemini says.                       *)
TerminalOnlyForBadInput ==
    \A c \in Calls :
        (stage[c] = "done" /\ code[c] = "InvalidArgument")
            => source[c] \in {"invalid", "nomodel", "corrupt", "past"}

(* Every call is out of the pool by the time its caller is answered: no path *)
(* through the defers leaves a slot, a hold, a pending scavenge, a timer, a  *)
(* file or a buffer behind.                                                  *)
NothingLeftBehind ==
    \A c \in Calls :
        stage[c] \in {"done", "idle"} =>
            /\ c \notin using \cup due
            /\ {<<c, "slot">>, <<c, "hold">>} \cap busy = {}
            /\ opctx[c] = "none" /\ file[c] = "none" /\ ~segment[c]

(* server.go 140-142: the scavenge is asked for only when no call references *)
(* a segment or its request body.                                            *)
ScavengeAfterSegments ==
    [][(due' \ due # {}) => \A c \in Calls : ~segment'[c]]_vars

(* Probe and Normalize end even if every child, the object store and Gemini  *)
(* hang and no caller ever gives up.                                         *)
EngineCallsEnd ==
    \A c \in Calls :
        (rpc[c] \in {"Probe", "Normalize"} /\ stage[c] = "acquire") ~> (stage[c] = "done")

(* README, TRANSCRIBE_TIMEOUT: a "per-segment upper bound (cut + Gemini      *)
(* round-trip)".  The code's timeout covers the cut alone.                   *)
TranscribeCallsEnd ==
    \A c \in Calls :
        (rpc[c] = "TranscribeSegment" /\ stage[c] = "acquire") ~> (stage[c] = "done")

(* server.go 199-200: "A context deadline/cancel surfaces as its own code".  *)
(* When the context ends during a transcode and cuts it short, the code      *)
(* should say so; Normalize's error carries ErrNormalize alone.              *)
DeadlineSurfaces ==
    [][\A c \in Calls :
          (Killed(c) /\ stage[c] = "transcode" /\ file'[c] = "part")
              => MapEngineErr(err'[c]) \in CtxErrors]_vars

(* What the repository says of silence: Probe finds it in input that is      *)
(* "silent-throughout or zero-length" (probe.go 21), and "silent input is a  *)
(* terminal InvalidArgument" (server.go 44-45).  But audible audio that      *)
(* states no duration, or too short a one, is called silent, too; and        *)
(* whatever is called silent is answered OK, with a flag, for nothing makes  *)
(* the error (ErrSilent) that would be mapped.                               *)
SilenceIsRefused ==
    \A c \in Calls :
        (stage[c] = "done" /\ silent[c])
            => source[c] \in {"silent", "empty"} /\ code[c] = "InvalidArgument"

-----------------------------------------------------------------------------

(* The RPCs implement ServiceContract: a call's reply is its code, and what  *)
(* its probe says of silence, once it is answered; slots, children, files    *)
(* and timers are out of sight.                                              *)
Promise == INSTANCE ServiceContract WITH
    request <- [c \in Calls |-> <<rpc[c], source[c]>>],
    patience <- caller,
    reply <- [c \in Calls |-> IF stage[c] = "done" THEN code[c] ELSE "none"],
    flagged <- [c \in Calls |-> stage[c] = "done" /\ silent[c]],
    stored <- object = "whole"

(* Every behaviour of the RPCs is one of the contract: whatever fails or     *)
(* hangs, a reply fits its request - Canceled only to whoever cancelled, a   *)
(* verdict only on input that earns it, silence said in an OK alone and of   *)
(* nothing plainly audible, a failed silencedetect pass included, OK never   *)
(* for what is no audio - and the derivative is there before the caller      *)
(* hears of it (server.go, probe.go).                                        *)
KeepsPromise == Promise!ServiceSpec

=============================================================================
