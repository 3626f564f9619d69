----------------------- MODULE AudioServiceRefinement -----------------------
(* The three RPCs implement ServiceContract: every step of a call is a step  *)
(* of the contract or leaves what the caller sees as it is.                  *)
EXTENDS AudioServiceProofs

-----------------------------------------------------------------------------
(* The inductive invariant: what is on its way to the caller fits the call.  *)

Leaving == {"cleanup", "leave", "settle", "returned"}

(* What the contract allows to answer the call. *)
Allowed(c) == Promise!Answers(<<rpc[c], source[c]>>, caller[c])

(* From the stage a call is in: a context ends as Canceled only with the     *)
(* caller's; what is refused never reaches the engine; a stage behind a run  *)
(* that ended well has audio; an error on its way out, and a code, fit.      *)
Fit(c) ==
    /\ opctx[c] = "Canceled" => caller[c] = "Canceled"
    /\ stage[c] \notin {"idle", "finish", "done"} => Refusal(source[c]) = "none"
    /\ stage[c] \in {"silencedetect", "upload", "gemini"} => source[c] # "corrupt"
    /\ stage[c] \in Leaving =>
          IF err[c] = NoError THEN source[c] # "corrupt"
          ELSE MapEngineErr(err[c]) \in Allowed(c)
    /\ stage[c] \in {"release", "finish", "done"} => code[c] \in Allowed(c)

(* The call is on its way out of the engine, or has its code, with no error. *)
Well(c) ==
    \/ stage[c] \in {"leave", "settle", "returned"} /\ err[c] = NoError
    \/ stage[c] \in {"finish", "done"} /\ code[c] = "OK"

(* Silence is said by a Probe that goes well, of what may pass for silent,   *)
(* and always of what has no length.                                         *)
Heard(c) ==
    /\ silent[c] => rpc[c] = "Probe" /\ source[c] \in Promise!MaybeSilent /\ Well(c)
    /\ stage[c] = "silencedetect" => source[c] # "empty"
    /\ (rpc[c] = "Probe" /\ source[c] = "empty" /\ Well(c)) => silent[c]

(* A PUT that is still on its way belongs to an upload that is remembered. *)
LateIsRemembered == late # {} => \E c \in Calls : rpc[c] = "Normalize"

RInv == LateIsRemembered /\ \A c \in Calls : Fit(c) /\ Heard(c)

LEMMA FitFrame ==
    ASSUME NEW d \in Calls, Fit(d), Same(d)
    PROVE  Fit(d)'
  BY DEF Fit, Same, Allowed

LEMMA HeardFrame ==
    ASSUME NEW d \in Calls, Heard(d), Same(d)
    PROVE  Heard(d)'
  BY DEF Heard, Same, Well, NoError

LEMMA AllowedIs ==
    ASSUME NEW c \in Calls, Refusal(source[c]) = "none", rpc[c] \in Methods
    PROVE  /\ "Internal" \in Allowed(c)
           /\ source[c] # "corrupt" => "OK" \in Allowed(c)
           /\ rpc[c] # "Normalize" => "DeadlineExceeded" \in Allowed(c)
           /\ caller[c] # "live" => caller[c] \in Allowed(c)
           /\ (rpc[c] = "Probe" /\ source[c] = "corrupt") => "InvalidArgument" \in Allowed(c)
           /\ (rpc[c] = "TranscribeSegment" /\ source[c] \in {"corrupt", "past"})
                 => "InvalidArgument" \in Allowed(c)
           /\ (rpc[c] = "TranscribeSegment" /\ source[c] # "corrupt")
                 => {"OK", "Unavailable", "ResourceExhausted"} \subseteq Allowed(c)
  BY DEF Allowed, Promise!Answers, Promise!Verdicts, Promise!Successes, Promise!Faults,
         Refusal, Methods

-----------------------------------------------------------------------------
(* The status codes, error by error.                                         *)

LEMMA MinOfOne == \A i \in Nat : Min({i}) = i
  BY DEF Min

LEMMA EngineAnswers ==
    /\ MapEngineErr(NoError) = "OK"
    /\ MapEngineErr(Error({})) = "Internal"
    /\ MapEngineErr(Normalizing) = "Internal"
    /\ MapEngineErr(Error({"ErrInvalidAudio"})) = "InvalidArgument"
    /\ \A e \in CtxErrors : MapEngineErr(Error({e})) = e
  <1> DEFINE hits(e) == {i \in DOMAIN EngineRules : EngineRules[i].faults \cap e # {}}
  <1>1. /\ DOMAIN EngineRules = 1..4
        /\ EngineRules[1] = Rule({"ErrInvalidAudio", "ErrSilent"}, "InvalidArgument")
        /\ EngineRules[2] = Rule({"ErrNormalize"}, "Internal")
        /\ EngineRules[3] = Rule({"DeadlineExceeded"}, "DeadlineExceeded")
        /\ EngineRules[4] = Rule({"Canceled"}, "Canceled")
    BY DEF EngineRules
  <1>2. ASSUME NEW e, NEW k \in 1..4, hits(e) = {k}, e # NoError
        PROVE  MapEngineErr(e) = EngineRules[k].code
    <2>1. Min(hits(e)) = k
      BY <1>2, MinOfOne
    <2> QED
      BY <1>2, <2>1 DEF MapEngineErr, Decide
  <1>3. MapEngineErr(Error({})) = "Internal"
    <2>1. hits(Error({})) = {}
      BY <1>1 DEF Error, Rule
    <2> QED
      BY <2>1 DEF MapEngineErr, Decide, Error, NoError
  <1>4. MapEngineErr(Normalizing) = "Internal"
    <2>1. hits(Normalizing) = {2} /\ Normalizing # NoError
      BY <1>1 DEF Normalizing, Error, NoError, Rule
    <2> QED
      BY <1>1, <1>2, <2>1 DEF Rule
  <1>5. MapEngineErr(Error({"ErrInvalidAudio"})) = "InvalidArgument"
    <2>1. hits(Error({"ErrInvalidAudio"})) = {1} /\ Error({"ErrInvalidAudio"}) # NoError
      BY <1>1 DEF Error, NoError, Rule
    <2> QED
      BY <1>1, <1>2, <2>1 DEF Rule
  <1>6. MapEngineErr(Error({"DeadlineExceeded"})) = "DeadlineExceeded"
    <2>1. hits(Error({"DeadlineExceeded"})) = {3} /\ Error({"DeadlineExceeded"}) # NoError
      BY <1>1 DEF Error, NoError, Rule
    <2> QED
      BY <1>1, <1>2, <2>1 DEF Rule
  <1>7. MapEngineErr(Error({"Canceled"})) = "Canceled"
    <2>1. hits(Error({"Canceled"})) = {4} /\ Error({"Canceled"}) # NoError
      BY <1>1 DEF Error, NoError, Rule
    <2> QED
      BY <1>1, <1>2, <2>1 DEF Rule
  <1>8. MapEngineErr(NoError) = "OK"
    BY DEF MapEngineErr, Decide
  <1> QED
    BY <1>3, <1>4, <1>5, <1>6, <1>7, <1>8 DEF CtxErrors

(* Gemini's outcome is Canceled only when a context was. *)
LEMMA TranscribeAnswers ==
    ASSUME NEW e, MapTranscribeErr(e) = "Canceled"
    PROVE  "Canceled" \in e
  <1> DEFINE hits == {i \in DOMAIN TranscribeRules : TranscribeRules[i].faults \cap e # {}}
  <1>1. /\ DOMAIN TranscribeRules = 1..7
        /\ \A i \in 1..7 : TranscribeRules[i].code = "Canceled" => i = 3
        /\ TranscribeRules[3].faults = {"Canceled"}
    BY DEF TranscribeRules, Rule
  <1>2. e # NoError /\ hits # {}
    BY DEF MapTranscribeErr, Decide
  <1>3. Min(hits) \in hits
    <2>1. hits \in SUBSET (1..7)
      BY <1>1
    <2> HIDE DEF hits
    <2> QED
      BY <1>2, <2>1, MinOfFew
  <1>4. TranscribeRules[Min(hits)].code = "Canceled"
    BY <1>2 DEF MapTranscribeErr, Decide
  <1> DEFINE m == Min(hits)
  <1>5. m \in 1..7 /\ TranscribeRules[m].faults \cap e # {} /\ TranscribeRules[m].code = "Canceled"
    BY <1>1, <1>3, <1>4
  <1> HIDE DEF m
  <1> QED
    BY <1>1, <1>5

-----------------------------------------------------------------------------
(* RInv is inductive, given IInv.                                            *)

(* What a step does to the other calls: nothing. *)
LEMMA OthersSame ==
    ASSUME IInv, NEW c \in Calls, NEW d \in Calls \ {c},
           \/ \E q \in Requests : Arrive(c, q[1], q[2])
           \/ \E e \in CtxErrors : CallerDone(c, e)
           \/ TimerFires(c) \/ Acquire(c) \/ ToolEnds(c) \/ GeminiAnswers(c)
           \/ Proceed(c) \/ Forget(c)
    PROVE  Same(d)
  <1> USE DEF IInv, TypeOK, Same, To, Fails, cvars
  <1>1. ASSUME NEW r, NEW s, Arrive(c, r, s) PROVE Same(d)
    BY <1>1 DEF Arrive, Hold
  <1>2. ASSUME NEW e, CallerDone(c, e) PROVE Same(d)
    BY <1>2 DEF CallerDone
  <1>3. CASE TimerFires(c)
    BY <1>3 DEF TimerFires
  <1>4. CASE Acquire(c)
    BY <1>4 DEF Acquire, Enter
  <1>5. CASE ToolEnds(c)
    <2>1. CASE ProbeEnds(c)
      <3>1. CASE ProbeReads(c)
        BY <3>1 DEF ProbeReads
      <3>2. ASSUME NEW e, ProbeFails(c, e) PROVE Same(d)
        BY <3>2 DEF ProbeFails
      <3> QED
        BY <2>1, <3>1, <3>2 DEF ProbeEnds
    <2>2. CASE SilenceDetected(c) \/ SilenceFails(c)
      BY <2>2 DEF SilenceDetected, SilenceFails
    <2>3. CASE DurationRead(c)
      BY <2>3 DEF DurationRead
    <2>4. CASE Transcoded(c)
      BY <2>4 DEF Transcoded
    <2>5. CASE TranscodeFails(c)
      BY <2>5 DEF TranscodeFails
    <2>6. CASE Uploaded(c)
      BY <2>6 DEF Uploaded, UploadEnds
    <2>7. CASE Cut(c)
      BY <2>7 DEF Cut
    <2>8. CASE CutFails(c)
      BY <2>8 DEF CutFails
    <2> QED
      BY <1>5, <2>1, <2>2, <2>3, <2>4, <2>5, <2>6, <2>7, <2>8 DEF ToolEnds
  <1>6. ASSUME NEW e, GeminiEnds(c, e) PROVE Same(d)
    BY <1>6 DEF GeminiEnds
  <1>7. CASE Proceed(c)
    <2>1. CASE EngineReturns(c)
      BY <2>1 DEF EngineReturns
    <2>2. CASE Release(c)
      BY <2>2 DEF Release, Settle
    <2>3. CASE AskScavenge(c)
      BY <2>3 DEF AskScavenge, Ask, mine
    <2>4. CASE Finish(c)
      BY <2>4 DEF Finish
    <2>5. CASE AcquireFails(c)
      BY <2>5 DEF AcquireFails
    <2>6. CASE LeaveSlot(c)
      BY <2>6 DEF LeaveSlot, Leave
    <2>7. CASE SettleSlot(c)
      BY <2>7 DEF SettleSlot, Settle
    <2>8. CASE CreateTemp(c)
      BY <2>8 DEF CreateTemp
    <2>9. CASE Cleanup(c)
      BY <2>9 DEF Cleanup
    <2> QED
      BY <1>6, <1>7, <2>1, <2>2, <2>3, <2>4, <2>5, <2>6, <2>7, <2>8, <2>9
      DEF Proceed, GeminiInterrupted
  <1>8. CASE Forget(c)
    BY <1>8 DEF Forget
  <1> QED
    BY <1>1, <1>2, <1>3, <1>4, <1>5, <1>6, <1>7, <1>8 DEF GeminiAnswers

(* What a run can end with fits the call, except the verdict, which is       *)
(* Probe's and SegmentCut's alone.                                           *)
LEMMA RunErrorsFit ==
    ASSUME IInv, NEW c \in Calls, Fit(c), opctx[c] # "none", NEW e \in RunErrors(c),
           rpc[c] \in {"Probe", "TranscribeSegment"}, Refusal(source[c]) = "none"
    PROVE  e # NoError /\ MapEngineErr(e) \in Allowed(c)
  <1>1. rpc[c] \in Methods
    BY DEF Methods
  <1>2. CASE opctx[c] # "live"
    <2>1. opctx[c] \in CtxErrors /\ e = Error({opctx[c]})
      BY <1>2 DEF RunErrors, IInv, TypeOK
    <2>2. MapEngineErr(e) = opctx[c] /\ e # NoError
      BY <2>1, EngineAnswers DEF Error, NoError
    <2> QED
      BY <1>1, <2>1, <2>2, AllowedIs DEF Fit, CtxErrors
  <1>3. CASE opctx[c] = "live"
    <2>1. \/ e \in {ClassifyProbeErr(m) : m \in FaultMarkers}
          \/ source[c] = "corrupt" /\ e = ClassifyProbeErr({"invalid"})
      BY <1>3 DEF RunErrors
    <2>2. ASSUME NEW m \in FaultMarkers PROVE ClassifyProbeErr(m) = Error({})
      BY DEF FaultMarkers, ClassifyProbeErr
    <2>3. ClassifyProbeErr({"invalid"}) = Error({"ErrInvalidAudio"})
      BY DEF ClassifyProbeErr
    <2>4. \/ e = Error({})
          \/ source[c] = "corrupt" /\ e = Error({"ErrInvalidAudio"})
      BY <2>1, <2>2, <2>3
    <2>5. e # NoError
      BY <2>4 DEF Error, NoError
    <2> QED
      BY <1>1, <2>4, <2>5, EngineAnswers, AllowedIs
  <1> QED
    BY <1>2, <1>3

-----------------------------------------------------------------------------

(* A call is on its way, with a request the handler let through. *)
Underway(c) ==
    /\ stage[c] \notin {"idle", "finish", "done"}
    /\ rpc[c] \in Methods /\ Refusal(source[c]) = "none"

LEMMA IsUnderway ==
    ASSUME IInv, NEW c \in Calls, Fit(c), stage[c] \notin {"idle", "finish", "done"}
    PROVE  Underway(c)
  BY DEF Underway, Fit, IInv, TypeOK, Sound, Placed

LEMMA AllowedStays ==
    ASSUME NEW c \in Calls, UNCHANGED <<rpc, source, caller>>
    PROVE  Allowed(c)' = Allowed(c)
  BY DEF Allowed

(* Arriving: a refusal is the contract's. *)
LEMMA ArriveFits ==
    ASSUME IInv, NEW c \in Calls, Fit(c), NEW q \in Requests, Arrive(c, q[1], q[2])
    PROVE  Fit(c)'
  <1>1. /\ rpc'[c] = q[1] /\ source'[c] = q[2] /\ code'[c] = Refusal(q[2])
        /\ stage'[c] = IF Refusal(q[2]) = "none" THEN "acquire" ELSE "finish"
        /\ UNCHANGED <<opctx, caller>>
    BY DEF Arrive, To, IInv, TypeOK
  <1>2. Refusal(q[2]) # "none" => Refusal(q[2]) \in Allowed(c)'
    BY <1>1 DEF Refusal, Allowed, Promise!Answers
  <1> QED
    BY <1>1, <1>2 DEF Fit, Leaving

(* A context that ends. *)
LEMMA ContextFits ==
    ASSUME IInv, NEW c \in Calls, Fit(c),
           TimerFires(c) \/ \E e \in CtxErrors : CallerDone(c, e)
    PROVE  Fit(c)'
  <1>1. /\ stage[c] \in Waits
        /\ UNCHANGED <<rpc, source, stage, err, code>>
    BY DEF TimerFires, CallerDone
  <1>2. opctx'[c] = "Canceled" => caller'[c] = "Canceled"
    <2>1. CASE TimerFires(c)
      BY <2>1 DEF TimerFires, IInv, TypeOK
    <2>2. ASSUME NEW e \in CtxErrors, CallerDone(c, e)
          PROVE  opctx'[c] = "Canceled" => caller'[c] = "Canceled"
      BY <2>2 DEF CallerDone, IInv, TypeOK, Fit
    <2> QED
      BY <2>1, <2>2
  <1> QED
    BY <1>1, <1>2 DEF Fit, Leaving, Waits, ToolStages

(* Into the pool, with the timeout derived from the caller's context. *)
LEMMA AcquireFits ==
    ASSUME IInv, NEW c \in Calls, Fit(c), Acquire(c)
    PROVE  Fit(c)'
  <1>1. /\ stage[c] = "acquire" /\ stage'[c] \in {"cut", "ffprobe"}
        /\ opctx'[c] = caller[c]
        /\ UNCHANGED <<rpc, source, caller, err, code>>
    BY DEF Acquire, FirstStage, To, IInv, TypeOK
  <1> QED
    BY <1>1 DEF Fit, Leaving

(* A waiter's error is what ended its caller's context. *)
LEMMA AcquireFailsFits ==
    ASSUME IInv, NEW c \in Calls, Fit(c), AcquireFails(c)
    PROVE  Fit(c)'
  <1>1. Underway(c)
    BY IsUnderway DEF AcquireFails
  <1>2. /\ caller[c] \in CtxErrors
        /\ err'[c] = Error({caller[c]}) /\ stage'[c] = "returned"
        /\ UNCHANGED <<rpc, source, caller, opctx, code>>
    BY DEF AcquireFails, WaitError, Fails, To, IInv, TypeOK
  <1>3. err'[c] # NoError /\ MapEngineErr(err'[c]) = caller[c]
    BY <1>2, EngineAnswers DEF Error, NoError
  <1>4. caller[c] \in Allowed(c)
    BY <1>1, <1>2, AllowedIs DEF Underway, CtxErrors
  <1>5. MapEngineErr(err'[c]) \in Allowed(c)'
    BY <1>2, <1>3, <1>4, AllowedStays
  <1>6. MapEngineErr(err[c])' = MapEngineErr(err'[c])
    OBVIOUS
  <1> QED
    BY <1>1, <1>2, <1>3, <1>5, <1>6 DEF Fit, Leaving, Underway

(* A step towards the way out that leaves an error which fits, or none for   *)
(* an input that has audio.                                                  *)
LEMMA LeavesFit ==
    ASSUME NEW c \in Calls, Fit(c), Underway(c),
           UNCHANGED <<rpc, source, caller, opctx>>,
           stage'[c] \in Leaving,
           IF err'[c] = NoError THEN source[c] # "corrupt"
           ELSE MapEngineErr(err'[c]) \in Allowed(c)
    PROVE  Fit(c)'
  <1>1. MapEngineErr(err[c])' = MapEngineErr(err'[c]) /\ Allowed(c)' = Allowed(c)
    BY AllowedStays
  <1>2. (err[c] = NoError)' <=> err'[c] = NoError
    BY DEF NoError
  <1> QED
    BY <1>1, <1>2 DEF Fit, Leaving, Underway

(* The end of a transcode, of the temp file or of a PUT: Internal, or an     *)
(* input that ran.                                                           *)
LEMMA NormalizeFits ==
    ASSUME IInv, NEW c \in Calls, Fit(c),
           \/ CreateTemp(c) \/ Transcoded(c) \/ TranscodeFails(c)
           \/ DurationRead(c) \/ Uploaded(c)
    PROVE  Fit(c)'
  <1>1. Underway(c)
    BY IsUnderway DEF CreateTemp, Transcoded, TranscodeFails, DurationRead, Uploaded, UploadEnds
  <1>2. Normalizing # NoError /\ MapEngineErr(Normalizing) \in Allowed(c)
    BY <1>1, EngineAnswers, AllowedIs DEF Normalizing, Error, NoError, Underway
  <1>3. UNCHANGED <<rpc, source, caller, opctx, code>>
    BY DEF CreateTemp, Transcoded, TranscodeFails, DurationRead, Uploaded, UploadEnds
  <1>4. CASE stage'[c] \in {"temp", "transcode"}
    BY <1>1, <1>3, <1>4 DEF Fit, Leaving, Underway
  <1>5. CASE stage'[c] = "upload"
    <2>1. source[c] # "corrupt"
      BY <1>5 DEF CreateTemp, Transcoded, TranscodeFails, DurationRead, Uploaded, UploadEnds,
                  Runs, To, IInv, TypeOK
    <2> QED
      BY <1>1, <1>3, <1>5, <2>1 DEF Fit, Leaving, Underway
  <1>6. CASE stage'[c] \in {"leave", "cleanup"}
    <2>1. \/ err'[c] = Normalizing
          \/ err'[c] = NoError /\ stage[c] = "upload"
      BY <1>6 DEF CreateTemp, Transcoded, TranscodeFails, DurationRead, Uploaded, UploadEnds,
                  UploadErr, Fails, To, IInv, TypeOK
    <2> QED
      BY <1>1, <1>2, <1>3, <1>6, <2>1, LeavesFit DEF Leaving, Fit
  <1>7. stage'[c] \in {"temp", "transcode", "upload", "leave", "cleanup"}
    BY DEF CreateTemp, Transcoded, TranscodeFails, DurationRead, Uploaded, UploadEnds, To,
           IInv, TypeOK
  <1> QED
    BY <1>4, <1>5, <1>6, <1>7

(* The end of a probe or a cut. *)
LEMMA ProbeFailsFits ==
    ASSUME IInv, NEW c \in Calls, Fit(c), NEW e, ProbeFails(c, e),
           \/ e \in RunErrors(c) \/ e = Error({})
           \/ NoAudioStream(c) /\ e = Error({"ErrInvalidAudio"})
    PROVE  Fit(c)'
  <1>1. Underway(c) /\ rpc[c] = "Probe" /\ opctx[c] # "none"
    BY IsUnderway DEF ProbeFails, IInv, Sound, Pooled, SlotStages, ToolStages
  <1>2. e # NoError /\ MapEngineErr(e) \in Allowed(c)
    <2>1. CASE e \in RunErrors(c)
      BY <1>1, <2>1, RunErrorsFit DEF Underway
    <2>2. CASE e = Error({})
      BY <1>1, <2>2, EngineAnswers, AllowedIs DEF Underway, Error, NoError
    <2>3. CASE NoAudioStream(c) /\ e = Error({"ErrInvalidAudio"})
      BY <1>1, <2>3, EngineAnswers, AllowedIs DEF Underway, Error, NoError, NoAudioStream
    <2> QED
      BY <2>1, <2>2, <2>3
  <1>3. /\ err'[c] = e /\ stage'[c] = "leave"
        /\ UNCHANGED <<rpc, source, caller, opctx>>
    BY DEF ProbeFails, Fails, To, IInv, TypeOK
  <1> QED
    BY <1>1, <1>2, <1>3, LeavesFit DEF Leaving

LEMMA ProbeReadsFits ==
    ASSUME IInv, NEW c \in Calls, Fit(c),
           ProbeReads(c) \/ SilenceDetected(c) \/ SilenceFails(c)
    PROVE  Fit(c)'
  <1>1. Underway(c)
    BY IsUnderway DEF ProbeReads, SilenceDetected, SilenceFails
  <1>2. source[c] # "corrupt" /\ err[c] = NoError
    BY DEF ProbeReads, SilenceDetected, SilenceFails, Runs, Fit, IInv, Sound, Blamed
  <1>3. /\ stage'[c] \in {"leave", "silencedetect"}
        /\ UNCHANGED <<rpc, source, caller, opctx, err, code>>
    BY DEF ProbeReads, SilenceDetected, SilenceFails, To, IInv, TypeOK
  <1>4. CASE stage'[c] = "leave"
    BY <1>1, <1>2, <1>3, <1>4, LeavesFit DEF Leaving
  <1>5. CASE stage'[c] = "silencedetect"
    BY <1>1, <1>2, <1>3, <1>5 DEF Fit, Leaving, Underway
  <1> QED
    BY <1>3, <1>4, <1>5

LEMMA CutFits ==
    ASSUME IInv, NEW c \in Calls, Fit(c), Cut(c) \/ CutFails(c)
    PROVE  Fit(c)'
  <1>1. /\ Underway(c) /\ rpc[c] = "TranscribeSegment" /\ opctx[c] # "none"
        /\ err[c] = NoError
    BY IsUnderway DEF Cut, CutFails, IInv, Sound, Placed, Pooled, Blamed, SlotStages, ToolStages
  <1>2. stage'[c] = "leave" /\ UNCHANGED <<rpc, source, caller, opctx>>
    BY DEF Cut, CutFails, To, IInv, TypeOK
  <1>3. CASE Cut(c)
    <2>1. source[c] # "corrupt"
      BY <1>3 DEF Cut, Runs
    <2>2. \/ err'[c] = NoError
          \/ err'[c] = Error({})
          \/ err'[c] = Error({"ErrInvalidAudio"}) /\ source[c] = "past"
      BY <1>1, <1>3 DEF Cut, Fails, IInv, TypeOK
    <2>3. err'[c] # NoError => MapEngineErr(err'[c]) \in Allowed(c)
      BY <1>1, <2>2, EngineAnswers, AllowedIs DEF Underway
    <2> QED
      BY <1>1, <1>2, <2>1, <2>3, LeavesFit DEF Leaving
  <1>4. CASE CutFails(c)
    <2>1. PICK e \in RunErrors(c) : Fails(c, e)
      BY <1>4 DEF CutFails
    <2>2. err'[c] = e
      BY <2>1 DEF Fails, IInv, TypeOK
    <2>3. e # NoError /\ MapEngineErr(e) \in Allowed(c)
      BY <1>1, RunErrorsFit DEF Underway
    <2> QED
      BY <1>1, <1>2, <2>2, <2>3, LeavesFit DEF Leaving
  <1> QED
    BY <1>3, <1>4

(* The way out changes nothing of what is on its way. *)
LEMMA WayOutFits ==
    ASSUME IInv, NEW c \in Calls, Fit(c),
           \/ Cleanup(c) \/ LeaveSlot(c) \/ SettleSlot(c) \/ AskScavenge(c)
           \/ Release(c) \/ Finish(c)
    PROVE  Fit(c)'
  <1>1. /\ UNCHANGED <<rpc, source, caller, err, code>>
        /\ opctx'[c] \in {opctx[c], "none"}
        /\ MapEngineErr(err[c])' = MapEngineErr(err[c]) /\ Allowed(c)' = Allowed(c)
    BY AllowedStays DEF Cleanup, LeaveSlot, SettleSlot, AskScavenge, Release, Finish, mine,
           IInv, TypeOK
  <1>2. \/ stage[c] \in Leaving /\ stage'[c] \in Leaving
        \/ stage[c] \in {"release", "finish"} /\ stage'[c] \in {"finish", "done"}
        \/ stage'[c] = stage[c]
    BY DEF Cleanup, LeaveSlot, SettleSlot, AskScavenge, Release, Finish, mine, To, Leaving,
           IInv, TypeOK
  <1> QED
    BY <1>1, <1>2 DEF Fit, Leaving

(* The engine's error becomes a code that fits, or the cut has audio. *)
LEMMA EngineReturnsFits ==
    ASSUME IInv, NEW c \in Calls, Fit(c), EngineReturns(c)
    PROVE  Fit(c)'
  <1>1. Underway(c) /\ stage[c] = "returned"
    BY IsUnderway DEF EngineReturns
  <1>2. /\ code'[c] = MapEngineErr(err[c])
        /\ stage'[c] = AfterEngine(c)
        /\ UNCHANGED <<rpc, source, caller, opctx>>
        /\ Allowed(c)' = Allowed(c)
    BY AllowedStays DEF EngineReturns, To, IInv, TypeOK
  <1>3. code'[c] \in Allowed(c)
    BY <1>1, <1>2, EngineAnswers, AllowedIs DEF Fit, Leaving, Underway
  <1>4. AfterEngine(c) = "gemini" => source[c] # "corrupt"
    BY <1>1 DEF AfterEngine, Fit, Leaving
  <1>5. AfterEngine(c) \in {"finish", "gemini", "release"}
    BY DEF AfterEngine
  <1> QED
    BY <1>1, <1>2, <1>3, <1>4, <1>5 DEF Fit, Leaving, Underway

(* So does Gemini's outcome: Canceled only through the caller's context. *)
LEMMA GeminiFits ==
    ASSUME IInv, NEW c \in Calls, Fit(c), NEW e, GeminiEnds(c, e),
           "Canceled" \in e => caller[c] = "Canceled"
    PROVE  Fit(c)'
  <1>1. /\ Underway(c) /\ stage[c] = "gemini" /\ rpc[c] = "TranscribeSegment"
        /\ source[c] # "corrupt"
    BY IsUnderway DEF GeminiEnds, Fit, IInv, Sound, Placed
  <1>2. /\ code'[c] = MapTranscribeErr(e) /\ stage'[c] = "release"
        /\ UNCHANGED <<rpc, source, caller, opctx>>
        /\ Allowed(c)' = Allowed(c)
    BY AllowedStays DEF GeminiEnds, To, IInv, TypeOK
  <1>3. MapTranscribeErr(e) \in Allowed(c)
    <2>1. MapTranscribeErr(e) \in Codes \ {"InvalidArgument"}
      BY TranscribeCodes
    <2>2. Codes \ {"InvalidArgument", "Canceled"} \subseteq Allowed(c)
      BY <1>1, AllowedIs DEF Underway, Codes, CtxErrors
    <2>3. MapTranscribeErr(e) = "Canceled" => "Canceled" \in Allowed(c)
      BY <1>1, TranscribeAnswers, AllowedIs DEF Underway
    <2> QED
      BY <2>1, <2>2, <2>3
  <1> QED
    BY <1>1, <1>2, <1>3 DEF Fit, Leaving, Underway

LEMMA GeminiAnswersFits ==
    ASSUME IInv, NEW c \in Calls, Fit(c), GeminiAnswers(c) \/ GeminiInterrupted(c)
    PROVE  Fit(c)'
  <1>1. ASSUME NEW e \in GeminiOutcomes PROVE "Canceled" \notin e
    BY DEF GeminiOutcomes, HTTPStatuses, ServerFaults, Error, NoError
  <1>2. "Canceled" \in Error({caller[c]}) => caller[c] = "Canceled"
    BY DEF Error
  <1> QED
    BY <1>1, <1>2, GeminiFits DEF GeminiAnswers, GeminiInterrupted

LEMMA ForgetFits ==
    ASSUME IInv, NEW c \in Calls, Fit(c), Forget(c)
    PROVE  Fit(c)'
  <1>1. stage'[c] = "idle" /\ opctx'[c] = opctx[c] /\ opctx[c] = "none"
    BY DEF Forget, To, IInv, TypeOK, Sound, Pooled, SlotStages, ToolStages
  <1> QED
    BY <1>1 DEF Fit, Leaving

-----------------------------------------------------------------------------
(* What is said of silence.                                                  *)

(* No call but a Probe says anything of it. *)
LEMMA HeardElse ==
    ASSUME NEW c \in Calls, Heard(c), rpc[c] # "Probe", stage'[c] # "silencedetect",
           rpc'[c] = rpc[c], silent'[c] = silent[c]
    PROVE  Heard(c)'
  BY DEF Heard

(* A step that leaves a call as well as it was. *)
LEMMA HeardStays ==
    ASSUME NEW c \in Calls, Heard(c), Well(c)' <=> Well(c),
           stage'[c] = "silencedetect" => stage[c] = "silencedetect",
           rpc'[c] = rpc[c], source'[c] = source[c], silent'[c] = silent[c]
    PROVE  Heard(c)'
  BY DEF Heard

LEMMA ProbeToolsHeard ==
    ASSUME IInv, NEW c \in Calls, Fit(c), Heard(c),
           ProbeEnds(c) \/ SilenceDetected(c) \/ SilenceFails(c)
    PROVE  Heard(c)'
  <1>1. /\ rpc[c] = "Probe" /\ opctx[c] # "none" /\ err[c] = NoError /\ ~silent[c]
        /\ stage[c] \in {"ffprobe", "silencedetect"} /\ Refusal(source[c]) = "none"
        /\ UNCHANGED <<rpc, source, code>>
    BY DEF ProbeEnds, ProbeReads, ProbeFails, SilenceDetected, SilenceFails, IInv, Sound,
           Placed, Pooled, Blamed, SlotStages, ToolStages, Fit, Heard, Well
  <1>2. CASE ProbeReads(c)
    <2>1. /\ silent'[c] = NoDuration(c) /\ err'[c] = NoError
          /\ stage'[c] = IF NoDuration(c) THEN "leave" ELSE "silencedetect"
      BY <1>1, <1>2 DEF ProbeReads, To, IInv, TypeOK
    <2>2. CASE NoDuration(c)
      BY <1>1, <2>1, <2>2 DEF Heard, Well, NoDuration, NoError, Promise!MaybeSilent
    <2>3. CASE ~NoDuration(c)
      BY <1>1, <2>1, <2>3 DEF Heard, Well, NoDuration
    <2> QED
      BY <2>2, <2>3
  <1>3. ASSUME NEW e, ProbeFails(c, e), e # NoError PROVE Heard(c)'
    <2>1. err'[c] = e /\ stage'[c] = "leave" /\ silent'[c] = silent[c]
      BY <1>3 DEF ProbeFails, Fails, To, IInv, TypeOK
    <2> QED
      BY <1>1, <1>3, <2>1 DEF Heard, Well, NoError
  <1>4. CASE ProbeEnds(c) /\ ~ProbeReads(c)
    <2>1. \A e \in RunErrors(c) : e # NoError
      BY <1>1, RunErrorsFit
    <2>2. Error({}) # NoError /\ Error({"ErrInvalidAudio"}) # NoError
      BY DEF Error, NoError
    <2> QED
      BY <1>3, <1>4, <2>1, <2>2 DEF ProbeEnds
  <1>5. CASE SilenceFails(c)
    <2>1. stage[c] = "silencedetect" /\ stage'[c] = "leave" /\ silent'[c] = silent[c]
      BY <1>5 DEF SilenceFails, To, IInv, TypeOK
    <2> QED
      BY <1>1, <2>1 DEF Heard, Well
  <1>6. CASE SilenceDetected(c)
    <2>1. MayPassForSilent(c) \in BOOLEAN
      BY DEF MayPassForSilent
    <2>2. PICK throughout \in BOOLEAN :
             /\ throughout => MayPassForSilent(c)
             /\ silent' = [silent EXCEPT ![c] = throughout]
      BY <1>6, <2>1 DEF SilenceDetected
    <2>3. /\ stage[c] = "silencedetect" /\ stage'[c] = "leave" /\ err'[c] = NoError
          /\ silent'[c] = throughout
      BY <1>1, <1>6, <2>2 DEF SilenceDetected, To, IInv, TypeOK
    <2> QED
      BY <1>1, <2>2, <2>3 DEF Heard, Well, NoError, MayPassForSilent, Promise!MaybeSilent
  <1> QED
    BY <1>2, <1>4, <1>5, <1>6

(* The engine's answer: OK is the code of no error, and of no other. *)
LEMMA EngineReturnsHeard ==
    ASSUME IInv, NEW c \in Calls, Heard(c), EngineReturns(c)
    PROVE  Heard(c)'
  <1>1. /\ stage[c] = "returned" /\ stage'[c] = AfterEngine(c)
        /\ code'[c] = MapEngineErr(err[c])
        /\ UNCHANGED <<rpc, source, silent>>
    BY DEF EngineReturns, To, IInv, TypeOK
  <1>2. CASE rpc[c] # "Probe"
    BY <1>1, <1>2, HeardElse DEF AfterEngine
  <1>3. CASE rpc[c] = "Probe"
    <2>1. stage'[c] = "finish"
      BY <1>1, <1>3 DEF AfterEngine
    <2>2. code'[c] = "OK" <=> err[c] = NoError
      BY <1>1, EngineCodes, EngineAnswers
    <2> QED
      BY <1>1, <2>1, <2>2, HeardStays DEF Well
  <1> QED
    BY <1>2, <1>3

(* The beginning of a call, and its end. *)
LEMMA EndsHeard ==
    ASSUME IInv, NEW c \in Calls, Heard(c),
           Forget(c) \/ \E q \in Requests : Arrive(c, q[1], q[2])
    PROVE  Heard(c)'
  <1>1. CASE Forget(c)
    BY <1>1 DEF Forget, To, IInv, TypeOK, Heard
  <1>2. ASSUME NEW q \in Requests, Arrive(c, q[1], q[2]) PROVE Heard(c)'
    <2>1. /\ stage[c] = "idle" /\ silent'[c] = silent[c] /\ code'[c] = Refusal(q[2])
          /\ stage'[c] \in {"acquire", "finish"}
      BY <1>2 DEF Arrive, To, IInv, TypeOK
    <2>2. ~silent[c]
      BY <2>1 DEF Heard, Well
    <2>3. code'[c] # "OK"
      BY <2>1 DEF Refusal
    <2> QED
      BY <2>1, <2>2, <2>3 DEF Heard, Well
  <1> QED
    BY <1>1, <1>2

(* The steps of the other methods, and those that are no matter. *)
LEMMA OthersHeard ==
    ASSUME IInv, NEW c \in Calls, Heard(c),
           \/ \E e \in CtxErrors : CallerDone(c, e)
           \/ TimerFires(c) \/ Acquire(c) \/ AcquireFails(c) \/ GeminiAnswers(c)
           \/ GeminiInterrupted(c) \/ DurationRead(c) \/ CreateTemp(c) \/ Transcoded(c)
           \/ TranscodeFails(c) \/ Uploaded(c) \/ Cut(c) \/ CutFails(c) \/ Cleanup(c)
           \/ LeaveSlot(c) \/ SettleSlot(c) \/ Release(c) \/ Finish(c) \/ AskScavenge(c)
    PROVE  Heard(c)'
  <1>1. CASE TimerFires(c) \/ (\E e \in CtxErrors : CallerDone(c, e)) \/ AskScavenge(c)
    <2>1. UNCHANGED <<rpc, source, stage, err, silent, code>>
      BY <1>1 DEF TimerFires, CallerDone, AskScavenge, mine
    <2> QED
      BY <2>1 DEF Heard, Well, NoError
  <1>2. CASE Acquire(c) \/ AcquireFails(c)
    <2>1. stage[c] = "acquire" /\ UNCHANGED <<rpc, source, silent>>
      BY <1>2 DEF Acquire, AcquireFails
    <2>2. CASE Acquire(c)
      <3>1. stage'[c] \in {"cut", "ffprobe"}
        BY <2>2 DEF Acquire, FirstStage, To, IInv, TypeOK
      <3> QED
        BY <2>1, <3>1, HeardStays DEF Well
    <2>3. CASE AcquireFails(c)
      <3>1. stage'[c] = "returned"
        BY <2>3 DEF AcquireFails, To, IInv, TypeOK
      <3>2. err'[c] # NoError
        BY <2>3 DEF AcquireFails, Fails, WaitError, Error, NoError, IInv, TypeOK
      <3> QED
        BY <2>1, <3>1, <3>2, HeardStays DEF Well
    <2> QED
      BY <1>2, <2>2, <2>3
  <1>3. CASE LeaveSlot(c) \/ SettleSlot(c) \/ Finish(c)
    <2>1. /\ UNCHANGED <<rpc, source, err, silent, code>>
          /\ \/ stage[c] \in {"leave", "settle"} /\ stage'[c] \in {"settle", "returned"}
             \/ stage[c] = "finish" /\ stage'[c] = "done"
      BY <1>3 DEF LeaveSlot, SettleSlot, Finish, To, IInv, TypeOK
    <2> QED
      BY <2>1, HeardStays DEF Well, NoError
  <1>4. CASE \/ GeminiAnswers(c) \/ GeminiInterrupted(c) \/ Release(c)
             \/ Cut(c) \/ CutFails(c)
    <2>1. rpc[c] = "TranscribeSegment" /\ UNCHANGED <<rpc, silent>>
      BY <1>4 DEF GeminiAnswers, GeminiInterrupted, GeminiEnds, Release, Cut, CutFails,
                  IInv, Sound, Placed
    <2>2. stage'[c] # "silencedetect"
      BY <1>4 DEF GeminiAnswers, GeminiInterrupted, GeminiEnds, Release, Cut, CutFails, To,
                  IInv, TypeOK
    <2> QED
      BY <2>1, <2>2, HeardElse
  <1>5. CASE \/ DurationRead(c) \/ CreateTemp(c) \/ Transcoded(c) \/ TranscodeFails(c)
             \/ Uploaded(c) \/ Cleanup(c)
    <2>1. rpc[c] = "Normalize" /\ UNCHANGED <<rpc, silent>>
      BY <1>5 DEF DurationRead, CreateTemp, Transcoded, TranscodeFails, Uploaded, UploadEnds,
                  Cleanup, IInv, Sound, Placed
    <2>2. stage'[c] # "silencedetect"
      BY <1>5 DEF DurationRead, CreateTemp, Transcoded, TranscodeFails, Uploaded, UploadEnds,
                  Cleanup, To, IInv, TypeOK
    <2> QED
      BY <2>1, <2>2, HeardElse
  <1> QED
    BY <1>1, <1>2, <1>3, <1>4, <1>5

-----------------------------------------------------------------------------

(* What is on its way late belongs to an upload that is remembered: the last *)
(* call of the upload takes it along.                                        *)
LEMMA LateKeeps ==
    ASSUME IInv, LateIsRemembered, [Next]_vars
    PROVE  LateIsRemembered'
  <1>1. CASE UNCHANGED <<rpc, late>>
    BY <1>1 DEF LateIsRemembered
  <1>2. ASSUME NEW c \in Calls, NEW q, Arrive(c, q[1], q[2]) PROVE LateIsRemembered'
    <2>1. rpc[c] = "none" /\ rpc' = [rpc EXCEPT ![c] = q[1]] /\ late' = late
      BY <1>2 DEF Arrive, IInv, Sound, Placed, bucket
    <2> QED
      BY <2>1 DEF LateIsRemembered, IInv, TypeOK
  <1>3. ASSUME NEW c \in Calls, Forget(c) PROVE LateIsRemembered'
    <2>1. CASE late' = {}
      BY <2>1 DEF LateIsRemembered
    <2>2. ASSUME NEW d \in Calls \ {c}, rpc[d] = "Normalize" PROVE LateIsRemembered'
      <3>1. rpc'[d] = "Normalize"
        BY <1>3, <2>2 DEF Forget, IInv, TypeOK
      <3> QED
        BY <3>1 DEF LateIsRemembered
    <2> QED
      BY <1>3, <2>1, <2>2 DEF Forget
  <1>4. ASSUME NEW c \in Calls, NEW ok, NEW outcome, UploadEnds(c, ok, outcome)
        PROVE  LateIsRemembered'
    <2>1. rpc'[c] = "Normalize"
      BY <1>4 DEF UploadEnds, IInv, Sound, Placed
    <2> QED
      BY <2>1 DEF LateIsRemembered
  <1>5. CASE LateLands
    BY <1>5 DEF LateLands, LateIsRemembered
  <1>6. \/ UNCHANGED <<rpc, late>> \/ LateLands
        \/ \E c \in Calls :
              \/ \E q \in Requests : Arrive(c, q[1], q[2])
              \/ Forget(c) \/ Uploaded(c)
    <2> USE DEF cvars, bucket, mine
    <2>1. CASE UNCHANGED vars
      BY <2>1 DEF vars
    <2>2. ASSUME NEW c \in Calls, ToolEnds(c), ~Uploaded(c) PROVE UNCHANGED <<rpc, late>>
      BY <2>2 DEF ToolEnds, ProbeEnds, ProbeReads, ProbeFails, SilenceDetected, SilenceFails,
                  DurationRead, Transcoded, TranscodeFails, Cut, CutFails
    <2>3. ASSUME NEW c \in Calls, Proceed(c) PROVE UNCHANGED <<rpc, late>>
      BY <2>3 DEF Proceed, EngineReturns, Release, AskScavenge, Finish, AcquireFails,
                  LeaveSlot, SettleSlot, CreateTemp, Cleanup, GeminiInterrupted, GeminiEnds
    <2>4. ASSUME NEW c \in Calls,
                 \/ \E e \in CtxErrors : CallerDone(c, e)
                 \/ TimerFires(c) \/ Acquire(c) \/ GeminiAnswers(c)
          PROVE  UNCHANGED <<rpc, late>>
      BY <2>4 DEF CallerDone, TimerFires, Acquire, GeminiAnswers, GeminiEnds
    <2>5. Scavenges => UNCHANGED <<rpc, late>>
      BY DEF Scavenges
    <2> QED
      BY <2>1, <2>2, <2>3, <2>4, <2>5 DEF Next
  <1> QED
    BY <1>1, <1>2, <1>3, <1>4, <1>5, <1>6 DEF Uploaded

LEMMA ToolFits ==
    ASSUME IInv, NEW c \in Calls, Fit(c), ToolEnds(c)
    PROVE  Fit(c)'
  <1>1. CASE ProbeEnds(c)
    <2>1. ASSUME NEW e \in RunErrors(c) \cup {Error({})}, ProbeFails(c, e) PROVE Fit(c)'
      BY <2>1, ProbeFailsFits
    <2>2. CASE NoAudioStream(c) /\ ProbeFails(c, Error({"ErrInvalidAudio"}))
      BY <2>2, ProbeFailsFits
    <2> QED
      BY <1>1, <2>1, <2>2, ProbeReadsFits DEF ProbeEnds
  <1> QED
    BY <1>1, ProbeReadsFits, NormalizeFits, CutFits DEF ToolEnds

LEMMA StepFits ==
    ASSUME IInv, RInv, [Next]_vars
    PROVE  RInv'
  <1>1. LateIsRemembered'
    BY LateKeeps DEF RInv
  <1>2. ASSUME NEW c \in Calls,
               \/ \E q \in Requests : Arrive(c, q[1], q[2])
               \/ \E e \in CtxErrors : CallerDone(c, e)
               \/ TimerFires(c) \/ Acquire(c) \/ ToolEnds(c) \/ GeminiAnswers(c)
               \/ Proceed(c) \/ Forget(c)
        PROVE  RInv'
    <2>1. ASSUME NEW d \in Calls \ {c} PROVE Fit(d)' /\ Heard(d)'
      BY <1>2, OthersSame, FitFrame, HeardFrame DEF RInv
    <2>2. Fit(c)'
      BY <1>2, ArriveFits, ContextFits, AcquireFits, ToolFits, GeminiAnswersFits,
         AcquireFailsFits, WayOutFits, EngineReturnsFits, NormalizeFits, ForgetFits
      DEF RInv, Proceed
    <2>3. Heard(c)'
      BY <1>2, ProbeToolsHeard, EngineReturnsHeard, EndsHeard, OthersHeard
      DEF RInv, ToolEnds, Proceed
    <2> QED
      BY <1>1, <2>1, <2>2, <2>3 DEF RInv
  <1>3. CASE UNCHANGED vars \/ Scavenges \/ LateLands
    <2>1. UNCHANGED <<rpc, source, stage, caller, opctx, err, silent, code>>
      BY <1>3 DEF vars, mine, Scavenges, LateLands
    <2>2. ASSUME NEW d \in Calls PROVE Fit(d)' /\ Heard(d)'
      BY <2>1 DEF RInv, Fit, Allowed, Heard, Well, NoError
    <2> QED
      BY <1>1, <2>2 DEF RInv
  <1> QED
    BY <1>2, <1>3 DEF Next

(* A reply on its way fits its request in every reachable state. *)
THEOREM RepliesFit == Spec => []RInv
  <1>1. Init => RInv
    BY DEF Init, RInv, LateIsRemembered, Fit, Leaving, Heard, Well
  <1>2. IInv /\ RInv /\ [Next]_vars => RInv'
    BY StepFits
  <1> QED
    BY <1>1, <1>2, Invariance, PTL DEF Spec

-----------------------------------------------------------------------------
(* The refinement.                                                           *)

Asked == [c \in Calls |-> <<rpc[c], source[c]>>]
Replied == [c \in Calls |-> IF stage[c] = "done" THEN code[c] ELSE "none"]
Flagged == [c \in Calls |-> stage[c] = "done" /\ silent[c]]
Stored == object = "whole"

(* The contract's next-state relation, spelled on the mapped state. *)
LEMMA PromiseSteps ==
    ASSUME NEW c \in Calls
    PROVE  /\ Promise!Request(c) => Promise!ServiceNext
           /\ Promise!GiveUp(c) => Promise!ServiceNext
           /\ Promise!Answer(c) => Promise!ServiceNext
           /\ Promise!Forget(c) => Promise!ServiceNext
  BY DEF Promise!ServiceNext

(* Steps out of the caller's sight. *)
LEMMA UnseenStep ==
    ASSUME UNCHANGED <<rpc, source, caller, object>>,
           \A d \in Calls : /\ stage'[d] = "done" <=> stage[d] = "done"
                            /\ stage[d] = "done" => code'[d] = code[d] /\ silent'[d] = silent[d]
    PROVE  UNCHANGED Promise!svars
  <1>1. Asked' = Asked /\ Stored' = Stored
    BY DEF Asked, Stored
  <1>2. Replied' = Replied /\ Flagged' = Flagged
    BY DEF Replied, Flagged
  <1> QED
    BY <1>1, <1>2 DEF Promise!svars, Asked, Replied, Flagged, Stored

LEMMA UnseenCall ==
    ASSUME NEW c \in Calls, \A d \in Calls \ {c} : Same(d),
           stage[c] # "done", stage'[c] # "done",
           UNCHANGED <<rpc, source, caller, object>>
    PROVE  UNCHANGED Promise!svars
  <1>1. ASSUME NEW d \in Calls
        PROVE  /\ stage'[d] = "done" <=> stage[d] = "done"
               /\ stage[d] = "done" => code'[d] = code[d] /\ silent'[d] = silent[d]
    BY DEF Same
  <1> QED
    BY <1>1, UnseenStep

LEMMA UnseenRefines ==
    ASSUME IInv, NEW c \in Calls,
           \/ TimerFires(c) \/ Acquire(c) \/ GeminiAnswers(c)
           \/ ToolEnds(c) /\ ~Uploaded(c)
           \/ Proceed(c) /\ ~Finish(c)
    PROVE  UNCHANGED Promise!svars
  <1> DEFINE Out == stage[c] # "done" /\ stage'[c] # "done"
                    /\ UNCHANGED <<rpc, source, caller, object>>
  <1>0. \A d \in Calls \ {c} : Same(d)
    BY OthersSame
  <1> USE DEF IInv, TypeOK, To, mine, bucket
  <1>1. CASE TimerFires(c)
    BY <1>1, UnseenStep DEF TimerFires
  <1>2. CASE Acquire(c)
    <2>1. Out
      BY <1>2 DEF Acquire, FirstStage
    <2> QED
      BY <1>0, <2>1, UnseenCall
  <1>3. CASE GeminiAnswers(c)
    <2>1. Out
      BY <1>3 DEF GeminiAnswers, GeminiEnds
    <2> QED
      BY <1>0, <2>1, UnseenCall
  <1>4. CASE ToolEnds(c) /\ ~Uploaded(c)
    <2>1. CASE ProbeEnds(c) \/ SilenceDetected(c) \/ SilenceFails(c) \/ DurationRead(c)
      <3>1. Out
        BY <2>1 DEF ProbeEnds, ProbeReads, ProbeFails, SilenceDetected, SilenceFails,
                    DurationRead
      <3> QED
        BY <1>0, <3>1, UnseenCall
    <2>2. CASE Transcoded(c) \/ TranscodeFails(c) \/ Cut(c) \/ CutFails(c)
      <3>1. Out
        BY <2>2 DEF Transcoded, TranscodeFails, Cut, CutFails
      <3> QED
        BY <1>0, <3>1, UnseenCall
    <2> QED
      BY <1>4, <2>1, <2>2 DEF ToolEnds
  <1>5. CASE Proceed(c) /\ ~Finish(c)
    <2>1. CASE AskScavenge(c)
      BY <2>1, UnseenStep DEF AskScavenge
    <2>2. CASE ~AskScavenge(c)
      <3>1. Out
        BY <1>5, <2>2 DEF Proceed, EngineReturns, AfterEngine, Release, AcquireFails, LeaveSlot,
                          SettleSlot, CreateTemp, Cleanup, GeminiInterrupted, GeminiEnds
      <3> QED
        BY <1>0, <3>1, UnseenCall
    <2> QED
      BY <2>1, <2>2
  <1> QED
    BY <1>1, <1>2, <1>3, <1>4, <1>5

(* A request arrives. *)
LEMMA ArriveRefines ==
    ASSUME IInv, NEW c \in Calls, NEW q \in Requests, Arrive(c, q[1], q[2])
    PROVE  Promise!Request(c)
  <1>1. q = <<q[1], q[2]>>
    BY RequestsAssumption DEF AllRequests
  <1>2. /\ rpc[c] = "none" /\ source[c] = "none"
        /\ rpc' = [rpc EXCEPT ![c] = q[1]] /\ source' = [source EXCEPT ![c] = q[2]]
        /\ stage' = [stage EXCEPT ![c] = IF Refusal(q[2]) = "none" THEN "acquire" ELSE "finish"]
        /\ stage[c] = "idle" /\ code' = [code EXCEPT ![c] = Refusal(q[2])]
        /\ UNCHANGED <<caller, silent, object>>
    BY DEF Arrive, To, bucket, IInv, Sound, Placed
  <1>3. Asked[c] = <<"none", "none">> /\ Asked' = [Asked EXCEPT ![c] = q]
    BY <1>1, <1>2 DEF Asked, IInv, TypeOK
  <1>4. Replied' = Replied /\ Flagged' = Flagged
    BY <1>2 DEF Replied, Flagged, IInv, TypeOK
  <1> QED
    BY <1>2, <1>3, <1>4 DEF Promise!Request, Promise!NoRequest, Asked, Replied, Flagged

(* The caller gives up. *)
LEMMA CallerDoneRefines ==
    ASSUME IInv, NEW c \in Calls, NEW e \in CtxErrors, CallerDone(c, e)
    PROVE  Promise!GiveUp(c)
  <1>1. /\ rpc[c] # "none" /\ stage[c] # "done" /\ caller[c] = "live"
        /\ caller' = [caller EXCEPT ![c] = e]
        /\ UNCHANGED <<rpc, source, stage, silent, code, object>>
    BY DEF CallerDone, bucket, Waits, ToolStages, IInv, Sound, Placed
  <1>2. Asked[c] # <<"none", "none">> /\ Replied[c] = "none"
    BY <1>1 DEF Asked, Replied
  <1>3. UNCHANGED <<Asked, Replied, Flagged, Stored>>
    BY <1>1 DEF Asked, Replied, Flagged, Stored
  <1> QED
    BY <1>1, <1>2, <1>3
    DEF Promise!GiveUp, Promise!NoRequest, CtxErrors, Asked, Replied, Flagged, Stored

(* The reply leaves: its code and its flag fit, and OK of a Normalize is     *)
(* stored.                                                                   *)
LEMMA FinishRefines ==
    ASSUME IInv, RInv, NEW c \in Calls, Finish(c)
    PROVE  Promise!Answer(c)
  <1>1. /\ stage[c] = "finish" /\ stage' = [stage EXCEPT ![c] = "done"]
        /\ rpc[c] # "none" /\ code[c] \in Allowed(c)
        /\ UNCHANGED <<rpc, source, caller, silent, code, object>>
    BY DEF Finish, To, RInv, Fit, IInv, Sound, Placed
  <1>2. (rpc[c] = "Normalize" /\ code[c] = "OK") => Stored
    BY <1>1 DEF IInv, Sound, Kept, Stored
  <1>3. silent[c] \in Promise!Flags(<<rpc[c], source[c]>>, code[c])
    <2>1. silent[c] \in BOOLEAN
      BY DEF IInv, TypeOK
    <2>2. silent[c] => rpc[c] = "Probe" /\ source[c] \in Promise!MaybeSilent /\ code[c] = "OK"
      BY <1>1 DEF RInv, Heard, Well
    <2>3. (rpc[c] = "Probe" /\ source[c] = "empty" /\ code[c] = "OK") => silent[c]
      BY <1>1 DEF RInv, Heard, Well
    <2> QED
      BY <2>1, <2>2, <2>3 DEF Promise!Flags
  <1>4. /\ Asked[c] = <<rpc[c], source[c]>> /\ Asked[c] # <<"none", "none">>
        /\ Replied[c] = "none"
    BY <1>1 DEF Asked, Replied
  <1>5. Asked' = Asked /\ Stored' = Stored /\ Replied' = [Replied EXCEPT ![c] = code[c]]
    BY <1>1 DEF Asked, Replied, Stored, IInv, TypeOK
  <1>6. Flagged' = [Flagged EXCEPT ![c] = silent[c]]
    BY <1>1 DEF Flagged, IInv, TypeOK
  <1> QED
    BY <1>1, <1>2, <1>3, <1>4, <1>5, <1>6
    DEF Promise!Answer, Promise!NoRequest, Promise!Transcodes, Allowed, Asked, Replied,
        Flagged, Stored

(* The call is over; the derivative goes with the last call of its upload. *)
LEMMA ForgetRefines ==
    ASSUME IInv, RInv, NEW c \in Calls, Forget(c)
    PROVE  Promise!Forget(c)
  <1>1. /\ stage[c] = "done" /\ stage' = [stage EXCEPT ![c] = "idle"]
        /\ rpc' = [rpc EXCEPT ![c] = "none"] /\ source' = [source EXCEPT ![c] = "none"]
        /\ caller' = [caller EXCEPT ![c] = "live"] /\ code' = [code EXCEPT ![c] = "none"]
    BY DEF Forget, To
  <1>2. Replied[c] # "none"
    <2>1. code[c] \in Allowed(c) /\ caller[c] \in CtxErrors \cup {"live"}
      BY <1>1 DEF RInv, Fit, IInv, TypeOK
    <2>2. "none" \notin Allowed(c)
      BY <2>1 DEF Allowed, Promise!Answers, Promise!Verdicts, Promise!Successes,
                  Promise!Faults, CtxErrors
    <2> QED
      BY <1>1, <2>1, <2>2 DEF Replied
  <1>3. Asked' = [Asked EXCEPT ![c] = <<"none", "none">>]
    BY <1>1 DEF Asked, IInv, TypeOK
  <1>4. Replied' = [Replied EXCEPT ![c] = "none"]
    BY <1>1 DEF Replied, IInv, TypeOK
  <1>5. Flagged' = [Flagged EXCEPT ![c] = FALSE]
    <2>1. silent' = [silent EXCEPT ![c] = FALSE]
      BY DEF Forget
    <2> QED
      BY <1>1, <2>1 DEF Flagged, IInv, TypeOK
  <1>6. Stored' = (Stored /\ \E d \in Calls \ {c} : rpc[d] = "Normalize")
    BY DEF Forget, bucket, Stored
  <1>7. \A d \in Calls : Asked[d][1] = rpc[d]
    BY DEF Asked
  <1> QED
    BY <1>1, <1>2, <1>3, <1>4, <1>5, <1>6, <1>7
    DEF Promise!Forget, Promise!NoRequest, Promise!Transcodes, Asked, Replied, Flagged, Stored

(* A derivative is whole when it arrives, now or late, and a call of its     *)
(* upload is remembered.                                                     *)
LEMMA ArrivalRefines ==
    ASSUME NEW d \in Calls, rpc[d] = "Normalize",
           object' \in {object, "whole"},
           UNCHANGED <<rpc, source, caller, Replied, Flagged>>
    PROVE  Promise!Store \/ UNCHANGED Promise!svars
  <1>1. Asked' = Asked /\ Asked[d][1] = "Normalize"
    BY DEF Asked
  <1>2. CASE object' = object
    <2>1. Stored' = Stored
      BY <1>2 DEF Stored
    <2> QED
      BY <1>1, <2>1 DEF Promise!svars, Asked, Replied, Flagged, Stored
  <1>3. CASE object' = "whole"
    <2>1. Stored' = TRUE
      BY <1>3 DEF Stored
    <2> QED
      BY <1>1, <2>1 DEF Promise!Store, Promise!Transcodes, Asked, Replied, Flagged, Stored
  <1> QED
    BY <1>2, <1>3

LEMMA UploadedRefines ==
    ASSUME IInv, NEW c \in Calls, Uploaded(c)
    PROVE  Promise!Store \/ UNCHANGED Promise!svars
  <1>1. /\ stage[c] = "upload" /\ stage' = [stage EXCEPT ![c] = "cleanup"]
        /\ object' \in {object, file[c]}
        /\ UNCHANGED <<rpc, source, caller, silent, code>>
    BY DEF Uploaded, UploadEnds, To
  <1>2. rpc[c] = "Normalize" /\ file[c] = "whole"
    BY <1>1 DEF IInv, Sound, Placed, Holding
  <1>3. Replied' = Replied /\ Flagged' = Flagged
    BY <1>1 DEF Replied, Flagged, IInv, TypeOK
  <1> QED
    BY <1>1, <1>2, <1>3, ArrivalRefines

LEMMA LateLandsRefines ==
    ASSUME IInv, RInv, LateLands
    PROVE  Promise!Store \/ UNCHANGED Promise!svars
  <1>1. /\ late # {} /\ object' = "whole"
        /\ UNCHANGED <<rpc, source, caller, stage, silent, code>>
    BY DEF LateLands, IInv, StoredIsWhole
  <1>2. PICK d \in Calls : rpc[d] = "Normalize"
    BY <1>1 DEF RInv, LateIsRemembered
  <1>3. Replied' = Replied /\ Flagged' = Flagged
    BY <1>1 DEF Replied, Flagged
  <1> QED
    BY <1>1, <1>2, <1>3, ArrivalRefines

LEMMA InitRefines == Init => Promise!ServiceInit
  <1> SUFFICES ASSUME Init
               PROVE  Promise!ServiceInit
    OBVIOUS
  <1>1. [c \in Calls |-> <<rpc[c], source[c]>>] = [c \in Calls |-> Promise!NoRequest]
    BY DEF Init, Promise!NoRequest
  <1>2. [c \in Calls |-> IF stage[c] = "done" THEN code[c] ELSE "none"]
           = [c \in Calls |-> "none"]
    BY DEF Init
  <1>3. [c \in Calls |-> stage[c] = "done" /\ silent[c]] = [c \in Calls |-> FALSE]
    <2>1. \A c \in Calls : (stage[c] = "done" /\ silent[c]) = FALSE
      BY DEF Init
    <2> QED
      BY <2>1, Zenon
  <1>4. caller = [c \in Calls |-> "live"] /\ (object = "whole") = FALSE
    BY DEF Init
  <1> QED
    BY <1>1, <1>2, <1>3, <1>4 DEF Promise!ServiceInit

LEMMA StepRefines ==
    ASSUME IInv, RInv, [Next]_vars
    PROVE  [Promise!ServiceNext]_(Promise!svars)
  <1>1. CASE UNCHANGED vars \/ Scavenges
    BY <1>1, UnseenStep DEF vars, mine, bucket, Scavenges
  <1>2. CASE LateLands
    BY <1>2, LateLandsRefines DEF Promise!ServiceNext
  <1>3. ASSUME NEW c \in Calls, NEW q \in Requests, Arrive(c, q[1], q[2])
        PROVE  Promise!ServiceNext
    BY <1>3, ArriveRefines, PromiseSteps
  <1>4. ASSUME NEW c \in Calls, NEW e \in CtxErrors, CallerDone(c, e)
        PROVE  Promise!ServiceNext
    BY <1>4, CallerDoneRefines, PromiseSteps
  <1>5. ASSUME NEW c \in Calls, ToolEnds(c)
        PROVE  Promise!ServiceNext \/ UNCHANGED Promise!svars
    BY <1>5, UnseenRefines, UploadedRefines DEF Promise!ServiceNext
  <1>6. ASSUME NEW c \in Calls, Proceed(c)
        PROVE  Promise!ServiceNext \/ UNCHANGED Promise!svars
    BY <1>6, UnseenRefines, FinishRefines, PromiseSteps
  <1>7. ASSUME NEW c \in Calls, TimerFires(c) \/ Acquire(c) \/ GeminiAnswers(c)
        PROVE  UNCHANGED Promise!svars
    BY <1>7, UnseenRefines
  <1>8. ASSUME NEW c \in Calls, Forget(c) PROVE Promise!ServiceNext
    BY <1>8, ForgetRefines, PromiseSteps
  <1> QED
    BY <1>1, <1>2, <1>3, <1>4, <1>5, <1>6, <1>7, <1>8 DEF Next

(* Whatever fails, hangs or is given up, a call is answered as the contract  *)
(* has it: for any calls, workers and requests (server.go, engine.go).       *)
THEOREM ServiceRefinement == Spec => KeepsPromise
  <1>1. Init => Promise!ServiceInit
    BY InitRefines
  <1>2. IInv /\ RInv /\ [Next]_vars => [Promise!ServiceNext]_(Promise!svars)
    BY StepRefines
  <1> QED
    BY <1>1, <1>2, Invariance, RepliesFit, PTL DEF Spec, KeepsPromise, Promise!ServiceSpec

=============================================================================
