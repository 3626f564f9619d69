------------------------- MODULE AudioServiceProofs -------------------------
(* Theorems about AudioService: any number of calls and workers, any set of  *)
(* requests.                                                                 *)
EXTENDS AudioService, FiniteSetTheorems, TLAPS

-----------------------------------------------------------------------------
(* The status codes.                                                         *)

(* The least of a few positions is one of them. *)
LEMMA MinOfFew ==
    ASSUME NEW S \in SUBSET (1..7), S # {}
    PROVE  Min(S) \in S
  <1>1. \E x \in S : \A y \in S : x <= y
    <2>1. PICK s \in S : s \in 1..7
      OBVIOUS
    <2>2. s = 1 \/ s = 2 \/ s = 3 \/ s = 4 \/ s = 5 \/ s = 6 \/ s = 7
      BY <2>1
    <2>3. 1 \in S \/ 2 \in S \/ 3 \in S \/ 4 \in S \/ 5 \in S \/ 6 \in S \/ 7 \in S
      BY <2>2
    <2> QED
      BY <2>3
  <1> QED
    BY <1>1 DEF Min

(* mapEngineErr: OK means no error, InvalidArgument a verdict on the content.*)
LEMMA EngineCodes ==
    ASSUME NEW e
    PROVE  /\ MapEngineErr(e) \in Codes
           /\ MapEngineErr(e) = "OK" => e = NoError
           /\ MapEngineErr(e) = "InvalidArgument" => e \cap {"ErrInvalidAudio", "ErrSilent"} # {}
  <1> DEFINE hits == {i \in DOMAIN EngineRules : EngineRules[i].faults \cap e # {}}
  <1>1. DOMAIN EngineRules = 1..4
    BY DEF EngineRules
  <1>2. /\ EngineRules[1] = Rule({"ErrInvalidAudio", "ErrSilent"}, "InvalidArgument")
        /\ EngineRules[2] = Rule({"ErrNormalize"}, "Internal")
        /\ EngineRules[3] = Rule({"DeadlineExceeded"}, "DeadlineExceeded")
        /\ EngineRules[4] = Rule({"Canceled"}, "Canceled")
    BY DEF EngineRules
  <1>3. CASE e = NoError
    BY <1>3 DEF MapEngineErr, Decide, Codes, NoError
  <1>4. CASE e # NoError /\ hits = {}
    BY <1>4 DEF MapEngineErr, Decide, Codes
  <1>5. CASE e # NoError /\ hits # {}
    <2>1. Min(hits) \in hits
      <3>1. hits \in SUBSET (1..7)
        BY <1>1
      <3> HIDE DEF hits
      <3> QED
        BY <3>1, <1>5, MinOfFew
    <2>2. MapEngineErr(e) = EngineRules[Min(hits)].code
      BY <1>5 DEF MapEngineErr, Decide
    <2>3. EngineRules[Min(hits)].faults \cap e # {} /\ Min(hits) \in 1..4
      BY <2>1, <1>1
    <2> DEFINE m == Min(hits)
    <2> HIDE DEF m
    <2>4. m \in 1..4 /\ EngineRules[m].faults \cap e # {} /\ MapEngineErr(e) = EngineRules[m].code
      BY <2>2, <2>3 DEF m
    <2>5. m = 1 \/ m = 2 \/ m = 3 \/ m = 4
      BY <2>4
    <2> QED
      BY <2>4, <2>5, <1>2 DEF Rule, Codes, CtxErrors
  <1> QED
    BY <1>3, <1>4, <1>5

(* mapTranscribeErr: nothing Gemini says is the request's fault. *)
LEMMA TranscribeCodes ==
    ASSUME NEW e
    PROVE  MapTranscribeErr(e) \in Codes \ {"InvalidArgument"}
  <1> DEFINE hits == {i \in DOMAIN TranscribeRules : TranscribeRules[i].faults \cap e # {}}
  <1>1. DOMAIN TranscribeRules = 1..7
    BY DEF TranscribeRules
  <1>2. \A i \in 1..7 : TranscribeRules[i].code \in Codes \ {"InvalidArgument"}
    BY DEF TranscribeRules, Rule, Codes, CtxErrors
  <1>3. CASE e = NoError \/ hits = {}
    BY <1>3 DEF MapTranscribeErr, Decide, Codes, NoError
  <1>4. CASE e # NoError /\ hits # {}
    <2>1. Min(hits) \in 1..7
      <3>1. hits \in SUBSET (1..7)
        BY <1>1
      <3> HIDE DEF hits
      <3> QED
        BY <3>1, <1>4, MinOfFew
    <2>2. MapTranscribeErr(e) = TranscribeRules[Min(hits)].code
      BY <1>4 DEF MapTranscribeErr, Decide
    <2> QED
      BY <1>2, <2>1, <2>2
  <1> QED
    BY <1>3, <1>4

-----------------------------------------------------------------------------
(* The inductive invariant: what each call is, from the stage it is in.      *)

SlotStages == ToolStages \cup {"temp", "upload", "cleanup", "leave"}
HoldStages == {"acquire", "cut", "leave", "settle", "returned", "gemini", "release"}
AtFault == {"invalid", "nomodel", "corrupt", "past"}

(* Which method can be in which stage. *)
Placed(c) ==
    /\ stage[c] = "idle" <=> rpc[c] = "none"
    /\ rpc[c] = "none" => source[c] = "none"
    /\ stage[c] = "ffprobe" => rpc[c] \in {"Probe", "Normalize"}
    /\ stage[c] = "silencedetect" => rpc[c] = "Probe"
    /\ stage[c] \in {"temp", "transcode", "upload", "cleanup"} => rpc[c] = "Normalize"
    /\ stage[c] \in {"cut", "gemini", "release"} => rpc[c] = "TranscribeSegment"

(* What the call has of the pool: the order of the defers. *)
Pooled(c) ==
    /\ c \in using <=> stage[c] \in SlotStages
    /\ <<c, "slot">> \in busy <=> stage[c] \in SlotStages \cup {"settle"}
    /\ <<c, "hold">> \in busy <=> rpc[c] = "TranscribeSegment" /\ stage[c] \in HoldStages
    /\ c \in due => stage[c] \in {"returned", "finish"}
    /\ opctx[c] # "none" <=> stage[c] \in SlotStages

(* What the call has on disk and in memory. *)
Holding(c) ==
    /\ file[c] # "none" => stage[c] \in {"transcode", "upload", "cleanup"}
    /\ stage[c] = "upload" => file[c] = "whole"
    /\ segment[c] => /\ rpc[c] = "TranscribeSegment"
                     /\ stage[c] \in {"leave", "settle", "returned", "gemini", "release"}

(* A Normalize that is about to be answered OK has stored its derivative. *)
Kept(c) ==
    rpc[c] = "Normalize" =>
        /\ (err[c] = NoError /\ stage[c] \in {"cleanup", "leave", "settle", "returned"})
               => object = "whole"
        /\ (code[c] = "OK" /\ stage[c] \in {"finish", "done"}) => object = "whole"

(* Nothing terminal is said of an input without cause; an error is on its    *)
(* way out of the engine, and gone once it is mapped.                        *)
Blamed(c) ==
    /\ err[c] # NoError => stage[c] \in {"cleanup", "leave", "settle", "returned"}
    /\ err[c] \cap {"ErrInvalidAudio", "ErrSilent"} # {} => source[c] \in AtFault
    /\ code[c] = "InvalidArgument" => source[c] \in AtFault

Sound(c) == Placed(c) /\ Pooled(c) /\ Holding(c) /\ Kept(c) /\ Blamed(c)

Room == IsFiniteSet(using) /\ Cardinality(using) <= Workers

IInv ==
    /\ TypeOK
    /\ Room
    /\ StoredIsWhole
    /\ OKIsStored
    /\ \A c \in Calls : Sound(c)

(* The step leaves this call alone. *)
Same(d) ==
    /\ rpc'[d] = rpc[d] /\ source'[d] = source[d] /\ stage'[d] = stage[d]
    /\ caller'[d] = caller[d] /\ opctx'[d] = opctx[d] /\ err'[d] = err[d]
    /\ silent'[d] = silent[d] /\ file'[d] = file[d]
    /\ segment'[d] = segment[d] /\ code'[d] = code[d]
    /\ d \in using' <=> d \in using
    /\ <<d, "slot">> \in busy' <=> <<d, "slot">> \in busy
    /\ <<d, "hold">> \in busy' <=> <<d, "hold">> \in busy
    /\ d \in due' <=> d \in due

(* A call that a step leaves alone stays sound while what is stored stays, or *)
(* is not the call's business.                                               *)
LEMMA Frame ==
    ASSUME NEW d \in Calls, Sound(d), Same(d),
           rpc[d] = "Normalize" /\ object = "whole" => object' = "whole"
    PROVE  Sound(d)'
  <1>1. Placed(d)' /\ Blamed(d)'
    BY DEF Sound, Placed, Blamed, Same
  <1>2. Pooled(d)'
    BY DEF Sound, Pooled, Same
  <1>3. Holding(d)' /\ Kept(d)'
    BY DEF Sound, Holding, Kept, Same
  <1> QED
    BY <1>1, <1>2, <1>3 DEF Sound

(* A step of one call. *)
LEMMA OneCall ==
    ASSUME IInv, NEW c \in Calls, TypeOK', Room', StoredIsWhole', OKIsStored', Sound(c)',
           \A d \in Calls \ {c} : Same(d),
           \A d \in Calls \ {c} :
              rpc[d] = "Normalize" /\ object = "whole" => object' = "whole"
    PROVE  IInv'
  <1>1. ASSUME NEW d \in Calls \ {c} PROVE Sound(d)'
    BY Frame DEF IInv
  <1> QED
    BY <1>1 DEF IInv

(* A step of one call that touches neither the pool nor the destination. *)
LEMMA OneCallAlone ==
    ASSUME IInv, NEW c \in Calls, UNCHANGED <<cvars, bucket>>, TypeOK', Sound(c)',
           \A d \in Calls \ {c} : Same(d)
    PROVE  IInv'
  <1>1. Room' /\ StoredIsWhole' /\ OKIsStored'
    BY DEF IInv, Room, StoredIsWhole, OKIsStored, cvars, bucket
  <1>2. object' = object
    BY DEF bucket
  <1> QED
    BY <1>1, <1>2, OneCall

-----------------------------------------------------------------------------
(* The contexts.                                                             *)

LEMMA ContextKeeps ==
    ASSUME IInv, NEW c \in Calls,
           TimerFires(c) \/ \E e \in CtxErrors : CallerDone(c, e)
    PROVE  IInv'
  <1>1. CASE TimerFires(c)
    <2>1. TypeOK'
      BY <1>1 DEF TimerFires, TimerSet, IInv, TypeOK, CtxErrors, cvars, bucket
    <2>2. \A d \in Calls \ {c} : Same(d)
      BY <1>1 DEF TimerFires, IInv, TypeOK, Same, cvars
    <2>3. Sound(c)'
      BY <1>1 DEF TimerFires, TimerSet, IInv, TypeOK, cvars, bucket,
                  Sound, Placed, Pooled, Holding, Kept, Blamed
    <2> QED
      BY <1>1, <2>1, <2>2, <2>3, OneCallAlone DEF TimerFires
  <1>2. ASSUME NEW e \in CtxErrors, CallerDone(c, e) PROVE IInv'
    <2>1. TypeOK'
      BY <1>2 DEF CallerDone, IInv, TypeOK, CtxErrors, cvars, bucket
    <2>2. \A d \in Calls \ {c} : Same(d)
      BY <1>2 DEF CallerDone, IInv, TypeOK, Same, cvars
    <2>3. Sound(c)'
      BY <1>2 DEF CallerDone, IInv, TypeOK, CtxErrors, cvars, bucket,
                  Sound, Placed, Pooled, Holding, Kept, Blamed
    <2> QED
      BY <1>2, <2>1, <2>2, <2>3, OneCallAlone DEF CallerDone
  <1> QED
    BY <1>1, <1>2

-----------------------------------------------------------------------------
(* The steps of a call on its own.                                           *)

(* The errors of the engine. *)
LEMMA ErrorTypes ==
    /\ {NoError, Normalizing, Error({}), Error({"ErrInvalidAudio"})} \subseteq SUBSET Faults
    /\ \A e \in CtxErrors : Error({e}) \in SUBSET Faults
    /\ \A m : ClassifyProbeErr(m) \in SUBSET Faults
  BY DEF NoError, Normalizing, Error, Faults, ClassifyProbeErr

(* Content is blamed for a failed run only where it is no audio. *)
LEMMA RunErrorsTell ==
    ASSUME IInv, NEW c \in Calls, opctx[c] # "none", NEW e \in RunErrors(c)
    PROVE  /\ e \in SUBSET Faults
           /\ e \cap {"ErrInvalidAudio", "ErrSilent"} # {} => source[c] = "corrupt"
  <1>1. CASE opctx[c] # "live"
    <2>1. opctx[c] \in CtxErrors /\ e = Error({opctx[c]})
      BY <1>1 DEF RunErrors, IInv, TypeOK
    <2> QED
      BY <2>1, ErrorTypes DEF Error, CtxErrors
  <1>2. CASE opctx[c] = "live"
    <2>1. \/ e \in {ClassifyProbeErr(m) : m \in FaultMarkers}
          \/ source[c] = "corrupt" /\ e = ClassifyProbeErr({"invalid"})
      BY <1>2 DEF RunErrors
    <2>2. ASSUME NEW m \in FaultMarkers
          PROVE  ClassifyProbeErr(m) \cap {"ErrInvalidAudio", "ErrSilent"} = {}
      BY DEF FaultMarkers, ClassifyProbeErr, Error
    <2> QED
      BY <2>1, <2>2, ErrorTypes
  <1> QED
    BY <1>1, <1>2

(* EngineReturns: the engine's error becomes the code.                       *)
LEMMA EngineReturnsKeeps ==
    ASSUME IInv, NEW c \in Calls, EngineReturns(c)
    PROVE  IInv'
  <1>1. TypeOK'
    BY EngineCodes DEF EngineReturns, AfterEngine, IInv, TypeOK, To, Fails, cvars,
           bucket, Stages, Waits, ToolStages, NoError, Faults
  <1>2. \A d \in Calls \ {c} : Same(d)
    BY DEF EngineReturns, AfterEngine, IInv, TypeOK, Same, To, Fails, cvars
  <1>3. Sound(c)'
    BY EngineCodes DEF EngineReturns, AfterEngine, IInv, TypeOK, To, Fails, cvars,
           bucket, ToolStages, SlotStages, HoldStages, NoError, AtFault, Sound, Placed,
           Pooled, Holding, Kept, Blamed
  <1>4. UNCHANGED <<cvars, bucket>>
    BY DEF EngineReturns, AfterEngine, cvars, bucket
  <1> QED
    BY <1>1, <1>2, <1>3, <1>4, OneCallAlone

(* GeminiEnds: Gemini's outcome becomes the code.                            *)
LEMMA GeminiEndsKeeps ==
    ASSUME IInv, NEW c \in Calls, NEW e, GeminiEnds(c, e)
    PROVE  IInv'
  <1>1. TypeOK'
    BY TranscribeCodes DEF GeminiEnds, IInv, TypeOK, To, Fails, cvars, bucket, Stages,
           Waits, ToolStages
  <1>2. \A d \in Calls \ {c} : Same(d)
    BY DEF GeminiEnds, IInv, TypeOK, Same, To, Fails, cvars
  <1>3. Sound(c)'
    BY TranscribeCodes DEF GeminiEnds, IInv, TypeOK, To, Fails, cvars, bucket,
           ToolStages, SlotStages, HoldStages, Sound, Placed, Pooled, Holding, Kept,
           Blamed
  <1>4. UNCHANGED <<cvars, bucket>>
    BY DEF GeminiEnds, cvars, bucket
  <1> QED
    BY <1>1, <1>2, <1>3, <1>4, OneCallAlone

(* AcquireFails: a waiter gives up.                                          *)
LEMMA AcquireFailsKeeps ==
    ASSUME IInv, NEW c \in Calls, AcquireFails(c)
    PROVE  IInv'
  <1>1. TypeOK'
    BY DEF AcquireFails, WaitError, IInv, TypeOK, To, Fails, cvars, bucket, Stages,
           Waits, ToolStages, Error, CtxErrors, Faults
  <1>2. \A d \in Calls \ {c} : Same(d)
    BY DEF AcquireFails, WaitError, IInv, TypeOK, Same, To, Fails, cvars
  <1>3. Sound(c)'
    BY DEF AcquireFails, WaitError, IInv, TypeOK, To, Fails, cvars, bucket, ToolStages,
           SlotStages, HoldStages, Error, NoError, CtxErrors, Sound, Placed, Pooled, Holding, Kept,
           Blamed
  <1>4. UNCHANGED <<cvars, bucket>>
    BY DEF AcquireFails, cvars, bucket
  <1> QED
    BY <1>1, <1>2, <1>3, <1>4, OneCallAlone

(* DurationRead: Normalize goes on after its duration probe.                 *)
LEMMA DurationReadKeeps ==
    ASSUME IInv, NEW c \in Calls, DurationRead(c)
    PROVE  IInv'
  <1>1. TypeOK'
    BY DEF DurationRead, IInv, TypeOK, To, Fails, cvars, bucket, Stages, Waits,
           ToolStages
  <1>2. \A d \in Calls \ {c} : Same(d)
    BY DEF DurationRead, IInv, TypeOK, Same, To, Fails, cvars
  <1>3. Sound(c)'
    BY DEF DurationRead, IInv, TypeOK, To, Fails, cvars, bucket, ToolStages, SlotStages,
           HoldStages, Sound, Placed, Pooled, Holding, Kept, Blamed
  <1>4. UNCHANGED <<cvars, bucket>>
    BY DEF DurationRead, cvars, bucket
  <1> QED
    BY <1>1, <1>2, <1>3, <1>4, OneCallAlone

(* CreateTemp: the temp file exists, or Normalize ends.                      *)
LEMMA CreateTempKeeps ==
    ASSUME IInv, NEW c \in Calls, CreateTemp(c)
    PROVE  IInv'
  <1>1. TypeOK'
    BY DEF CreateTemp, IInv, TypeOK, To, Fails, cvars, bucket, Stages, Waits,
           ToolStages, Normalizing, Error, Faults
  <1>2. \A d \in Calls \ {c} : Same(d)
    BY DEF CreateTemp, IInv, TypeOK, Same, To, Fails, cvars
  <1>3. Sound(c)'
    <2> USE DEF IInv, TypeOK, To, Fails, cvars, bucket, ToolStages, SlotStages, HoldStages
    <2>1. Placed(c)' /\ Pooled(c)'
      BY DEF CreateTemp, Sound, Placed, Pooled
    <2>2. Holding(c)'
      BY DEF CreateTemp, Sound, Placed, Holding
    <2>3. Kept(c)'
      BY DEF CreateTemp, Sound, Placed, Kept, Normalizing, Error, NoError
    <2>4. Blamed(c)'
      <3>1. err[c] = NoError
        BY DEF CreateTemp, Sound, Blamed
      <3> QED
        BY <3>1 DEF CreateTemp, Sound, Blamed, Normalizing, Error, NoError
    <2> QED
      BY <2>1, <2>2, <2>3, <2>4 DEF Sound
  <1>4. UNCHANGED <<cvars, bucket>>
    BY DEF CreateTemp, cvars, bucket
  <1> QED
    BY <1>1, <1>2, <1>3, <1>4, OneCallAlone

(* Transcoded: only a file with something in it goes on to the PUT.          *)
LEMMA TranscodedKeeps ==
    ASSUME IInv, NEW c \in Calls, Transcoded(c)
    PROVE  IInv'
  <1>1. PICK f \in {"whole", "blank"} :
            /\ file' = [file EXCEPT ![c] = f]
            /\ \/ f # "blank" /\ To(c, "upload") /\ UNCHANGED err
               \/ Fails(c, Normalizing) /\ To(c, "cleanup")
    BY DEF Transcoded, SizeChecked
  <1>2. /\ stage[c] = "transcode"
        /\ UNCHANGED <<cvars, rpc, source, caller, opctx, silent, bucket, segment, code>>
    BY DEF Transcoded
  <1>3. TypeOK'
    <2>1. err' \in [Calls -> SUBSET Faults]
      BY <1>1, ErrorTypes DEF IInv, TypeOK, Fails
    <2>2. stage' \in [Calls -> Stages]
      BY <1>1 DEF IInv, TypeOK, To, Stages, Waits, ToolStages
    <2>3. file' \in [Calls -> {"none", "blank", "part", "whole"}]
      BY <1>1 DEF IInv, TypeOK
    <2> QED
      BY <1>2, <2>1, <2>2, <2>3 DEF IInv, TypeOK, cvars, bucket
  <1>4. \A d \in Calls \ {c} : Same(d)
    BY <1>1, <1>2 DEF IInv, TypeOK, Same, To, Fails, cvars
  <1>5. Sound(c)'
    <2> USE <1>2 DEF IInv, TypeOK, To, Fails, cvars, bucket, ToolStages, SlotStages, HoldStages
    <2>1. CASE f # "blank" /\ To(c, "upload") /\ UNCHANGED err
      BY <1>1, <2>1 DEF Sound, Placed, Pooled, Holding, Kept, Blamed
    <2>2. CASE Fails(c, Normalizing) /\ To(c, "cleanup")
      BY <1>1, <2>2 DEF Sound, Placed, Pooled, Holding, Kept, Blamed,
                        Normalizing, Error, NoError
    <2> QED
      BY <1>1, <2>1, <2>2
  <1> QED
    BY <1>2, <1>3, <1>4, <1>5, OneCallAlone

(* TranscodeFails: part of a file, and an error.                             *)
LEMMA TranscodeFailsKeeps ==
    ASSUME IInv, NEW c \in Calls, TranscodeFails(c)
    PROVE  IInv'
  <1>1. TypeOK'
    BY DEF TranscodeFails, IInv, TypeOK, To, Fails, cvars, bucket, Stages, Waits,
           ToolStages, Normalizing, Error, Faults
  <1>2. \A d \in Calls \ {c} : Same(d)
    BY DEF TranscodeFails, IInv, TypeOK, Same, To, Fails, cvars
  <1>3. Sound(c)'
    BY DEF TranscodeFails, IInv, TypeOK, To, Fails, cvars, bucket, ToolStages,
           SlotStages, HoldStages, Normalizing, Error, NoError, Sound, Placed, Pooled,
           Holding, Kept, Blamed
  <1>4. UNCHANGED <<cvars, bucket>>
    BY DEF TranscodeFails, cvars, bucket
  <1> QED
    BY <1>1, <1>2, <1>3, <1>4, OneCallAlone

(* Cleanup: the temp file is gone before the slot is.                        *)
LEMMA CleanupKeeps ==
    ASSUME IInv, NEW c \in Calls, Cleanup(c)
    PROVE  IInv'
  <1>1. TypeOK'
    BY DEF Cleanup, CleanedUp, IInv, TypeOK, To, Fails, cvars, bucket, Stages, Waits,
           ToolStages
  <1>2. \A d \in Calls \ {c} : Same(d)
    BY DEF Cleanup, CleanedUp, IInv, TypeOK, Same, To, Fails, cvars
  <1>3. Sound(c)'
    BY DEF Cleanup, CleanedUp, IInv, TypeOK, To, Fails, cvars, bucket, ToolStages,
           SlotStages, HoldStages, Sound, Placed, Pooled, Holding, Kept, Blamed
  <1>4. UNCHANGED <<cvars, bucket>>
    BY DEF Cleanup, CleanedUp, cvars, bucket
  <1> QED
    BY <1>1, <1>2, <1>3, <1>4, OneCallAlone

(* SilenceDetected: the pass gives its verdict.                              *)
LEMMA SilenceDetectedKeeps ==
    ASSUME IInv, NEW c \in Calls, SilenceDetected(c)
    PROVE  IInv'
  <1>1. TypeOK'
    <2>1. MayPassForSilent(c) \in BOOLEAN
      BY DEF MayPassForSilent
    <2>2. PICK throughout \in BOOLEAN : silent' = [silent EXCEPT ![c] = throughout]
      BY <2>1 DEF SilenceDetected
    <2>3. silent' \in [Calls -> BOOLEAN]
      BY <2>2 DEF IInv, TypeOK
    <2> QED
      BY <2>3 DEF SilenceDetected, IInv, TypeOK, To, cvars, bucket, Stages, Waits, ToolStages
  <1>2. \A d \in Calls \ {c} : Same(d)
    BY DEF SilenceDetected, IInv, TypeOK, Same, To, Fails, cvars
  <1>3. Sound(c)'
    BY DEF SilenceDetected, IInv, TypeOK, To, Fails, cvars, bucket, ToolStages,
           SlotStages, HoldStages, Sound, Placed, Pooled, Holding, Kept, Blamed
  <1>4. UNCHANGED <<cvars, bucket>>
    BY DEF SilenceDetected, cvars, bucket
  <1> QED
    BY <1>1, <1>2, <1>3, <1>4, OneCallAlone

(* SilenceFails: without the pass there is no verdict.                       *)
LEMMA SilenceFailsKeeps ==
    ASSUME IInv, NEW c \in Calls, SilenceFails(c)
    PROVE  IInv'
  <1>1. TypeOK'
    BY DEF SilenceFails, IInv, TypeOK, To, Fails, cvars, bucket,
           Stages, Waits, ToolStages
  <1>2. \A d \in Calls \ {c} : Same(d)
    BY DEF SilenceFails, IInv, TypeOK, Same, To, Fails, cvars
  <1>3. Sound(c)'
    BY DEF SilenceFails, IInv, TypeOK, To, Fails, cvars, bucket,
           ToolStages, SlotStages, HoldStages, Sound, Placed, Pooled, Holding, Kept,
           Blamed
  <1>4. UNCHANGED <<cvars, bucket>>
    BY DEF SilenceFails, cvars, bucket
  <1> QED
    BY <1>1, <1>2, <1>3, <1>4, OneCallAlone

(* ProbeReads: the metadata is there.                                        *)
LEMMA ProbeReadsKeeps ==
    ASSUME IInv, NEW c \in Calls, ProbeReads(c)
    PROVE  IInv'
  <1>1. TypeOK'
    BY DEF ProbeReads, Runs, NoDuration, IInv, TypeOK, To, Fails, cvars, bucket, Stages,
           Waits, ToolStages
  <1>2. \A d \in Calls \ {c} : Same(d)
    BY DEF ProbeReads, Runs, NoDuration, IInv, TypeOK, Same, To, Fails, cvars
  <1>3. Sound(c)'
    BY DEF ProbeReads, Runs, NoDuration, IInv, TypeOK, To, Fails, cvars, bucket,
           ToolStages, SlotStages, HoldStages, Sound, Placed, Pooled, Holding, Kept,
           Blamed
  <1>4. UNCHANGED <<cvars, bucket>>
    BY DEF ProbeReads, Runs, NoDuration, cvars, bucket
  <1> QED
    BY <1>1, <1>2, <1>3, <1>4, OneCallAlone

(* Cut: the segment, or an error.                                            *)
LEMMA CutKeeps ==
    ASSUME IInv, NEW c \in Calls, Cut(c)
    PROVE  IInv'
  <1>1. TypeOK'
    <2>1. err' \in [Calls -> SUBSET Faults]
      BY ErrorTypes DEF Cut, Runs, IInv, TypeOK, Fails
    <2>2. stage' \in [Calls -> Stages]
      BY DEF Cut, Runs, IInv, TypeOK, To, Stages, Waits, ToolStages
    <2> QED
      BY <2>1, <2>2 DEF Cut, Runs, IInv, TypeOK, cvars, bucket
  <1>2. \A d \in Calls \ {c} : Same(d)
    BY DEF Cut, Runs, IInv, TypeOK, Same, To, Fails, cvars
  <1>3. Sound(c)'
    BY DEF Cut, Runs, IInv, TypeOK, To, Fails, cvars, bucket, ToolStages, SlotStages,
           HoldStages, Error, NoError, AtFault, Sound, Placed, Pooled, Holding, Kept,
           Blamed
  <1>4. UNCHANGED <<cvars, bucket>>
    BY DEF Cut, Runs, cvars, bucket
  <1> QED
    BY <1>1, <1>2, <1>3, <1>4, OneCallAlone

(* ProbeFails: the error of a failed run, a plain one, or the verdict that   *)
(* there is no audio in it.                                                  *)
LEMMA ProbeFailsKeeps ==
    ASSUME IInv, NEW c \in Calls, NEW e \in SUBSET Faults, ProbeFails(c, e),
           e \cap {"ErrInvalidAudio", "ErrSilent"} # {} => source[c] \in AtFault
    PROVE  IInv'
  <1>1. TypeOK'
    BY DEF ProbeFails, IInv, TypeOK, To, Fails, cvars, bucket, Stages, Waits, ToolStages
  <1>2. \A d \in Calls \ {c} : Same(d)
    BY DEF ProbeFails, IInv, TypeOK, Same, To, Fails, cvars
  <1>3. Sound(c)'
    BY DEF ProbeFails, IInv, TypeOK, To, Fails, cvars, bucket, ToolStages, SlotStages,
           HoldStages, Sound, Placed, Pooled, Holding, Kept, Blamed
  <1>4. UNCHANGED <<cvars, bucket>>
    BY DEF ProbeFails, cvars, bucket
  <1> QED
    BY <1>1, <1>2, <1>3, <1>4, OneCallAlone

(* CutFails: likewise. *)
LEMMA CutFailsKeeps ==
    ASSUME IInv, NEW c \in Calls, CutFails(c)
    PROVE  IInv'
  <1>1. opctx[c] # "none"
    BY DEF CutFails, IInv, Sound, Pooled, SlotStages, ToolStages
  <1>2. PICK e \in RunErrors(c) : Fails(c, e)
    BY DEF CutFails
  <1>3. /\ e \in SUBSET Faults
        /\ e \cap {"ErrInvalidAudio", "ErrSilent"} # {} => source[c] \in AtFault
    BY <1>1, <1>2, RunErrorsTell DEF AtFault
  <1>4. TypeOK'
    BY <1>2, <1>3 DEF CutFails, IInv, TypeOK, To, Fails, cvars, bucket,
                      Stages, Waits, ToolStages
  <1>5. \A d \in Calls \ {c} : Same(d)
    BY <1>2 DEF CutFails, IInv, TypeOK, Same, To, Fails, cvars
  <1>6. Sound(c)'
    BY <1>2, <1>3 DEF CutFails, IInv, TypeOK, To, Fails, cvars, bucket, ToolStages,
                      SlotStages, HoldStages, Sound, Placed, Pooled, Holding, Kept, Blamed
  <1>7. UNCHANGED <<cvars, bucket>>
    BY DEF CutFails, cvars, bucket
  <1> QED
    BY <1>4, <1>5, <1>6, <1>7, OneCallAlone

-----------------------------------------------------------------------------
(* The steps into, in and out of the pool.                                   *)

(* A step that leaves the destination alone leaves its invariants alone. *)
LEMMA BucketStays ==
    ASSUME IInv, UNCHANGED bucket
    PROVE  StoredIsWhole' /\ OKIsStored' /\ object' = object
  BY DEF IInv, StoredIsWhole, OKIsStored, bucket

(* Arrive: a refusal, or a call that waits for a slot, held if it is a       *)
(* TranscribeSegment.                                                        *)
LEMMA ArriveKeeps ==
    ASSUME IInv, NEW c \in Calls, NEW q \in Requests, Arrive(c, q[1], q[2])
    PROVE  IInv'
  <1> DEFINE r == q[1]
             s == q[2]
  <1>1. /\ r \in Methods /\ s \in Sources /\ <<r, s>> \in Requests
        /\ Refusal(s) \in {"none", "InvalidArgument", "Unavailable"}
        /\ Refusal(s) = "InvalidArgument" => s \in AtFault
    BY RequestsAssumption DEF AllRequests, Methods, Sources, Refusal, AtFault
  <1> HIDE DEF r, s
  <1>2. Arrive(c, r, s)
    BY DEF r, s
  <1>3. /\ busy' = busy \/ (r = "TranscribeSegment" /\ busy' = busy \cup {<<c, "hold">>})
        /\ UNCHANGED <<using, due, reclaim>>
    BY <1>2 DEF Arrive, Hold, cvars
  <1>4. TypeOK'
    BY <1>1, <1>2, <1>3 DEF Arrive, IInv, TypeOK, To, bucket, Stages, Waits, ToolStages,
                            Codes
  <1>5. \A d \in Calls \ {c} : Same(d)
    BY <1>2, <1>3 DEF Arrive, IInv, TypeOK, Same, To
  <1>6. Sound(c)'
    <2> USE <1>1, <1>2 DEF IInv, TypeOK, To, cvars, bucket, ToolStages, SlotStages,
                           HoldStages, Arrive
    <2>1. Placed(c)' /\ Holding(c)'
      BY DEF Methods, Sound, Placed, Holding
    <2>2. Pooled(c)'
      BY DEF Hold, Sound, Pooled
    <2>3. Kept(c)' /\ Blamed(c)'
      <3>1. err'[c] = {} /\ source'[c] = s /\ code'[c] = Refusal(s)
        BY DEF Sound, Placed, Blamed, NoError
      <3> QED
        BY <3>1 DEF Kept, Blamed, NoError
    <2> QED
      BY <2>1, <2>2, <2>3 DEF Sound
  <1>7. Room' /\ UNCHANGED bucket
    BY <1>2, <1>3 DEF Arrive, IInv, Room, bucket
  <1> QED
    BY <1>4, <1>5, <1>6, <1>7, BucketStays, OneCall

(* Acquire: a free slot, and the operation's timeout. *)
LEMMA AcquireKeeps ==
    ASSUME IInv, NEW c \in Calls, Acquire(c)
    PROVE  IInv'
  <1>1. TypeOK'
    BY DEF Acquire, Enter, FirstStage, IInv, TypeOK, To, bucket, Stages, Waits,
           ToolStages, CtxErrors
  <1>2. \A d \in Calls \ {c} : Same(d)
    BY DEF Acquire, Enter, IInv, TypeOK, Same, To
  <1>3. Sound(c)'
    BY DEF Acquire, Enter, FirstStage, IInv, TypeOK, Methods, CtxErrors, To, bucket,
           ToolStages, SlotStages, HoldStages, Sound, Placed, Pooled, Holding, Kept, Blamed
  <1>4. Room'
    <2>1. /\ IsFiniteSet(using) /\ Cardinality(using) < Workers /\ c \notin using
          /\ using' = using \cup {c}
      BY DEF Acquire, Enter, IInv, Room
    <2>2. IsFiniteSet(using') /\ Cardinality(using') = Cardinality(using) + 1
      BY <2>1, FS_AddElement
    <2>3. Cardinality(using) \in Nat
      BY <2>1, FS_CardinalityType
    <2> QED
      BY <2>1, <2>2, <2>3, WorkersAssumption DEF Room
  <1>5. UNCHANGED bucket
    BY DEF Acquire, bucket
  <1> QED
    BY <1>1, <1>2, <1>3, <1>4, <1>5, BucketStays, OneCall

(* LeaveSlot: the slot goes back, nothing of the call's being left in it. *)
LEMMA LeaveSlotKeeps ==
    ASSUME IInv, NEW c \in Calls, LeaveSlot(c)
    PROVE  IInv'
  <1>1. TypeOK'
    BY DEF LeaveSlot, Leave, IInv, TypeOK, To, bucket, Stages, Waits, ToolStages
  <1>2. \A d \in Calls \ {c} : Same(d)
    BY DEF LeaveSlot, Leave, IInv, TypeOK, Same, To
  <1>3. Sound(c)'
    BY DEF LeaveSlot, Leave, IInv, TypeOK, To, bucket, ToolStages, SlotStages,
           HoldStages, Sound, Placed, Pooled, Holding, Kept, Blamed
  <1>4. Room'
    <2>1. IsFiniteSet(using) /\ Cardinality(using) <= Workers /\ using' \subseteq using
      BY DEF LeaveSlot, Leave, IInv, Room
    <2>2. /\ IsFiniteSet(using') /\ Cardinality(using') <= Cardinality(using)
          /\ Cardinality(using) \in Nat /\ Cardinality(using') \in Nat
      BY <2>1, FS_Subset, FS_CardinalityType
    <2> QED
      BY <2>1, <2>2, WorkersAssumption DEF Room
  <1>5. UNCHANGED bucket
    BY DEF LeaveSlot, bucket
  <1> QED
    BY <1>1, <1>2, <1>3, <1>4, <1>5, BucketStays, OneCall

(* SettleSlot: the operation is no longer in flight. *)
LEMMA SettleSlotKeeps ==
    ASSUME IInv, NEW c \in Calls, SettleSlot(c)
    PROVE  IInv'
  <1>1. TypeOK'
    BY DEF SettleSlot, Settle, IInv, TypeOK, To, bucket, Stages, Waits, ToolStages
  <1>2. \A d \in Calls \ {c} : Same(d)
    BY DEF SettleSlot, Settle, IInv, TypeOK, Same, To
  <1>3. Sound(c)'
    BY DEF SettleSlot, Settle, IInv, TypeOK, To, bucket, ToolStages, SlotStages,
           HoldStages, Sound, Placed, Pooled, Holding, Kept, Blamed
  <1>4. Room' /\ UNCHANGED bucket
    BY DEF SettleSlot, Settle, IInv, Room, bucket
  <1> QED
    BY <1>1, <1>2, <1>3, <1>4, BucketStays, OneCall

(* Release: the segment first, then the hold. *)
LEMMA ReleaseKeeps ==
    ASSUME IInv, NEW c \in Calls, Release(c)
    PROVE  IInv'
  <1>1. TypeOK'
    BY DEF Release, Settle, IInv, TypeOK, To, bucket, Stages, Waits, ToolStages
  <1>2. \A d \in Calls \ {c} : Same(d)
    BY DEF Release, Settle, IInv, TypeOK, Same, To
  <1>3. Sound(c)'
    BY DEF Release, Settle, IInv, TypeOK, To, bucket, ToolStages, SlotStages,
           HoldStages, Sound, Placed, Pooled, Holding, Kept, Blamed
  <1>4. Room' /\ UNCHANGED bucket
    BY DEF Release, Settle, IInv, Room, bucket
  <1> QED
    BY <1>1, <1>2, <1>3, <1>4, BucketStays, OneCall

(* AskScavenge: the call has nothing more to ask. *)
LEMMA AskScavengeKeeps ==
    ASSUME IInv, NEW c \in Calls, AskScavenge(c)
    PROVE  IInv'
  <1>1. TypeOK'
    BY DEF AskScavenge, Ask, IInv, TypeOK, mine, bucket
  <1>2. \A d \in Calls \ {c} : Same(d)
    BY DEF AskScavenge, Ask, IInv, TypeOK, Same, mine
  <1>3. Sound(c)'
    BY DEF AskScavenge, Ask, IInv, TypeOK, mine, bucket,
           Sound, Placed, Pooled, Holding, Kept, Blamed
  <1>4. Room' /\ UNCHANGED bucket
    BY DEF AskScavenge, Ask, mine, IInv, Room, bucket
  <1> QED
    BY <1>1, <1>2, <1>3, <1>4, BucketStays, OneCall

(* Scavenges: the goroutine of the engine concerns no call. *)
LEMMA ScavengesKeeps ==
    ASSUME IInv, Scavenges
    PROVE  IInv'
  <1>1. UNCHANGED <<using, busy, due, mine>> /\ reclaim' \in {"no", "ending"}
    BY DEF Scavenges, Reclaimed, Ended
  <1>2. TypeOK'
    BY <1>1 DEF IInv, TypeOK, mine, bucket
  <1>3. ASSUME NEW d \in Calls PROVE Sound(d)'
    <2>1. Same(d) /\ object' = object
      BY <1>1 DEF Same, mine, bucket
    <2> QED
      BY <2>1, Frame DEF IInv
  <1>4. Room' /\ UNCHANGED bucket
    BY <1>1 DEF mine, IInv, Room, bucket
  <1> QED
    BY <1>2, <1>3, <1>4, BucketStays DEF IInv

-----------------------------------------------------------------------------
(* The steps that touch the destination.                                     *)

(* UploadEnds: what was stored is whole, and OK says so. *)
LEMMA UploadEndsKeeps ==
    ASSUME IInv, NEW c \in Calls, NEW ok \in BOOLEAN, NEW outcome,
           UploadEnds(c, ok, outcome), ok => outcome = "stored"
    PROVE  IInv'
  <1>1. file[c] = "whole" /\ rpc[c] = "Normalize"
    BY DEF UploadEnds, IInv, Sound, Holding, Placed
  <1>2. /\ object' = "whole" \/ object' = object
        /\ ok => object' = "whole"
        /\ late' \subseteq {"whole"}
    BY <1>1 DEF UploadEnds, IInv, StoredIsWhole
  <1>3. UploadErr(ok) \in SUBSET Faults /\ (UploadErr(ok) = NoError => ok)
        /\ UploadErr(ok) \cap {"ErrInvalidAudio", "ErrSilent"} = {}
    BY DEF UploadErr, Normalizing, Error, NoError, Faults
  <1>4. TypeOK'
    BY <1>2, <1>3 DEF UploadEnds, IInv, TypeOK, To, Fails, cvars, Stages, Waits, ToolStages
  <1>5. \A d \in Calls \ {c} : Same(d)
    BY DEF UploadEnds, IInv, TypeOK, Same, To, Fails, cvars
  <1>6. Sound(c)'
    <2> USE DEF UploadEnds, IInv, TypeOK, To, Fails, cvars, ToolStages, SlotStages,
                HoldStages
    <2>1. Placed(c)' /\ Holding(c)'
      BY <1>1 DEF Sound, Placed, Holding
    <2>2. Pooled(c)'
      BY <1>1 DEF Sound, Pooled
    <2>3. Kept(c)'
      <3>1. err'[c] = UploadErr(ok) /\ stage'[c] = "cleanup"
        OBVIOUS
      <3> QED
        BY <1>2, <1>3, <3>1 DEF Kept
    <2>4. Blamed(c)'
      <3>1. err'[c] = UploadErr(ok) /\ stage'[c] = "cleanup"
        OBVIOUS
      <3> QED
        BY <1>3, <3>1 DEF Sound, Blamed
    <2> QED
      BY <2>1, <2>2, <2>3, <2>4 DEF Sound
  <1>7. Room' /\ StoredIsWhole' /\ OKIsStored'
    BY <1>2 DEF UploadEnds, IInv, Room, StoredIsWhole, OKIsStored, cvars
  <1> QED
    BY <1>2, <1>4, <1>5, <1>6, <1>7, OneCall

(* LateLands: what lands late is whole, too. *)
LEMMA LateLandsKeeps ==
    ASSUME IInv, LateLands
    PROVE  IInv'
  <1>1. object' = "whole" /\ late' \subseteq late
    BY DEF LateLands, IInv, StoredIsWhole
  <1>2. TypeOK' /\ Room' /\ StoredIsWhole' /\ OKIsStored'
    BY <1>1 DEF LateLands, IInv, TypeOK, Room, StoredIsWhole, OKIsStored, cvars
  <1>3. ASSUME NEW d \in Calls PROVE Sound(d)'
    <2>1. Same(d)
      BY DEF LateLands, Same, cvars
    <2> QED
      BY <1>1, <2>1, Frame DEF IInv
  <1> QED
    BY <1>2, <1>3 DEF IInv

(* Finish: an OK of a Normalize is a promise. *)
LEMMA FinishKeeps ==
    ASSUME IInv, NEW c \in Calls, Finish(c)
    PROVE  IInv'
  <1>1. TypeOK'
    BY DEF Finish, IInv, TypeOK, To, cvars, Stages, Waits, ToolStages
  <1>2. \A d \in Calls \ {c} : Same(d)
    BY DEF Finish, IInv, TypeOK, Same, To, cvars
  <1>3. Sound(c)'
    BY DEF Finish, IInv, TypeOK, To, cvars, ToolStages, SlotStages, HoldStages,
           Sound, Placed, Pooled, Holding, Kept, Blamed
  <1>4. OKIsStored'
    BY DEF Finish, IInv, OKIsStored, Sound, Kept
  <1>5. Room' /\ StoredIsWhole' /\ object' = object
    BY DEF Finish, IInv, Room, StoredIsWhole, cvars
  <1> QED
    BY <1>1, <1>2, <1>3, <1>4, <1>5, OneCall

(* Forget: the upload goes only with the last of its tries. *)
LEMMA ForgetKeeps ==
    ASSUME IInv, NEW c \in Calls, Forget(c)
    PROVE  IInv'
  <1>1. \/ UNCHANGED bucket
        \/ /\ \A d \in Calls \ {c} : rpc[d] # "Normalize"
           /\ object' = "none" /\ late' = {} /\ promised' = FALSE
    BY DEF Forget, bucket
  <1>2. TypeOK'
    BY <1>1 DEF Forget, IInv, TypeOK, To, cvars, bucket, Stages, Waits, ToolStages
  <1>3. \A d \in Calls \ {c} : Same(d)
    BY DEF Forget, IInv, TypeOK, Same, To, cvars
  <1>4. Sound(c)'
    BY DEF Forget, IInv, TypeOK, To, cvars, ToolStages, SlotStages, HoldStages, NoError,
           Sound, Placed, Pooled, Holding, Kept, Blamed
  <1>5. Room' /\ StoredIsWhole' /\ OKIsStored'
    <2>1. Room'
      BY DEF Forget, IInv, Room, cvars
    <2> QED
      BY <1>1, <2>1, BucketStays DEF StoredIsWhole, OKIsStored
  <1>6. \A d \in Calls \ {c} :
            rpc[d] = "Normalize" /\ object = "whole" => object' = "whole"
    BY <1>1 DEF bucket
  <1> QED
    BY <1>2, <1>3, <1>4, <1>5, <1>6, OneCall

-----------------------------------------------------------------------------
(* IInv is inductive.                                                        *)

LEMMA ToolKeeps ==
    ASSUME IInv, NEW c \in Calls, ToolEnds(c)
    PROVE  IInv'
  <1>1. CASE ProbeEnds(c)
    <2>1. CASE ProbeReads(c)
      BY <2>1, ProbeReadsKeeps
    <2>2. ASSUME NEW e \in RunErrors(c) \cup {Error({})}, ProbeFails(c, e)
          PROVE  IInv'
      <3>1. opctx[c] # "none"
        BY <2>2 DEF ProbeFails, IInv, Sound, Pooled, SlotStages, ToolStages
      <3>2. /\ e \in SUBSET Faults
            /\ e \cap {"ErrInvalidAudio", "ErrSilent"} # {} => source[c] \in AtFault
        <4>1. CASE e \in RunErrors(c)
          BY <3>1, <4>1, RunErrorsTell DEF AtFault
        <4>2. CASE e = Error({})
          BY <4>2, ErrorTypes DEF Error
        <4> QED
          BY <2>2, <4>1, <4>2
      <3> QED
        BY <2>2, <3>2, ProbeFailsKeeps
    <2>3. CASE NoAudioStream(c) /\ ProbeFails(c, Error({"ErrInvalidAudio"}))
      <3>1. Error({"ErrInvalidAudio"}) \in SUBSET Faults /\ source[c] \in AtFault
        BY <2>3, ErrorTypes DEF NoAudioStream, AtFault
      <3> QED
        BY <2>3, <3>1, ProbeFailsKeeps
    <2> QED
      BY <1>1, <2>1, <2>2, <2>3 DEF ProbeEnds
  <1>2. CASE Uploaded(c)
    <2>1. ASSUME NEW outcome, UploadEnds(c, FALSE, outcome) PROVE IInv'
      BY <2>1, UploadEndsKeeps
    <2>2. CASE UploadEnds(c, TRUE, "stored")
      BY <2>2, UploadEndsKeeps
    <2> QED
      BY <1>2, <2>1, <2>2 DEF Uploaded
  <1> QED
    BY <1>1, <1>2, SilenceDetectedKeeps, SilenceFailsKeeps, DurationReadKeeps,
       TranscodedKeeps, TranscodeFailsKeeps, CutKeeps, CutFailsKeeps DEF ToolEnds

LEMMA ProceedKeeps ==
    ASSUME IInv, NEW c \in Calls, Proceed(c)
    PROVE  IInv'
  <1>1. CASE GeminiInterrupted(c)
    BY <1>1, GeminiEndsKeeps DEF GeminiInterrupted
  <1> QED
    BY <1>1, EngineReturnsKeeps, ReleaseKeeps, AskScavengeKeeps, FinishKeeps,
       AcquireFailsKeeps, LeaveSlotKeeps, SettleSlotKeeps, CreateTempKeeps, CleanupKeeps
    DEF Proceed

LEMMA StepKeeps ==
    ASSUME IInv, [Next]_vars
    PROVE  IInv'
  <1>1. CASE UNCHANGED vars
    <2>1. ASSUME NEW d \in Calls PROVE Sound(d)'
      <3>1. Same(d) /\ object' = object
        BY <1>1 DEF Same, vars, mine, bucket, cvars
      <3> QED
        BY <3>1, Frame DEF IInv
    <2>2. TypeOK'
      BY <1>1 DEF vars, mine, bucket, cvars, IInv, TypeOK
    <2>3. Room' /\ StoredIsWhole' /\ OKIsStored'
      BY <1>1 DEF vars, mine, bucket, cvars, IInv, Room, StoredIsWhole, OKIsStored
    <2> QED
      BY <2>1, <2>2, <2>3 DEF IInv
  <1>2. ASSUME NEW c \in Calls, NEW q \in Requests, Arrive(c, q[1], q[2]) PROVE IInv'
    BY <1>2, ArriveKeeps
  <1>3. ASSUME NEW c \in Calls,
               TimerFires(c) \/ \E e \in CtxErrors : CallerDone(c, e)
        PROVE  IInv'
    BY <1>3, ContextKeeps
  <1>4. ASSUME NEW c \in Calls, GeminiAnswers(c) PROVE IInv'
    BY <1>4, GeminiEndsKeeps DEF GeminiAnswers
  <1>5. ASSUME NEW c \in Calls, Acquire(c) \/ ToolEnds(c) \/ Proceed(c) \/ Forget(c)
        PROVE  IInv'
    BY <1>5, AcquireKeeps, ToolKeeps, ProceedKeeps, ForgetKeeps
  <1> QED
    BY <1>1, <1>2, <1>3, <1>4, <1>5, ScavengesKeeps, LateLandsKeeps DEF Next

(* The inductive invariant of the three RPCs: what a call holds, and what    *)
(* may be said of it, follows from the stage it is in.                       *)
THEOREM Invariance == Spec => []IInv
  <1>1. Init => IInv
    <2> SUFFICES ASSUME Init PROVE IInv
      OBVIOUS
    <2>1. TypeOK
      BY DEF Init, ContractInit, TypeOK, NoError, Stages, Waits
    <2>2. Room
      BY FS_EmptySet, WorkersAssumption DEF Init, ContractInit, Room
    <2>3. StoredIsWhole /\ OKIsStored
      BY DEF Init, StoredIsWhole, OKIsStored
    <2>4. ASSUME NEW c \in Calls PROVE Sound(c)
      BY DEF Init, ContractInit, NoError, ToolStages, SlotStages, HoldStages,
             Sound, Placed, Pooled, Holding, Kept, Blamed
    <2> QED
      BY <2>1, <2>2, <2>3, <2>4 DEF IInv
  <1>2. IInv /\ [Next]_vars => IInv'
    BY StepKeeps
  <1> QED
    BY <1>1, <1>2, PTL DEF Spec

-----------------------------------------------------------------------------

(* The variables of the RPCs keep their types; in particular every code is   *)
(* one that mapEngineErr, mapTranscribeErr or a refusal names.               *)
THEOREM TypeCorrect == Spec => []TypeOK
  <1>1. IInv => TypeOK
    BY DEF IInv
  <1> QED
    BY <1>1, Invariance, PTL

(* Children, uploads and temp files exist only under a worker slot, and never *)
(* more files than Workers, whatever ends an operation (the defers of Probe, *)
(* Normalize and SegmentCut).                                                *)
THEOREM SlotsCover == Spec => []SlotCoversWork
  <1>1. IInv => SlotCoversWork
    <2> SUFFICES ASSUME IInv PROVE SlotCoversWork
      OBVIOUS
    <2>1. ASSUME NEW c \in Calls,
                 stage[c] \in ToolStages \cup {"upload"} \/ file[c] # "none"
          PROVE  c \in using
      BY <2>1 DEF IInv, Sound, Pooled, Holding, SlotStages, ToolStages
    <2> DEFINE Files == {c \in Calls : file[c] # "none"}
    <2>2. Files \subseteq using
      BY <2>1
    <2>3. IsFiniteSet(using) /\ Cardinality(using) <= Workers
      BY DEF IInv, Room
    <2>4. /\ IsFiniteSet(Files) /\ Cardinality(Files) <= Cardinality(using)
          /\ Cardinality(using) \in Nat /\ Cardinality(Files) \in Nat
      <3> HIDE DEF Files
      <3> QED
        BY <2>2, <2>3, FS_Subset, FS_CardinalityType
    <2>5. Cardinality(Files) <= Workers
      <3> HIDE DEF Files
      <3> QED
        BY <2>3, <2>4, WorkersAssumption
    <2> QED
      BY <2>1, <2>5 DEF SlotCoversWork
  <1> QED
    BY <1>1, Invariance, PTL

(* Nothing but a complete derivative is ever put at the destination, also by *)
(* a PUT that lands after its client gave up (Normalize).                    *)
THEOREM Whole == Spec => []StoredIsWhole
  <1>1. IInv => StoredIsWhole
    BY DEF IInv
  <1> QED
    BY <1>1, Invariance, PTL

(* Once a Normalize was answered OK its derivative is there and stays there, *)
(* for any number of overlapping tries.                                      *)
THEOREM OKStored == Spec => []OKIsStored
  <1>1. IInv => OKIsStored
    BY DEF IInv
  <1> QED
    BY <1>1, Invariance, PTL

(* InvalidArgument blames the request or its content only when one of them   *)
(* is at fault (classifyProbeErr, mapEngineErr, mapTranscribeErr).           *)
THEOREM Terminal == Spec => []TerminalOnlyForBadInput
  <1>1. IInv => TerminalOnlyForBadInput
    BY DEF IInv, Sound, Blamed, TerminalOnlyForBadInput, AtFault
  <1> QED
    BY <1>1, Invariance, PTL

(* An answered call has nothing left in the pool, on disk or in memory.      *)
THEOREM LeavesNothing == Spec => []NothingLeftBehind
  <1>1. IInv => NothingLeftBehind
    BY DEF IInv, Sound, Pooled, Holding, SlotStages, ToolStages, HoldStages,
           NothingLeftBehind
  <1> QED
    BY <1>1, Invariance, PTL

(* A scavenge falls due only when no call references a segment (the hold of  *)
(* TranscribeSegment).                                                       *)
THEOREM Deferred == Spec => ScavengeAfterSegments
  <1>1. ASSUME IInv, [Next]_vars, due' \ due # {}, NEW c \in Calls
        PROVE  ~segment'[c]
    <2>1. PICK d \in Calls : SettleSlot(d) \/ Release(d)
      BY <1>1 DEF Next, Arrive, CallerDone, TimerFires, Acquire, ToolEnds, GeminiAnswers,
           GeminiEnds, Proceed, Forget, Scavenges, LateLands, vars, cvars, mine,
           Enter, Leave, Hold, Ask, Reclaimed, Ended,
           ProbeEnds, ProbeReads, ProbeFails, SilenceDetected, SilenceFails, DurationRead,
           Transcoded, TranscodeFails, Uploaded, UploadEnds, Cut, CutFails,
           EngineReturns, AskScavenge, Finish, AcquireFails, LeaveSlot, CreateTemp,
           Cleanup, GeminiInterrupted
    <2>2. busy' = {}
      BY <1>1, <2>1 DEF SettleSlot, Release, Settle
    <2>3. IInv'
      BY <1>1, StepKeeps
    <2> QED
      BY <2>2, <2>3 DEF IInv, Sound, Pooled, Holding, HoldStages
  <1>2. IInv /\ [Next]_vars => [(due' \ due # {}) => \A c \in Calls : ~segment'[c]]_vars
    BY <1>1
  <1> QED
    BY <1>2, Invariance, PTL DEF Spec, ScavengeAfterSegments

=============================================================================
