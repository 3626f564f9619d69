-------------------------- MODULE TranscribeProofs --------------------------
(* What Transcribe's runs show on 8 and 11 bit integers, for integers of any *)
(* width, any windows, any stamps in the reply and any token rates.          *)
EXTENDS Transcribe, TLAPS

USE WidthAssumption

-----------------------------------------------------------------------------
(* The arithmetic.                                                           *)

(* A sum that overflows is some integer of the width. *)
LEMMA WrapInRange ==
    ASSUME NEW n \in Int, NEW max \in Nat
    PROVE  Wrap(n, max) \in (-max - 1)..max
<1>1. 2 * (max + 1) > 0
    OBVIOUS
<1>2. (n + max + 1) % (2 * (max + 1)) \in 0..(2 * (max + 1) - 1)
    BY <1>1
<1> QED
    BY <1>2 DEF Wrap

(* A sum that fits is exact. *)
LEMMA WrapExact ==
    ASSUME NEW max \in Nat, NEW n \in (-max - 1)..max
    PROVE  Wrap(n, max) = n
<1> DEFINE m == n + max + 1
           d == 2 * (max + 1)
<1>1. d \in Nat /\ m \in 0..(d - 1) /\ d > 0
    OBVIOUS
<1>2. m % d = m
    <2> HIDE DEF m, d
    <2> QED
        BY <1>1
<1> QED
    BY <1>2 DEF Wrap

(* A clamp between ordered bounds stays between them, keeps what is there,   *)
(* and does not reorder.                                                     *)
LEMMA Clamping ==
    ASSUME NEW lo \in Int, NEW hi \in Int, lo <= hi, NEW v \in Int
    PROVE  /\ Clamp(v, lo, hi) \in lo..hi
           /\ v \in lo..hi => Clamp(v, lo, hi) = v
           /\ v > hi => Clamp(v, lo, hi) = hi
BY DEF Clamp, Least, Greatest

(* What lenientMs lets through is at most one integer of 64 bits. *)
LEMMA StampIsInt ==
    ASSUME NEW raw, NEW v \in LenientMs(raw)
    PROVE  v \in Int64 /\ v = raw.value
BY DEF LenientMs

-----------------------------------------------------------------------------
(* Rebasing one utterance.                                                   *)

LEMMA WindowInts ==
    ASSUME NEW s, IsWindow(s)
    PROVE  /\ s.startMs \in Int64 /\ s.endMs \in Int64
           /\ s.startMs \in Int /\ s.endMs \in Int /\ s.startMs < s.endMs
BY DEF IsWindow, Int64

(* Whatever the stamp, its offset is an integer. *)
LEMMA OffsetIsInt ==
    ASSUME NEW s, IsWindow(s), NEW raw, NEW bound \in Int
    PROVE  Offset(LenientMs(raw), s, bound) \in Int
<1> DEFINE stamp == LenientMs(raw)
           v == CHOOSE v \in stamp : v > 0
<1>1. CASE \E x \in stamp : x > 0
    <2>1. v \in stamp
        BY <1>1
    <2>2. v \in Int
        BY <2>1, StampIsInt DEF Int64
    <2>3. Add64(s.startMs, v) \in Int
        BY <2>2, WindowInts, WrapInRange DEF Add64
    <2> QED
        BY <1>1, <2>3 DEF Offset
<1>2. CASE ~ \E x \in stamp : x > 0
    BY <1>2 DEF Offset
<1> QED
    BY <1>1, <1>2

(* A stamp the model meant, shifted without overflow, is the exact sum. *)
LEMMA OffsetIsExact ==
    ASSUME NEW s, IsWindow(s), NEW raw, Usably(raw),
           s.startMs + raw.value \in Int64, NEW bound
    PROVE  Offset(LenientMs(raw), s, bound) = s.startMs + raw.value
<1>1. LenientMs(raw) = {raw.value} /\ raw.value > 0
    BY DEF Usably, LenientMs
<1>2. (CHOOSE v \in LenientMs(raw) : v > 0) = raw.value
    BY <1>1
<1>3. Add64(s.startMs, raw.value) = s.startMs + raw.value
    BY WrapExact DEF Add64, Int64
<1> QED
    BY <1>1, <1>2, <1>3 DEF Offset

(* An offset within the window's length never overflows the shift. *)
LEMMA InsideFits ==
    ASSUME NEW s, IsWindow(s), NEW raw, Usably(raw), raw.value <= Length(s)
    PROVE  s.startMs + raw.value \in Int64 /\ s.startMs + raw.value \in s.startMs..s.endMs
BY DEF IsWindow, Int64, Usably, Length

(* RebaseOne: the span lies in the window, and its two ends are the clamped  *)
(* offsets unless the end would precede the start.                           *)
LEMMA Rebased ==
    ASSUME NEW s, IsWindow(s), NEW u
    PROVE  LET r == RebaseOne(Decoded(u), s)
               start == Offset(LenientMs(u.startMs), s, s.startMs)
               end == Offset(LenientMs(u.endMs), s, s.endMs)
           IN  /\ r.startMs \in s.startMs..s.endMs
               /\ r.endMs \in r.startMs..s.endMs
               /\ start \in Int /\ end \in Int
               /\ r.startMs = Clamp(start, s.startMs, s.endMs)
               /\ r.endMs = Greatest(r.startMs, Clamp(end, s.startMs, s.endMs))
<1> DEFINE r == RebaseOne(Decoded(u), s)
           start == Offset(LenientMs(u.startMs), s, s.startMs)
           end == Offset(LenientMs(u.endMs), s, s.endMs)
<1>1. start \in Int /\ end \in Int
    BY WindowInts, OffsetIsInt
<1>2. /\ r.startMs = Clamp(start, s.startMs, s.endMs)
      /\ r.endMs = Greatest(r.startMs, Clamp(end, s.startMs, s.endMs))
    BY DEF RebaseOne, Decoded, EndAfter
<1> HIDE DEF start, end, r
<1>3. /\ Clamp(start, s.startMs, s.endMs) \in s.startMs..s.endMs
      /\ Clamp(end, s.startMs, s.endMs) \in s.startMs..s.endMs
    <2>1. s.startMs \in Int /\ s.endMs \in Int /\ s.startMs <= s.endMs
        BY WindowInts
    <2> QED
        BY <1>1, <2>1, Clamping
<1>4. r.startMs \in s.startMs..s.endMs /\ r.endMs \in r.startMs..s.endMs
    BY <1>2, <1>3, WindowInts DEF Greatest
<1> QED
    BY <1>1, <1>2, <1>4 DEF r, start, end

-----------------------------------------------------------------------------
(* The invariant: a result is what the rebase makes of the reply, or none.   *)

Rebase == [i \in DOMAIN reply.utterances |-> Decoded(reply.utterances[i])]

IInv ==
    /\ seg \in Windows
    /\ cut = CutOf(seg)
    /\ offsetMax = OffsetMax(seg)
    /\ budget = MaxOutputTokens(seg)
    /\ stage \in {"asking", "replied", "done"}
    /\ outcome \in {"none", "ok", "ErrDegenerateOutput", "transport"}
    /\ stage # "done" => outcome = "none"
    /\ stage = "replied" => reply \in Replies
    /\ outcome = "ok" =>
          /\ reply \in Replies
          /\ Usable(reply)
          /\ result = RebaseUtterances(Rebase, seg)
    /\ outcome # "ok" => result = <<>>

LEMMA BudgetInRange ==
    ASSUME NEW s, IsWindow(s)
    PROVE  MaxOutputTokens(s) \in (-Int32Max - 1)..Int32Max
<1> DEFINE rounded == Add64(s.endMs - s.startMs, MsPerSecond - 1)
           secs == Greatest(rounded \div MsPerSecond, 1)
<1>1. rounded \in Int
    BY WindowInts, WrapInRange, RateAssumption DEF Add64
<1>2. secs \in Int
    <2> HIDE DEF rounded
    <2> QED
        BY <1>1, RateAssumption DEF Greatest
<1>3. TokensBase + TokensPerSecond * secs \in Int
    <2> HIDE DEF secs
    <2> QED
        BY <1>2, RateAssumption
<1> QED
    BY <1>3, WrapInRange DEF MaxOutputTokens, Tokens

LEMMA InitIInv == Init => IInv
<1> SUFFICES ASSUME Init PROVE IInv
    OBVIOUS
<1> QED
    BY DEF Init, IInv

LEMMA NextIInv == IInv /\ [Next]_vars => IInv'
<1> SUFFICES ASSUME IInv, [Next]_vars PROVE IInv'
    OBVIOUS
<1> USE DEF IInv
<1>1. ASSUME NEW r \in Replies, Reply(r) PROVE IInv'
    BY <1>1 DEF Reply, asked
<1>2. CASE TransportFails
    BY <1>2 DEF TransportFails, asked
<1>3. CASE Return
    <2>1. CASE Usable(reply)
        BY <1>3, <2>1 DEF Return, asked, Rebase
    <2>2. CASE ~Usable(reply)
        BY <1>3, <2>2 DEF Return, asked
    <2> QED
        BY <2>1, <2>2
<1>4. CASE UNCHANGED vars
    BY <1>4 DEF vars, asked, Rebase
<1> QED
    BY <1>1, <1>2, <1>3, <1>4 DEF Next

(* The invariant holds in every state of every instance. *)
THEOREM Invariance == Spec => []IInv
<1> QED
    BY InitIInv, NextIInv, PTL DEF Spec

-----------------------------------------------------------------------------
(* What the invariant says of the utterances.                                *)

LEMMA TextDomains ==
    ASSUME NEW t \in Seq(RawUtterance)
    PROVE  t # <<>> => 1 \in DOMAIN t
OBVIOUS

LEMMA ReplyTexts ==
    ASSUME NEW r \in Replies
    PROVE  /\ r.utterances \in Seq(RawUtterance)
           /\ r.finish \in {"stop", "max_tokens"}
<1>1. <<>> \in Seq(RawUtterance)
    OBVIOUS
<1> QED
    BY <1>1, TextsAssumption DEF Replies

(* Each utterance of a result is one of the reply, rebased, or the fallback  *)
(* for a reply without any.                                                  *)
LEMMA Results ==
    ASSUME IInv, NEW i \in DOMAIN result
    PROVE  /\ outcome = "ok" /\ IsWindow(seg)
           /\ \/ /\ reply.utterances # <<>>
                 /\ i \in DOMAIN reply.utterances
                 /\ result[i] = RebaseOne(Decoded(reply.utterances[i]), seg)
              \/ /\ reply.utterances = <<>>
                 /\ result[i] = [startMs |-> seg.startMs, endMs |-> seg.endMs,
                                 confidence |-> -1, isSpeech |-> FALSE]
<1>1. outcome = "ok" /\ IsWindow(seg) /\ result = RebaseUtterances(Rebase, seg)
    BY WindowsAssumption DEF IInv
<1>2. CASE Rebase = <<>>
    <2>1. reply.utterances = <<>>
        <3>1. DOMAIN reply.utterances = {}
            BY <1>2 DEF Rebase
        <3> QED
            BY <3>1, <1>1, ReplyTexts, TextDomains DEF IInv
    <2>2. result = FallbackUtterances(seg)
        BY <1>1, <1>2 DEF RebaseUtterances
    <2>3. i = 1
        BY <2>2 DEF FallbackUtterances
    <2> QED
        BY <1>1, <2>1, <2>2, <2>3 DEF FallbackUtterances
<1>3. CASE Rebase # <<>>
    <2>1. result = [j \in DOMAIN Rebase |-> RebaseOne(Rebase[j], seg)]
        BY <1>1, <1>3 DEF RebaseUtterances
    <2>2. i \in DOMAIN reply.utterances /\ Rebase[i] = Decoded(reply.utterances[i])
        BY <2>1 DEF Rebase
    <2>3. reply.utterances # <<>>
        BY <2>2
    <2> QED
        BY <1>1, <2>1, <2>2, <2>3
<1> QED
    BY <1>2, <1>3

(* transcribe's promise on the timeline: every utterance lies in the window  *)
(* it was asked about, whatever Gemini replied and however sums overflowed.  *)
LEMMA ResultsInWindow ==
    ASSUME IInv, NEW i \in DOMAIN result
    PROVE  /\ result[i].startMs \in seg.startMs..seg.endMs
           /\ result[i].endMs \in result[i].startMs..seg.endMs
<1>1. IsWindow(seg) /\ seg.startMs \in Int /\ seg.endMs \in Int /\ seg.startMs < seg.endMs
    BY Results, WindowInts
<1>2. CASE result[i] = RebaseOne(Decoded(reply.utterances[i]), seg)
    BY <1>1, <1>2, Rebased
<1>3. CASE result[i] = [startMs |-> seg.startMs, endMs |-> seg.endMs,
                        confidence |-> -1, isSpeech |-> FALSE]
    BY <1>1, <1>3
<1> QED
    BY <1>2, <1>3, Results

(* formatMs writes a whole number of milliseconds. *)
LEMMA FormatIsInt ==
    ASSUME NEW ms \in Int
    PROVE  FormatMs(ms) \in Int
<1> DEFINE d == Wrap(NsPerMs * Greatest(ms, 0), Int64Max)
<1>1. NsPerMs \in Nat \ {0} /\ Greatest(ms, 0) \in Int
    BY RateAssumption DEF Greatest
<1>2. d \in Int
    BY <1>1, WrapInRange
<1> HIDE DEF d
<1>3. (d + NsPerMs \div 2) \div NsPerMs \in Int
    BY <1>1, <1>2
<1> QED
    BY <1>3 DEF FormatMs, d

(* Types hold: the wire's integers are integers of their width. *)
THEOREM TypeCorrect == Spec => []TypeOK
<1>1. IInv => TypeOK
    <2> SUFFICES ASSUME IInv
                 PROVE  /\ cut.seek \in Int /\ cut.span \in Int /\ offsetMax \in Int64
                        /\ budget \in (-Int32Max - 1)..Int32Max
                        /\ \A i \in DOMAIN result :
                              result[i].startMs \in Int64 /\ result[i].endMs \in Int64
        BY DEF IInv, TypeOK
    <2>2. cut.seek \in Int /\ cut.span \in Int /\ offsetMax \in Int64
        <3>1. IsWindow(seg)
            BY WindowsAssumption DEF IInv
        <3>2. seg.startMs \in Int /\ seg.endMs - seg.startMs \in Int
            BY <3>1, WindowInts
        <3>3. offsetMax \in Int64
            BY <3>1 DEF IInv, IsWindow, OffsetMax, Greatest, Int64
        <3> QED
            BY <3>2, <3>3, FormatIsInt DEF IInv, CutOf
    <2>1. seg.startMs \in Int64 /\ seg.endMs \in Int64
        BY WindowsAssumption DEF IInv, IsWindow
    <2>3. ASSUME NEW i \in DOMAIN result
          PROVE  result[i].startMs \in Int64 /\ result[i].endMs \in Int64
        BY <2>1, ResultsInWindow DEF Int64
    <2>4. budget \in (-Int32Max - 1)..Int32Max
        BY WindowsAssumption, BudgetInRange DEF IInv
    <2> QED
        BY <2>2, <2>3, <2>4
<1> QED
    BY <1>1, Invariance, PTL

(* No utterance leaves its window or ends before it starts: rebaseOne's      *)
(* clamps hold for every width, window and reply.                            *)
THEOREM Windowed == Spec => []InWindow
<1>1. IInv => InWindow
    <2> SUFFICES ASSUME IInv, NEW i \in DOMAIN result
                 PROVE  /\ seg.startMs <= result[i].startMs
                        /\ result[i].startMs <= result[i].endMs
                        /\ result[i].endMs <= seg.endMs
        BY DEF InWindow
    <2>1. seg.startMs \in Int /\ seg.endMs \in Int
        BY Results, WindowInts
    <2> QED
        BY <2>1, ResultsInWindow
<1> QED
    BY <1>1, Invariance, PTL

(* An OK reply is never empty and never made of a capped or garbled reply.   *)
THEOREM Answered == Spec => []NeverBlank
<1>1. IInv => NeverBlank
    <2> SUFFICES ASSUME IInv, outcome = "ok"
                 PROVE  result # <<>> /\ reply.json /\ reply.finish = "stop"
        BY DEF IInv, NeverBlank
    <2>1. reply.json /\ reply.finish = "stop"
        BY ReplyTexts DEF IInv, Usable, Parses
    <2>2. CASE Rebase = <<>>
        <3>1. result = FallbackUtterances(seg)
            BY <2>2 DEF IInv, RebaseUtterances
        <3>2. result # <<>>
            BY <3>1 DEF FallbackUtterances
        <3> QED
            BY <2>1, <3>2
    <2>3. CASE Rebase # <<>>
        <3>1. reply.utterances # <<>>
            BY <2>3 DEF Rebase
        <3>2. 1 \in DOMAIN reply.utterances
            BY <3>1, ReplyTexts, TextDomains DEF IInv
        <3>3. 1 \in DOMAIN result
            BY <2>3, <3>2 DEF IInv, RebaseUtterances, Rebase
        <3> QED
            BY <2>1, <3>3
    <2> QED
        BY <2>1, <2>2, <2>3
<1> QED
    BY <1>1, Invariance, PTL

(* What the model said inside its window is kept to the millisecond. *)
THEOREM Exact == Spec => []ExactInside
<1>1. IInv => ExactInside
    <2> SUFFICES ASSUME IInv, outcome = "ok", NEW i \in DOMAIN reply.utterances
                 PROVE  LET u == reply.utterances[i]
                        IN  /\ i \in DOMAIN result
                            /\ (Usably(u.startMs) /\ u.startMs.value <= Length(seg))
                                  => result[i].startMs = seg.startMs + u.startMs.value
                            /\ (Usably(u.endMs) /\ u.endMs.value <= Length(seg)
                                  /\ Usably(u.startMs) /\ u.startMs.value <= u.endMs.value)
                                  => result[i].endMs = seg.startMs + u.endMs.value
        BY DEF ExactInside
    <2> DEFINE u == reply.utterances[i]
               r == result[i]
               start == Offset(LenientMs(u.startMs), seg, seg.startMs)
               end == Offset(LenientMs(u.endMs), seg, seg.endMs)
    <2>0. i \in DOMAIN result
        <3>1. Rebase # <<>>
            BY DEF Rebase
        <3> QED
            BY <3>1 DEF IInv, RebaseUtterances, Rebase
    <2>1. IsWindow(seg) /\ r = RebaseOne(Decoded(u), seg)
        BY <2>0, Results
    <2>2. /\ r.startMs = Clamp(start, seg.startMs, seg.endMs)
          /\ r.endMs = Greatest(r.startMs, Clamp(end, seg.startMs, seg.endMs))
        BY <2>1, Rebased
    <2>3. seg.startMs \in Int /\ seg.endMs \in Int /\ seg.startMs <= seg.endMs
        BY <2>1, WindowInts
    <2>6. \A w \in seg.startMs..seg.endMs : Clamp(w, seg.startMs, seg.endMs) = w
        BY <2>3 DEF Clamp, Least, Greatest
    <2> HIDE DEF u, r
    <2>4. ASSUME Usably(u.startMs), u.startMs.value <= Length(seg)
          PROVE  r.startMs = seg.startMs + u.startMs.value
        <3>1. start = seg.startMs + u.startMs.value /\ start \in seg.startMs..seg.endMs
            BY <2>1, <2>4, InsideFits, OffsetIsExact
        <3> HIDE DEF start, end
        <3> QED
            BY <2>2, <2>6, <3>1
    <2>5. ASSUME Usably(u.endMs), u.endMs.value <= Length(seg),
                 Usably(u.startMs), u.startMs.value <= u.endMs.value
          PROVE  r.endMs = seg.startMs + u.endMs.value
        <3>1. end = seg.startMs + u.endMs.value /\ end \in seg.startMs..seg.endMs
            BY <2>1, <2>5, InsideFits, OffsetIsExact
        <3>2. u.startMs.value \in Int /\ u.endMs.value \in Int /\ Length(seg) \in Int
            BY <2>3, <2>5 DEF Usably, Int64, Length
        <3>3. r.startMs = seg.startMs + u.startMs.value
            BY <2>4, <2>5, <3>2
        <3> HIDE DEF start, end
        <3>4. Clamp(end, seg.startMs, seg.endMs) = end
            BY <2>6, <3>1
        <3> QED
            BY <2>2, <2>3, <2>5, <3>1, <3>2, <3>3, <3>4 DEF Greatest
    <2> QED
        BY <2>0, <2>4, <2>5 DEF u, r
<1> QED
    BY <1>1, Invariance, PTL

(* A duration that fits int64 is written as it is. *)
LEMMA FormatIsExact ==
    ASSUME NEW ms \in Nat, NsPerMs * ms \in Int64
    PROVE  FormatMs(ms) = ms
<1> DEFINE k == NsPerMs
<1>1. k \in Nat /\ k > 0 /\ Greatest(ms, 0) = ms
    BY RateAssumption DEF Greatest
<1>2. k * ms \in Nat
    BY <1>1
<1>3. Wrap(k * ms, Int64Max) = k * ms
    BY <1>2, WrapExact DEF Int64
<1>4. (k * ms + k \div 2) \div k = ms
    <2> HIDE DEF k
    <2>1. k \div 2 \in 0..(k - 1)
        BY <1>1
    <2> QED
        BY <1>1, <2>1
<1> QED
    BY <1>1, <1>3, <1>4 DEF FormatMs

(* A cut window that fits is the window. *)
LEMMA CutIsExact ==
    ASSUME NEW s, IsWindow(s), NsPerMs * s.endMs \in Int64
    PROVE  CutOf(s) = [seek |-> s.startMs, span |-> Length(s)]
<1>1. /\ s.startMs \in Nat /\ s.endMs \in Nat /\ s.endMs - s.startMs \in Nat
      /\ s.startMs <= s.endMs /\ s.endMs - s.startMs <= s.endMs
      /\ NsPerMs \in Nat
    BY RateAssumption DEF IsWindow, Int64
<1>2. \A k, m, n \in Nat : m <= n => k * m <= k * n /\ k * m \in Nat /\ k * n \in Nat
    OBVIOUS
<1>3. /\ NsPerMs * s.startMs \in Nat /\ NsPerMs * s.startMs <= NsPerMs * s.endMs
      /\ NsPerMs * (s.endMs - s.startMs) \in Nat
      /\ NsPerMs * (s.endMs - s.startMs) <= NsPerMs * s.endMs
    BY <1>1, <1>2
<1>4. NsPerMs * s.startMs \in Int64 /\ NsPerMs * (s.endMs - s.startMs) \in Int64
    <2>1. \A n \in Nat, e \in Int64 : n <= e => n \in Int64
        BY DEF Int64
    <2> QED
        BY <1>3, <2>1
<1> QED
    BY <1>1, <1>4, FormatIsExact DEF CutOf, Length

(* What Gemini hears at an offset lands where it was heard: the cut, the     *)
(* schema and the rebase agree on the window, for windows of any length that *)
(* a time.Duration can express.                                              *)
THEOREM HeardIsPlaced == Spec => []PlacedWhereHeard
<1>1. IInv => PlacedWhereHeard
    <2> SUFFICES ASSUME IInv, outcome = "ok", NsPerMs * seg.endMs \in Int64,
                        NEW i \in DOMAIN reply.utterances,
                        Usably(reply.utterances[i].startMs),
                        \/ reply.utterances[i].startMs.value <= cut.span
                        \/ reply.utterances[i].startMs.value <= offsetMax
                 PROVE  /\ reply.utterances[i].startMs.value <= cut.span
                        /\ reply.utterances[i].startMs.value <= offsetMax
                        /\ result[i].startMs = cut.seek + reply.utterances[i].startMs.value
        BY DEF PlacedWhereHeard
    <2> DEFINE u == reply.utterances[i]
               v == u.startMs.value
    <2>1. IsWindow(seg)
        BY WindowsAssumption DEF IInv
    <2>2. cut = [seek |-> seg.startMs, span |-> Length(seg)]
        BY <2>1, CutIsExact DEF IInv
    <2>3. offsetMax = Length(seg)
        BY <2>1, WindowInts DEF IInv, OffsetMax, Greatest, Length
    <2>4. v <= Length(seg)
        BY <2>2, <2>3
    <2>5. result[i] = RebaseOne(Decoded(u), seg)
        <3>1. i \in DOMAIN Rebase /\ Rebase[i] = Decoded(u)
            BY DEF Rebase
        <3>2. Rebase # <<>>
            BY <3>1
        <3>3. result = [j \in DOMAIN Rebase |-> RebaseOne(Rebase[j], seg)]
            BY <3>2 DEF IInv, RebaseUtterances
        <3> QED
            BY <3>1, <3>3
    <2>6. result[i].startMs = seg.startMs + v
        <3> DEFINE start == Offset(LenientMs(u.startMs), seg, seg.startMs)
        <3>1. start = seg.startMs + v /\ start \in seg.startMs..seg.endMs
            BY <2>1, <2>4, InsideFits, OffsetIsExact
        <3>2. result[i].startMs = Clamp(start, seg.startMs, seg.endMs)
            BY <2>1, <2>5, Rebased
        <3>3. seg.startMs \in Int /\ seg.endMs \in Int /\ seg.startMs <= seg.endMs
            BY <2>1, WindowInts
        <3>4. Clamp(start, seg.startMs, seg.endMs) = start
            <4> HIDE DEF start
            <4>1. \A w \in seg.startMs..seg.endMs :
                     Clamp(w, seg.startMs, seg.endMs) = w
                BY <3>3 DEF Clamp, Least, Greatest
            <4> QED
                BY <3>1, <4>1
        <3> QED
            BY <3>1, <3>2, <3>4
    <2> QED
        BY <2>2, <2>3, <2>4, <2>6
<1> QED
    BY <1>1, Invariance, PTL

(* Utterances the model kept apart do not overlap after the rebase, however  *)
(* many there are.                                                           *)
THEOREM Apart == Spec => []ApartKept
<1>1. IInv => ApartKept
    <2> SUFFICES ASSUME IInv, outcome = "ok",
                        NEW i \in DOMAIN reply.utterances,
                        NEW j \in DOMAIN reply.utterances,
                        LET u == reply.utterances[i]
                            v == reply.utterances[j].startMs
                        IN  /\ Usably(u.startMs) /\ Usably(u.endMs) /\ Usably(v)
                            /\ u.startMs.value <= u.endMs.value /\ u.endMs.value <= v.value
                            /\ seg.startMs + v.value \in Int64
                 PROVE  result[i].endMs <= result[j].startMs
        BY DEF ApartKept
    <2> DEFINE u == reply.utterances[i]
               w == reply.utterances[j]
               v == w.startMs
    <2>0. /\ Usably(u.startMs) /\ Usably(u.endMs) /\ Usably(v)
          /\ u.startMs.value <= u.endMs.value /\ u.endMs.value <= v.value
          /\ seg.startMs + v.value \in Int64
        OBVIOUS
    <2>1. IsWindow(seg) /\ 0 <= seg.startMs
        BY WindowsAssumption DEF IInv, IsWindow
    <2>2. seg.startMs \in Int /\ seg.endMs \in Int /\ seg.startMs <= seg.endMs
        BY <2>1, WindowInts
    <2>4. result[i] = RebaseOne(Decoded(u), seg) /\ result[j] = RebaseOne(Decoded(w), seg)
        <3>1. Rebase # <<>>
            BY DEF Rebase
        <3> QED
            BY <3>1 DEF IInv, RebaseUtterances, Rebase
    <2> HIDE DEF u, w
    <2>5. /\ u.startMs.value \in Int /\ u.endMs.value \in Int /\ v.value \in Int
          /\ u.startMs.value > 0 /\ u.endMs.value > 0 /\ v.value > 0
        BY <2>0 DEF Usably, Int64
    <2> DEFINE from == seg.startMs + u.startMs.value
               to == seg.startMs + u.endMs.value
               next == seg.startMs + v.value
    <2>6. from \in Int64 /\ to \in Int64
        BY <2>0, <2>1, <2>2, <2>5 DEF Int64
    <2>7. /\ result[i].startMs = Clamp(from, seg.startMs, seg.endMs)
          /\ result[i].endMs = Greatest(result[i].startMs, Clamp(to, seg.startMs, seg.endMs))
        BY <2>0, <2>1, <2>4, <2>6, Rebased, OffsetIsExact
    <2>8. result[j].startMs = Clamp(next, seg.startMs, seg.endMs)
        BY <2>0, <2>1, <2>4, Rebased, OffsetIsExact
    <2>9. from \in Int /\ to \in Int /\ next \in Int /\ from <= to /\ to <= next
        BY <2>0, <2>2, <2>5
    <2> HIDE DEF from, to, next
    <2> QED
        BY <2>2, <2>7, <2>8, <2>9 DEF Clamp, Greatest, Least
<1> QED
    BY <1>1, Invariance, PTL

(* Where nothing overflows, the budget is the rate times the seconds begun.  *)
LEMMA SecondsBegun ==
    ASSUME NEW s, IsWindow(s), Length(s) + MsPerSecond - 1 \in Int64
    PROVE  LET secs == (Length(s) + MsPerSecond - 1) \div MsPerSecond
           IN  /\ Tokens(s) = TokensBase + TokensPerSecond * secs
               /\ secs \in Nat
               /\ Length(s) <= MsPerSecond * secs
               /\ MsPerSecond * secs <= Length(s) + MsPerSecond
               /\ secs <= Length(s) \div MsPerSecond + 1
<1> DEFINE k == MsPerSecond
           n == Length(s)
           secs == (n + k - 1) \div k
<1>1. k \in Nat \ {0} /\ n \in Nat \ {0}
    BY RateAssumption DEF IsWindow, Int64, Length
<1>2. Add64(s.endMs - s.startMs, k - 1) = n + k - 1
    <2>1. s.endMs - s.startMs + (k - 1) = n + k - 1
        BY <1>1, WindowInts DEF Length
    <2> QED
        BY <2>1, WrapExact DEF Add64, Int64
<1>3. /\ secs \in Nat /\ secs >= 1
      /\ n <= k * secs /\ k * secs <= n + k
      /\ secs <= n \div k + 1
    <2> HIDE DEF k, n
    <2>1. secs \in Int /\ n \div k \in Nat
        BY <1>1
    <2>2. k * secs <= n + k - 1 /\ n + k - 1 < k * secs + k
        BY <1>1
    <2>3. k * (n \div k) <= n /\ n < k * (n \div k) + k
        BY <1>1
    <2>4. secs >= 1
        BY <1>1
    <2>5. secs <= n \div k + 1
        BY <1>1
    <2> QED
        BY <1>1, <2>1, <2>2, <2>4, <2>5
<1>4. Tokens(s) = TokensBase + TokensPerSecond * secs
    <2>1. Greatest(secs, 1) = secs
        <3> HIDE DEF secs
        <3> QED
            BY <1>3 DEF Greatest
    <2> QED
        BY <1>2, <2>1 DEF Tokens
<1> QED
    BY <1>3, <1>4

(* The budget has the rate's share for all of the window, at every width and *)
(* rate: the cap cuts off a loop, not a transcript.                          *)
THEOREM BudgetEnough == Spec => []BudgetSuffices
<1>1. IInv => BudgetSuffices
    <2> SUFFICES ASSUME IInv, BudgetFits
                 PROVE  /\ TokensPerSecond * Length(seg) <= MsPerSecond * (budget - TokensBase)
                        /\ MsPerSecond * (budget - TokensBase)
                              <= TokensPerSecond * (Length(seg) + MsPerSecond)
        BY DEF BudgetSuffices
    <2> DEFINE k == MsPerSecond
               r == TokensPerSecond
               n == Length(seg)
               secs == (n + k - 1) \div k
    <2>1. IsWindow(seg)
        BY WindowsAssumption DEF IInv
    <2>2. /\ k \in Nat /\ r \in Nat /\ TokensBase \in Nat /\ n \in Nat
          /\ n \div k + 1 \in Nat
        BY <2>1, RateAssumption DEF IsWindow, Int64, Length
    <2>3. /\ Tokens(seg) = TokensBase + r * secs
          /\ secs \in Nat /\ n <= k * secs /\ k * secs <= n + k
          /\ secs <= n \div k + 1
        BY <2>1, SecondsBegun DEF BudgetFits
    <2>4. TokensBase + r * (n \div k + 1) <= Int32Max
        BY DEF BudgetFits
    <2>5. budget = Wrap(Tokens(seg), Int32Max)
        BY DEF IInv, MaxOutputTokens
    <2> HIDE DEF k, r, n, secs
    <2>6. \A a, b, c \in Nat : b <= c => a * b <= a * c /\ a * b \in Nat /\ a * c \in Nat
        OBVIOUS
    <2>7. r * secs \in Nat /\ r * secs <= r * (n \div k + 1) /\ r * (n \div k + 1) \in Nat
        BY <2>2, <2>3, <2>6
    <2>8. Tokens(seg) \in (-Int32Max - 1)..Int32Max
        BY <2>2, <2>3, <2>4, <2>7
    <2>9. budget = TokensBase + r * secs
        BY <2>3, <2>5, <2>8, WrapExact
    <2>10. budget - TokensBase = r * secs /\ k * (r * secs) = r * (k * secs)
        BY <2>2, <2>3, <2>7, <2>9
    <2>11. r * n <= r * (k * secs) /\ r * (k * secs) <= r * (n + k)
        <3>1. k * secs \in Nat /\ n + k \in Nat
            BY <2>2, <2>3, <2>6
        <3> QED
            BY <2>2, <2>3, <2>6, <3>1
    <2> QED
        BY <2>10, <2>11 DEF k, r, n
<1> QED
    BY <1>1, Invariance, PTL

=============================================================================
