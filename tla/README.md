# audio-service: models, checks and proofs

TLA+ modules of the audio service in `src/`, the TLC runs that check them on
small instances, and TLAPS proofs of the results that matter most for instances
of any size.  `PROJECT.json` maps every definition to the lines it models and
lists the runs, the mutants, the findings, the hazards and the theorems.

## 1. The system

A gRPC service with three RPCs over ffprobe, ffmpeg and Gemini.

| Part | State it keeps | Operations | What makes it correct |
|---|---|---|---|
| Worker pool, `internal/audioengine/engine.go` | the channel `sem` and its parked senders, the counter `active`, the flag `scavenging`, the scavenge goroutine | `acquire`, `releaseWorker`, `Hold` and its release, `endActive`, `scavenge` | at most `Workers` users; no slot, count or waiter lost; one scavenge at a time, only when nothing is in flight, and none missing |
| Engine operations, `probe.go`, `normalize.go`, `segment.go` | per call: a derived context, a child process, a temp file, an upload | `Probe`, `Normalize`, `SegmentCut` | everything is given back on every path; only a complete derivative is uploaded; content is condemned only on evidence |
| Handlers, `internal/server/server.go` | per call: the hold, the segment | the three RPCs | the status code says what happened; the hold covers the segment's life |
| Classifiers: `classifyProbeErr`, `mapEngineErr`, `mapTranscribeErr` | none | pure | terminal codes for bad input only |
| Transcription, `internal/transcribe` | none between calls | `Transcribe`, decoding, rebase | utterances lie in their window and keep what the model said; no blank success |
| `cappedBuffer` | bytes kept, overflow flag | `Write` | bounded memory, an overflow is noticed |
| Lifecycle, `cmd/audio-service/main.go` | the main goroutine, the signal goroutine and its channel, listener, gRPC server, health | boot, serve, `GracefulStop`, exit | only a crash or a broken listener cuts calls off; a stop that was asked for is no failure; a signal ends the process |
| Runtime tuning, `internal/runtimetune` | the runtime's GC percentage and soft memory limit | `Apply`, once at boot | the soft limit is the configured share of a limit the container states, or is left alone |
| Configuration, logging, wire API, build files | none at run time that another part reads | | |

**How they interact.**  A handler goroutine validates its request, calls the
engine and maps its error.  All engine operations meet in the pool: `acquire`
blocks on the channel, `releaseWorker` frees the slot in a defer.  A
TranscribeSegment also *holds* the engine from before the cut until after the
Gemini request, outside any slot.  Whoever brings the counter to zero starts a
goroutine that returns freed memory to the OS.

**What is hard.**  The channel operation and the counter update are separate
steps, in `acquire` and in `releaseWorker`; waiters give up while slots are handed
over; slots and holds end in any order; a context may end in any stage and a
child may fail after its context ended; a PUT's answer may be lost, and a PUT
its client gave up on may land on top of a retry's; a tool's stderr may hold markers
of two causes and is cut at a limit; numbers come from tools, cgroup files and a
language model and meet int32, int64 and floats; a stop runs beside the return of
`Serve`, and waits for streams and requests that nothing bounds.  Each of these is a hazard of `PROJECT.json`, at its line.

## 2. Modules

| Module | Models | State and actions |
|---|---|---|
| `WorkerPool` | the pool, one atomic operation of the Go program per step | `sem` is `len(e.sem)`, `waitq` the parked senders, `active` and `scavenging` the atomics, `pc[c]` where a handler goroutine stands; `unreclaimed` and `dropped` record history |
| `EngineContract` | what the pool promises: who is using it, what is in flight, when a scavenge is due | `Enter`, `Leave`, `Hold`, `Settle`, `Ask`, `Reclaimed`, `Ended`; no channel, queue or counter |
| `WorkerPoolProofs` | theorems about `WorkerPool` | the inductive invariant and its consequences |
| `WorkerPoolRefinement` | `WorkerPool` implements `EngineContract` | one lemma per kind of step |
| `StatusMap` | the classifiers, as pure operators | an error is the set of what `errors.Is`/`errors.As` find in its chain |
| `AudioService` | the three RPCs from request to reply | extends `EngineContract` (the pool) and `StatusMap`; one action per step of a handler or outcome of a tool, peer or context |
| `AudioServiceProofs` | theorems about `AudioService` | the inductive invariant: what a call holds, from the stage it is in |
| `ServiceContract` | what the service promises a caller: one reply per request, with a status that fits it and a word on silence that fits the input, and a derivative that is stored before the caller is told and stays | `request`, `patience`, `reply`, `flagged`, `stored`; `Request`, `GiveUp`, `Store`, `Answer`, `Forget`; no slot, child, file or engine context |
| `AudioServiceRefinement` | `AudioService` implements `ServiceContract` | one lemma per kind of step |
| `ToolOutput` | `cappedBuffer` and what Probe and SegmentCut make of what it kept | per pipe a record of limit, bytes kept, flag and, as history, all that was written; a child writes in pieces (`ChildWrites`), then one reader answers (`MetaRead`, `SilenceRead`, `CutRead`) or the child failed |
| `ToolOutputProofs` | theorems about `ToolOutput` | |
| `Transcribe` | one `Transcribe` call, the cut that precedes it, and the arithmetic of its result | the window, ffmpeg's seek and span, the token budget, the schema's offset bound, the reply, the result |
| `TranscribeProofs` | theorems about `Transcribe` | |
| `Lifecycle` | the process of `main.go`: boot, serve, signals, stop, crash, restart | `main` and `watcher` are the program counters of the two goroutines, `signalled` the channel `sig`, `quit` and `accepting` how far `GracefulStop` is, `call` the handler goroutines; `broken` records whether the listener failed of itself |
| `LifecycleProofs` | theorems about `Lifecycle` | |
| `RuntimeTune` | `internal/runtimetune` | one process: what it finds at boot, and the runtime's two settings before and after `Apply` |
| `RuntimeTuneProofs` | theorems about `RuntimeTune` | |
| `MC...` | the instances for TLC | |

`AudioService` does not repeat the channel: it is built from the contract's
actions, and the refinement proved in `WorkerPoolRefinement` says that the real
pool has no other behaviour.

**Choices in the models.**

- *The channel.*  `acquire` with a free slot takes it (`TakeSlot`); with none, the
  call parks (`Enqueue`).  A receive from a full channel with a parked sender puts
  that sender's element into the buffer within the same operation (`HandSlot`), as the
  Go runtime does, so `sem` stays full and the waiter owns the slot before it runs
  again.  A ready send and a done context may both be chosen (`GiveUp`).
- *Where a call may stop.*  `active.Add(1)` after the send and `active.Add(-1)`
  after the receive are steps of their own; so are the `CompareAndSwap`, the
  `FreeOSMemory` and the deferred `Store(false)`.
- *Tools.*  A child ends well, ends with an error of its own, or is killed when
  its context ends.  Its stderr is reduced to which kinds of marker it holds.
  Assumed of the tools, and external:
  - a fault on the way leaves a corruption marker only beside a transient one that the
    log still holds (`FaultMarkers`).  `TerminalOnlyForBadInput` rests on it, and says nothing of a
    fetch that breaks off and leaves, say, "moov atom not found" alone, nor of a
    marker behind the limit of the log (section 4);
  - a source that is not audio never ends well (`Runs`);
  - an ffmpeg that exits 0 has written the whole derivative or nothing (`Transcoded`): it does not
    exit 0 on a source that breaks off.  `StoredIsWhole` rests on it.
- *Contexts.*  `caller` is the RPC's context, `opctx` the `context.WithTimeout`
  derived after `acquire`.  A stage that reads `ctx.Err()` after a failed run sees an
  error that happened any time before.
- *Data.*  URLs, audio and text are left out; a request is one of the kinds of
  source the code can tell apart (`AllRequests`).  `undated` is audible audio that states no duration,
  `misdated` audible audio whose stated duration is short of its content, so that its pauses may add
  up to 99% of it: silencedetect's verdict compares the two (`MayPassForSilent`).
- *What the contract leaves open.*  Where the repository contradicts itself, or the code
  contradicts it, `ServiceContract` allows both answers, and a counterexample run tells which one
  the code gives: InvalidArgument or OK with a flag for a silent input, and a flag on audible audio without a true
  duration or none (`service_silence`), DeadlineExceeded or Internal for a Normalize that runs out
  of time (`service_deadline`).
- *gRPC.*  `Serve` after `GracefulStop` returns `ErrServerStopped`.  `GracefulStop`
  sets its quit event and closes the listeners (`Stop`), waits for `Serve` to let go of its own,
  tells open connections to go away (`GoAway`), until which calls still begin on them, and
  returns when none is left (`Stopped`).  In `Serve`, the error of Accept (`ListenerFails`,
  `ListenerClosed`), the look at the quit event that chooses nil or the error (`ServeChooses`), the
  deferred wait for a `GracefulStop` that has begun (`ServeFails`) and main's `os.Exit`
  (`ExitWithError`) are steps of their own: a signal may come between any two.  Of a
  call `Lifecycle` keeps only whether it is in the Gemini request, or is a `Watch` of the
  health service: the two that nothing in the process ends (`Unbounded`).
- *Storage.*  The Normalize calls of `AudioService` are tries of one upload, at one
  presigned URL, until the last of them is forgotten.  A PUT is stored whole or not at
  all (it states its `Content-Length`); one that its client gave up on stays in `late`
  until it lands, at any time.  `LatePuts` turns that fault off in the liveness runs,
  which the stored object does not concern.
- *Output.*  In `ToolOutput` an output is a sequence of units the readers can tell apart,
  a silence entry, a marker, or anything else, and limits count units.  Decoding the
  JSON is an outcome; the durations in it are optional numbers, in milliseconds.
  A duration beyond int64 converts to either end of the range, as amd64 and arm64 do.
- *Integers.*  `Transcribe`, `ToolOutput` and `RuntimeTune` keep the integer widths as
  constants; TLC uses a few bits, the proofs any width.  Go defines the wrap of sums
  (`Wrap`), and leaves the conversion of a float that does not fit to the machine
  (`Converted`, `ParseSecondsToMs`).  Float rounding, which begins at 2^53, is left out.

## 3. Runs

| Run | Instance | Shows |
|---|---|---|
| `pool` | 3 calls, 2 slots, fair | the safety properties of the pool, over every interleaving, and the refinement of `EngineContract`; nobody overtakes a parked call; every parked call gets out; a quiet engine gets its memory back unless a trigger was refused |
| `pool_steady` | 2 calls, 1 slot | counterexample: a scavenge starts amid steady work |
| `pool_linger` | 2 calls, 1 slot | counterexample: an idle engine keeps its last burst's memory |
| `service` | 2 calls, 1 slot, all requests, late PUTs | resources, stored object and codes, whatever fails, over any chain of retries; the refinement of `ServiceContract` |
| `service_live` | 2 calls, 1 slot, good input, fair | Probe and Normalize end although children, storage and Gemini hang |
| `service_hang` | as above | counterexample: TranscribeSegment does not |
| `service_deadline` | 2 calls, all requests | counterexample: a deadline in a transcode is reported as Internal |
| `service_silence` | 2 calls, Probes | counterexample: audible audio without a stated duration is called silent, and what is called silent is answered OK |
| `tool_output` | limits of 2 and 3 units, 4 written per pipe | metadata and segments come only from whole outputs; a silent verdict stands on detected silence, and misses some only behind an overflow; a blip within the limit prevents a rejection |
| `transcribe` | 8 and 11 bit integers | placement, exactness and separation of utterances, none lost; no blank success; a token budget that follows the window |
| `lifecycle` | 3 calls, any chain of processes, fair | a process that ends itself cuts calls off only for a broken listener; a stop is never taken for one once Serve has begun, at whichever step of its return the signal comes; a noticed signal ends the process unless Gemini requests or health Watches hang |
| `runtime_tune` | every environment, configuration and pair of files over boundary values | the soft limit is a share of a stated limit, or left alone |

**Bounds.**  Three calls are a user, a waiter and a waiter behind it; with two
slots, two users and a waiter.  More calls add longer queues but no new
situation, and the theorems cover them.  In `service` two calls against one slot
give waiting, giving up, overlap of a hold with another call's slot, and draining
while the other is anywhere; calls are otherwise independent.  A call that is done
may start again with any request, so behaviours are not bounded in length; no
counter needs a bound.  The windows and stamps of `transcribe` lie on both sides of every
comparison and at the limits of the integers.  Utterances are rebased one by one, so their optional
fields vary only in replies of one, the stamps in all pairs, and threes have a few
stamps; the theorems take replies of any length.  In `tool_output` a child writes at most
`MaxWritten` units in pieces of one or two, so a piece fits, just fits, straddles the limit or
meets a full buffer, and markers and silences lie on both sides of it.  In
`runtime_tune` ratios, limits and files lie on both sides of every comparison.

**Symmetry** is used in `service`, where no liveness is checked: its two properties, a
step property and the refinement of a contract without fairness, treat all calls alike.
**Deadlock** is checked except in `transcribe`, `tool_output` and `runtime_tune`, whose one
call or boot ends.

**Fairness.**  Goroutines keep running (weak fairness of a call's own steps).
Timers fire, and a child or a PUT whose context has ended ends, since
`exec.CommandContext` kills the one and `net/http` aborts the other.  In
`WorkerPool`, work in a slot ends, as `Probe`, `Normalize` and `SegmentCut` run under
`context.WithTimeout`.  In `AudioService`, a waiter in `acquire` gets a slot that becomes
free again and again (strong fairness): the channel's queue is first in, first out,
which `WaitersServed` checks in `WorkerPool`.  In `Lifecycle` the two goroutines keep
running, a listener that was closed fails its Accept, and a call that is in neither the Gemini
request nor a health Watch ends, as `EngineCallsEnd` checks for Probe and Normalize (the cut of a
TranscribeSegment has a timeout too).  Nothing is assumed of live children, of
storage, of Gemini or of callers: they may hang for ever.

## 4. What disagrees

The five counterexample runs each check what the repository says and the
code does not keep; `PROJECT.json` quotes them under "findings".

1. A steady stream of work can scavenge between any two calls: the releaser gives its slot back
   before it subtracts itself, the next call takes it (by its own send, or handed to it
   while parked) before it adds itself, and the releaser sees zero (`engine.go:143,156`).
2. A drain that finds the previous scavenge's flag still up is dropped and
   never made up for (`engine.go:187`), even when that scavenge already did its work.
3. `TRANSCRIBE_TIMEOUT` does not bound the Gemini request (`server.go:154`).  The
   call also keeps its hold, so no scavenge runs, and `GracefulStop` waits for it.
4. A transcode cut short by its context is Internal, not DeadlineExceeded
   (`normalize.go:90`).
5. A missing duration counts as zero length, so as silence (`probe.go:51`); so may a pause
   in audio whose stated duration is too short (`probe.go:143`).
6. Silent input, and one without length, is answered OK with a flag (`probe.go:52,58`), where
   `server.go:44-45`, `engine.go:44-46` and `README.md:50` say InvalidArgument: no code
   returns `ErrSilent`.  One run shows this and item 5: its trace is a Probe of undated audio
   that is answered OK and silent.

Smaller ones that have no run: a duration beyond int64 milliseconds becomes, on
amd64, a negative one, so silence (`probe.go:203`); an offset beyond 292 years in
milliseconds gives ffmpeg a negative seek (`segment.go:99`); a transient marker behind
the first 4 MiB of stderr does not protect an upload (`engine.go:231`), though `engine.go:226-229` and `README.md:59-61` say that a blip never rejects one,
nor does an overflow of silencedetect's log show (`probe.go:136`); an open health Watch keeps `GracefulStop`
waiting (`main.go:95,104`); an offset so large that the shift overflows int64 lands
at the window's start (`rebase.go:36`), while `transcribe_test.go:57` says of an offset
past the window "Clamp to end"; `lenientMs` takes a string that spells an integer
(`transcribe.go:288-292` says it does not); an utterance with both stamps inferred keeps
a reported confidence, though `transcribe.go:8-10` says -1 (`rebase.go:11-12` says
what the code does); the token budget wraps in int32 for a window of 621 days
(`transcribe.go:165`); "a key can be set without a restart" (`transcribe.go:25-27`),
yet the client is built once, at boot; a signal
between `Notify` and `Serve` ends in exit 1, since `Serve` then returns an error
(`main.go:104-110`).

## 5. Proofs

Checked by TLAPS for every finite set of calls, any number of workers, scavenging
on or off (`CallsAssumption`, `WorkersAssumption`, `ScavengeAssumption`), any set of
calls of `Lifecycle` and of `AudioService`, with any set of requests (`RequestsAssumption`),
any limits and any output of tools (`LimitsAssumption`, `PiecesAssumption`,
`DurationsAssumption`), any configuration and files (`ConfigAssumption`, `InputsAssumption`), and for every integer width, window and
token rate and any replies, of any length (`WidthAssumption`, `WindowsAssumption`,
`RateAssumption`, `TextsAssumption`).

**`WorkerPoolProofs`.**  None of the pool's invariants is inductive alone.  That
`sem` equals the number of slot holders needs the queue to hold exactly the
waiting calls, or a hand-over could give a slot to a call that is elsewhere; that
a freed slot never strands a waiter needs `sem` to be full while anybody waits;
that the counter stays natural needs it to equal the counted calls plus the holds.
`IInv` conjoins them with the single-flight invariant and with the fact that a held
call is never idle.  It is proved with one lemma per action (`BeginStep`,
`HandSlotStep`, ...), which rest on a few facts about sequences (`ListsWithout`: leaving
the queue keeps the others, once each) and about cardinalities (`CallSets`,
`Moves`: one call moving between two sets).  From it follow the theorems `TypeCorrect`,
`Slots`, `ActiveCount`, `NoStrandedWaiter`, `QueueOfWaiters`, `OneScavenge` and, as
step properties, `HoldsDefer` (a step that decides to scavenge leaves the counter at
zero, and holds are part of it) and `InOrder`.  The latter says that a call takes a slot only
when nobody else has been parked longer.  A hand-over goes to the head of the queue, and
whoever else is parked stands behind it (`HeadIsAhead`); a free slot is taken past nobody,
because by `NoIdleSlotWhileWaiting` none is free while anybody is parked (`TakenMeans`).
`OnlyRefusalLoses` adds `OnItsWay`: while memory is unreclaimed, either a call is in flight that will test the counter, or a scavenge is
about to run, or a trigger was refused.

**`WorkerPoolRefinement`.**  A call is "using" the engine from the step that counts
it in to the receive that gives its slot back.  Under that mapping the sends, the
parking and the hand-over are stutters, and every other step is one of the
contract's.  The bound on users comes from `SlotsAccounted`, the test for an empty
engine from `ActiveAccounted`.

**`TranscribeProofs`.**  A result is always the rebase of a usable reply, or there is
none (`IInv`).  `WrapInRange` makes an overflowing sum some integer, which is all the
clamps need for `Windowed`; `WrapExact` makes a sum that fits exact, from which
`Exact` and `Apart` follow.  A reply is any sequence of utterances: each is rebased at its
own index, so the theorems need no induction over it.

`HeardIsPlaced` says that what is heard at a place of the cut audio stands at that place of
the recording; it needs the window's nanoseconds to fit int64, and says so.  `BudgetEnough` says that the
token budget has the rate's share for all of a window, and a second more at most
(`SecondsBegun`: the code's division rounds up), for every window whose budget fits int32
(`BudgetFits`); what longer ones get is in section 4.

**`AudioServiceProofs`.**  No property of the RPCs is inductive alone.  `Sound` says of each
call, from the stage it is in, which method it can be (`Placed`), what it has of the pool
(`Pooled`) and of disk and memory (`Holding`), that a Normalize without an error
has stored (`Kept`), and that an error is only on its way out of the engine and blames content
only with cause (`Blamed`).  `Frame` shows that a step of one call leaves the others
sound, provided that a stored object stays; there is one lemma per action on top of it.
`EngineCodes` and `TranscribeCodes` say what the two switches of the server can answer, for
any error.  `Room`, the bound on users, comes from the contract that `WorkerPoolRefinement`
proves of the real pool.  From it follow `SlotsCover`, `Whole`, `OKStored`, `Terminal`,
`LeavesNothing` and, as a step property, `Deferred`.

**`AudioServiceRefinement`.**  A caller sees its request (`rpc`, `source`), its own context,
the code of a reply and its word on silence once it is sent, and the object at the destination.  Between the
request and the reply every step is a stutter, except a PUT that lands, in time or
late (`Store`), and the end of the caller's context (`GiveUp`).  Three things make
the mapping hold, and none follows from `IInv`.  `LateIsRemembered`: a PUT that its client
abandoned can only land while a Normalize of that upload is remembered.  `Fit`: what is on
its way to the caller fits the call, that is, an engine context is canceled only
if the caller's is, a refused request never reaches the engine, a stage behind a run that
ended well has audio, and each error on its way out maps to a status the contract
allows (`Allowed`).  `EngineAnswers` and `TranscribeAnswers` evaluate the two switches of
the server for each error the stages can produce.  `Heard`: what a call knows of silence, at each stage, fits its input,
and only a Probe says any.  `RepliesFit` proves the
invariant and `ServiceRefinement` the refinement; that a derivative is
stored before OK is said comes from `Kept` in the invariant of `AudioServiceProofs`.

**`ToolOutputProofs`.**  The buffer's invariant - a prefix is kept, the flag means
a loss and a loss means a full buffer - is kept by `Write` for any piece, and
the readers' properties follow from it.

**`RuntimeTuneProofs`.**  `Apply` leaves the limit or takes it from `Soft`, and what `Soft` can
hold is a share: the range check keeps every conversion exact.  `DefaultGOGC` is any integer: with `GOGC=off`
`debug.SetGCPercent` returns -1, which `Apply` reports as it is.

**`LifecycleProofs`.**  That an orderly end cuts no call off needs `Emptied` (once
`GracefulStop` has returned no call runs and none can begin), and that in turn
`Places`: what the flags say about where the two goroutines stand, among them that an error on its
way out of `Serve` is one of a broken listener.  Every way a process
ends goes through the one lemma `EndKeeps`.  From it follow `TypeCorrect`, `Orderly` and
`NoFailure`.

**Only model-checked:** all liveness (`WaitersServed`, `QuietReclaims`, `EngineCallsEnd`,
`SignalEnds`), which is beyond the prover.  Every safety property of a run that expects to pass is proved.

## 6. Not modelled, and the plan

1. `Lifecycle` over `AudioService`: a process that ends between a caller's tries, with the
   temp files it leaves behind (nothing removes them at the next start) and the
   late PUTs of its predecessor.
2. The caller's side of a retry: which codes it retries, from the code's comments only, so far.
3. What the code fence and the JSON of a reply do to a usable answer.

Left out for good: the text of messages and its redaction, logging and correlation
ids (nothing reads them), configuration parsing (a library's, with one prefix rule), generated
code, the prompt and the text of the response schema, channels, sample rate and codec
of a probe (copied fields), build files.
