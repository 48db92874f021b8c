------------------------------ MODULE AudioPlayout ------------------------------
(***************************************************************************)
(* The playout of background music: the server's RTP stream and its RTCP    *)
(* reports, the receiver thread, the jitter buffer, the playout thread, the *)
(* output queue of the sound device, and the thread that stops them all.    *)
(* Time is a clock of ticks; a thread computes in no time and sleeps for    *)
(* one tick or until something arrives.                                     *)
(***************************************************************************)
EXTENDS RtpJitterBuffer

CONSTANTS
  Base,             \* first timestamp of each source, as a sequence
  FrameTime,        \* FRAME_MS, in ticks
  Target,           \* TARGET_PLAYOUT_FRAMES, in ticks
  PacketWait,       \* PACKET_WAIT_MS, in ticks
  CommonDelay,      \* commonPlayoutDelayMs
  Headroom,         \* RTCP_ENQUEUE_HEADROOM_MS
  Compensation,     \* audioDeviceCompensationMs
  StartupWait,      \* RTCP_STARTUP_WAIT_MS
  MaxDistance,      \* RTCP_MAX_DEADLINE_DISTANCE_MS
  IdleTimeout,      \* STREAM_IDLE_TIMEOUT_MS
  Offsets,          \* how far the clock of a report may be off
  MaxDelay,         \* ticks a packet may be under way
  MaxLosses,        \* bound: packets lost, in a row or not
  MaxReports,       \* bound: RTCP reports received
  MaxStopStream     \* bound: the last stream during which the program is stopped or
                    \* a write to the sound device fails, 0: never

ASSUME PlayoutAssumption ==
  /\ Base \in Seq(Timestamp) /\ Base # <<>>
  /\ FrameTime \in Nat \ {0} /\ Target \in Nat \ {0} /\ IdleTimeout \in Nat \ {0}
  /\ PacketWait \in Nat
  /\ CommonDelay \in Nat /\ Headroom \in Nat /\ Compensation \in Int
  /\ StartupWait \in Nat /\ MaxDistance \in Nat /\ Offsets \subseteq Int
  /\ MaxDelay \in Nat /\ MaxLosses \in Nat /\ MaxReports \in Nat
  /\ MaxStopStream \in Nat

VARIABLES
  clock,            \* ticks, modulo the time the timestamps take to wrap around
  stream,           \* the source that is being sent
  air,              \* packets under way
  losses,
  report,           \* offset in the fresh RTCP report of each source, if any; 0: the dialog's
  reports,          \* reports received
  bgmBuffer,
  quiet,            \* ticks since lastArrival, up to IdleTimeout
  queue,            \* ticks of sound in the output
  receiving,        \* does the receiver thread run?
  play,             \* the playout thread
  asleep,           \* it waits for time to pass
  pause,            \* ticks left of its sleep before it conceals a missing packet
  missed,           \* playoutDeadlineMisses > 0: the output was empty when it went on
  timingMode,
  arrivalFallbackGeneration,
  bgmDecoderGeneration,
  fellBack,         \* generations that were played by arrival time
  last,             \* the last frame written
  stop_requested,
  main

network == <<air, losses, report, reports>>
receiver == <<bgmBuffer, quiet, receiving>>
gap == <<pause, missed>>
timing == <<timingMode, arrivalFallbackGeneration, fellBack>>
vars == <<clock, stream, network, receiver, queue, play, asleep, timing,
          bgmDecoderGeneration, gap, last, stop_requested, main>>

Source == DOMAIN Base
Dialog == 0
Horizon == FrameTime * N

\* rtcpIdleQueueFrames
Least(a, b) == IF a < b THEN a ELSE b
Greatest(a, b) == IF a > b THEN a ELSE b
IdleQueue ==
  Least(Target, Greatest(FrameTime, CommonDelay - Headroom - Greatest(0, Compensation)))

Thread == [at : {"choose", "observe", "decode", "wait", "skip", "hold", "start", "next",
                 "packet", "write", "ended"},
           then : {"wait", "start", "write", "none"},
           timestamp : Timestamp, generation : Nat, source : Source \cup {0},
           delay : 0..MaxDelay, rtcp : BOOLEAN, offset : Int,
           real : BOOLEAN]

TypeOK ==
  /\ clock \in 0..(Horizon - 1)
  /\ stream \in Source
  /\ air \in SUBSET [source : Source, timestamp : Timestamp]
  /\ losses \in 0..MaxLosses /\ reports \in 0..MaxReports
  /\ report \in [Source \cup {Dialog} -> SUBSET Offsets]
  /\ IsBuffer(bgmBuffer) /\ quiet \in 0..IdleTimeout
  /\ queue \in 0..(Target + 2 * FrameTime)
  /\ pause \in 0..PacketWait /\ missed \in BOOLEAN
  /\ receiving \in BOOLEAN /\ play \in Thread /\ asleep \in BOOLEAN
  /\ timingMode \in {"waiting", "rtcp", "fallback"}
  /\ arrivalFallbackGeneration \in Nat /\ bgmDecoderGeneration \in Nat
  /\ fellBack \subseteq Nat
  /\ last \in [generation : Nat, timestamp : Timestamp]
  /\ stop_requested \in BOOLEAN /\ main \in {"running", "released"}

AtTop == [at |-> "choose", then |-> "none", timestamp |-> 0, generation |-> 0,
          source |-> 0, delay |-> 0, rtcp |-> FALSE, offset |-> 0, real |-> FALSE]

\* The dialog stream has been reported before the first music.
Init ==
  /\ clock = 0 /\ stream = 1 /\ air = {}
  /\ losses = 0 /\ reports = 0
  /\ \E offset \in Offsets :
       report = [s \in Source \cup {Dialog} |-> IF s = Dialog THEN {offset} ELSE {}]
  /\ bgmBuffer = EmptyBuffer /\ quiet = 0 /\ queue = IdleQueue
  /\ receiving = TRUE /\ play = AtTop /\ asleep = FALSE
  /\ pause = 0 /\ missed = FALSE
  /\ timingMode = "waiting" /\ arrivalFallbackGeneration = 0
  /\ bgmDecoderGeneration = 0 /\ fellBack = {}
  /\ last = [generation |-> 0, timestamp |-> 0]
  /\ stop_requested = FALSE /\ main = "running"

-----------------------------------------------------------------------------
(* The server, the network and the clock *)

\* The frame that source s sends at the beginning of a frame time.
SentAt(s, time) == [source |-> s, timestamp |-> ((time \div FrameTime) + Base[s]) % N]

\* Ticks since a frame was sent, negative if it has yet to be.
MediaAge(s, timestamp) ==
  SignedModulo(clock - FrameTime * ((timestamp - Base[s]) % N), Horizon)

\* The server goes on to its next stream.
NextStream ==
  /\ stream < Len(Base) /\ ~stop_requested
  /\ stream' = stream + 1
  /\ UNCHANGED <<clock, network, receiver, queue, play, asleep, timing,
                 bgmDecoderGeneration, gap, last, stop_requested, main>>

\* receiveRtcpStream and the report's age.  The dialog stream goes on all the time; a
\* stale report of it, like one with another offset, is no pair for the music's.
ReportArrives(s, offset) ==
  /\ reports < MaxReports /\ ~stop_requested
  /\ reports' = reports + 1
  /\ report' = [report EXCEPT ![s] = {offset}]
  /\ asleep' = FALSE
  /\ UNCHANGED <<clock, stream, air, losses, receiver, queue, play, timing,
                 bgmDecoderGeneration, gap, last, stop_requested, main>>

ReportGrowsStale(s) ==
  /\ report[s] # {} /\ ~stop_requested
  /\ report' = [report EXCEPT ![s] = {}]
  /\ UNCHANGED <<clock, stream, air, losses, reports, receiver, queue, play, asleep,
                 timing, bgmDecoderGeneration, gap, last, stop_requested, main>>

\* receiveStream
Deliver(packet) ==
  /\ packet \in air /\ ~stop_requested
  /\ air' = air \ {packet}
  /\ bgmBuffer' = Push(bgmBuffer, packet.source, packet.timestamp,
                       MediaAge(packet.source, packet.timestamp))
  /\ quiet' = 0 /\ asleep' = FALSE
  /\ UNCHANGED <<clock, stream, losses, report, reports, receiving, queue, play, timing,
                 bgmDecoderGeneration, gap, last, stop_requested, main>>

Lose(packet) ==
  /\ packet \in air /\ losses < MaxLosses /\ ~stop_requested
  /\ air' = air \ {packet} /\ losses' = losses + 1
  /\ UNCHANGED <<clock, stream, report, reports, receiver, queue, play, asleep, timing,
                 bgmDecoderGeneration, gap, last, stop_requested, main>>

ReceiverEnds ==
  /\ receiving /\ stop_requested
  /\ receiving' = FALSE
  /\ UNCHANGED <<clock, stream, network, bgmBuffer, quiet, queue, play, asleep, timing,
                 bgmDecoderGeneration, gap, last, stop_requested, main>>

\* No packet is under way for longer than MaxDelay, and no thread with work to do
\* sleeps through a tick: a stop takes no time.
Tick ==
  /\ asleep
  /\ ~stop_requested
  /\ \A packet \in air : MediaAge(packet.source, packet.timestamp) < MaxDelay
  /\ clock' = (clock + 1) % Horizon
  /\ air' = IF clock' % FrameTime = 0 THEN air \cup {SentAt(stream, clock')}
            ELSE air
  /\ queue' = Greatest(queue - 1, 0)
  /\ quiet' = Least(quiet + 1, IdleTimeout)
  /\ asleep' = FALSE /\ pause' = Greatest(pause - 1, 0)
  /\ UNCHANGED <<stream, losses, report, reports, bgmBuffer, receiving, play, timing,
                 bgmDecoderGeneration, missed, last, stop_requested, main>>

-----------------------------------------------------------------------------
(* The playout thread *)

Awake(at) == play.at = at /\ ~asleep

SameGeneration == bgmBuffer.generation = play.generation

\* AudioOutputKeepalive::refillSilence
Refilled == Greatest(queue, IdleQueue)

Compatible(s) ==
  report[s] # {} /\ report[s] = report[Dialog]

\* rtcpPresentationDeadlinePlausible
Plausible(offset, delay) ==
  /\ offset - delay <= MaxDistance
  /\ delay - offset <= MaxDistance

\* The frame that would start the generation, and when it arrived.
First == InitialTimestamp(bgmBuffer)
FirstDelay == bgmBuffer.frames[First]
FirstAge == MediaAge(bgmBuffer.source, First) - FirstDelay

LockedToFallback == bgmBuffer.generation = arrivalFallbackGeneration

MayUseRtcp ==
  /\ Compatible(bgmBuffer.source)
  /\ \A offset \in report[bgmBuffer.source] : Plausible(offset, FirstDelay)

UseRtcp == ~LockedToFallback /\ MayUseRtcp

\* Is there nothing to play, or still hope for a report?
KeepWaiting ==
  HasInitial(bgmBuffer) => ~LockedToFallback /\ ~UseRtcp /\ FirstAge < StartupWait

WaitForStream ==
  /\ Awake("choose") /\ ~stop_requested /\ KeepWaiting
  /\ timingMode' = "waiting" /\ queue' = Refilled
  /\ bgmBuffer' = WithoutConsumed(bgmBuffer)
  /\ asleep' = TRUE
  /\ UNCHANGED <<clock, stream, network, quiet, receiving, play,
                 arrivalFallbackGeneration, fellBack, bgmDecoderGeneration, gap, last,
                 stop_requested, main>>

\* The timing of a generation is chosen.
Choose ==
  /\ Awake("choose") /\ ~stop_requested /\ ~KeepWaiting
  /\ bgmBuffer' = WithoutConsumed(bgmBuffer)
  /\ LET chosen == [AtTop EXCEPT !.timestamp = First, !.source = bgmBuffer.source,
                                         !.generation = bgmBuffer.generation] IN
       \/ /\ UseRtcp
          /\ play' = [chosen EXCEPT !.at = "observe", !.then = "wait", !.rtcp = TRUE,
                                    !.offset = CHOOSE o \in report[bgmBuffer.source] : TRUE]
          /\ timingMode' = "waiting"
          /\ UNCHANGED <<arrivalFallbackGeneration, fellBack>>
       \/ /\ ~UseRtcp
          /\ play' = [chosen EXCEPT !.at = "hold", !.delay = FirstDelay]
          /\ timingMode' = "fallback"
          /\ arrivalFallbackGeneration' = bgmBuffer.generation
          /\ fellBack' = fellBack \cup {bgmBuffer.generation}
  /\ UNCHANGED <<clock, stream, network, quiet, receiving, queue, asleep,
                 bgmDecoderGeneration, gap, last, stop_requested, main>>

ToTop == play' = AtTop

\* decodeTimestamp, in two steps: the generation is read, the packet is taken.
ObserveGeneration ==
  /\ Awake("observe")
  /\ bgmDecoderGeneration' = bgmBuffer.generation
  /\ play' = [play EXCEPT !.at = "decode"]
  /\ UNCHANGED <<clock, stream, network, receiver, queue, asleep, timing, gap, last,
                 stop_requested, main>>

Decode ==
  /\ Awake("decode")
  /\ play' = [play EXCEPT !.at = play.then, !.then = "none",
                          !.real = Contains(bgmBuffer, play.timestamp)]
  /\ bgmBuffer' = Take(bgmBuffer, play.timestamp)
  /\ UNCHANGED <<clock, stream, network, quiet, receiving, queue, asleep, timing,
                 bgmDecoderGeneration, gap, last, stop_requested, main>>

\* Mutant of EnqueueIn: the sound that is queued is not taken into account.
EnqueueIgnoringQueue(queued) ==
  CommonDelay + play.offset - MediaAge(play.source, play.timestamp) - Compensation

\* RtcpPlayoutPlanner::plan and classifyRtcpEnqueue: ticks until the deadline for
\* putting the frame behind the sound that is queued.
EnqueueIn(queued) ==
  CommonDelay + play.offset - MediaAge(play.source, play.timestamp) - queued - Compensation

\* The generation that was chosen has gone, or everything stops.
GiveUpStart ==
  /\ Awake("wait") \/ Awake("hold")
  /\ stop_requested \/ ~SameGeneration
  /\ ToTop
  /\ UNCHANGED <<clock, stream, network, receiver, queue, asleep, timing,
                 bgmDecoderGeneration, gap, last, stop_requested, main>>

WaitForDeadline ==
  /\ Awake("wait") /\ ~stop_requested /\ SameGeneration
  /\ queue' = Refilled
  /\ \/ EnqueueIn(Refilled) > 0 /\ asleep' = TRUE /\ UNCHANGED <<play, timingMode>>
     \/ /\ EnqueueIn(Refilled) = 0
        /\ play' = [play EXCEPT !.at = "start"] /\ timingMode' = "rtcp"
        /\ UNCHANGED asleep
     \/ /\ EnqueueIn(Refilled) < 0
        /\ play' = [play EXCEPT !.at = "skip"] /\ UNCHANGED <<asleep, timingMode>>
  /\ UNCHANGED <<clock, stream, network, receiver, arrivalFallbackGeneration, fellBack,
                 bgmDecoderGeneration, gap, last, stop_requested, main>>

\* A frame whose deadline has passed is not started with.
SkipLateFrame ==
  /\ Awake("skip")
  /\ bgmBuffer' = DiscardBefore(bgmBuffer, After(play.timestamp))
  /\ ToTop
  /\ UNCHANGED <<clock, stream, network, quiet, receiving, queue, asleep, timing,
                 bgmDecoderGeneration, gap, last, stop_requested, main>>

\* Arrival time: one frame time after the packet came.
HoldFrame ==
  /\ Awake("hold") /\ ~stop_requested /\ SameGeneration
  /\ \/ /\ MediaAge(play.source, play.timestamp) - play.delay < FrameTime
        /\ queue' = Refilled /\ asleep' = TRUE /\ UNCHANGED play
     \/ /\ MediaAge(play.source, play.timestamp) - play.delay >= FrameTime
        /\ play' = [play EXCEPT !.at = "observe", !.then = "start", !.delay = 0]
        /\ UNCHANGED <<queue, asleep>>
  /\ UNCHANGED <<clock, stream, network, receiver, timing, bgmDecoderGeneration, gap, last,
                 stop_requested, main>>

\* The play frame goes to the output; older frames, or it and older ones, go.
Write(at, discarded) ==
  /\ Awake(at)
  /\ queue' = queue + FrameTime
  /\ last' = [generation |-> play.generation, timestamp |-> play.timestamp]
  /\ bgmBuffer' = DiscardBefore(bgmBuffer, discarded)
  /\ play' = [play EXCEPT !.at = "next", !.real = FALSE,
                          !.timestamp = After(play.timestamp)]
  /\ UNCHANGED <<clock, stream, network, quiet, receiving, asleep, timing,
                 bgmDecoderGeneration, gap, stop_requested, main>>

StartFrame == Write("start", play.timestamp)
WriteFrame == Write("write", After(play.timestamp))

\* Mutant of WaitForPacket: only as much is kept in the output as the sleep takes.
WaitToTheLast == queue > PacketWait /\ ~Contains(bgmBuffer, play.timestamp)

\* There is nothing to do while the output is full, or while the next packet is
\* missing and may still come.
OutputFull == queue >= Target
WaitForPacket == queue >= FrameTime /\ ~Contains(bgmBuffer, play.timestamp)

PlayingEnds == stop_requested \/ ~SameGeneration \/ quiet = IdleTimeout

\* The loop of a generation that is playing.  A packet that is missing when the output is
\* about to run out is given PACKET_WAIT_MS more.
NextFrame ==
  /\ Awake("next")
  /\ \/ PlayingEnds /\ ToTop /\ UNCHANGED <<asleep, pause>>
     \/ /\ ~PlayingEnds
        /\ OutputFull \/ WaitForPacket
        /\ asleep' = TRUE /\ UNCHANGED <<play, pause>>
     \/ /\ ~PlayingEnds /\ ~OutputFull /\ ~WaitForPacket
        /\ play' = [play EXCEPT !.at = "packet"]
        /\ pause' = IF Contains(bgmBuffer, play.timestamp) THEN 0 ELSE PacketWait
        /\ UNCHANGED asleep
  /\ UNCHANGED <<clock, stream, network, receiver, queue, timing, bgmDecoderGeneration,
                 missed, last, stop_requested, main>>

\* That sleep takes its time, whatever arrives.
SleepForPacket ==
  /\ Awake("packet") /\ pause > 0 /\ ~stop_requested
  /\ asleep' = TRUE
  /\ UNCHANGED <<clock, stream, network, receiver, queue, play, timing,
                 bgmDecoderGeneration, gap, last, stop_requested, main>>

\* An output that ran out in the meantime counts as a missed deadline.
MixFrame ==
  /\ Awake("packet") /\ (pause = 0 \/ stop_requested)
  /\ missed' = (missed \/ queue = 0)
  /\ play' = [play EXCEPT !.at = "observe", !.then = "write"]
  /\ UNCHANGED <<clock, stream, network, receiver, queue, asleep, timing,
                 bgmDecoderGeneration, pause, last, stop_requested, main>>

\* Wherever the thread writes to the output, that may fail.
WriteFails ==
  /\ stream <= MaxStopStream /\ ~asleep /\ ~stop_requested
  /\ \/ play.at = "choose" /\ KeepWaiting
     \/ play.at \in {"wait", "hold"} /\ SameGeneration
     \/ play.at \in {"start", "write"}

OutputFailure ==
  /\ WriteFails
  /\ stop_requested' = TRUE
  /\ play' = [AtTop EXCEPT !.at = "ended"]
  /\ UNCHANGED <<clock, stream, network, receiver, queue, asleep, timing,
                 bgmDecoderGeneration, gap, last, main>>

PlayoutEnds ==
  /\ Awake("choose") /\ stop_requested
  /\ play' = [AtTop EXCEPT !.at = "ended"]
  /\ UNCHANGED <<clock, stream, network, receiver, queue, asleep, timing,
                 bgmDecoderGeneration, gap, last, stop_requested, main>>

-----------------------------------------------------------------------------
(* The main thread.  What still arrives after a stop no longer matters. *)

shutdown ==
  /\ stream <= MaxStopStream /\ ~stop_requested
  /\ stop_requested' = TRUE /\ asleep' = FALSE
  /\ UNCHANGED <<clock, stream, network, receiver, queue, play, timing,
                 bgmDecoderGeneration, gap, last, main>>

\* joinWorkerThreads, then releaseResources
releaseResources ==
  /\ main = "running" /\ stop_requested /\ ~receiving /\ play.at = "ended"
  /\ main' = "released"
  /\ UNCHANGED <<clock, stream, network, receiver, queue, play, asleep, timing,
                 bgmDecoderGeneration, gap, last, stop_requested>>

Playout ==
  \/ WaitForStream \/ Choose \/ ObserveGeneration \/ Decode \/ GiveUpStart
  \/ WaitForDeadline \/ SkipLateFrame \/ HoldFrame \/ StartFrame \/ WriteFrame \/ NextFrame
  \/ SleepForPacket \/ MixFrame \/ PlayoutEnds

Network ==
  \/ \E packet \in air : Deliver(packet)
  \/ \E packet \in air : Lose(packet)
  \/ \E s \in Source \cup {Dialog}, offset \in Offsets : ReportArrives(s, offset)
  \/ \E s \in Source : ReportGrowsStale(s)

Next ==
  \/ NextStream \/ Network \/ Tick
  \/ Playout \/ OutputFailure \/ ReceiverEnds \/ shutdown \/ releaseResources

Spec == Init /\ [][Next]_vars

\* Time passes, packets arrive or are lost, the threads are scheduled.
FairSpec ==
  /\ Spec
  /\ WF_vars(Tick) /\ WF_vars(\E packet \in air : Deliver(packet) \/ Lose(packet))
  /\ WF_vars(Playout) /\ WF_vars(ReceiverEnds)
  /\ WF_vars(releaseResources)

-----------------------------------------------------------------------------
(* What the playout promises *)

Playing == play.at \in {"start", "next", "packet", "write"} \/ play.then = "write"

\* A frame of a generation with RTCP timing is presented at the time the reports
\* map it to, also after frames were lost or late
\* (audio-synchronization.md: the sample reaches the speaker at the deadline).
PresentedOnTime ==
  Playing /\ play.rtcp =>
    queue + Compensation
      = CommonDelay + play.offset - MediaAge(play.source, play.timestamp)

\* While a stream plays the output never runs dry: what is missing is waited for once more and
\* concealed in time, and no deadline miss is counted.
NeverDry == ~missed /\ (play.at # "ended" /\ ~asleep => queue > 0)

\* A generation that fell back to arrival time never changes to RTCP timing
\* (audio-synchronization.md), whatever reports arrive later and however often
\* its playout is interrupted.
NeverFallbackToRtcp == timingMode = "rtcp" => play.generation \notin fellBack

\* Within a generation sound never goes back: a frame is later than the one before.
NeverBack ==
  [][last' # last /\ last'.generation = last.generation
       => timestampPrecedes(last.timestamp, last'.timestamp)]_last

\* A stream that goes on is heard: its own frames, not only what conceals them.
HeardFrame == last' # last /\ play.real
KeepsBeingHeard == []<>stop_requested \/ []<><<HeardFrame>>_vars

\* A stop at any point ends every thread before what they use is released, and so does
\* the end of the playout thread after a write that failed.
StopEndsThreads == stop_requested \/ play.at = "ended" ~> main = "released"

\* A packet is decoded by a decoder that was reset for its generation.
DecodedInItsGeneration ==
  [][play.at = "decode" /\ play'.at # "decode" /\ play'.real
       => bgmDecoderGeneration = bgmBuffer.generation]_vars
=============================================================================
