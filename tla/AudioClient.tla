------------------------------ MODULE AudioClient ------------------------------
(***************************************************************************)
(* The audio client of the host program from its start to its release: the  *)
(* steps that set it up, each of which may fail, its threads, the keepalive *)
(* of the playout thread and the ALSA output it writes to, one call of the  *)
(* sound library at a time.                                                *)
(*                                                                         *)
(* The device plays whenever it has been started and has sound; what it has *)
(* is counted in units of the time that one snd_pcm_wait takes.  AudioPlayout *)
(* tells which sound is written, and when.                                  *)
(***************************************************************************)
EXTENDS Naturals, Sequences, FiniteSets

CONSTANTS
  Hints,        \* the PCM devices that ALSA names: sequence of [name, output]
  Device,       \* deviceName, or "" for a device number
  DeviceNumber,
  HasRtcpPort,  \* port_ is not the last one
  Chunk,        \* FRAMES_PER_CHUNK
  Target,       \* TARGET_PLAYOUT_FRAMES
  IdleQueue,    \* rtcpIdleQueueFrames
  Buffer,       \* bufferFrames_: what the device grants, near what was asked for
  MaxWaits,     \* waitsRemaining
  Resumes,      \* does the hardware resume from a suspend where it was?
  MaxGaps       \* bound: how often the device runs dry or is suspended

ClientAssumption ==
  /\ {Chunk, Target, IdleQueue, Buffer, MaxWaits} \subseteq Nat \ {0}
  /\ MaxGaps \in Nat /\ DeviceNumber \in Nat /\ {HasRtcpPort, Resumes} \subseteq BOOLEAN

VARIABLES
  mon,            \* the monitoring thread of the subsystem
  main,           \* the client's main thread
  stop_requested,
  decoders, sockets,
  threads,        \* the threads that the main thread has started and that still run
  (* AlsaAudioOutput *)
  device,         \* the name it opened, "" while pcm_ is null
  pcm,            \* the state of the PCM
  resumes_to,     \* its state when it was suspended
  queued,
  started_, underruns_,
  (* the playout thread *)
  play,
  gaps            \* not of the program: how often the device was dry or suspended since it was cleared

client == <<mon, main, stop_requested, decoders, sockets>>
output == <<device, pcm, resumes_to, queued, started_, underruns_>>
vars   == <<client, threads, output, play, gaps>>

Streams == {"dialog", "bgm"}
Reports == {"dialog_rtcp", "bgm_rtcp"}
States  == {"none", "setup", "prepared", "running", "xrun", "suspended"}
Steps   == <<"device", "dialog_decoder", "bgm_decoder", "dialog", "bgm", "dialog_rtcp",
             "bgm_rtcp", "run">>

\* What the playout thread is at: more is what a refill has yet to write after this write.
NoWrite == [at |-> "clear", for |-> "start", left |-> 0, more |-> 0, waits |-> 0,
            recovered |-> FALSE]

Lesser(a, b) == IF a < b THEN a ELSE b

TypeOK ==
  /\ mon \in {"new", "running", "ended"}
  /\ main \in {"new", "join", "release", "ended"} \cup {Steps[i] : i \in DOMAIN Steps}
  /\ stop_requested \in BOOLEAN /\ decoders \subseteq Streams
  /\ sockets \subseteq Streams \cup Reports
  /\ threads \subseteq Streams \cup Reports \cup {"playout"}
  /\ pcm \in States /\ resumes_to \in States /\ queued \in 0..Buffer
  /\ started_ \in BOOLEAN /\ underruns_ \in Nat /\ gaps \in 0..MaxGaps
  /\ play \in [at : {"clear", "refill", "write", "restart", "start", "give_up", "loop"},
               for : {"start", "idle", "frame"}, left : 0..Chunk, more : 0..Target,
               waits : 0..MaxWaits, recovered : BOOLEAN]

Init ==
  /\ mon = "new" /\ main = "new" /\ stop_requested = FALSE
  /\ decoders = {} /\ sockets = {} /\ threads = {}
  /\ device = "" /\ pcm = "none" /\ resumes_to = "none" /\ queued = 0
  /\ started_ = FALSE /\ underruns_ = 0
  /\ play = NoWrite /\ gaps = 0

-----------------------------------------------------------------------------
(* The subsystem and the client's main thread *)

\* AudioSubsystem::run: the client's start, then the monitoring thread
Start ==
  /\ main = "new"
  /\ main' = "device" /\ mon' = "running" /\ stop_requested' = FALSE
  /\ UNCHANGED <<decoders, sockets, threads, output, play, gaps>>

\* AudioSubsystem::shutdown; the monitoring thread is joined before the client is told
MonitorEnds ==
  /\ mon = "running" /\ mon' = "ended"
  /\ UNCHANGED <<main, stop_requested, decoders, sockets, threads, output, play, gaps>>
Shutdown ==
  /\ mon = "ended" /\ ~stop_requested
  /\ stop_requested' = TRUE
  /\ UNCHANGED <<mon, main, decoders, sockets, threads, output, play, gaps>>

\* The outputs among the hints, each name once, behind the default one.
enumerateDevices ==
  LET Usable(i) == /\ Hints[i].output /\ Hints[i].name \notin {"null", "default"}
                   /\ \A j \in 1..(i - 1) : Hints[j].name = Hints[i].name => ~Hints[j].output
      usable == {i \in DOMAIN Hints : Usable(i)}
  IN <<"default">> \o
     [k \in 1..Cardinality(usable) |->
        Hints[CHOOSE i \in usable : Cardinality({j \in usable : j <= i}) = k].name]

Chosen ==
  IF Device # "" THEN Device
  ELSE enumerateDevices[IF DeviceNumber < Len(enumerateDevices) THEN DeviceNumber + 1 ELSE 1]

After(step) == Steps[(CHOOSE i \in DOMAIN Steps : Steps[i] = step) + 1]

AfterFailure == "release"

\* AlsaAudioOutput::open: it cannot be opened, or one of the settings fails and it is
\* closed again, or it is ready.
OpenDevice ==
  /\ main = "device"
  /\ \/ main' = AfterFailure /\ UNCHANGED output
     \/ /\ device' = Chosen /\ pcm' = "prepared" /\ queued' = 0
        /\ main' = After("device")
        /\ UNCHANGED <<resumes_to, started_, underruns_>>
  /\ UNCHANGED <<mon, stop_requested, decoders, sockets, threads, play, gaps>>

CreateDecoder(s) ==
  /\ main = (IF s = "dialog" THEN "dialog_decoder" ELSE "bgm_decoder")
  /\ \/ main' = AfterFailure /\ UNCHANGED decoders
     \/ main' = After(main) /\ decoders' = decoders \cup {s}
  /\ UNCHANGED <<mon, stop_requested, sockets, threads, output, play, gaps>>

\* openSocket closes what it could not set up.  The client does without RTCP.
openSocket(s) ==
  /\ main = s
  /\ \/ /\ s \in Streams \/ HasRtcpPort
        /\ sockets' = sockets \cup {s} /\ main' = After(s)
     \/ s \in Streams /\ main' = AfterFailure /\ UNCHANGED sockets
     \/ s \in Reports /\ main' = After(s) /\ UNCHANGED sockets
  /\ UNCHANGED <<mon, stop_requested, decoders, threads, output, play, gaps>>

WorkerThreads == Streams \cup (sockets \cap Reports) \cup {"playout"}

StartThreads ==
  /\ main = "run"
  /\ threads' = WorkerThreads /\ main' = "join"
  /\ UNCHANGED <<mon, stop_requested, decoders, sockets, output, play, gaps>>

\* joinWorkerThreads
Joined == threads = {}

\* The main thread watches the queue until it is stopped.
JoinThreads ==
  /\ main = "join" /\ stop_requested /\ Joined
  /\ main' = "release"
  /\ UNCHANGED <<mon, stop_requested, decoders, sockets, threads, output, play, gaps>>

releaseResources ==
  /\ main = "release"
  /\ device' = "" /\ pcm' = "none" /\ queued' = 0 /\ started_' = FALSE
  /\ sockets' = {} /\ decoders' = {} /\ main' = "ended"
  /\ UNCHANGED <<mon, stop_requested, threads, resumes_to, underruns_, play, gaps>>

\* receiveStream and receiveRtcpStream
ReceiverEnds(s) ==
  /\ s \in threads \ {"playout"} /\ stop_requested
  /\ threads' = threads \ {s}
  /\ UNCHANGED <<client, output, play, gaps>>

-----------------------------------------------------------------------------
(* The device and ALSA *)

\* Sound is played; when there is no more the device is dry.
Plays(units) ==
  LET rest == IF queued > units THEN queued - units ELSE 0
  IN /\ queued' = rest
     /\ rest > 0 \/ gaps < MaxGaps
     /\ pcm' = IF rest = 0 THEN "xrun" ELSE pcm
     /\ gaps' = IF rest = 0 THEN gaps + 1 ELSE gaps

Drain ==
  /\ pcm = "running" /\ Plays(1)
  /\ UNCHANGED <<client, threads, device, resumes_to, started_, underruns_, play>>

Suspend ==
  /\ pcm \in {"prepared", "running"} /\ gaps < MaxGaps
  /\ resumes_to' = pcm /\ pcm' = "suspended" /\ gaps' = gaps + 1
  /\ UNCHANGED <<client, threads, device, queued, started_, underruns_, play>>

\* snd_pcm_prepare, which may fail; what was in the buffer is gone.
Prepares == pcm' = "prepared" /\ queued' = 0

\* snd_pcm_recover: a device that was suspended resumes, or is prepared anew.
Recovers ==
  IF pcm = "suspended" /\ Resumes
  THEN pcm' = resumes_to /\ UNCHANGED queued
  ELSE Prepares

-----------------------------------------------------------------------------
(* The playout thread *)

Playing(at) == "playout" \in threads /\ play.at = at

\* queuedFrames: no delay can be told of a device that is dry or suspended.
queuedFrames == IF pcm \in {"prepared", "running"} THEN queued ELSE 0

Patience == MaxWaits

\* A write of n, with rest to follow
Writes(for, n, rest) ==
  play' = [at |-> "write", for |-> for, left |-> n, more |-> rest, waits |-> Patience,
           recovered |-> FALSE]

\* stopAndClear, which does not mind if the device cannot be prepared
StopAndClear ==
  /\ started_' = FALSE
  /\ Prepares \/ (pcm' = "setup" /\ queued' = 0)

\* AudioOutputKeepalive::start
ClearFirst ==
  /\ Playing("clear") /\ StopAndClear
  /\ play' = [play EXCEPT !.at = "refill"] /\ gaps' = 0
  /\ UNCHANGED <<client, threads, device, resumes_to, underruns_>>

Filled(for) == IF for = "start" THEN "start" ELSE "loop"

\* AudioOutputKeepalive::refillSilence, one chunk at a time
Refill ==
  LET missing == IdleQueue - queuedFrames
  IN /\ Playing("refill")
     /\ IF queuedFrames >= IdleQueue
        THEN play' = [play EXCEPT !.at = Filled(play.for)]
        ELSE Writes(play.for, Lesser(missing, Chunk), missing - Lesser(missing, Chunk))
     /\ UNCHANGED <<client, threads, output, gaps>>

\* snd_pcm_writei takes what there is room for.
WriteSome ==
  LET n == Lesser(play.left, Buffer - queued)
  IN /\ Playing("write") /\ play.left > 0 /\ pcm \in {"prepared", "running"} /\ n > 0
     /\ queued' = queued + n
     /\ play' = [play EXCEPT !.left = play.left - n]
     /\ UNCHANGED <<client, threads, device, pcm, resumes_to, started_, underruns_, gaps>>

\* -EAGAIN: the buffer is full.  A device that was started plays while it is waited for.
WaitForRoom ==
  /\ Playing("write") /\ play.left > 0 /\ play.waits > 0
  /\ pcm \in {"prepared", "running"} /\ queued = Buffer
  /\ play' = [play EXCEPT !.waits = play.waits - 1]
  /\ IF pcm = "running" THEN Plays(1) ELSE UNCHANGED <<pcm, queued, gaps>>
  /\ UNCHANGED <<client, threads, device, resumes_to, started_, underruns_>>

Gap == pcm \in {"xrun", "suspended"}

Counted == underruns_ + 1

\* -EPIPE and -ESTRPIPE
Recover ==
  /\ Playing("write") /\ play.left > 0 /\ Gap
  /\ underruns_' = Counted
  /\ Recovers /\ play' = [play EXCEPT !.recovered = TRUE]
  /\ UNCHANGED <<client, threads, device, resumes_to, started_, gaps>>

\* A device that was prepared anew does not start by itself.
NeedsRestart == play.recovered /\ started_

\* The end of a write, and the next one of the refill
WriteEnds ==
  LET n == Lesser(play.more, Chunk)
  IN /\ Playing("write") /\ play.left = 0
     /\ IF NeedsRestart THEN pcm = "prepared" /\ pcm' = "running" ELSE UNCHANGED pcm
     /\ IF n > 0 THEN Writes(play.for, n, play.more - n)
        ELSE play' = [play EXCEPT !.at = Filled(play.for), !.recovered = FALSE]
     /\ UNCHANGED <<client, threads, device, resumes_to, queued, started_, underruns_, gaps>>

\* A write fails: the device takes nothing and there is no more waiting, it is not
\* ready at all, it cannot be prepared again, or it cannot be started again.
WriteCanFail ==
  \/ play.left > 0 /\ pcm \in {"prepared", "running"} /\ queued = Buffer /\ play.waits = 0
  \/ play.left > 0 /\ pcm = "setup"
  \/ play.left > 0 /\ Gap
  \/ play.left = 0 /\ NeedsRestart /\ pcm # "prepared"

\* Mutant of StopsAll: the thread ends and tells nobody.
TellsNobody == UNCHANGED stop_requested
StopsAll == stop_requested' = TRUE

\* The keepalive gives up by clearing the device; then, or at once, the thread stops all.
WriteFails ==
  /\ Playing("write") /\ WriteCanFail
  /\ underruns_' = IF play.left > 0 /\ Gap THEN Counted ELSE underruns_
  /\ IF play.for = "start" THEN StopAndClear ELSE UNCHANGED <<pcm, queued, started_>>
  /\ StopsAll /\ threads' = threads \ {"playout"}
  /\ UNCHANGED <<mon, main, decoders, sockets, device, resumes_to, play, gaps>>

\* AlsaAudioOutput::start
StartOutput ==
  /\ Playing("start") /\ pcm = "prepared"
  /\ pcm' = "running" /\ started_' = TRUE
  /\ play' = [play EXCEPT !.at = "loop"]
  /\ UNCHANGED <<client, threads, device, resumes_to, queued, underruns_, gaps>>
StartFails ==
  /\ Playing("start") /\ pcm # "prepared" /\ StopAndClear
  /\ StopsAll /\ threads' = threads \ {"playout"}
  /\ UNCHANGED <<mon, main, decoders, sockets, device, resumes_to, underruns_, play, gaps>>

\* The thread keeps the output filled with silence, or with sound.
KeepAlive ==
  /\ Playing("loop") /\ ~stop_requested
  /\ play' = [play EXCEPT !.at = "refill", !.for = "idle"]
  /\ UNCHANGED <<client, threads, output, gaps>>
WriteFrame ==
  /\ Playing("loop") /\ ~stop_requested /\ queuedFrames < Target
  /\ Writes("frame", Chunk, 0)
  /\ UNCHANGED <<client, threads, output, gaps>>
PlayoutEnds ==
  /\ Playing("loop") /\ stop_requested
  /\ threads' = threads \ {"playout"}
  /\ UNCHANGED <<client, output, play, gaps>>

-----------------------------------------------------------------------------

Main ==
  \/ OpenDevice \/ StartThreads \/ JoinThreads \/ releaseResources
  \/ \E s \in Streams : CreateDecoder(s)
  \/ \E s \in Streams \cup Reports : openSocket(s)
Playout ==
  \/ ClearFirst \/ Refill \/ WriteSome \/ WaitForRoom \/ Recover \/ WriteEnds \/ WriteFails
  \/ StartOutput \/ StartFails \/ KeepAlive \/ WriteFrame \/ PlayoutEnds
Receivers == \E s \in Streams \cup Reports : ReceiverEnds(s)

Running == Main \/ Playout \/ Receivers
Next == Start \/ MonitorEnds \/ Shutdown \/ Running \/ Drain \/ Suspend

-----------------------------------------------------------------------------
(* What the client promises *)

\* What a thread uses is there as long as it runs.
UsedIsThere ==
  /\ "playout" \in threads => pcm # "none" /\ decoders = Streams
  /\ threads \ {"playout"} \subseteq sockets

\* However far it had come, a client that has ended keeps nothing.
NothingKept ==
  main = "ended" => threads = {} /\ sockets = {} /\ decoders = {} /\ pcm = "none"

\* Once the keepalive has started the output, it is never left prepared and waiting: after
\* each write that succeeded the device plays, or has stopped since.
NeverLeftStopped == Playing("loop") => pcm = "running" \/ Gap

\* Every gap that the device had is counted, once, when it is next written to.
GapsAreCounted == Playing("loop") /\ ~Gap => underruns_ = gaps

\* A write never gives up a device that could go on: the waits of one write are enough for
\* the device to play a whole frame, and what was recovered can be started.
NoNeedlessFailure ==
  Playing("write") /\ WriteCanFail => pcm \in {"setup", "xrun", "suspended"}

\* Sound returns after every gap, or the client ends and can be seen to have ended.
SoundReturns == Gap /\ "playout" \in threads ~> pcm = "running" \/ main = "ended"
=============================================================================
