----------------------------- MODULE AudioCapture ------------------------------
(***************************************************************************)
(* One source of audio of the desktop client, from the device to the file  *)
(* of the archive: samples are brought to 16 kHz, cut into frames, queued  *)
(* without ever blocking the device, drained by the ticks of a timer,      *)
(* which may overlap, and written where the time of the frame says.        *)
(*                                                                         *)
(* A sample is the index of the device's sample it is interpolated from,   *)
(* time is counted in samples of the device; a device that has nothing to  *)
(* play gives none.                                                        *)
(*                                                                         *)
(* Sources: Audio/CaptureSourceBase.cs, Audio/Pcm16Resampler.cs,           *)
(* Audio/Pcm16FrameEmitter.cs, Recording/CallArchiveWavWriter.cs,          *)
(* CaptureSessionController.cs.                                            *)
(***************************************************************************)
EXTENDS Integers, Sequences, FiniteSets

CONSTANTS
  MaxTime,   \* bound: samples of the device
  Blocks,    \* samples the device may give at a time
  StepNum, StepDen, \* samples of the device for one of 16 kHz
  FrameSize, \* samples of a frame
  QueueCap,  \* frames the queue holds
  DrainMax,  \* frames a tick takes
  PumpTicks  \* ticks that may be under way

ASSUME AudioBounds ==
  /\ MaxTime \in Nat /\ Blocks \subseteq Nat \ {0}
  /\ {StepNum, StepDen, FrameSize, QueueCap, DrainMax} \subseteq Nat \ {0}
  /\ IsFiniteSet(PumpTicks)

VARIABLES
  now,      \* time that has passed
  times,    \* the time of each sample the device has given
  tail,     \* _prevMonoTail: the last sample of the block before
  pos,      \* _fracPos, in parts of StepDen
  pending,  \* _pending
  seq,      \* _seq
  queue,    \* _queue
  dropped,  \* _framesDropped
  batch,    \* frames each tick has still to give to the sinks
  given,    \* frames given
  wav,      \* the scratch file of the source
  stopped

buffers == <<tail, pos, pending, seq, queue, dropped>>
audio == <<now, times, buffers, batch, given, wav, stopped>>

Silence == -1
Samples == 0 .. MaxTime - 1
Positions == 0 .. MaxTime * StepDen
Frames == [seq : Nat \ {0}, at : Nat, pcm : Seq(Samples)]

AudioTypeOK ==
  /\ now \in 0 .. MaxTime /\ times \in Seq(Samples) /\ tail \in Samples \cup {0} /\ pos \in Int
  /\ pending \in Seq(Samples) /\ Len(pending) < FrameSize
  /\ {seq, dropped, given} \subseteq Nat
  /\ queue \in Seq(Frames) /\ Len(queue) <= QueueCap
  /\ \A f \in {queue[i] : i \in DOMAIN queue} : Len(f.pcm) = FrameSize
  /\ batch \in [PumpTicks -> Seq(Frames)]
  /\ wav \in [Positions -> Samples \cup {Silence}] /\ stopped \in BOOLEAN

AudioInit ==
  /\ now = 0 /\ times = << >> /\ tail = 0 /\ pos = 0 /\ pending = << >> /\ seq = 0 /\ queue = << >> /\ dropped = 0
  /\ batch = [u \in PumpTicks |-> << >>] /\ given = 0 /\ wav = [p \in Positions |-> Silence]
  /\ stopped = FALSE

Fed == Len(times)

\* LinearResample: a sample of 16 kHz lies between two of the device; the one
\* before the block is the tail of the block before.
Low(k) == (pos + k * StepNum) \div StepDen
Reached(n) == Cardinality({k \in 0 .. n * StepDen : Low(k) + 1 < n})
Convert(n) == [k \in 1 .. Reached(n) |-> IF Low(k - 1) < 0 THEN tail ELSE Fed + Low(k - 1)]

BugCarry(n) == 0

\* The position is carried over, relative to the next block.
Carry(n) == pos + Reached(n) * StepNum - n * StepDen

\* Push and EmitOneLocked: frames are numbered and timed as they are cut.
Cut(all) ==
  [j \in 1 .. Len(all) \div FrameSize |->
     [seq |-> seq + j, at |-> (seq + j - 1) * FrameSize,
      pcm |-> SubSeq(all, (j - 1) * FrameSize + 1, j * FrameSize)]]
Rest(all) == SubSeq(all, (Len(all) \div FrameSize) * FrameSize + 1, Len(all))

Overflow(frames) == IF Len(frames) > QueueCap THEN Len(frames) - QueueCap ELSE 0

BugEnqueue(frames) ==
  /\ queue' = SubSeq(frames, Overflow(frames) + 1, Len(frames))
  /\ dropped' = IF Overflow(frames) > 0 THEN dropped + 1 ELSE dropped

\* The oldest frames make room.
Enqueue(frames) ==
  /\ queue' = SubSeq(frames, Overflow(frames) + 1, Len(frames))
  /\ dropped' = dropped + Overflow(frames)

\* OnDataAvailable
DataAvailable(n) ==
  /\ ~stopped /\ now + n <= MaxTime
  /\ LET all == pending \o Convert(n) IN
       /\ Enqueue(queue \o Cut(all))
       /\ seq' = seq + Len(Cut(all))
       /\ pending' = Rest(all)
  /\ pos' = Carry(n) /\ tail' = Fed + n - 1
  /\ now' = now + n /\ times' = times \o [i \in 1 .. n |-> now + i - 1]
  /\ UNCHANGED <<batch, given, wav, stopped>>

\* A loopback device gives no data while nothing is played.
Pause(n) ==
  /\ ~stopped /\ now + n <= MaxTime
  /\ now' = now + n
  /\ UNCHANGED <<times, buffers, batch, given, wav, stopped>>

Taken == IF Len(queue) < DrainMax THEN Len(queue) ELSE DrainMax

\* PumpAsync: a tick drains, then gives frame after frame.
PumpTakes(u) ==
  /\ ~stopped /\ batch[u] = << >> /\ queue # << >>
  /\ batch' = [batch EXCEPT ![u] = SubSeq(queue, 1, Taken)]
  /\ queue' = SubSeq(queue, Taken + 1, Len(queue))
  /\ UNCHANGED <<now, times, tail, pos, pending, seq, dropped, given, wav, stopped>>

\* Write: where the time of the frame says; a hole in the file reads as zero.
Written(f) == [p \in Positions |-> IF p \in f.at .. f.at + FrameSize - 1 THEN f.pcm[p - f.at + 1] ELSE wav[p]]

GiveFrame(u) ==
  /\ batch[u] # << >>
  /\ wav' = Written(Head(batch[u])) /\ given' = given + 1
  /\ batch' = [batch EXCEPT ![u] = Tail(@)]
  /\ UNCHANGED <<now, times, buffers, stopped>>

\* Stop and Reset: what is queued is let go of.
Stop ==
  /\ ~stopped /\ stopped' = TRUE
  /\ pending' = << >> /\ queue' = << >>
  /\ UNCHANGED <<now, times, tail, pos, seq, dropped, batch, given, wav>>

AudioNext ==
  \/ \E n \in Blocks : DataAvailable(n)
  \/ \E n \in Blocks : Pause(n)
  \/ \E u \in PumpTicks : PumpTakes(u)
  \/ \E u \in PumpTicks : GiveFrame(u)
  \/ Stop

AudioSpec == AudioInit /\ [][AudioNext]_audio

-----------------------------------------------------------------------------
(* Properties                                                              *)

\* A sample of the recording is where its number among those the device
\* has given says, or there is silence, whatever the sizes of blocks,
\* the frames dropped and the ticks that overlap.
AudioKeepsItsPlace == \A p \in Positions : wav[p] # Silence => wav[p] = (p * StepNum) \div StepDen

\* Plan of step 6: a time without frames is silence in the recording.
GapsAreSilence == \A p \in Positions : wav[p] # Silence => times[wav[p] + 1] = (p * StepNum) \div StepDen

\* The frames the ticks have still to give: each by its tick and its place.
InHand == {w \in PumpTicks \X (1 .. DrainMax) : w[2] <= Len(batch[w[1]])}

\* Every frame that was cut is on its way, was given, or is counted as
\* dropped, and it is the newest that wait.
LossIsCounted ==
  ~stopped =>
    /\ \A i \in DOMAIN queue : queue[i].seq = seq - Len(queue) + i
    /\ seq = dropped + given + Len(queue) + Cardinality(InHand)

\* What was captured is in the recording at its place or is known to be lost.
AudioIsTrue == AudioKeepsItsPlace /\ LossIsCounted
=============================================================================
