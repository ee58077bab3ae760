----------------------------- MODULE ToneRendering -----------------------------
(***************************************************************************)
(* Tones become samples: ToneRenderer (src/core/tone_renderer.cpp) and the    *)
(* source of a live transmission that plays it with a gain                   *)
(* (createToneEventSampleSource() of src/app/rendered_transmit.cpp).          *)
(*                                                                         *)
(* A sample is the number of the event that it belongs to; its value, the     *)
(* phase, only decides the sound.  Amplitudes are in percent.                 *)
(***************************************************************************)
EXTENDS SampleTime, SequencesExt

CONSTANTS
  Melodies,      \* sequences of events that are rendered
  Scalars,       \* gain in dBFS -> the factor it stands for, in thousandths
  ReadSizes      \* frames asked for in one read

VARIABLE play    \* the source of samples

ToneEvent(duration, frequencyHz, amplitude) ==
  [duration |-> duration, frequencyHz |-> frequencyHz, amplitude |-> amplitude]

(* ToneEvent::ToneEvent() refuses every other one.                            *)
ToneEvents ==
  {event \in [duration : Durations, frequencyHz : Nat, amplitude : 0 .. 100] :
     event.duration.numerator > 0 /\ event.frequencyHz > 0}

ASSUME RenderingAssumption ==
  /\ Melodies \subseteq Seq(ToneEvents) \ {<<>>}
  /\ DOMAIN Scalars \subseteq Int /\ \A gain \in DOMAIN Scalars : Scalars[gain] \in Nat
  /\ ReadSizes \subseteq Nat \ {0}

supportedRates ==
  {8000, 11025, 16000, 22050, 32000, 44100, 48000, 88200, 96000, 176400, 192000}
isSupportedSampleRate(sampleRate) == sampleRate \in supportedRates

maximumTransmitSourceFrames == 28800000

-----------------------------------------------------------------------------
(* The renderer.                                                             *)

(* SampleBoundaryScheduler::advance(): the frame at which event i ends is      *)
(* rounded from the beginning, or, if each event were rounded, summed up.      *)
roundedFrames(events, sampleRate, i) ==
  FoldLeft(LAMBDA sum, event : sum + sampleCount(event.duration, sampleRate),
           0, SubSeq(events, 1, i))
endFrame(events, sampleRate, i) == sampleCount(durationUpTo(events, i), sampleRate)

(* The constructor, which throws at what it cannot render.                    *)
canRender(events, sampleRate) ==
  /\ events # <<>>
  /\ \A i \in DOMAIN events : 2 * events[i].frequencyHz < sampleRate
  /\ endFrame(events, sampleRate, Len(events)) > 0

ToneRenderer(events, sampleRate) ==
  [events |-> events, rate |-> sampleRate, index |-> 1, frame |-> 0,
   ends |-> [i \in DOMAIN events |-> endFrame(events, sampleRate, i)]]

frameCount(renderer) == renderer.ends[Len(renderer.ends)]
finished(renderer) == renderer.frame >= frameCount(renderer)

(* The event that is due at a frame, from the current one on.                  *)
eventAt(renderer, frame) ==
  CHOOSE i \in renderer.index .. Len(renderer.ends) :
    /\ frame < renderer.ends[i]
    /\ \A j \in renderer.index .. i - 1 : frame >= renderer.ends[j]

(* render(): what is written, of at most size frames, and the renderer then.    *)
rendered(renderer, size) ==
  LET left == frameCount(renderer) - renderer.frame
      count == IF size < left THEN size ELSE left
  IN [k \in 1 .. count |-> eventAt(renderer, renderer.frame + k - 1)]

afterRender(renderer, size) ==
  LET samples == rendered(renderer, size)
      isFull == Len(samples) = size
  IN [renderer EXCEPT !.frame = @ + Len(samples),
                      !.index = IF isFull THEN samples[size] ELSE Len(renderer.ends) + 1]

-----------------------------------------------------------------------------
(* The source of a live transmission.                                        *)

NoSource == [place |-> "none"]
PlayInit == play = NoSource

clips(events, scalar) == \E i \in DOMAIN events : events[i].amplitude * scalar > 100 * 1000
hasSignal(events) == \E i \in DOMAIN events : events[i].amplitude # 0
isLiveLength(frames) == frames \in 1 .. maximumTransmitSourceFrames

validateGain(decibels, events) ==
  /\ decibels \in -60 .. -6
  /\ Scalars[decibels] > 0 /\ ~clips(events, Scalars[decibels])

(* prepareLiveTransmitSnapshot()                                             *)
PrepareLive(events, sampleRate, decibels) ==
  /\ play = NoSource
  /\ IF /\ validateGain(decibels, events)
        /\ isLiveLength(sampleCount(durationOf(events), sampleRate))
     THEN play' = [place |-> "prepared", events |-> events, duration |-> durationOf(events),
                   sampleRate |-> sampleRate, scalar |-> Scalars[decibels]]
     ELSE play' = [place |-> "refused"]

(* createToneEventSampleSource()                                             *)
CreateSource ==
  /\ play.place = "prepared"
  /\ LET renderer == ToneRenderer(play.events, play.sampleRate) IN
     IF /\ isSupportedSampleRate(play.sampleRate)
        /\ play.scalar > 0 /\ ~clips(play.events, play.scalar)
        /\ durationOf(play.events) = play.duration
        /\ canRender(play.events, play.sampleRate)
        /\ isLiveLength(frameCount(renderer))
     THEN play' = [place |-> "playing", renderer |-> renderer,
                   facts |-> [sampleRate |-> play.sampleRate, hasSignal |-> hasSignal(play.events),
                              frameCount |-> frameCount(renderer)],
                   isCancelled |-> FALSE, asked |-> 0, samples |-> <<>>, read |-> <<>>]
     ELSE play' = [place |-> "refused"]

isExhausted == play.isCancelled \/ finished(play.renderer)

(* read(); samples are all that were read so far.                             *)
ReadSource(size) ==
  /\ play.place = "playing"
  /\ IF play.isCancelled
     THEN play' = [play EXCEPT !.asked = size, !.read = <<>>]
     ELSE LET samples == rendered(play.renderer, size) IN
            play' = [play EXCEPT !.asked = size, !.read = samples, !.samples = @ \o samples,
                                 !.renderer = afterRender(play.renderer, size)]

CancelSource ==
  /\ play.place = "playing" /\ ~play.isCancelled
  /\ play' = [play EXCEPT !.isCancelled = TRUE]

-----------------------------------------------------------------------------
(* Frame k of samples is heard at k / rate: not a whole frame before its event *)
(* begins, and not after it ends.                                            *)
isInTime(events, sampleRate, samples) ==
  \A k \in DOMAIN samples :
    LET begin == durationUpTo(events, samples[k] - 1)
        end == durationUpTo(events, samples[k])
    IN /\ k * begin.denominator > begin.numerator * sampleRate
       /\ k * end.denominator <= end.numerator * sampleRate
=============================================================================
