-------------------------------- MODULE WavFile --------------------------------
(***************************************************************************)
(* WAV files: what writePcm16WavAtomic() (src/core/wav_writer.cpp) puts into  *)
(* one, block by block, and what inspectPcm16Wav() (src/core/wav_inspector)    *)
(* finds in one of its own or of anybody else's.                             *)
(*                                                                         *)
(* A file is its size and its chunks, each at an offset.  Of a file that was   *)
(* written elsewhere the inspector reads every place once, so what is there is *)
(* chosen when it is read.  Statistics that need more than the extremes (sum,  *)
(* sum of squares, mean, RMS) are left out.                                  *)
(***************************************************************************)
EXTENDS ToneRendering, FiniteSets, FiniteSetsExt

CONSTANTS
  BlockFrames,    \* renderBlockFrames
  BlockBytes,     \* analysisBlockBytes
  Levels,         \* samples of the tones as fractions <<numerator, denominator>>
  ForeignSizes,   \* sizes of the files that others wrote
  ForeignChunks,  \* sizes their chunks declare
  ForeignFormats, \* contents of their fmt chunks
  ForeignSamples, \* samples in their data chunks
  InspectLimits   \* WavInspectionLimits

VARIABLE wav

PcmSamples == -32768 .. 32767

(* A fmt chunk of PCM: WavInspection and the fields next to them.              *)
WavFormats ==
  [audioFormat : Nat, channels : Nat, sampleRate : Nat, byteRate : Nat,
   blockAlignment : Nat, bitsPerSample : Nat]

ASSUME WavAssumption ==
  /\ BlockFrames \in Nat \ {0}
  /\ BlockBytes \in Nat \ {0} /\ BlockBytes % 2 = 0
  /\ Levels \subseteq Int \X (Nat \ {0})
  /\ ForeignSizes \subseteq Nat /\ ForeignChunks \subseteq Nat
  /\ ForeignFormats \subseteq WavFormats
  /\ ForeignSamples \subseteq PcmSamples
  /\ InspectLimits \in [maximumInputBytes : Nat, maximumUnknownChunkBytes : Nat,
                        maximumChunkCount : Nat \ {0, 1}]

NoWav == [place |-> "none"]
WavInit == wav = NoWav

(* WavMetadata of a file that was written here.                               *)
NoMetadata == [sampleRate |-> 0, frameCount |-> 0]
RefusedWav(metadata) == [place |-> "refused", metadata |-> metadata]

headerBytes == 44
riffHeaderBytes == 12
chunkHeaderBytes == 8
fmtBytes == 16
maximumFrames == 2147483629   \* (2^32 - 1 - 36) / 2

-----------------------------------------------------------------------------
(* The writer.                                                               *)

(* std::lround(): halves away from zero.                                     *)
rounded(numerator, denominator) ==
  IF numerator >= 0 THEN (2 * numerator + denominator) \div (2 * denominator)
  ELSE -((2 * (-numerator) + denominator) \div (2 * denominator))

floatToPcm16(level) ==
  LET numerator == level[1]
      denominator == level[2]
  IN CASE numerator <= -denominator -> -32768
       [] numerator >= denominator -> 32767
       [] OTHER -> rounded(numerator * (IF numerator < 0 THEN 32768 ELSE 32767), denominator)

pcmFormat(sampleRate) ==
  [audioFormat |-> 1, channels |-> 1, sampleRate |-> sampleRate, byteRate |-> 2 * sampleRate,
   blockAlignment |-> 2, bitsPerSample |-> 16]

(* wavHeader(): RIFF, its size, the format, and the size of the data.          *)
wavHeader(sampleRate, dataBytes) ==
  [declared |-> 36 + dataBytes, format |-> pcmFormat(sampleRate), dataBytes |-> dataBytes]

BeginWav(events, sampleRate) ==
  /\ wav = NoWav
  /\ IF isSupportedSampleRate(sampleRate) /\ canRender(events, sampleRate)
     THEN LET renderer == ToneRenderer(events, sampleRate) IN
          IF frameCount(renderer) > maximumFrames THEN wav' = RefusedWav(NoMetadata)
          ELSE wav' = [place |-> "write", renderer |-> renderer, samples |-> <<>>,
                       header |-> wavHeader(sampleRate, 2 * frameCount(renderer))]
     ELSE wav' = RefusedWav(NoMetadata)

(* A block is rendered, converted and written; the sine gives the levels.      *)
WriteBlock ==
  /\ wav.place = "write" /\ ~finished(wav.renderer)
  /\ \E levels \in [1 .. Len(rendered(wav.renderer, BlockFrames)) -> Levels] :
       wav' = [wav EXCEPT
         !.samples = @ \o [k \in DOMAIN levels |-> floatToPcm16(levels[k])],
         !.renderer = afterRender(wav.renderer, BlockFrames)]

ownFile ==
  [size |-> headerBytes + 2 * Len(wav.samples), header |-> wav.header, samples |-> wav.samples]

(* The file is published and the editor inspects it at once.                  *)
FinishWav ==
  /\ wav.place = "write" /\ finished(wav.renderer)
  /\ wav' = [place |-> "riff", file |-> ownFile,
             metadata |-> [sampleRate |-> wav.renderer.rate,
                           frameCount |-> frameCount(wav.renderer)]]

-----------------------------------------------------------------------------
(* The inspector.                                                            *)

isOwn == wav.metadata # NoMetadata
Refuse == wav' = RefusedWav(wav.metadata)

OpenForeign ==
  /\ wav = NoWav
  /\ \E size \in ForeignSizes :
       wav' = [place |-> "riff", file |-> [size |-> size], metadata |-> NoMetadata]

(* The first twelve bytes; a tag that is not RIFF and WAVE is one way to fail.  *)
ReadRiff ==
  /\ wav.place = "riff"
  /\ \/ ~isOwn /\ Refuse
     \/ LET size == wav.file.size IN
        \E declared \in IF isOwn THEN {wav.file.header.declared} ELSE {size - 8} :
          IF \/ size > InspectLimits.maximumInputBytes \/ size < riffHeaderBytes
             \/ declared + 8 # size
          THEN Refuse
          ELSE wav' = [place |-> "chunks", file |-> wav.file, metadata |-> wav.metadata,
                       offset |-> riffHeaderBytes, format |-> <<>>, data |-> <<>>,
                       chunks |-> <<>>]

Chunk(tag, offset, size, isPadded) ==
  [tag |-> tag, offset |-> offset, size |-> size, isPadded |-> isPadded]

(* What the header of the chunk at offset says, and whether its padding is zero. *)
chunksAt(offset) ==
  IF isOwn
  THEN {IF offset = riffHeaderBytes THEN Chunk("fmt ", offset, fmtBytes, TRUE)
        ELSE Chunk("data", offset, wav.file.header.dataBytes, TRUE)}
  ELSE [tag : {"fmt ", "data", "LIST"}, offset : {offset}, size : ForeignChunks,
        isPadded : BOOLEAN]

formatsAt(offset) == IF isOwn THEN {wav.file.header.format} ELSE ForeignFormats

nextUnpadded(chunk) == chunk.offset + chunkHeaderBytes + chunk.size
nextOffset(chunk) == nextUnpadded(chunk) + (chunk.size % 2)

isTaken(chunk) ==
  \/ chunk.tag = "fmt " /\ (wav.format # <<>> \/ chunk.size # fmtBytes)
  \/ chunk.tag = "data" /\ wav.data # <<>>
  \/ chunk.tag = "LIST" /\ chunk.size > InspectLimits.maximumUnknownChunkBytes

ReadChunk ==
  /\ wav.place = "chunks" /\ wav.offset < wav.file.size
  /\ IF \/ Len(wav.chunks) >= InspectLimits.maximumChunkCount
        \/ wav.file.size - wav.offset < chunkHeaderBytes
     THEN Refuse
     ELSE \E chunk \in chunksAt(wav.offset) :
          IF \/ nextOffset(chunk) > wav.file.size
             \/ chunk.size % 2 = 1 /\ ~chunk.isPadded
             \/ isTaken(chunk)
          THEN Refuse
          ELSE \E format \in IF chunk.tag = "fmt " THEN formatsAt(chunk.offset) ELSE {<<>>} :
               wav' = [wav EXCEPT
                 !.offset = nextOffset(chunk), !.chunks = Append(@, chunk),
                 !.format = IF chunk.tag = "fmt " THEN format ELSE @,
                 !.data = IF chunk.tag = "data" THEN chunk ELSE @]

validateFormat(format, data) ==
  /\ format.audioFormat = 1 /\ format.channels = 1 /\ format.bitsPerSample = 16
  /\ isSupportedSampleRate(format.sampleRate)
  /\ format.blockAlignment = 2 /\ format.byteRate = 2 * format.sampleRate
  /\ data.size > 0 /\ data.size % format.blockAlignment = 0

ChunksEnd ==
  /\ wav.place = "chunks" /\ wav.offset >= wav.file.size
  /\ IF wav.format # <<>> /\ wav.data # <<>> /\ validateFormat(wav.format, wav.data)
     THEN wav' = [place |-> "analyse", file |-> wav.file, metadata |-> wav.metadata,
                  format |-> wav.format, data |-> wav.data, chunks |-> wav.chunks,
                  remaining |-> wav.data.size, read |-> <<>>,
                  minimum |-> 32767, maximum |-> -32768, peak |-> 0,
                  clippedPositive |-> 0, clippedNegative |-> 0]
     ELSE Refuse

(* decodeSample() gives the sample that was written.                          *)
samplesAt(from, count) ==
  IF isOwn THEN {SubSeq(wav.file.samples, from + 1, from + count)}
  ELSE [1 .. count -> ForeignSamples]

magnitude(sample) == IF sample < 0 THEN -sample ELSE sample
occurrences(samples, value) == Cardinality({k \in DOMAIN samples : samples[k] = value})

samplesOf(samples) == {samples[k] : k \in DOMAIN samples}

(* analyseSamples(): one block.                                              *)
analysed(samples, bytes) ==
  LET values == samplesOf(samples) IN
  [wav EXCEPT
     !.remaining = @ - bytes, !.read = @ \o samples,
     !.minimum = Min(values \cup {@}), !.maximum = Max(values \cup {@}),
     !.peak = Max({magnitude(value) : value \in values} \cup {@}),
     !.clippedPositive = @ + occurrences(samples, 32767),
     !.clippedNegative = @ + occurrences(samples, -32768)]

AnalyseBlock ==
  /\ wav.place = "analyse" /\ wav.remaining > 0
  /\ LET bytes == IF wav.remaining < BlockBytes THEN wav.remaining ELSE BlockBytes IN
     \E samples \in samplesAt(Len(wav.read), bytes \div 2) : wav' = analysed(samples, bytes)

Accepted ==
  /\ wav.place = "analyse" /\ wav.remaining = 0
  /\ wav' = [wav EXCEPT !.place = "accepted"]

WriteWav == WriteBlock \/ FinishWav
Inspect == ReadRiff \/ ReadChunk \/ ChunksEnd \/ AnalyseBlock \/ Accepted

(* WavInspection::frameCount                                                 *)
inspectedFrames(inspection) == inspection.data.size \div inspection.format.blockAlignment
=============================================================================
