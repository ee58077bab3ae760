------------------------------- MODULE OfflineJob -------------------------------
(***************************************************************************)
(* One piece of work from the picture to the file or the sound: what          *)
(* prepareOfflineEditor(), exportOfflineWav(), the commands of the command     *)
(* line and createLiveTransmitSource() make of the library.  A stage begins    *)
(* when the one before it has succeeded, and forgets what that one had.         *)
(* Where the work goes on is chosen when it matters, so that a stage that        *)
(* several programs have in common is explored once.                          *)
(***************************************************************************)
EXTENDS TransmissionEncoder, WavFile, ImagePreparation

CONSTANT SampleRates   \* rates that a user asks for

(* defaultWavInspectionLimits(): "Covers the longest current 192 kHz PCM16        *)
(* output".                                                                   *)
ASSUME OwnFilesFit ==
  \A events \in Melodies, sampleRate \in SampleRates :
    isSupportedSampleRate(sampleRate) /\ canRender(events, sampleRate) =>
      headerBytes + 2 * frameCount(ToneRenderer(events, sampleRate))
        <= InspectLimits.maximumInputBytes

VARIABLES
  stage,   \* what the work is at
  mode     \* the mode it is for

jobVars == <<stage, mode, tx, picture, play, wav, image>>
data == <<tx, picture, play, wav, image>>

Stages == {"choose", "image", "encode", "play", "write", "inspect", "over"}

OfflineJobInit ==
  /\ stage = "choose" /\ mode = "none"
  /\ EncoderInit /\ PlayInit /\ WavInit /\ ImageInit

Enter(next) ==
  /\ stage' = next
  /\ tx' = NoTransmission /\ picture' = NoPicture
  /\ play' = NoSource /\ wav' = NoWav /\ image' = NoImage
  /\ UNCHANGED mode

(* The mode is looked up first; PD50 stands for a name that is not registered.  *)
ChooseMode ==
  /\ stage = "choose"
  /\ \E id \in DOMAIN modes \cup {"pd-50"}, next \in {"image", "encode"} :
       /\ mode' = id
       /\ stage' = IF id \in DOMAIN modes THEN next ELSE "over"
  /\ UNCHANGED data

ChooseFile == stage = "choose" /\ Enter("inspect")

OfImage ==
  /\ stage = "image"
  /\ \/ \E fit \in {"contain", "cover"}, crop \in Crops \cup {NoCrop} :
          BeginImage(modes[mode].width, modes[mode].height, fit, crop)
     \/ PrepareImage
  /\ UNCHANGED <<stage, mode, tx, picture, play, wav>>

(* The frame has the size of the mode, be it a picture or the pattern.         *)
OfEncoder ==
  /\ stage = "encode"
  /\ \/ \E capability \in {"offlineTestPatternTx", "offlineImageTx"},
           text \in {t \in Identifiers : isSendable(t)} \cup {NoIdentifier} :
          BeginEncoding(mode, capability, modes[mode].width, modes[mode].height,
                        normalised(text))
     \/ Encode
  /\ UNCHANGED <<stage, mode, play, wav, image>>

OfSource ==
  /\ stage = "play"
  /\ \/ \E events \in Melodies, sampleRate \in SampleRates, decibels \in DOMAIN Scalars :
          PrepareLive(events, sampleRate, decibels)
     \/ CreateSource
     \/ \E size \in ReadSizes : ReadSource(size)
     \/ CancelSource
  /\ UNCHANGED <<stage, mode, tx, picture, wav, image>>

OfWav ==
  /\ \/ stage = "write" /\ \E events \in Melodies, sampleRate \in SampleRates :
                             BeginWav(events, sampleRate)
     \/ stage = "write" /\ WriteWav
     \/ stage = "inspect" /\ OpenForeign
     \/ Inspect
  /\ UNCHANGED <<stage, mode, tx, picture, play, image>>

(* What a stage has made is what the next one begins with, or the end.          *)
GoOn ==
  \/ image.place = "prepared" /\ \E next \in {"encode", "over"} : Enter(next)
  \/ tx.place = "complete" /\ \E next \in {"play", "write"} : Enter(next)
  \/ "refused" \in {image.place, tx.place, play.place, wav.place} /\ Enter("over")
  \/ wav.place = "accepted" /\ Enter("over")

OfflineJobNext == ChooseMode \/ ChooseFile \/ OfImage \/ OfEncoder \/ OfSource \/ OfWav \/ GoOn

OfflineJobSpec == OfflineJobInit /\ [][OfflineJobNext]_jobVars

-----------------------------------------------------------------------------
(* A transmission is whole: as many tones as were counted beforehand, as long   *)
(* as is published (which the source of a live transmission insists on), and     *)
(* every value of every plane sent once, row by row from the first to the last.  *)
EncodingIsComplete ==
  tx.place = "complete" =>
    /\ tx.events = reservedEvents(tx.mode)
         + (IF tx.identifier = NoIdentifier THEN 0 ELSE fskEvents(tx.identifier))
    /\ tx.elapsed = publishedDuration(tx)
    /\ \A plane \in planesOf(tx.mode) : tx.sent[plane] = planeSize(tx.mode, plane)

numberOf(bits) ==
  LET sum[n \in 0 .. Len(bits)] ==
        IF n = 0 THEN 0 ELSE sum[n - 1] + (IF bits[n] THEN 2 ^ (n - 1) ELSE 0)
  IN sum[Len(bits)]
ones(bits) == {i \in DOMAIN bits : bits[i]}
codesOf(bits) == [n \in 1 .. Len(bits) \div 6 |-> SubSeq(bits, 6 * n - 5, 6 * n)]

(* A receiver reads back what was sent: the code of the mode with even parity    *)
(* over all eight bits, and the identifier up to the end code with a checksum      *)
(* that makes every column of bits even.  An identifier with "!" is left out, the   *)
(* code of which is that of the end.                                            *)
HeadersReadBack ==
  tx.place = "complete" =>
    /\ Len(tx.vis) = 8 /\ numberOf(SubSeq(tx.vis, 1, 7)) = modes[tx.mode].visCode
    /\ Cardinality(ones(tx.vis)) % 2 = 0
    /\ tx.identifier # NoIdentifier /\ (\A k \in DOMAIN tx.identifier : tx.identifier[k] # 33) =>
         LET codes == codesOf(tx.fsk)
             values == [n \in DOMAIN codes |-> numberOf(codes[n])]
             end == CHOOSE n \in DOMAIN values :
                      values[n] = endCode /\ \A k \in 1 .. n - 1 : values[k] # endCode
         IN /\ Len(tx.fsk) = 6 * Len(codes) /\ end = Len(codes) - 1
            /\ values[1] = headerCode
            /\ [k \in 1 .. end - 2 |-> values[k + 1] + 32] = tx.identifier
            /\ \A i \in 1 .. 6 :
                 Cardinality({n \in 2 .. Len(codes) : n # end /\ codes[n][i]}) % 2 = 0

blockOf(frame, layout, x, y) ==
  {pixel(frame, columnsPerSample(layout) * x + dx, 2 * y + dy) :
     dx \in 0 .. columnsPerSample(layout) - 1, dy \in {0, 1}}

(* Colours stay in the studio range for every picture, grey has no colour, and a  *)
(* difference is where its block is and points to the colour that is there.       *)
ColoursAreLegal ==
  picture # NoPicture =>
    LET frame == picture.frame
        layout == picture.layout
        planes == picture.planes
        width == planeWidth(frame, layout, "redDifference")
        height == frame.height \div 2
        strays(block) == {p \in block : ~isGrey(p)}
    IN /\ DOMAIN planes.luma = 0 .. frame.width * frame.height - 1
       /\ \A i \in DOMAIN planes.luma : planes.luma[i] \in 16 .. 235
       /\ \A x \in 0 .. width - 1, y \in 0 .. height - 1 :
            LET block == blockOf(frame, layout, x, y)
                cr == planeValue(planes, frame, layout, "redDifference", x, y)
                cb == planeValue(planes, frame, layout, "blueDifference", x, y)
            IN /\ cr \in 16 .. 240 /\ cb \in 16 .. 240
               /\ strays(block) = {} => cr = 128 /\ cb = 128
               /\ strays(block) \in {{<<255, 0, 0>>}, {<<0, 255, 0>>}, {<<0, 0, 255>>}} =>
                    /\ cr > 128 <=> strays(block) = {<<255, 0, 0>>}
                    /\ cb > 128 <=> strays(block) = {<<0, 0, 255>>}

(* However the reads fall, no sample is a whole frame early or late, errors of   *)
(* rounding do not add up, a read comes back short only when there is nothing     *)
(* more to come, and all of the announced frames come unless it is cancelled.     *)
RendersInTime ==
  play.place = "playing" =>
    /\ isInTime(play.renderer.events, play.renderer.rate, play.samples)
    /\ Len(play.read) < play.asked => isExhausted
    /\ ~play.isCancelled /\ isExhausted => Len(play.samples) = play.facts.frameCount

isTiled(chunks, size) ==
  /\ chunks[1].offset = riffHeaderBytes
  /\ \A i \in DOMAIN chunks :
       LET end == chunks[i].offset + chunkHeaderBytes + chunks[i].size
           next == IF i = Len(chunks) THEN size ELSE chunks[i + 1].offset
       IN next = end + (end % 2)

withTag(chunks, tag) == {i \in DOMAIN chunks : chunks[i].tag = tag}

clippedOf(samples) == {k \in DOMAIN samples : samples[k] \in {-32768, 32767}}

(* What is accepted is a file from end to end: chunks without gaps or overlaps,  *)
(* one format, one body of whole samples, of which every sample was counted.       *)
(* What this program wrote is never refused, and found to be what was written.     *)
AcceptedFilesAreSound ==
  /\ wav.place = "refused" => wav.metadata = NoMetadata
  /\ wav.place = "accepted" =>
       LET values == samplesOf(wav.read) IN
       /\ isTiled(wav.chunks, wav.file.size)
       /\ Cardinality(withTag(wav.chunks, "fmt ")) = 1
       /\ Cardinality(withTag(wav.chunks, "data")) = 1
       /\ Len(wav.read) = inspectedFrames(wav) /\ 2 * Len(wav.read) = wav.data.size
       /\ {wav.minimum, wav.maximum} \subseteq values
       /\ \A value \in values : value \in wav.minimum .. wav.maximum
       /\ wav.peak = Max({wav.maximum, -wav.minimum})
       /\ wav.clippedPositive + wav.clippedNegative
            = Cardinality(clippedOf(wav.read))
       /\ isOwn => /\ wav.read = wav.file.samples
                   /\ wav.metadata = [sampleRate |-> wav.format.sampleRate,
                                      frameCount |-> inspectedFrames(wav)]

isWithin(size, outer) == size.width <= outer.width /\ size.height <= outer.height
distance(a, b) == IF a > b THEN a - b ELSE b - a

(* Whatever the image, its orientation, the crop and the fit: what is cut out     *)
(* lies in what was decoded, the picture lies in the frame or the frame in the      *)
(* picture, one side fills it, the shape is kept to within a pixel, and a JPEG       *)
(* that was decoded smaller is not enlarged again.                               *)
PreparedFrameFits ==
  image.place = "prepared" =>
    LET target == image.recipe.target
        crop == image.recipe.crop
        resized == image.resized
    IN /\ crop # NoCrop => /\ crop.x + crop.width <= image.seen.width
                           /\ crop.y + crop.height <= image.seen.height
       /\ resized.width = target.width \/ resized.height = target.height
       /\ image.recipe.fit = "contain" =>
            /\ isWithin(resized, target)
            /\ isWithin(Size(image.left + resized.width, image.top + resized.height), target)
       /\ image.recipe.fit = "cover" =>
            isWithin(Size(image.left + target.width, image.top + target.height), resized)
       /\ distance(resized.width * image.cut.height, resized.height * image.cut.width)
            <= largerOf(image.cut.width, image.cut.height)
       /\ image.factor > 1 => isWithin(resized, image.seen)
=============================================================================
