-------------------------- MODULE TransmissionEncoder --------------------------
(***************************************************************************)
(* What a transmission is made of: the registry of modes, their schedules,    *)
(* the VIS header, the FSK identifier, and encodeOfflineTransmission(), which  *)
(* appends the tones of a frame segment by segment (src/core/offline_tx.cpp,   *)
(* sequential_rgb.cpp, martin_m1, scottie_s1, robot_36, pd_120, vis, fsk_id).   *)
(*                                                                         *)
(* Dimensions, counts and durations are the real ones.  The values of a plane  *)
(* do not decide anything; one small frame is converted in place of the real.  *)
(***************************************************************************)
EXTENDS ColourConversion, SampleTime, FiniteSets, SequencesExt

CONSTANTS
  SampleFrames,  \* small frames that stand for the one that is converted
  Identifiers    \* texts given as FSK identifier, as sequences of characters

ASSUME EncodingAssumption ==
  /\ \A frame \in SampleFrames : isFrame(frame)
  /\ Identifiers \subseteq Seq(Nat)

VARIABLES
  tx,       \* the transmission that is being put together
  picture   \* the frame converted last and its planes, or NoPicture

NoIdentifier == <<>>
NoPicture == [layout |-> "none"]

-----------------------------------------------------------------------------
(* mode_registry.cpp                                                         *)

offlineTx == {"offlineTestPatternTx", "offlineImageTx", "offlineFskIdTx"}
Mode(width, height, visCode, layout) ==
  [width |-> width, height |-> height, visCode |-> visCode, layout |-> layout,
   capabilities |-> offlineTx]

modes ==
  [id \in {"martin-m1", "scottie-s1", "robot-36", "pd-120"} |->
     CASE id = "martin-m1" -> Mode(320, 256, 44, "rgb")
       [] id = "scottie-s1" -> Mode(320, 256, 60, "rgb")
       [] id = "robot-36" -> Mode(320, 240, 8, "4:2:0")
       [] id = "pd-120" -> Mode(640, 496, 95, "4:4:0")]

-----------------------------------------------------------------------------
(* Schedules: fixed tones and scans of a component of the picture.            *)

Fixed(microseconds) == [scan |-> "none", duration |-> fromMicroseconds(microseconds)]
Scan(component, microseconds) ==
  [scan |-> component, duration |-> fromMicroseconds(microseconds)]
isFixed(segment) == segment.scan = "none"

martinLine ==
  <<Fixed(4862), Fixed(572), Scan("green", 146432), Fixed(572), Scan("blue", 146432),
    Fixed(572), Scan("red", 146432), Fixed(572)>>
scottieLine ==
  <<Fixed(1500), Scan("green", 138240), Fixed(1500), Scan("blue", 138240), Fixed(9000),
    Fixed(1500), Scan("red", 138240)>>
robotLine(difference) ==
  <<Fixed(9000), Fixed(3000), Scan("luma", 88000), Fixed(4500), Fixed(1500),
    Scan(difference, 44000)>>
pdPair ==
  <<Fixed(20000), Fixed(2080), Scan("firstLuma", 121600), Scan("redDifference", 121600),
    Scan("blueDifference", 121600), Scan("secondLuma", 121600)>>

(* A pass is a line, or the two lines of a PD pair.                           *)
passes(id) == IF id = "pd-120" THEN modes[id].height \div 2 ELSE modes[id].height

schedule(id, pass) ==
  CASE id = "martin-m1" -> martinLine
    [] id = "scottie-s1" -> scottieLine
    [] id = "robot-36" -> robotLine(IF pass % 2 = 0 THEN "redDifference" ELSE "blueDifference")
    [] id = "pd-120" -> pdPair

isDifference(component) == component \in {"redDifference", "blueDifference"}

(* Where a scan reads: plane, row of the plane, values in a row.               *)
planeOf(component) == IF component \in {"firstLuma", "secondLuma"} THEN "luma" ELSE component
everyPass(id, component, pass) == pass
rowOf(id, component, pass) ==
  CASE component = "firstLuma" -> 2 * pass
    [] component = "secondLuma" -> 2 * pass + 1
    [] id = "robot-36" /\ isDifference(component) -> pass \div 2
    [] OTHER -> pass
sampleWidth(id, component) ==
  IF id = "robot-36" /\ isDifference(component) THEN modes[id].width \div 2 ELSE modes[id].width

planesOf(id) ==
  IF modes[id].layout = "rgb" THEN {"red", "green", "blue"}
  ELSE {"luma", "redDifference", "blueDifference"}
planeSize(id, plane) ==
  LET mode == modes[id] IN
    IF isDifference(plane)
    THEN (mode.width \div columnsPerSample(mode.layout)) * (mode.height \div 2)
    ELSE mode.width * mode.height

-----------------------------------------------------------------------------
(* The two headers, as the tones that carry a value.                          *)

bitsOf(code, count) == [i \in 1 .. count |-> (code \div 2 ^ (i - 1)) % 2 = 1]
isEven(bits) == Cardinality({i \in DOMAIN bits : bits[i]}) % 2 = 0
isOdd(bits) == Cardinality({i \in DOMAIN bits : bits[i]}) % 2 = 1

(* makeVisBits(): seven bits from the lowest, and parity.                      *)
makeVisBits(code) == LET bits == bitsOf(code, 7) IN Append(bits, isOdd(bits))

(* makeVisHeader(): leader, break, leader, start, the bits, stop.              *)
visEvents == 4 + 8 + 1
visDuration ==
  LET milliseconds == 300 + 10 + 300 + 30 + 8 * 30 + 30 IN fromMicroseconds(1000 * milliseconds)

(* validateFskIdentifier(): lower case becomes upper case.                     *)
upperCase(character) == IF character \in 97 .. 122 THEN character - 32 ELSE character
isSendable(text) ==
  /\ Len(text) \in 1 .. 9
  /\ \A i \in DOMAIN text : upperCase(text[i]) \in 32 .. 95
  /\ \E i \in DOMAIN text : text[i] # 32
normalised(text) == [i \in DOMAIN text |-> upperCase(text[i])]

headerCode == 42
endCode == 1
encodedCharacter(character) == character - 32

codeBits(text) == [i \in DOMAIN text |-> bitsOf(encodedCharacter(text[i]), 6)]
checksum(codes) ==
  [i \in 1 .. 6 |-> isOdd([j \in DOMAIN codes |-> codes[j][i]])]

(* generateFskIdSuffix(): leader, space, mark, the codes, mark.                *)
fskBits(identifier) ==
  FlattenSeq(<<bitsOf(headerCode, 6)>> \o codeBits(identifier)
               \o <<bitsOf(endCode, 6), checksum(codeBits(identifier))>>)
fskEvents(identifier) == 22 + 6 * Len(identifier)
fskDuration(identifier) ==
  plus(fromMicroseconds(300000 + 100000 + 22000 + 100000),
       times(fromMicroseconds(22000), Len(fskBits(identifier))))

-----------------------------------------------------------------------------
(* What the encoders reserve and publish.                                    *)

eventsOf(id, segment) == IF isFixed(segment) THEN 1 ELSE sampleWidth(id, segment.scan)
eventsUpTo(id, segments, count) ==
  LET sum[n \in 0 .. Len(segments)] ==
        IF n = 0 THEN 0 ELSE sum[n - 1] + eventsOf(id, segments[n])
  IN sum[count]
lineEventCount(id) == eventsUpTo(id, schedule(id, 0), Len(schedule(id, 0)))
reservedEvents(id) == visEvents + passes(id) * lineEventCount(id)

transmissionDuration(id) ==
  LET even == durationOf(schedule(id, 0))
      odd == durationOf(schedule(id, 1))
  IN plus(visDuration, plus(times(even, passes(id) - passes(id) \div 2),
                            times(odd, passes(id) \div 2)))

-----------------------------------------------------------------------------
NoTransmission ==
  [place |-> "none", mode |-> "none", identifier |-> NoIdentifier, pass |-> 0, segment |-> 1,
   events |-> 0, elapsed |-> NoTime, sent |-> <<>>, vis |-> <<>>, fsk |-> <<>>]

EncoderInit == tx = NoTransmission /\ picture = NoPicture

(* encodeBaseTransmission() up to its encoder.                                *)
BeginEncoding(id, capability, width, height, identifier) ==
  /\ tx.place = "none"
  /\ IF /\ id \in DOMAIN modes
        /\ capability \in modes[id].capabilities
        /\ width = modes[id].width /\ height = modes[id].height
     THEN tx' = [tx EXCEPT !.place = "header", !.mode = id, !.identifier = identifier,
                           !.sent = [plane \in planesOf(id) |-> 0]]
     ELSE tx' = [tx EXCEPT !.place = "refused"]
  /\ UNCHANGED picture

EncodeHeader ==
  /\ tx.place = "header"
  /\ tx' = [tx EXCEPT !.place = IF modes[tx.mode].layout = "rgb" THEN "lines" ELSE "convert",
                      !.events = visEvents, !.elapsed = visDuration,
                      !.vis = makeVisBits(modes[tx.mode].visCode)]
  /\ UNCHANGED picture

ConvertFrame ==
  /\ tx.place = "convert"
  /\ LET layout == modes[tx.mode].layout IN
     \E frame \in SampleFrames :
       /\ hasEvenSize(layout, frame.width, frame.height)
       /\ picture' = [layout |-> layout, frame |-> frame, planes |-> convert(frame, layout)]
  /\ tx' = [tx EXCEPT !.place = "lines"]

(* The next place of a scan in its plane, or -1 when it is not the next.       *)
afterScan(id, component, pass, sent) ==
  LET width == sampleWidth(id, component) IN
    IF rowOf(id, component, pass) * width = sent THEN sent + width ELSE -1

(* appendLineSchedule(), appendLine(), appendPair(): one segment.             *)
EncodeSegment ==
  /\ tx.place = "lines"
  /\ picture' = NoPicture
  /\ LET segments == schedule(tx.mode, tx.pass)
         segment == segments[tx.segment]
         isLast == tx.segment = Len(segments)
         count == eventsOf(tx.mode, segment)
         isOver == isLast /\ tx.pass + 1 = passes(tx.mode)
         next == [tx EXCEPT
           !.events = @ + count,
           !.elapsed = plus(@, times(dividedBy(segment.duration, count), count)),
           !.segment = IF isLast THEN 1 ELSE @ + 1,
           !.pass = IF isLast THEN @ + 1 ELSE @,
           !.place = IF isOver THEN "suffix" ELSE @]
     IN tx' = IF isFixed(segment) THEN next
              ELSE [next EXCEPT !.sent[planeOf(segment.scan)] =
                      afterScan(tx.mode, segment.scan, tx.pass, @)]

(* appendFskSuffix()                                                         *)
AppendFskSuffix ==
  /\ tx.place = "suffix"
  /\ tx' = IF tx.identifier = NoIdentifier THEN [tx EXCEPT !.place = "complete"]
           ELSE [tx EXCEPT !.place = "complete",
                           !.events = @ + fskEvents(tx.identifier),
                           !.elapsed = plus(@, fskDuration(tx.identifier)),
                           !.fsk = fskBits(tx.identifier)]
  /\ UNCHANGED picture

Encode == EncodeHeader \/ ConvertFrame \/ EncodeSegment \/ AppendFskSuffix

(* OfflineTransmission::duration                                             *)
publishedDuration(transmission) ==
  IF transmission.identifier = NoIdentifier THEN transmissionDuration(transmission.mode)
  ELSE plus(transmissionDuration(transmission.mode), fskDuration(transmission.identifier))
=============================================================================
