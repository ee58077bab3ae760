--------------------------- MODULE ColourConversion ---------------------------
(***************************************************************************)
(* RGB frames and the luma and colour-difference planes that Robot 36 and     *)
(* PD120 make of them: src/core/rgb8_frame.cpp, the conversions of robot_36   *)
(* and pd_120, and the planes of luma_chroma and paired_luma_chroma.  A frame  *)
(* is its dimensions and its pixels by index, a plane its values by index.     *)
(***************************************************************************)
EXTENDS Integers, Sequences

red(pixel) == pixel[1]
green(pixel) == pixel[2]
blue(pixel) == pixel[3]
isGrey(pixel) == red(pixel) = green(pixel) /\ green(pixel) = blue(pixel)

Frame(width, height, pixels) == [width |-> width, height |-> height, pixels |-> pixels]

(* Rgb8Frame: dimensions that are not zero, and as many pixels of three bytes.    *)
Pixels == (0 .. 255) \X (0 .. 255) \X (0 .. 255)
isFrame(frame) ==
  /\ frame.width \in Nat \ {0} /\ frame.height \in Nat \ {0}
  /\ frame.pixels \in [0 .. frame.width * frame.height - 1 -> Pixels]

pixel(frame, x, y) == frame.pixels[y * frame.width + x]

-----------------------------------------------------------------------------
(* The diagnostic pattern.                                                   *)

colourBars == <<<<255, 255, 255>>, <<255, 255, 0>>, <<0, 255, 255>>, <<0, 255, 0>>,
                <<255, 0, 255>>, <<255, 0, 0>>, <<0, 0, 255>>, <<0, 0, 0>>>>

scaleCoordinate(value, maximum) ==
  IF maximum = 0 THEN 0 ELSE ((value * 255 + maximum \div 2) \div maximum) % 256

basePatternPixel(x, y, width, height) ==
  LET quarter == height \div 4
      horizontal == scaleCoordinate(x, width - 1)
      light == (x \div 16 + y \div 16) % 2 = 0
  IN CASE y < quarter -> colourBars[(x * 8) \div width + 1]
       [] y >= quarter /\ y < 2 * quarter -> <<horizontal, horizontal, horizontal>>
       [] y >= 2 * quarter /\ y < 3 * quarter ->
            <<horizontal, scaleCoordinate(y - 2 * quarter, quarter - 1), 255 - horizontal>>
       [] OTHER -> IF light THEN <<224, 224, 224>> ELSE <<32, 32, 32>>

diagnosticPixel(x, y, width, height) ==
  LET corner == 12
      isLeft == x < corner
      isRight == x >= width - corner
      isTop == y < corner
      isBottom == y >= height - corner
      isMark == y % 32 = 0 /\ (x < 8 \/ x >= width - 8)
  IN CASE isLeft /\ isTop -> <<255, 0, 0>>
       [] isRight /\ isTop /\ ~isLeft -> <<0, 255, 0>>
       [] isLeft /\ isBottom /\ ~isTop -> <<0, 0, 255>>
       [] isRight /\ isBottom /\ ~isLeft /\ ~isTop -> <<255, 255, 255>>
       [] OTHER -> IF ~isMark THEN basePatternPixel(x, y, width, height)
                   ELSE IF (y \div 32) % 2 = 0 THEN <<255, 255, 255>> ELSE <<0, 0, 0>>

makeDiagnosticPattern(width, height) ==
  Frame(width, height, [index \in 0 .. width * height - 1 |->
                          diagnosticPixel(index % width, index \div width, width, height)])

-----------------------------------------------------------------------------
(* One pixel: weights of 1e-9, rounded down and held in a byte.  The weights   *)
(* are split at 1e-6 so that TLC's integers hold the same sum.               *)

lumaWeights == <<256772628, 504096642, 97899984>>
redDifferenceWeights == <<439186734, -367765524, -71421210>>
blueDifferenceWeights == <<-148213170, -290973564, 439186734>>

weighted(weights, source) ==
  weights[1] * red(source) + weights[2] * green(source) + weights[3] * blue(source)

convertComponent(source, weights, offset) ==
  LET fine == weighted([i \in 1 .. 3 |-> weights[i] % 1000], source)
      coarse == weighted([i \in 1 .. 3 |-> weights[i] \div 1000], source)
      value == (offset * 1000000 + coarse + fine \div 1000) \div 1000000
  IN IF value < 0 THEN 0 ELSE IF value > 255 THEN 255 ELSE value

convertLuma(source) == convertComponent(source, lumaWeights, 16)
convertBelowGrey(source) == convertComponent(source, redDifferenceWeights, 127)
convertRedDifference(source) == convertComponent(source, redDifferenceWeights, 128)
convertBlueDifference(source) == convertComponent(source, blueDifferenceWeights, 128)

-----------------------------------------------------------------------------
(* Planes.  4:2:0 halves the differences both ways, 4:4:0 between rows only.    *)

columnsPerSample(layout) == IF layout = "4:2:0" THEN 2 ELSE 1
hasEvenSize(layout, width, height) ==
  width % columnsPerSample(layout) = 0 /\ height % 2 = 0

convertDifference(source, plane) ==
  IF plane = "redDifference" THEN convertRedDifference(source) ELSE convertBlueDifference(source)

averageBlock(frame, layout, x, y, plane) ==
  LET value(dx, dy) == convertDifference(pixel(frame, x + dx, y + dy), plane)
      column(dx) == value(dx, 0) + value(dx, 1)
  IN IF columnsPerSample(layout) = 2 THEN (column(0) + column(1)) \div 4 ELSE column(0) \div 2

differences(frame, layout, plane) ==
  LET width == frame.width \div columnsPerSample(layout) IN
    [index \in 0 .. width * (frame.height \div 2) - 1 |->
       averageBlock(frame, layout, columnsPerSample(layout) * (index % width),
                    2 * (index \div width), plane)]

(* convertRobot36Colour(), convertPd120Colour()                               *)
convert(frame, layout) ==
  [luma |-> [index \in DOMAIN frame.pixels |-> convertLuma(frame.pixels[index])],
   redDifference |-> differences(frame, layout, "redDifference"),
   blueDifference |-> differences(frame, layout, "blueDifference")]

planeWidth(frame, layout, plane) ==
  IF plane = "luma" THEN frame.width ELSE frame.width \div columnsPerSample(layout)

(* What an encoder reads at (x, y) of a plane.                                *)
planeValue(planes, frame, layout, plane, x, y) ==
  planes[plane][y * planeWidth(frame, layout, plane) + x]
=============================================================================
