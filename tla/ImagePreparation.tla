---------------------------- MODULE ImagePreparation ----------------------------
(***************************************************************************)
(* How an image file becomes the frame of a mode: prepareImpl() and what it   *)
(* calls (src/image/image.cpp).  The sizes are the real ones; what libvips     *)
(* does with pixels is left out.  The file is anybody's, so what it contains    *)
(* is chosen when it is read.                                                *)
(***************************************************************************)
EXTENDS Integers, Sequences

CONSTANTS
  SourceSizes,    \* <<width, height>> of the images
  PngSizes,       \* sizes of PNG files
  PngLengths,     \* lengths their chunks declare
  Orientations,   \* values of an orientation tag
  Crops           \* [x, y, width, height] that may be asked for

(* Sizes and coordinates are unsigned.                                         *)
ASSUME ImageAssumption ==
  /\ SourceSizes \subseteq Nat \X Nat /\ PngSizes \cup PngLengths \subseteq Nat
  /\ Crops \subseteq [x : Nat, y : Nat, width : Nat, height : Nat]

VARIABLE image

NoCrop == [isGiven |-> FALSE]
NoImage == [place |-> "none"]
ImageInit == image = NoImage

(* defaultImageLoadLimits(); the bytes are counted when the file is opened.     *)
limits == [width |-> 16384, height |-> 16384, decodedPixels |-> 64000000, pages |-> 1,
           outputWidth |-> 4096, outputHeight |-> 4096]

Size(width, height) == [width |-> width, height |-> height]
turned(size) == Size(size.height, size.width)
largerOf(a, b) == IF a > b THEN a ELSE b
ceilDiv(a, b) == (a + b - 1) \div b

-----------------------------------------------------------------------------
(* Geometry.                                                                 *)

roundRatio(value, multiplier, divisor) == (value * multiplier + divisor \div 2) \div divisor
ceilRatio(value, multiplier, divisor) == ceilDiv(value * multiplier, divisor)

(* geometry(): the size that fits into or covers the target, and the margins.   *)
geometry(source, recipe) ==
  LET target == recipe.target
      isWide == source.width * target.height >= source.height * target.width
      size ==
        IF recipe.fit = "contain"
        THEN IF isWide
             THEN Size(target.width,
                       largerOf(1, roundRatio(source.height, target.width, source.width)))
             ELSE Size(largerOf(1, roundRatio(source.width, target.height, source.height)),
                       target.height)
        ELSE IF isWide
             THEN Size(ceilRatio(source.width, target.height, source.height), target.height)
             ELSE Size(target.width, ceilRatio(source.height, target.width, source.width))
  IN [size |-> size, left |-> (size.width - target.width) \div 2,
      top |-> (size.height - target.height) \div 2]

(* The largest factor at which a JPEG is still large enough to be reduced.      *)
largestFactor(source, recipe) ==
  LET desired == geometry(source, recipe).size
      enough == {factor \in {1, 2, 4, 8} :
                   /\ ceilDiv(source.width, factor) >= desired.width
                   /\ ceilDiv(source.height, factor) >= desired.height}
  IN IF enough = {} THEN 1 ELSE CHOOSE factor \in enough : \A f \in enough : f <= factor

shrinkUncropped(format, source, recipe) ==
  IF format # "jpeg" THEN 1 ELSE largestFactor(source, recipe)
jpegShrink(format, source, recipe) ==
  IF format # "jpeg" \/ recipe.crop # NoCrop THEN 1 ELSE largestFactor(source, recipe)

-----------------------------------------------------------------------------
RefuseImage == image' = [place |-> "refused"]

isAt(place) == image.place = place

(* validateRecipe()                                                          *)
BeginImage(width, height, fit, crop) ==
  /\ image = NoImage
  /\ IF \/ width = 0 \/ height = 0
        \/ width > limits.outputWidth \/ height > limits.outputHeight
        \/ crop # NoCrop /\ (crop.width = 0 \/ crop.height = 0)
     THEN RefuseImage
     ELSE image' = [place |-> "open",
                    recipe |-> [target |-> Size(width, height), fit |-> fit, crop |-> crop]]

(* openRegularFile() and detectFormat(): a regular file that is not too large,  *)
(* which libvips takes for a JPEG or a PNG.                                   *)
OpenImage ==
  /\ isAt("open")
  /\ \/ RefuseImage
     \/ image' = [place |-> "size", recipe |-> image.recipe, format |-> "jpeg"]
     \/ \E size \in PngSizes :
          image' = [place |-> "chunks", recipe |-> image.recipe, format |-> "png",
                    offset |-> 8, size |-> size]

(* rejectAnimatedPng(): one chunk on the way to the image data.                *)
ScanChunk ==
  /\ isAt("chunks")
  /\ LET left == image.size - image.offset IN
     IF left < 12 THEN RefuseImage
     ELSE \E length \in PngLengths, type \in {"acTL", "IDAT", "IEND", "other"} :
          IF length > left - 12 \/ type = "acTL" THEN RefuseImage
          ELSE IF type = "other" THEN image' = [image EXCEPT !.offset = @ + length + 12]
          ELSE image' = [place |-> "size", recipe |-> image.recipe, format |-> "png"]

(* readHeader(): the limits of the size.                                     *)
ReadSize ==
  /\ isAt("size")
  /\ \E source \in {Size(pair[1], pair[2]) : pair \in SourceSizes} :
       IF \/ source.width = 0 \/ source.height = 0
          \/ source.width > limits.width \/ source.height > limits.height
          \/ source.width * source.height > limits.decodedPixels
       THEN RefuseImage
       ELSE image' = [place |-> "pages", recipe |-> image.recipe, format |-> image.format,
                      source |-> source]

(* validatePages()                                                           *)
ReadPages ==
  /\ isAt("pages")
  /\ \E pages \in 0 .. 2, pageHeight \in {"absent", "whole", "half"} :
       IF pages < 1 \/ pages > limits.pages \/ pageHeight = "half"
       THEN RefuseImage ELSE image' = [image EXCEPT !.place = "orientation"]

(* readOrientation(): what EXIF says counts before libvips' own field; a text   *)
(* that is no number is as bad as a number that is no orientation.             *)
readOrientation(field, exif) == IF exif = 0 THEN field ELSE exif
swapsAxes(orientation) == orientation \in 5 .. 8

(* The orientation, and the bits of a sample, which must be 8 or 16.           *)
ReadOrientation ==
  /\ isAt("orientation")
  /\ \E field, exif \in Orientations, bits \in {8, 16, 32} :
       LET orientation == readOrientation(field, exif) IN
       IF orientation \notin 1 .. 8 \/ bits = 32 THEN RefuseImage
       ELSE image' = [place |-> "crop", recipe |-> image.recipe, format |-> image.format,
                      swaps |-> swapsAxes(orientation),
                      source |-> IF swapsAxes(orientation) THEN turned(image.source)
                                 ELSE image.source]

(* validateCrop(), in the image as it is seen.                                *)
ValidateCrop ==
  /\ isAt("crop")
  /\ LET crop == image.recipe.crop IN
     IF /\ crop # NoCrop
        /\ \/ crop.x > image.source.width \/ crop.y > image.source.height
           \/ crop.width > image.source.width - crop.x
           \/ crop.height > image.source.height - crop.y
     THEN RefuseImage ELSE image' = [image EXCEPT !.place = "load"]

(* The file is opened again, decoded at the factor, turned, and cut out.        *)
LoadImage ==
  /\ isAt("load")
  /\ \/ RefuseImage
     \/ LET factor == jpegShrink(image.format, image.source, image.recipe)
            stored == IF image.swaps THEN turned(image.source) ELSE image.source
            decoded == Size(ceilDiv(stored.width, factor), ceilDiv(stored.height, factor))
            seen == IF image.swaps THEN turned(decoded) ELSE decoded
            crop == image.recipe.crop
        IN image' = [place |-> "colour", recipe |-> image.recipe, source |-> image.source,
                     factor |-> factor, seen |-> seen,
                     cut |-> IF crop = NoCrop THEN seen ELSE Size(crop.width, crop.height)]

(* normaliseColour(): three channels of eight bits and an alpha channel.        *)
canNormalise(colourBands, isCmyk, profile) ==
  IF profile # "none" THEN profile = "valid"
  ELSE ~isCmyk /\ colourBands \in {1, 3}

NormaliseColour ==
  /\ isAt("colour")
  /\ \E colourBands \in 1 .. 4, isCmyk \in BOOLEAN, profile \in {"none", "valid", "invalid"} :
       IF canNormalise(colourBands, isCmyk, profile)
       THEN image' = [image EXCEPT !.place = "fit"] ELSE RefuseImage

(* applyFit(): resized, then set into the target or cut down to it.            *)
ApplyFit ==
  /\ isAt("fit")
  /\ LET fit == geometry(image.cut, image.recipe)
         target == image.recipe.target
         isContain == image.recipe.fit = "contain"
     IN image' = [place |-> "materialise", recipe |-> image.recipe, source |-> image.source,
                  factor |-> image.factor, seen |-> image.seen, cut |-> image.cut,
                  resized |-> fit.size, result |-> target,
                  left |-> IF isContain THEN (target.width - fit.size.width) \div 2 ELSE fit.left,
                  top |-> IF isContain THEN (target.height - fit.size.height) \div 2 ELSE fit.top]

(* materialise(): the pixels, or an error of the decoder.                      *)
Materialise ==
  /\ isAt("materialise")
  /\ \/ RefuseImage
     \/ /\ image.result = image.recipe.target
        /\ image' = [image EXCEPT !.place = "prepared"]

PrepareImage ==
  \/ OpenImage \/ ScanChunk \/ ReadSize \/ ReadPages \/ ReadOrientation \/ ValidateCrop
  \/ LoadImage \/ NormaliseColour \/ ApplyFit \/ Materialise
=============================================================================
