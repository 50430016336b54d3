---------------------------- MODULE ImageStream -----------------------------
(***************************************************************************)
(* One answer of the geostream server, from the rows its handler reads out *)
(* of the fifo to the images the viewer hands to its observers:            *)
(* GvarConverter::convert clips each row to the box of the request,        *)
(* BinImgStream or AsciiImgStream writes it, and StreamReaderThread reads  *)
(* it back through BinaryImageStream or AsciiImageStream, which look one   *)
(* tag (one line) ahead.                                                   *)
(*                                                                         *)
(* On the wire is a sequence of items, each with its tag.  The connection  *)
(* may break at any byte: what is left of the item it breaks is "half", a  *)
(* tag of which one byte came or a line that does not end, "bad", an item  *)
(* too short to be read, or, in text, a row with pixels missing, which     *)
(* reads as well as any other.  A pixel is known by the column the         *)
(* satellite saw it at.                                                    *)
(***************************************************************************)
EXTENDS Integers, Sequences, FiniteSets

CONSTANTS
  Rows,      \* the rows the handler reads from the fifo, in order
  XRes,      \* columns under a pixel, for each channel
  Requests   \* the requests asked

Box     == [x : Nat, y : Nat, width : Nat, height : Nat]
\* channelID is what the viewer takes every image of the stream for.
Request == [isChannelRequested : SUBSET DOMAIN XRes, channelID : DOMAIN XRes, bbox : Box,
            nodata : BOOLEAN, format : {"binary", "ascii"}]

\* The channels are finitely many: convert loops over NUM_OF_CHANNELS of them.
ASSUME ResolutionAssumption ==
  IsFiniteSet(DOMAIN XRes) /\ \A c \in DOMAIN XRes : XRes[c] \in Nat \ {0}
ASSUME RowsAssumption ==
  Rows \in Seq([f : Nat, c : DOMAIN XRes, x : Nat, y : Nat, w : Nat \ {0}])
ASSUME RequestsAssumption == Requests \subseteq Request
\* A frame has one row of a channel at a line, and frames come in order.
ASSUME ScanAssumption ==
  \A i, j \in DOMAIN Rows : i < j =>
     /\ Rows[i].f <= Rows[j].f
     /\ <<Rows[i].f, Rows[i].c, Rows[i].y>> # <<Rows[j].f, Rows[j].c, Rows[j].y>>

NoFrame == -1
Stray   == -1   \* what lies behind the pixels of a row
Missing == -2   \* a pixel that did not come: the array's zero
Garbled == -3   \* a number that lost its last digits

VARIABLES
  request,
  \* GvarConverter::convert
  server,       \* "header", "rows" or "done"
  pos,          \* rows read from the fifo
  prevFrameId,
  \* the connection
  link,         \* "open", "closed" by the server, or broken: "eof", "reset"
  wire,         \* items written and not yet read
  arriving,     \* history: the rows written, but for those the break lost
  \* StreamReaderThread and its image stream
  reader,       \* "look", "next" or "done"
  stage,        \* items to come: "RS", "CH" or "images"
  tag,          \* the tag read ahead
  basicImage,   \* <<>>, or the image nextImage is about to return
  told,         \* the frame of the last notifyFrameStarts
  images,       \* history: the images notified, each with the frame told before
  split,        \* history: one byte of a tag was taken for the end
  outcome       \* "none", "null image", "null" or "exception"

serverVars == <<server, pos, prevFrameId>>
readerVars == <<reader, stage, tag, basicImage, told, images, split, outcome>>
vars == <<request, serverVars, link, wire, arriving, readerVars>>

Init ==
  /\ request \in Requests
  /\ server = "header" /\ pos = 0 /\ prevFrameId = NoFrame
  /\ link = "open" /\ wire = <<>> /\ arriving = <<>>
  /\ reader = "look" /\ stage = "RS" /\ tag = "none"
  /\ basicImage = <<>> /\ told = NoFrame /\ images = <<>>
  /\ split = FALSE /\ outcome = "none"

Binary == request.format = "binary"

-----------------------------------------------------------------------------
(* GvarConverter::convert: the row clipped to the box *)

HasBox == request.bbox.width # 0 /\ request.bbox.height # 0

Left  == request.bbox.x
Right == request.bbox.x + request.bbox.width

InBox(row) == row.y \in request.bbox.y .. request.bbox.y + request.bbox.height - 1

FinalX(row) == IF HasBox /\ Left >= row.x THEN Left ELSE row.x

\* Columns are divided by the resolution on one side only, and one is added.
\* Rounding down, where C rounds to zero, differs for widths that send nothing.
FinalWidth(row) ==
  IF ~HasBox THEN row.w
  ELSE IF ~InBox(row) THEN 0
  ELSE IF row.x + row.w * XRes[row.c] > Right
    THEN (Right + 1 - FinalX(row)) \div XRes[row.c]
    ELSE row.x + row.w + 1 - FinalX(row)

\* Pixel k, from 0, of the array of a row.
Pixel(row, k) == IF k < row.w THEN row.x + k * XRes[row.c] ELSE Stray

\* Wrong on purpose: the pixels are counted in columns.
ClippedByColumns(row) ==
  [f |-> row.f, c |-> row.c, x |-> FinalX(row), y |-> row.y,
   v |-> IF request.nodata THEN <<>>
         ELSE [k \in 1 .. FinalWidth(row) |-> Pixel(row, FinalX(row) - row.x + k - 1)]]

\* The image a row is sent as: without pixels when no data is asked for.
Clipped(row) ==
  [f |-> row.f, c |-> row.c, x |-> FinalX(row), y |-> row.y,
   v |-> IF request.nodata THEN <<>>
         ELSE LET first == (FinalX(row) - row.x) \div XRes[row.c]
              IN  [k \in 1 .. FinalWidth(row) |-> Pixel(row, first + k - 1)]]

Wanted(row) == row.c \in request.isChannelRequested /\ FinalWidth(row) > 0

-----------------------------------------------------------------------------
(* The server's side *)

\* The image stream is created (RS), then the channels asked for (CH).
WriteHeader ==
  /\ server = "header" /\ link = "open" /\ reader # "done"
  /\ wire' = wire \o <<[tag |-> "RS"]>>
                  \o [i \in 1 .. Cardinality(request.isChannelRequested) |-> [tag |-> "CH"]]
  /\ server' = "rows"
  /\ UNCHANGED <<request, pos, prevFrameId, link, arriving, readerVars>>

\* Wrong on purpose: the first frame is not announced.
NewFrameAfterFirst(row) == prevFrameId # NoFrame /\ row.f # prevFrameId

NewFrame(row) == row.f # prevFrameId

\* One row from the fifo.  The frame definition in shared memory is the row's
\* or that of a frame the satellite has begun since.
WriteRow ==
  /\ server = "rows" /\ link = "open" /\ reader # "done"
  /\ pos < Len(Rows)
  /\ LET row == Rows[pos + 1]
         rw  == IF Wanted(row) THEN <<Clipped(row)>> ELSE <<>>
     IN  /\ \E i \in pos + 1 .. Len(Rows) :
              wire' = wire \o (IF NewFrame(row) THEN <<[tag |-> "FR", f |-> Rows[i].f]>>
                                                ELSE <<>>)
                           \o [k \in DOMAIN rw |-> [tag |-> "RW", image |-> rw[k]]]
         /\ arriving' = arriving \o rw
         /\ prevFrameId' = row.f
  /\ pos' = pos + 1
  /\ UNCHANGED <<request, server, link, readerVars>>

\* read() returns NULL (the handler was too slow), and the answer is complete.
FifoEnds ==
  /\ server = "rows"
  /\ server' = "done"
  /\ link' = IF link = "open" THEN "closed" ELSE link
  /\ UNCHANGED <<request, pos, prevFrameId, wire, arriving, readerVars>>

\* writeBuffer tells of a connection that is gone.
WriteFails ==
  /\ server # "done"
  /\ link # "open" \/ reader = "done"
  /\ server' = "done"
  /\ UNCHANGED <<request, pos, prevFrameId, link, wire, arriving, readerVars>>

-----------------------------------------------------------------------------
(* The connection breaks *)

\* A row of text that is cut at pixel p + 1, of which g is left.
CutAt(image, p, g) ==
  [image EXCEPT !.v = [k \in DOMAIN image.v |-> IF k <= p THEN image.v[k]
                                                ELSE IF k = p + 1 THEN g ELSE Missing]]

\* A row of text whose width lost its digits but for those of n.
NarrowTo(image, n) == [image EXCEPT !.v = [k \in 1 .. n |-> Missing]]

\* A row of text that lost its end, from the number of its width on.
Shortened(image) ==
  {CutAt(image, p, g) : p \in 0 .. Len(image.v) - 1, g \in {Missing, Garbled}}
  \union {NarrowTo(image, n) : n \in {Len(image.v) \div 10} \ {0}}

\* What may come of an item.  In text, the line the break cuts does not end with a
\* reset, and is read as it is when the stream just ends.
Broken(item, how) ==
  IF Binary THEN {<<>>, <<[tag |-> "half"]>>, <<[tag |-> "bad"]>>}
  ELSE IF how = "reset" THEN {<<>>, <<[tag |-> "half"]>>}
  ELSE {<<>>, <<[tag |-> "bad"]>>}
       \union IF item.tag = "RW"
              THEN {<<[tag |-> "RW", image |-> i]>> : i \in Shortened(item.image)}
              ELSE {<<item>>}

\* The item whose tag the reader has: a line that came, or a tag whose item may
\* still be cut.
TagTaken == reader = "next" /\ tag # "EOF" /\ wire # <<>>

\* Lines that the text reader has begun to read: it has read one byte past the last line
\* it took, which is not lost any more.
Begun == IF Binary \/ tag = "none" THEN 0 ELSE IF TagTaken THEN 2 ELSE 1

RowsIn(items) == {k \in DOMAIN items : items[k].tag = "RW"}

BreakAfter(n, how) ==
  /\ \E rest \in IF n = Len(wire) THEN {<<>>}
                 ELSE IF n = 0 /\ TagTaken THEN {<<[tag |-> "bad"]>>}
                 ELSE Broken(wire[n + 1], how) \ (IF n < Begun THEN {<<>>} ELSE {}) :
       wire' = SubSeq(wire, 1, n) \o rest
  /\ arriving' = SubSeq(arriving, 1, Len(arriving)
                          - Cardinality({k \in RowsIn(wire) : k > n}))

ConnectionBreaks ==
  /\ link \in {"open", "closed"} /\ reader # "done"
  /\ \E how \in {"eof", "reset"} :
       /\ link' = how
       /\ \E n \in (IF TagTaken /\ ~Binary THEN 1 ELSE 0) .. Len(wire) : BreakAfter(n, how)
  /\ UNCHANGED <<request, serverVars, readerVars>>

-----------------------------------------------------------------------------
(* The viewer's side: reading ahead *)

\* Wrong on purpose: the image is kept.
ReturnAgain ==
  /\ images' = images \o [k \in DOMAIN basicImage |-> [image |-> basicImage[k], told |-> told]]
  /\ basicImage' = basicImage

\* nextImage returns the image it has, and the reader notifies it.
Return ==
  /\ images' = images \o [k \in DOMAIN basicImage |-> [image |-> basicImage[k], told |-> told]]
  /\ basicImage' = <<>>

\* readLine comes back when it has read one byte past the line, or met the end there.
LineEnds == Len(wire) > 1 \/ link \in {"closed", "eof"}

\* A tag, or a line.
ReadAhead ==
  /\ reader = "look"
  /\ wire # <<>> /\ Head(wire).tag # "half"
  /\ Binary \/ LineEnds
  /\ tag' = Head(wire).tag
  /\ reader' = "next"
  /\ Return
  /\ UNCHANGED <<request, serverVars, link, wire, arriving, stage, told, split, outcome>>

\* readTag gets one byte where there should be two, because no more came or
\* because no more has come yet: "EOF" to it.
ReadHalfTag ==
  /\ reader = "look" /\ Binary
  /\ wire # <<>>
  /\ tag' = "EOF"
  /\ split' = (Head(wire).tag # "half")
  /\ reader' = "next"
  /\ Return
  /\ UNCHANGED <<request, serverVars, link, wire, arriving, stage, told, outcome>>

\* Wrong on purpose: the image read last is forgotten.
ReadEndForgets ==
  /\ reader = "look"
  /\ wire = <<>> /\ link # "open"
  /\ ~(Binary /\ link = "reset")
  /\ tag' = "EOF"
  /\ reader' = "next"
  /\ basicImage' = <<>>
  /\ UNCHANGED <<request, serverVars, link, wire, arriving, stage, told, images,
                 split, outcome>>

\* Nothing more comes.  The text reader takes an exception for the end, too.
ReadEnd ==
  /\ reader = "look"
  /\ wire = <<>> /\ link # "open"
  /\ ~(Binary /\ link = "reset")
  /\ tag' = "EOF"
  /\ reader' = "next"
  /\ Return
  /\ UNCHANGED <<request, serverVars, link, wire, arriving, stage, told, split, outcome>>

\* A reset meets the text reader in a line, or right behind one that came whole: the line
\* is dropped with the exception, which _readTokenLine takes for the end.
ReadBreaksOff ==
  /\ reader = "look" /\ ~Binary
  /\ Len(wire) = 1 /\ link = "reset"
  /\ tag' = "EOF"
  /\ reader' = "next"
  /\ Return
  /\ UNCHANGED <<request, serverVars, link, wire, arriving, stage, told, split, outcome>>

\* The exception leaves nextImage, and the row just read with it.
ReadAheadThrows ==
  /\ reader = "look" /\ Binary
  /\ wire = <<>> /\ link = "reset"
  /\ reader' = "done"
  /\ outcome' = "exception"
  /\ UNCHANGED <<request, serverVars, link, wire, arriving, stage, tag, basicImage,
                 told, images, split>>

-----------------------------------------------------------------------------
(* The viewer's side: startReading and nextImage *)

Has(t) == reader = "next" /\ tag = t /\ wire # <<>> /\ Head(wire).tag = t

ReadReferenceSpace ==
  /\ Has("RS") /\ stage = "RS"
  /\ wire' = Tail(wire)
  /\ stage' = "CH" /\ reader' = "look"
  /\ UNCHANGED <<request, serverVars, link, arriving, tag, basicImage, told, images,
                 split, outcome>>

SkipChannelDef ==
  /\ Has("CH") /\ stage = "CH"
  /\ wire' = Tail(wire)
  /\ reader' = "look"
  /\ UNCHANGED <<request, serverVars, link, arriving, stage, tag, basicImage, told,
                 images, split, outcome>>

ReadFrameDef ==
  /\ Has("FR") /\ stage # "RS"
  /\ wire' = Tail(wire)
  /\ told' = Head(wire).f
  /\ stage' = "images" /\ reader' = "look"
  /\ UNCHANGED <<request, serverVars, link, arriving, tag, basicImage, images,
                 split, outcome>>

\* The image of a row, of whatever channel: that of the stream.
OfStream(image) == [image EXCEPT !.c = request.channelID]

ReadRow ==
  /\ Has("RW") /\ stage # "RS"
  /\ wire' = Tail(wire)
  /\ basicImage' = <<OfStream(Head(wire).image)>>
  /\ stage' = "images" /\ reader' = "look"
  /\ UNCHANGED <<request, serverVars, link, arriving, tag, told, images, split, outcome>>

\* Wrong on purpose: the null image is returned for ever.
EndOfStreamAgain ==
  /\ reader = "next" /\ tag = "EOF" /\ stage # "RS"
  /\ outcome' = IF Binary THEN "none" ELSE "null"
  /\ reader' = IF Binary THEN "next" ELSE "done"
  /\ UNCHANGED <<request, serverVars, link, wire, arriving, stage, tag, basicImage,
                 told, images, split>>

\* The binary stream returns the null image, the text stream null: the thread
\* ends at either.
EndOfStream ==
  /\ reader = "next" /\ tag = "EOF" /\ stage # "RS"
  /\ outcome' = IF Binary THEN "null image" ELSE "null"
  /\ reader' = "done"
  /\ UNCHANGED <<request, serverVars, link, wire, arriving, stage, tag, basicImage,
                 told, images, split>>

Expected ==
  \/ Has("RS") /\ stage = "RS"
  \/ Has("CH") /\ stage = "CH"
  \/ (Has("FR") \/ Has("RW")) /\ stage # "RS"
  \/ tag = "EOF" /\ stage # "RS"

\* Wrong on purpose: the exception is not told.
UnexpectedUntold ==
  /\ reader = "next" /\ ~Expected
  /\ reader' = "done"
  /\ UNCHANGED <<request, serverVars, link, wire, arriving, stage, tag, basicImage,
                 told, images, split, outcome>>

\* Another item than those that may come, or an item that is cut.
Unexpected ==
  /\ reader = "next" /\ ~Expected
  /\ reader' = "done"
  /\ outcome' = "exception"
  /\ UNCHANGED <<request, serverVars, link, wire, arriving, stage, tag, basicImage,
                 told, images, split>>

-----------------------------------------------------------------------------
Server == WriteHeader \/ WriteRow \/ FifoEnds \/ WriteFails

Reader == \/ ReadAhead \/ ReadHalfTag \/ ReadEnd \/ ReadBreaksOff \/ ReadAheadThrows
          \/ ReadReferenceSpace \/ SkipChannelDef \/ ReadFrameDef \/ ReadRow
          \/ EndOfStream \/ Unexpected

Next == Server \/ ConnectionBreaks \/ Reader

\* The reader thread goes on as long as it has something to read.  Nothing makes
\* the server or the satellite go on.
Spec == Init /\ [][Next]_vars /\ WF_vars(Reader)

-----------------------------------------------------------------------------
(* Properties *)

Image == [f : Nat, c : DOMAIN XRes, x : Nat, y : Nat, v : Seq(Nat \union {Stray, Missing, Garbled})]
Item  == [tag : {"RS", "CH", "half", "bad"}] \union [tag : {"FR"}, f : Nat]
         \union [tag : {"RW"}, image : Image]

\* Types; the reader is done exactly when the observers have been told how it
\* ended, and an image is held only until the next tag is read.
TypeOK ==
  /\ request \in Requests
  /\ server \in {"header", "rows", "done"}
  /\ pos \in 0 .. Len(Rows) /\ prevFrameId \in Nat \union {NoFrame}
  /\ link \in {"open", "closed", "eof", "reset"}
  /\ wire \in Seq(Item) /\ arriving \in Seq(Image)
  /\ reader \in {"look", "next", "done"}
  /\ stage \in {"RS", "CH", "images"}
  /\ tag \in {"none", "RS", "CH", "FR", "RW", "bad", "EOF"}
  /\ basicImage \in Seq(Image) /\ Len(basicImage) <= 1
  /\ told \in Nat \union {NoFrame}
  /\ images \in Seq([image : Image, told : Nat \union {NoFrame}])
  /\ split \in BOOLEAN
  /\ outcome \in {"none", "null image", "null", "exception"}
  /\ reader = "done" <=> outcome # "none"
  /\ reader = "next" => basicImage = <<>>

\* The observers get the rows that were sent, each once, whole and in order, all as rows of
\* the channel of the stream.
\* Only text that ends in the middle of a row passes on one image more, with
\* pixels that the satellite did not see (AsciiImageStream.nextImage takes the
\* tokens there are).
ImagesAreRowsSent ==
  /\ \A i \in DOMAIN images : i <= Len(arriving) => images[i].image = OfStream(arriving[i])
  /\ Len(images) > Len(arriving) =>
       ~Binary /\ link = "eof" /\ Len(images) = Len(arriving) + 1

\* A reader that ends has passed on every row that came whole, unless it took half a tag
\* for the end of the stream, but for the last one: an exception costs the observers the
\* row that waited for the tag that follows, and a reset, which text readers take for the
\* end, the line it met them behind.
LastRowLostAtMost ==
  reader = "done" /\ ~split =>
    Len(images) >= Len(arriving) - (IF outcome = "exception" \/ (~Binary /\ link = "reset")
                                    THEN 1 ELSE 0)

\* The row of the satellite an image was made of.
Source(image) == CHOOSE row \in {Rows[i] : i \in DOMAIN Rows} :
                   <<row.f, row.c, row.y>> = <<image.f, image.c, image.y>>

\* Clipping to a box keeps pixels where they are: the pixel an image shows at a
\* column is the one over that column, and only an image's last pixel may be
\* none of the row's.  At full resolution no column of the box is missing.  (On
\* the other channels columns are: a width in columns is taken for one in
\* pixels.)
PixelsInPlace ==
  \A i \in DOMAIN arriving :
    LET image == arriving[i]
        row   == Source(image)
        res   == XRes[image.c]
    IN  /\ \A k \in DOMAIN image.v :
             LET column == image.x + (k - 1) * res
             IN  IF image.v[k] = Stray THEN k = Len(image.v) /\ column + res > row.x + row.w * res
                 ELSE image.v[k] <= column /\ column < image.v[k] + res
        /\ res = 1 /\ ~request.nodata =>
             \A column \in row.x .. row.x + row.w - 1 :
               ~HasBox \/ column \in Left .. Right - 1 =>
                 \E k \in DOMAIN image.v : image.v[k] = column

\* No image reaches the observers before a frame definition of its frame, or of
\* a later one, has: the reader handles what it read ahead in order.
FrameToldFirst ==
  \A i \in DOMAIN images : images[i].told # NoFrame /\ images[i].told >= images[i].image.f

\* When the connection is closed or broken, wherever it breaks, the thread of
\* the reader comes to its end.
StreamEnds == link # "open" ~> reader = "done"
=============================================================================
