--------------------------- MODULE MCImageStream ---------------------------
(***************************************************************************)
(* Values for the model checker: two frames of the visible channel (one    *)
(* column a pixel) and of another (four), and boxes that cut a row on the  *)
(* left, on the right, on both sides, between two pixels and not at all.   *)
(***************************************************************************)
EXTENDS ImageStream

MCXRes == [c \in {0, 1} |-> IF c = 0 THEN 1 ELSE 4]

Scan(f, c, x, y, w) == [f |-> f, c |-> c, x |-> x, y |-> y, w |-> w]
MCRows == <<Scan(1, 0, 2, 1, 12), Scan(1, 1, 2, 1, 3), Scan(2, 1, 4, 2, 2), Scan(2, 0, 4, 2, 6)>>

BBox(x, y, w, h) == [x |-> x, y |-> y, width |-> w, height |-> h]
Ask(cs, box, n, fmt) ==
  [isChannelRequested |-> cs, channelID |-> CHOOSE c \in cs : \A d \in cs : d <= c, bbox |-> box, nodata |-> n, format |-> fmt]

Boxes == {BBox(0, 0, 0, 0), BBox(0, 1, 7, 2), BBox(5, 1, 4, 2), BBox(3, 1, 20, 1), BBox(0, 2, 30, 1)}
MCRequests ==
       {Ask({0, 1}, box, FALSE, fmt) : box \in Boxes, fmt \in {"binary", "ascii"}}
  \union {Ask({1}, BBox(0, 0, 0, 0), TRUE, fmt) : fmt \in {"binary", "ascii"}}
=============================================================================
