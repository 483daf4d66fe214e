----------------------------- MODULE ItemShapes -----------------------------
(***************************************************************************)
(* The arithmetic of an item's shape and size (js/shape-geometry.js).  A   *)
(* default or oval item has the width and height it stores; the other six  *)
(* shapes store a width and are drawn with a height that follows from it.  *)
(* Sizes are whole CSS pixels: every path that stores one rounds it.       *)
(***************************************************************************)
EXTENDS Integers, Sequences

CONSTANT Absent   \* "undefined": a property the object does not have

ITEM_SHAPES == <<"default", "circle", "square", "triangle", "diamond",
                 "upsideDownTriangle", "hexagon", "oval">>

Shape == {ITEM_SHAPES[i] : i \in DOMAIN ITEM_SHAPES}

FreeformShapes == {"default", "oval"}

MIN_WIDTH == 120
MIN_HEIGHT == 80
MAX_WIDTH == 600
MAX_HEIGHT == 600

Larger(a, b) == IF a >= b THEN a ELSE b
Smaller(a, b) == IF a <= b THEN a ELSE b

\* Math.round(a / b) for b > 0: halves go up.
Rounded(a, b) == (2 * a + b) \div (2 * b)

normalizeItemShape(shape) == IF shape \in Shape THEN shape ELSE "default"

\* A value that is no finite number is dropped; one out of range is moved to it.
normalizeItemDimension(value, low, high) ==
    IF value \notin Int THEN Absent ELSE Larger(low, Smaller(high, value))

\* The height of a fixed-ratio shape for 170 (or 1) pixels of width.
FIXED_RATIO_HEIGHT_BY_WIDTH ==
    [square |-> <<1, 1>>, circle |-> <<1, 1>>, diamond |-> <<1, 1>>,
     triangle |-> <<150, 170>>, upsideDownTriangle |-> <<150, 170>>, hexagon |-> <<135, 170>>]

getFixedRatioHeightFromWidth(shape, width) ==
    LET ratio == FIXED_RATIO_HEIGHT_BY_WIDTH[shape] IN Rounded(width * ratio[1], ratio[2])

\* The box an item is drawn in, when its data decides it: otherwise its text does.
getItemDerivedVisualBox(item) ==
    IF item.shape \in FreeformShapes
    THEN IF item.width = Absent \/ item.height = Absent THEN Absent
         ELSE [width |-> item.width, height |-> item.height]
    ELSE IF item.width = Absent THEN Absent
         ELSE [width |-> item.width,
               height |-> getFixedRatioHeightFromWidth(item.shape, item.width)]

normalizeItemForRuntime(item) ==
    [item EXCEPT !.shape = normalizeItemShape(@),
                 !.width = normalizeItemDimension(@, MIN_WIDTH, MAX_WIDTH),
                 !.height = normalizeItemDimension(@, MIN_HEIGHT, MAX_HEIGHT)]

\* One wheel step over the shapes, forwards or backwards, round the ends.
cycleItemShapeValue(shape, direction) ==
    LET at == CHOOSE i \in DOMAIN ITEM_SHAPES : ITEM_SHAPES[i] = normalizeItemShape(shape)
        step == IF direction < 0 THEN -1 ELSE 1
    IN  ITEM_SHAPES[((at - 1 + step + Len(ITEM_SHAPES)) % Len(ITEM_SHAPES)) + 1]

Magnitude(n) == IF n < 0 THEN -n ELSE n

\* The footprint while the pointer, pressed on the handle of a box of the start
\* size, has moved by (dx, dy): a fixed-ratio shape follows the larger movement.
getItemResizeFootprintFromPointer(shape, start, dx, dy) ==
    IF shape \in FreeformShapes
    THEN [width |-> normalizeItemDimension(start.width + dx, MIN_WIDTH, MAX_WIDTH),
          height |-> normalizeItemDimension(start.height + dy, MIN_HEIGHT, MAX_HEIGHT)]
    ELSE LET dominant == IF Magnitude(dx) >= Magnitude(dy) THEN dx ELSE dy
             width == normalizeItemDimension(start.width + dominant, MIN_WIDTH, MAX_WIDTH)
         IN  [width |-> width, height |-> getFixedRatioHeightFromWidth(shape, width)]

-----------------------------------------------------------------------------
(***************************************************************************)
(* Where an item's text goes: insets on each side, at least those of the   *)
(* table and, for the shapes that are not rectangles, a share of the box   *)
(* in thousandths.                                                         *)
(***************************************************************************)
Insets(top, right, bottom, left) ==
    [top |-> top, right |-> right, bottom |-> bottom, left |-> left]

SHAPE_TEXT_INSETS ==
    [default |-> Insets(20, 20, 20, 20), square |-> Insets(26, 26, 26, 26),
     circle |-> Insets(30, 30, 30, 30), diamond |-> Insets(34, 34, 34, 34),
     triangle |-> Insets(30, 30, 24, 30), upsideDownTriangle |-> Insets(22, 30, 34, 30),
     hexagon |-> Insets(26, 34, 26, 34), oval |-> Insets(24, 34, 24, 34)]

\* <<share of the width, share of the height above, share of it below>>
TEXT_INSET_SHARES ==
    [circle |-> <<214, 214, 214>>, diamond |-> <<243, 243, 243>>,
     triangle |-> <<182, 293, 120>>, upsideDownTriangle |-> <<182, 120, 293>>,
     hexagon |-> <<200, 193, 193>>, oval |-> <<121, 126, 126>>]

\* The triangles have minima of their own above and below the text.
ResponsiveMinimum ==
    [SHAPE_TEXT_INSETS EXCEPT !.triangle = Insets(44, 30, 18, 30),
                              !.upsideDownTriangle = Insets(18, 30, 44, 30)]

getShapeResponsiveTextInsets(shape, width, height) ==
    IF shape \notin DOMAIN TEXT_INSET_SHARES THEN SHAPE_TEXT_INSETS[shape]
    ELSE LET share == TEXT_INSET_SHARES[shape]
             least == ResponsiveMinimum[shape]
             side == Larger(least.left, Rounded(width * share[1], 1000))
         IN  Insets(Larger(least.top, Rounded(height * share[2], 1000)), side,
                    Larger(least.bottom, Rounded(height * share[3], 1000)), side)

getShapeTextBounds(shape, width, height) ==
    LET insets == getShapeResponsiveTextInsets(shape, width, height) IN
    [top |-> insets.top, left |-> insets.left,
     width |-> Larger(0, width - insets.left - insets.right),
     height |-> Larger(0, height - insets.top - insets.bottom)]
=============================================================================
