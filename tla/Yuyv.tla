-------------------------------- MODULE Yuyv --------------------------------
(***************************************************************************)
(* uvc/main.c: from the frame that camera_frame has left in head to the    *)
(* picture.  yuyv2rgb takes four bytes y0 u y1 v for every two pixels, and *)
(* jpeg copies the result row by row.                                      *)
(*                                                                         *)
(* The size is that of camera_open.  VIDIOC_S_FMT may grant another, which *)
(* is not looked at: the frame may be shorter or longer than the program   *)
(* believes.  Of the bytes behind it nothing is known.                     *)
(***************************************************************************)
EXTENDS Integers

CONSTANTS Sizes,   \* the sizes asked for, <<width, height>>
          Frames,  \* what the camera may bring: functions from 0..n-1 to bytes
          Junk     \* bytes that may lie behind the frame

Byte == 0..255

\* main asks for 352 x 288.  No camera has rows of half a pair of pixels.
ASSUME YuyvAssumption ==
    /\ \A size \in Sizes :
          /\ size[1] \in Nat \ {0} /\ size[2] \in Nat \ {0}
          /\ size[1] % 2 = 0
    /\ \A f \in Frames : \A k \in DOMAIN f :
          f[k] \in Byte /\ k \in Nat /\ 0..k \subseteq DOMAIN f
    /\ Junk \subseteq Byte

VARIABLES w, h,      \* width and height
          yuyv,      \* what is in camera->head
          phase,     \* the loops of yuyv2rgb, those of jpeg, or behind them
          row, col,  \* i and j of both
          rgb,       \* the array that yuyv2rgb makes
          image      \* the rows that jpeg makes of it, by row and column

yuyvVars == <<w, h, yuyv, phase, row, col, rgb, image>>

\* calloc: every byte is 0.
YuyvInit ==
    /\ \E size \in Sizes : w = size[1] /\ h = size[2]
    /\ yuyv \in Frames
    /\ phase = "rgb" /\ row = 0 /\ col = 0
    /\ rgb = [k \in 0..(w * h * 3 - 1) |-> 0]
    /\ image = [p \in (0..(h - 1)) \X (0..(w - 1)) |-> <<0, 0, 0>>]

-----------------------------------------------------------------------------
\* Variants of the definitions below with a mistake each: the checks of the
\* properties must notice them.  They are not part of the specification.
OnePast(from, to, step) ==      \* of Loop: j <= width
    /\ phase = from /\ row < h
    /\ \/ col + step <= w /\ col' = col + step /\ UNCHANGED <<phase, row>>
       \/ col + step > w /\ row + 1 < h /\ row' = row + 1 /\ col' = 0 /\ UNCHANGED phase
       \/ col + step > w /\ row + 1 = h /\ phase' = to /\ row' = 0 /\ col' = 0
LateSecond(y0, y1, k) == IF k <= 3 THEN y0 ELSE y1      \* of Luma

minmax(min, v, max) == IF v < min THEN min ELSE IF max < v THEN max ELSE v

\* The six bytes of two pixels: red, green and blue of the first, then of
\* the second.  >> 8 rounds down, below 0 as well.
Luma(y0, y1, k) == IF k < 3 THEN y0 ELSE y1
Colour(u, v, k) ==
    CASE k % 3 = 0 -> 359 * v
      [] k % 3 = 1 -> 88 * v - 183 * u
      [] k % 3 = 2 -> 454 * u
Channel(y0, u, y1, v, k) ==
    minmax(0, (Luma(y0, y1, k) * 256 + Colour(u - 128, v - 128, k)) \div 256, 255)

\* The two nested loops: the step of j, then that of i.
Loop(from, to, step) ==
    /\ phase = from /\ row < h
    /\ \/ col + step < w /\ col' = col + step /\ UNCHANGED <<phase, row>>
       \/ col + step >= w /\ row + 1 < h /\ row' = row + 1 /\ col' = 0 /\ UNCHANGED phase
       \/ col + step >= w /\ row + 1 = h /\ phase' = to /\ row' = 0 /\ col' = 0

\* The index of a pixel.
index == row * w + col

\* The body of the loops of yuyv2rgb.
Pair ==
    /\ Loop("rgb", "jpeg", 2)
    /\ \E behind \in Junk :
       LET byte(k) == IF k \in DOMAIN yuyv THEN yuyv[k] ELSE behind
           two(k) == Channel(byte(index * 2), byte(index * 2 + 1),
                             byte(index * 2 + 2), byte(index * 2 + 3), k)
       IN  rgb' = [k \in DOMAIN rgb |->
                     IF k \in (index * 3)..(index * 3 + 5)
                     THEN two(k - index * 3) ELSE rgb[k]]
    /\ UNCHANGED <<w, h, yuyv, image>>

\* The body of the loops of jpeg.
CopyPixel ==
    /\ Loop("jpeg", "done", 1)
    /\ image' = [image EXCEPT ![<<row, col>>] =
                   <<rgb[index * 3], rgb[index * 3 + 1], rgb[index * 3 + 2]>>]
    /\ UNCHANGED <<w, h, yuyv, rgb>>

YuyvNext == Pair \/ CopyPixel

YuyvSpec == YuyvInit /\ [][YuyvNext]_yuyvVars

-----------------------------------------------------------------------------
YuyvTypeOK ==
    /\ w \in Nat /\ h \in Nat
    /\ phase \in {"rgb", "jpeg", "done"}
    /\ row \in Nat /\ col \in Nat
    /\ rgb \in [0..(w * h * 3 - 1) -> Byte]
    /\ image \in [(0..(h - 1)) \X (0..(w - 1)) -> Byte \X Byte \X Byte]

\* No step writes outside rgb or image, and none reads outside a frame that
\* is as long as the program believes it is.
InArrays ==
    /\ phase = "rgb" => index * 3 + 5 < w * h * 3 /\ index * 2 + 3 < w * h * 2
    /\ phase = "jpeg" => row < h /\ col < w /\ index * 3 + 2 < w * h * 3

\* The byte that a colour comes to: exact / 256, rounded down and clamped.
Scaled(exact) ==
    CHOOSE b \in Byte :
        \/ 256 * b <= exact /\ exact < 256 * (b + 1)
        \/ b = 0 /\ exact < 0
        \/ b = 255 /\ exact >= 256 * 256

\* Red, green and blue of pixel p: of its own brightness, and of the colour it
\* shares with its neighbour.
Pixel(p) ==
    LET y == 256 * yuyv[2 * p]
        u == yuyv[4 * (p \div 2) + 1] - 128
        v == yuyv[4 * (p \div 2) + 3] - 128
    IN  <<Scaled(y + 359 * v), Scaled(y + 88 * v - 183 * u), Scaled(y + 454 * u)>>

\* The picture has every pixel of which the frame has all bytes, whatever lies
\* behind the frame: one that is too short spoils the pixels it lacks only.
Picture ==
    phase = "done" => \A r \in 0..(h - 1), c \in 0..(w - 1) :
        4 * ((r * w + c) \div 2) + 3 \in DOMAIN yuyv =>
            image[<<r, c>>] = Pixel(r * w + c)

=============================================================================
