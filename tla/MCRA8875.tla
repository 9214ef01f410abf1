------------------------------ MODULE MCRA8875 ------------------------------
(***************************************************************************)
(* Instances of RA8875 for TLC: a screen of two or three columns.          *)
(***************************************************************************)
EXTENDS RA8875

\* Rectangles at least two pixels wide and high, and with them those of width or
\* height one that end at the edge of the screen.
WideRects == {r \in Columns \X Rows \X (2 .. XRES) \X (2 .. YRES) :
                r[1] + r[3] <= XRES /\ r[2] + r[4] <= YRES}
InnerRects == WideRects \union
              {<<XRES - 1, 0, 1, YRES>>, <<1, YRES - 1, XRES - 1, 1>>}

\* A vertical and a horizontal line, and a figure of three pixels.
SomeLines == {<<0, 0, 0, 1>>, <<0, 1, 1, 1>>}
SomeFigures == {{<<0, 0>>, <<1, 0>>, <<1, 1>>}}
=============================================================================
