------------------------------- MODULE RA8875 -------------------------------
(***************************************************************************)
(* The RA8875 display driver (os/drivers/lcd/ra8875.c, ra8875_spi.c), the  *)
(* controller behind the SPI bus, and restarts of the processor.           *)
(*                                                                         *)
(* The driver is used by one thread at a time.  A call is one step, except *)
(* that a drawing is started by one step and then polled until the engine  *)
(* of the controller has finished or the poll count has run out.  The      *)
(* controller keeps its registers and its memory when the processor        *)
(* restarts, unless the software reset is configured and effective.        *)
(*                                                                         *)
(* Landscape orientation, 65K colours.  MWCR0 is left out: in this         *)
(* orientation every value the driver gives it is its reset value, zero.   *)
(* Parts of a shape that lie outside of the window (the whole screen) are  *)
(* not drawn.                                                              *)
(***************************************************************************)
EXTENDS Integers, Sequences, FiniteSets

CONSTANTS
  XRES, YRES,    \* CONFIG_RA8875_XRES, CONFIG_RA8875_YRES
  Colors,        \* the 16-bit colours that clients use
  Rects,         \* the rectangles <<x, y, width, height>> that clients draw
  Lines,         \* the lines <<x1, y1, x2, y2>>, horizontal or vertical
  Figures,       \* the pixel sets of the triangles and circles
  MaxPower,      \* the highest power setting that clients use
  MaxPolls,      \* the polls of ra8875_waitreg: 20000/100
  TypedStream,   \* does the first byte of a pixel stream select the bus cycle?
  Restarts,      \* may the processor restart?
  ResetWorks     \* does a restart reset the controller too?

Columns == 0 .. XRES - 1
Rows == 0 .. YRES - 1
Screen == Columns \X Rows

ASSUME ConstantsAssumption ==
  /\ XRES \in Nat \ {0} /\ YRES \in Nat \ {0}
  /\ \A c \in Colors : c \in Nat /\ c < 65536
  /\ 0 \in Colors
  /\ MaxPower \in Nat \ {0}
  /\ MaxPolls \in Nat \ {0}
  /\ TypedStream \in BOOLEAN
  /\ Restarts \in BOOLEAN /\ ResetWorks \in BOOLEAN

\* The shapes that clients draw lie on the screen.
ASSUME ShapesAssumption ==
  /\ \A r \in Rects : /\ r[1] \in Columns /\ r[3] \in Nat \ {0} /\ r[1] + r[3] <= XRES
                      /\ r[2] \in Rows /\ r[4] \in Nat \ {0} /\ r[2] + r[4] <= YRES
  /\ \A l \in Lines : /\ l[1] \in Columns /\ l[3] \in Columns /\ l[1] <= l[3]
                      /\ l[2] \in Rows /\ l[4] \in Rows /\ l[2] <= l[4]
                      /\ l[1] = l[3] \/ l[2] = l[4]
  /\ Figures \subseteq SUBSET Screen

VARIABLES
  \* the driver
  power,     \* priv->power
  shadow,    \* priv->shadow_w_curh, priv->shadow_w_curv
  todo,      \* the drawings that the call in progress has left to do
  polls,     \* the polls left for the drawing at the head of todo, 0 before it
  booting,   \* in board_lcd_initialize
  \* the bus
  speed,     \* the frequency last set: "start", "write" or "read" (between calls)
  \* the controller
  cursor,    \* CURH, CURV
  panel,     \* P1CR, P1DCR and PWRR: backlight on, its level, display on
  gram,      \* the display memory
  engine,    \* the drawing in progress
  \* history
  want,      \* what the calls so far asked for, unless late
  late       \* a wait for the engine ran out since the start

driver == <<power, shadow, todo, polls, booting>>
chip == <<cursor, panel, gram, engine>>
vars == <<power, shadow, todo, polls, booting, speed, cursor, panel, gram, engine,
          want, late>>

-----------------------------------------------------------------------------
(* Shapes.                                                                 *)

Job(pixels, c) == [pixels |-> pixels, color |-> c]
NoJob == Job({}, -1)

Box(sx, sy, ex, ey) == (sx .. ex) \X (sy .. ey)
Border(sx, sy, ex, ey) ==
  {p \in Box(sx, sy, ex, ey) : p[1] \in {sx, ex} \/ p[2] \in {sy, ey}}

Paint(picture, job) ==
  [p \in Screen |-> IF p \in job.pixels THEN job.color ELSE picture[p]]

\* ra8875_drawline for a horizontal or vertical line: both ends are drawn.
LineJob(x1, y1, x2, y2, c) == Job(Box(x1, y1, x2, y2), c)

RectPixels(x, y, width, height, fill) ==
  IF fill THEN Box(x, y, x + width - 1, y + height - 1)
  ELSE Border(x, y, x + width - 1, y + height - 1)

\* The drawings of ra8875_drawrectangle: a rectangle of width or height one is
\* drawn as a line first, and then again as a rectangle.
DrawJobs(x, y, width, height, c, fill) ==
  LET line == IF width = 1 THEN <<LineJob(x, y, x, y + height, c)>>
              ELSE IF height = 1 THEN <<LineJob(x, y, x + width, y, c)>>
              ELSE <<>>
  IN  line \o <<Job(RectPixels(x, y, width, height, fill), c)>>

\* ra8875_clearmem, with the background set to black.
ClearJob == Job(Screen, 0)

BlackScreen == [p \in Screen |-> 0]

PanelOff == [backlight |-> FALSE, level |-> 0, display |-> FALSE]

-----------------------------------------------------------------------------
\* After board_lcd_initialize on a controller that was just powered on.
Init ==
  /\ power = 0
  /\ shadow = [curh |-> 0, curv |-> 0]
  /\ todo = <<>>
  /\ polls = 0
  /\ booting = FALSE
  /\ speed = "write"
  /\ cursor = [curh |-> 0, curv |-> 0]
  /\ panel = PanelOff
  /\ gram = BlackScreen
  /\ engine = NoJob
  /\ want = BlackScreen
  /\ late = FALSE

Idle == todo = <<>>

\* A call asks for a picture.  Once a wait has run out nothing is expected.
Ask(picture) == want' = IF late THEN want ELSE picture

-----------------------------------------------------------------------------
(* ra8875_putrun and ra8875_getrun.                                        *)

\* ra8875_set_writecursor writes a register only if its shadow differs.
set_writecursor(col, row) ==
  [curh |-> IF shadow.curh # col THEN col ELSE cursor.curh,
   curv |-> IF shadow.curv # row THEN row ELSE cursor.curv]

\* The bytes of a run, the low byte of each pixel first (pwrite_data16).
Bytes(run) ==
  [k \in 1 .. 2 * Len(run) |->
     IF k % 2 = 1 THEN run[(k + 1) \div 2] % 256 ELSE run[k \div 2] \div 256]

CycleType(byte) == byte \div 64
DATA_WRITE == 0

\* The data bytes that the controller takes from the stream of one bus cycle.
Received(bytes) ==
  IF ~TypedStream THEN bytes
  ELSE IF CycleType(bytes[1]) = DATA_WRITE THEN Tail(bytes)
  ELSE <<>>

\* The pixels of the data bytes go to the cursor, which moves to the right.
Stored(data, at) ==
  [p \in Screen |->
     LET k == p[1] - at.curh + 1 IN
     IF p[2] = at.curv /\ k \in 1 .. Len(data) \div 2
     THEN data[2 * k - 1] + 256 * data[2 * k]
     ELSE gram[p]]

\* The shadow after a run: set to the start of the run, then moved along with the
\* cursor.
ShadowAfter(col, row, n) == [curh |-> col + n, curv |-> row]

putrun(row, col, run) ==
  LET at   == set_writecursor(col, row)
      data == Received(Bytes(run))
  IN  /\ Idle
      /\ gram' = Stored(data, at)
      /\ cursor' = [at EXCEPT !.curh = @ + Len(data) \div 2]
      /\ shadow' = ShadowAfter(col, row, Len(run))
      /\ speed' = "write"
      /\ Ask([p \in Screen |->
                IF p[2] = row /\ p[1] \in col .. col + Len(run) - 1
                THEN run[p[1] - col + 1] ELSE want[p]])
      /\ UNCHANGED <<power, todo, polls, booting, panel, engine, late>>

\* The read cursor has no shadow; a read moves nothing the driver relies on.
getrun ==
  /\ Idle
  /\ speed' = "write"
  /\ UNCHANGED <<driver, chip, want, late>>

-----------------------------------------------------------------------------
(* Drawing.                                                                *)

\* A call that draws: what it asks for is asked.pixels in asked.color.
Draw(jobs, asked) ==
  /\ Idle
  /\ todo' = jobs
  /\ Ask(Paint(want, asked))
  /\ UNCHANGED <<power, shadow, polls, booting, speed, chip, late>>

drawrectangle(r, c, fill) ==
  Draw(DrawJobs(r[1], r[2], r[3], r[4], c, fill),
       Job(RectPixels(r[1], r[2], r[3], r[4], fill), c))

clear(c) == drawrectangle(<<0, 0, XRES, YRES>>, c, TRUE)

drawline(l, c) ==
  LET job == LineJob(l[1], l[2], l[3], l[4], c) IN Draw(<<job>>, job)

\* ra8875_drawtriangle and ra8875_drawcircle.
drawfigure(f, c) == Draw(<<Job(f, c)>>, Job(f, c))

\* The registers are written and the engine is started.  A drawing that is
\* still in progress is lost.
StartEngine ==
  /\ todo # <<>>
  /\ polls = 0
  /\ engine' = Head(todo)
  /\ polls' = MaxPolls
  /\ UNCHANGED <<power, shadow, todo, booting, speed, cursor, panel, gram, want, late>>

EngineDone ==
  /\ engine # NoJob
  /\ gram' = Paint(gram, engine)
  /\ engine' = NoJob
  /\ UNCHANGED <<driver, speed, cursor, panel, want, late>>

\* The call goes on after a drawing; board_lcd_initialize ends with the panel
\* off and the bus at its write speed.
Advance ==
  /\ todo' = Tail(todo)
  /\ polls' = 0
  /\ IF booting /\ Len(todo) = 1
     THEN /\ booting' = FALSE
          /\ panel' = PanelOff
          /\ power' = 0
          /\ speed' = "write"
     ELSE /\ speed' = "read"
          /\ UNCHANGED <<booting, panel, power>>

MutantPoll ==
  /\ polls > 0
  /\ Advance
  /\ UNCHANGED <<shadow, cursor, gram, engine, want, late>>

MutantPollForever ==
  /\ polls > 0
  /\ IF engine = NoJob
     THEN Advance
     ELSE /\ speed' = "read"
          /\ UNCHANGED <<todo, polls, booting, panel, power>>
  /\ UNCHANGED <<shadow, cursor, gram, engine, want, late>>

\* One turn of ra8875_waitreg.  spi_read_reg leaves the bus at the read speed.
Poll ==
  /\ polls > 0
  /\ IF engine = NoJob \/ polls = 1
     THEN /\ Advance
          /\ late' = (late \/ engine # NoJob)
          /\ want' = IF late' THEN BlackScreen ELSE want
     ELSE /\ polls' = polls - 1
          /\ speed' = "read"
          /\ UNCHANGED <<todo, booting, panel, power, want, late>>
  /\ UNCHANGED <<shadow, cursor, gram, engine>>

-----------------------------------------------------------------------------
MutantSetPower(p) ==
  /\ Idle
  /\ power' = p
  /\ panel' = IF p = 0 THEN PanelOff
              ELSE [panel EXCEPT !.level = p, !.display = TRUE]
  /\ UNCHANGED <<shadow, todo, polls, booting, speed, cursor, gram, engine, want, late>>

\* ra8875_setpower and ra8875_poweroff: the backlight is only switched on when
\* the power was off.
setpower(p) ==
  /\ Idle
  /\ power' = p
  /\ panel' = IF p = 0 THEN PanelOff
              ELSE [backlight |-> panel.backlight \/ power = 0, level |-> p,
                    display |-> TRUE]
  /\ UNCHANGED <<shadow, todo, polls, booting, speed, cursor, gram, engine, want, late>>

\* The processor restarts, at any moment, and runs board_lcd_initialize: it
\* clears the memory, clears the screen once more and turns the panel off.
\* hwinitialize gives the shadows their reset values and writes no cursor.
Restart ==
  /\ Restarts
  /\ power' = 0
  /\ shadow' = [curh |-> 0, curv |-> 0]
  /\ todo' = <<ClearJob>> \o DrawJobs(0, 0, XRES, YRES, 0, TRUE)
  /\ polls' = 0
  /\ booting' = TRUE
  /\ want' = BlackScreen
  /\ late' = FALSE
  /\ IF ResetWorks
     THEN /\ cursor' = [curh |-> 0, curv |-> 0]
          /\ panel' = PanelOff
          /\ engine' = NoJob
     ELSE UNCHANGED <<cursor, panel, engine>>
  /\ speed' = "start"
  /\ UNCHANGED gram

-----------------------------------------------------------------------------
Runs(n) == [1 .. n -> Colors]

Next ==
  \/ \E row \in Rows, col \in Columns : \E n \in 1 .. XRES - col : \E run \in Runs(n) :
       putrun(row, col, run)
  \/ getrun
  \/ \E r \in Rects, c \in Colors, fill \in BOOLEAN : drawrectangle(r, c, fill)
  \/ \E c \in Colors : clear(c)
  \/ \E l \in Lines, c \in Colors : drawline(l, c)
  \/ \E f \in Figures, c \in Colors : drawfigure(f, c)
  \/ \E p \in 0 .. MaxPower : setpower(p)
  \/ StartEngine
  \/ EngineDone
  \/ Poll
  \/ Restart

Spec == Init /\ [][Next]_vars

\* The thread that draws goes on; of the controller nothing is assumed.
FairSpec == Spec /\ WF_vars(StartEngine) /\ WF_vars(Poll)

-----------------------------------------------------------------------------
(* Properties.                                                             *)

TypeOK ==
  /\ power \in 0 .. MaxPower
  /\ shadow \in [curh : 0 .. XRES, curv : Rows]
  /\ \A k \in DOMAIN todo : todo[k].pixels \subseteq (0 .. XRES) \X (0 .. YRES)
  /\ polls \in 0 .. MaxPolls
  /\ booting \in BOOLEAN
  /\ speed \in {"start", "write", "read"}
  /\ cursor \in [curh : 0 .. XRES, curv : Rows]
  /\ panel \in [backlight : BOOLEAN, level : 0 .. MaxPower, display : BOOLEAN]
  /\ gram \in [Screen -> 0 .. 65535]
  /\ want \in [Screen -> Colors]
  /\ late \in BOOLEAN

\* Between calls the engine is at rest and the display shows what the calls drew,
\* pixel for pixel, runs, rectangles, lines and figures in any order, as long as
\* no wait for the engine has run out.
PictureExact == Idle /\ ~late => engine = NoJob /\ gram = want

\* Between calls the shadow of the write cursor is the cursor of the controller:
\* the driver leaves out register writes on the strength of it.
ShadowExact == Idle => shadow = cursor

\* Between calls the panel is lit exactly when the driver's power says so, at
\* its level.
PowerExact ==
  Idle => panel = IF power = 0 THEN PanelOff
                  ELSE [backlight |-> TRUE, level |-> power, display |-> TRUE]

\* Between calls the bus is at its write speed.
BusRestored == Idle => speed = "write"

\* No call waits for the engine for ever, even if the engine never finishes: the
\* poll count of ra8875_waitreg bounds every wait, unless the processor restarts
\* over and over.
CallsReturn == (todo # <<>> ~> Idle) \/ []<><<Restart>>_vars
=============================================================================
