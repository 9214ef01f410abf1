---------------------------- MODULE RA8875Proofs ----------------------------
(***************************************************************************)
(* The proofs about RA8875, for screens, colours and shapes of any size.   *)
(*                                                                         *)
(* The panel and the power setting agree whatever happens.  The picture    *)
(* and the cursor go wrong in three steps only, and only after one of      *)
(* them: a run on a controller that takes its first byte for the type of   *)
(* the bus cycle, a restart that does not reset the controller, and a      *)
(* rectangle of width or height one that does not end at the edge of the   *)
(* screen, which ra8875_drawrectangle makes one pixel too long.            *)
(*                                                                         *)
(* The invariant: the last drawing of a call paints over all that the      *)
(* others paint, so that throughout the call the display, once the last    *)
(* drawing is painted on it, is the picture that the call asked for.       *)
(***************************************************************************)
EXTENDS RA8875, SequenceTheorems, TLAPS

Streams ==
  \E row \in Rows, col \in Columns : \E n \in 1 .. XRES - col : \E run \in Runs(n) : putrun(row, col, run)

\* The three steps.
LosesBytes == TypedStream /\ Streams
KeepsCursor == ~ ResetWorks /\ Restart
TooLong(r) ==
  \/ r[3] = 1 /\ r[2] + r[4] # YRES
  \/ r[3] # 1 /\ r[4] = 1 /\ r[1] + r[3] # XRES
DrawsTooLong == \E r \in Rects, c \in Colors, fill \in BOOLEAN : TooLong(r) /\ drawrectangle(r, c, fill)

-----------------------------------------------------------------------------
(* The drawings of a call.                                                 *)

JobType == [pixels : SUBSET (Int \X Int), color : Colors]

\* What a call draws: the last drawing is the one that was asked for, and the others paint
\* parts of it, in its colour.
Draws(jobs, asked) ==
  /\ jobs \in Seq(JobType) /\ jobs # <<>> /\ jobs[Len(jobs)] = asked
  /\ \A i \in 1 .. Len(jobs) : /\ jobs[i].color = asked.color
                               /\ jobs[i].pixels \intersect Screen \subseteq asked.pixels

\* A drawing is a set of pixels and a colour, and not the absence of a drawing.
LEMMA JobIs ==
  /\ \A P \in SUBSET (Int \X Int), c \in Colors :
       Job(P, c) \in JobType /\ Job(P, c).pixels = P /\ Job(P, c).color = c
  /\ NoJob \notin JobType
<1>1. -1 \notin Colors
  BY ConstantsAssumption DEF ConstantsAssumption
<1> QED BY <1>1 DEF Job, NoJob, JobType

\* A call of one drawing.
LEMMA OneJob ==
  \A a \in JobType : /\ <<>> \o <<a>> = <<a>> /\ <<a>> \in Seq(JobType) /\ <<a>> # <<>>
                     /\ Draws(<<a>>, a)
<1> SUFFICES ASSUME NEW a \in JobType
             PROVE  /\ <<>> \o <<a>> = <<a>> /\ <<a>> \in Seq(JobType) /\ <<a>> # <<>>
                    /\ Draws(<<a>>, a)
  OBVIOUS
<1>1. <<a>> \in Seq(JobType) /\ <<a>> # <<>> /\ Len(<<a>>) = 1 /\ <<a>>[1] = a
  OBVIOUS
<1>2. <<>> \o <<a>> = <<a>>
  BY <1>1, ConcatEmptySeq
<1>3. Draws(<<a>>, a)
  <2>1. \A i \in 1 .. Len(<<a>>) : i = 1
    BY <1>1
  <2> QED BY <1>1, <2>1 DEF Draws
<1> QED BY <1>1, <1>2, <1>3

\* A call of two drawings, of which the second paints over the first.
LEMMA TwoJobs ==
  \A a \in JobType, b \in JobType :
    /\ <<a>> \o <<b>> \in Seq(JobType) /\ <<a>> \o <<b>> # <<>>
    /\ a.color = b.color /\ a.pixels \intersect Screen \subseteq b.pixels =>
         Draws(<<a>> \o <<b>>, b)
<1> SUFFICES ASSUME NEW a \in JobType, NEW b \in JobType
             PROVE  /\ <<a>> \o <<b>> \in Seq(JobType) /\ <<a>> \o <<b>> # <<>>
                    /\ a.color = b.color /\ a.pixels \intersect Screen \subseteq b.pixels =>
                         Draws(<<a>> \o <<b>>, b)
  OBVIOUS
<1> DEFINE J == <<a>> \o <<b>>
<1>1. /\ <<a>> \in Seq(JobType) /\ Len(<<a>>) = 1 /\ <<a>>[1] = a
      /\ <<b>> \in Seq(JobType) /\ Len(<<b>>) = 1 /\ <<b>>[1] = b
  OBVIOUS
<1>2. J \in Seq(JobType) /\ Len(J) = 2 /\ J[1] = a /\ J[2] = b
  BY <1>1
<1> HIDE DEF J
<1>3. J # <<>>
  BY <1>2
<1>4. a.color = b.color /\ a.pixels \intersect Screen \subseteq b.pixels => Draws(J, b)
  <2>1. \A i \in 1 .. Len(J) : i = 1 \/ i = 2
    BY <1>2
  <2> QED BY <1>2, <1>3, <2>1 DEF Draws
<1> QED BY <1>2, <1>3, <1>4 DEF J

\* The pixels of a box.
LEMMA BoxIs ==
  ASSUME NEW a \in Int, NEW b \in Int, NEW c \in Int, NEW d \in Int
  PROVE  /\ Box(a, b, c, d) \in SUBSET (Int \X Int) /\ Border(a, b, c, d) \in SUBSET (Int \X Int)
         /\ \A p \in Int \X Int : p \in Box(a, b, c, d) <=> a <= p[1] /\ p[1] <= c /\ b <= p[2] /\ p[2] <= d
<1>1. Box(a, b, c, d) \in SUBSET (Int \X Int)
  BY DEF Box
<1>2. Border(a, b, c, d) \in SUBSET (Int \X Int)
  BY <1>1 DEF Border
<1>3. \A p \in Int \X Int : p \in Box(a, b, c, d) <=> a <= p[1] /\ p[1] <= c /\ b <= p[2] /\ p[2] <= d
  BY DEF Box
<1> QED BY <1>1, <1>2, <1>3

\* The screen is a box.
LEMMA ScreenIs ==
  /\ Screen \in SUBSET (Int \X Int) /\ XRES \in Nat \ {0} /\ YRES \in Nat \ {0}
  /\ \A p \in Screen : /\ p \in Int \X Int /\ p[1] \in Int /\ p[2] \in Int
                       /\ 0 <= p[1] /\ p[1] <= XRES - 1 /\ 0 <= p[2] /\ p[2] <= YRES - 1
  /\ Box(0, 0, XRES - 1, YRES - 1) = Screen
<1>1. XRES \in Nat \ {0} /\ YRES \in Nat \ {0}
  BY ConstantsAssumption DEF ConstantsAssumption
<1>2. Screen = (0 .. XRES - 1) \X (0 .. YRES - 1)
  BY DEF Screen, Columns, Rows
<1>3. Screen = Box(0, 0, XRES - 1, YRES - 1)
  BY <1>2 DEF Box
<1>4. XRES - 1 \in Int /\ YRES - 1 \in Int /\ 0 \in Int
  BY <1>1
<1>5. Screen \in SUBSET (Int \X Int)
  BY <1>3, <1>4, BoxIs
<1>6. \A p \in Screen : p \in Int \X Int /\ p[1] \in Int /\ p[2] \in Int
  BY <1>5
<1>7. \A p \in Screen : 0 <= p[1] /\ p[1] <= XRES - 1 /\ 0 <= p[2] /\ p[2] <= YRES - 1
  BY <1>3, <1>4, <1>5, BoxIs
<1> QED BY <1>1, <1>3, <1>5, <1>6, <1>7

\* The pixels of a rectangle.
LEMMA RectPixelsIs ==
  \A x \in Nat, y \in Nat, w \in Nat \ {0}, h \in Nat \ {0}, fill \in BOOLEAN :
    RectPixels(x, y, w, h, fill) \in SUBSET (Int \X Int)
<1> SUFFICES ASSUME NEW x \in Nat, NEW y \in Nat, NEW w \in Nat \ {0}, NEW h \in Nat \ {0},
                    NEW fill \in BOOLEAN
             PROVE  RectPixels(x, y, w, h, fill) \in SUBSET (Int \X Int)
  OBVIOUS
<1>1. x \in Int /\ y \in Int /\ x + w - 1 \in Int /\ y + h - 1 \in Int
  OBVIOUS
<1> QED BY <1>1, BoxIs DEF RectPixels

\* The drawings of ra8875_drawrectangle, for a rectangle within the screen.
LEMMA RectangleDraws ==
  ASSUME NEW x \in Nat, NEW y \in Nat, NEW w \in Nat \ {0}, NEW h \in Nat \ {0},
         NEW c \in Colors, NEW fill \in BOOLEAN
  PROVE  /\ DrawJobs(x, y, w, h, c, fill) \in Seq(JobType) /\ DrawJobs(x, y, w, h, c, fill) # <<>>
         /\ (w = 1 => y + h = YRES) /\ (w # 1 /\ h = 1 => x + w = XRES) =>
              Draws(DrawJobs(x, y, w, h, c, fill), Job(RectPixels(x, y, w, h, fill), c))
<1> DEFINE R == RectPixels(x, y, w, h, fill)
           V == Box(x, y, x, y + h)
           H == Box(x, y, x + w, y)
           J == DrawJobs(x, y, w, h, c, fill)
<1>0. /\ x \in Int /\ y \in Int /\ x + w \in Int /\ y + h \in Int
      /\ x + w - 1 \in Int /\ y + h - 1 \in Int
  OBVIOUS
<1>1. R \in SUBSET (Int \X Int) /\ V \in SUBSET (Int \X Int) /\ H \in SUBSET (Int \X Int)
  <2>1. V \in SUBSET (Int \X Int) /\ H \in SUBSET (Int \X Int)
    BY <1>0, BoxIs
  <2>2. R \in SUBSET (Int \X Int)
    BY <1>0, BoxIs DEF RectPixels
  <2> QED BY <2>1, <2>2
<1>2. /\ w = 1 => J = <<Job(V, c)>> \o <<Job(R, c)>>
      /\ w # 1 /\ h = 1 => J = <<Job(H, c)>> \o <<Job(R, c)>>
      /\ w # 1 /\ h # 1 => J = <<>> \o <<Job(R, c)>>
  BY Zenon DEF DrawJobs, LineJob
<1>3. ASSUME w = 1, y + h = YRES
      PROVE  V \intersect Screen \subseteq R
  <2> SUFFICES ASSUME NEW p \in Screen, p \in V PROVE p \in R
    OBVIOUS
  <2>1. p \in Int \X Int /\ p[1] \in Int /\ p[2] \in Int /\ p[2] <= YRES - 1
    BY ScreenIs
  <2>2. x <= p[1] /\ p[1] <= x /\ y <= p[2]
    BY <2>1, BoxIs
  <2>3. p[1] = x /\ x <= p[1] /\ p[1] <= x + w - 1 /\ y <= p[2] /\ p[2] <= y + h - 1
    BY <1>3, <2>1, <2>2, ScreenIs
  <2>4. p \in Box(x, y, x + w - 1, y + h - 1) <=>
          x <= p[1] /\ p[1] <= x + w - 1 /\ y <= p[2] /\ p[2] <= y + h - 1
    BY <1>0, <2>1, BoxIs
  <2>5. p \in Box(x, y, x + w - 1, y + h - 1)
    BY <2>3, <2>4
  <2> QED BY <2>3, <2>5 DEF RectPixels, Border
<1>4. ASSUME h = 1, x + w = XRES
      PROVE  H \intersect Screen \subseteq R
  <2> SUFFICES ASSUME NEW p \in Screen, p \in H PROVE p \in R
    OBVIOUS
  <2>1. p \in Int \X Int /\ p[1] \in Int /\ p[2] \in Int /\ p[1] <= XRES - 1
    BY ScreenIs
  <2>2. x <= p[1] /\ y <= p[2] /\ p[2] <= y
    BY <2>1, BoxIs
  <2>3. p[2] = y /\ x <= p[1] /\ p[1] <= x + w - 1 /\ y <= p[2] /\ p[2] <= y + h - 1
    BY <1>4, <2>1, <2>2, ScreenIs
  <2>4. p \in Box(x, y, x + w - 1, y + h - 1) <=>
          x <= p[1] /\ p[1] <= x + w - 1 /\ y <= p[2] /\ p[2] <= y + h - 1
    BY <1>0, <2>1, BoxIs
  <2>5. p \in Box(x, y, x + w - 1, y + h - 1)
    BY <2>3, <2>4
  <2> QED BY <2>3, <2>5 DEF RectPixels, Border
<1> HIDE DEF R, V, H, J
<1>5. /\ Job(R, c) \in JobType /\ Job(V, c) \in JobType /\ Job(H, c) \in JobType
      /\ Job(R, c).pixels = R /\ Job(V, c).pixels = V /\ Job(H, c).pixels = H
      /\ Job(R, c).color = c /\ Job(V, c).color = c /\ Job(H, c).color = c
  BY <1>1, JobIs
<1>6. J \in Seq(JobType) /\ J # <<>>
  <2>1. CASE w = 1
    BY <1>2, <1>5, <2>1, TwoJobs
  <2>2. CASE w # 1 /\ h = 1
    BY <1>2, <1>5, <2>2, TwoJobs
  <2>3. CASE w # 1 /\ h # 1
    BY <1>2, <1>5, <2>3, OneJob
  <2> QED BY <2>1, <2>2, <2>3
<1>7. ASSUME w = 1 => y + h = YRES, w # 1 /\ h = 1 => x + w = XRES
      PROVE  Draws(J, Job(R, c))
  <2>1. CASE w = 1
    BY <1>2, <1>3, <1>5, <1>7, <2>1, TwoJobs
  <2>2. CASE w # 1 /\ h = 1
    BY <1>2, <1>4, <1>5, <1>7, <2>2, TwoJobs
  <2>3. CASE w # 1 /\ h # 1
    BY <1>2, <1>5, <2>3, OneJob
  <2> QED BY <2>1, <2>2, <2>3
<1> QED BY <1>6, <1>7 DEF J, R

-----------------------------------------------------------------------------
(* The panel.                                                              *)

PanelOf(p) == IF p = 0 THEN PanelOff ELSE [backlight |-> TRUE, level |-> p, display |-> TRUE]

\* The driver's part: the drawings of a call are drawings, and a restart has some.
CallInv ==
  /\ todo \in Seq(JobType)
  /\ polls \in Nat
  /\ booting \in BOOLEAN
  /\ booting => todo # <<>>
  /\ polls > 0 => todo # <<>>

PowerInv ==
  /\ power \in Nat
  /\ ~ booting => panel = PanelOf(power)

\* What the calls that draw put in todo, and what they ask for.
IsCall(jobs, asked) ==
  \/ \E r \in Rects, c \in Colors, fill \in BOOLEAN :
       /\ jobs = DrawJobs(r[1], r[2], r[3], r[4], c, fill)
       /\ asked = Job(RectPixels(r[1], r[2], r[3], r[4], fill), c)
  \/ \E c \in Colors :
       /\ jobs = DrawJobs(0, 0, XRES, YRES, c, TRUE)
       /\ asked = Job(RectPixels(0, 0, XRES, YRES, TRUE), c)
  \/ \E l \in Lines, c \in Colors :
       /\ jobs = <<LineJob(l[1], l[2], l[3], l[4], c)>>
       /\ asked = LineJob(l[1], l[2], l[3], l[4], c)
  \/ \E f \in Figures, c \in Colors : jobs = <<Job(f, c)>> /\ asked = Job(f, c)

\* The calls that draw put drawings in todo, of which the last paints what was asked.
LEMMA CallDraws ==
  ASSUME NEW jobs, NEW asked, IsCall(jobs, asked)
  PROVE  /\ jobs \in Seq(JobType) /\ jobs # <<>> /\ asked \in JobType
         /\ Draw(jobs, asked) /\ ~ DrawsTooLong => Draws(jobs, asked)
<1>1. CASE \E r \in Rects, c \in Colors, fill \in BOOLEAN :
             /\ jobs = DrawJobs(r[1], r[2], r[3], r[4], c, fill)
             /\ asked = Job(RectPixels(r[1], r[2], r[3], r[4], fill), c)
  <2>1. PICK r \in Rects, c \in Colors, fill \in BOOLEAN :
          /\ jobs = DrawJobs(r[1], r[2], r[3], r[4], c, fill)
          /\ asked = Job(RectPixels(r[1], r[2], r[3], r[4], fill), c)
    BY <1>1
  <2>2. r[1] \in Nat /\ r[2] \in Nat /\ r[3] \in Nat \ {0} /\ r[4] \in Nat \ {0}
    BY ShapesAssumption, ScreenIs DEF ShapesAssumption, Columns, Rows
  <2>3. asked \in JobType
    BY <2>1, <2>2, RectPixelsIs, JobIs
  <2>4. Draw(jobs, asked) /\ ~ DrawsTooLong => ~ TooLong(r)
    <3>1. Draw(jobs, asked) => drawrectangle(r, c, fill)
      BY <2>1, Zenon DEF drawrectangle
    <3> QED BY <3>1, Zenon DEF DrawsTooLong
  <2>5. ~ TooLong(r) => (r[3] = 1 => r[2] + r[4] = YRES) /\ (r[3] # 1 /\ r[4] = 1 => r[1] + r[3] = XRES)
    BY DEF TooLong
  <2> QED BY <2>1, <2>2, <2>3, <2>4, <2>5, RectangleDraws
<1>2. CASE \E c \in Colors :
             /\ jobs = DrawJobs(0, 0, XRES, YRES, c, TRUE)
             /\ asked = Job(RectPixels(0, 0, XRES, YRES, TRUE), c)
  <2>1. PICK c \in Colors :
             /\ jobs = DrawJobs(0, 0, XRES, YRES, c, TRUE)
             /\ asked = Job(RectPixels(0, 0, XRES, YRES, TRUE), c)
    BY <1>2
  <2>2. 0 \in Nat /\ XRES \in Nat \ {0} /\ YRES \in Nat \ {0} /\ 0 + YRES = YRES /\ 0 + XRES = XRES
    BY ScreenIs
  <2>3. asked \in JobType
    BY <2>1, <2>2, RectPixelsIs, JobIs
  <2> QED BY <2>1, <2>2, <2>3, RectangleDraws
<1>3. CASE \E l \in Lines, c \in Colors :
             /\ jobs = <<LineJob(l[1], l[2], l[3], l[4], c)>>
             /\ asked = LineJob(l[1], l[2], l[3], l[4], c)
  <2>1. PICK l \in Lines, c \in Colors :
             /\ jobs = <<LineJob(l[1], l[2], l[3], l[4], c)>>
             /\ asked = LineJob(l[1], l[2], l[3], l[4], c)
    BY <1>3
  <2>2. l[1] \in Int /\ l[2] \in Int /\ l[3] \in Int /\ l[4] \in Int
    BY ShapesAssumption, ScreenIs DEF ShapesAssumption, Columns, Rows
  <2>3. asked \in JobType
    BY <2>1, <2>2, BoxIs, JobIs DEF LineJob
  <2>4. jobs = <<asked>>
    BY <2>1
  <2> QED BY <2>3, <2>4, OneJob
<1>4. CASE \E f \in Figures, c \in Colors : jobs = <<Job(f, c)>> /\ asked = Job(f, c)
  <2>1. PICK f \in Figures, c \in Colors : jobs = <<Job(f, c)>> /\ asked = Job(f, c)
    BY <1>4
  <2>2. f \in SUBSET (Int \X Int)
    BY ShapesAssumption, ScreenIs DEF ShapesAssumption
  <2>3. asked \in JobType
    BY <2>1, <2>2, JobIs
  <2>4. jobs = <<asked>>
    BY <2>1
  <2> QED BY <2>3, <2>4, OneJob
<1> QED BY <1>1, <1>2, <1>3, <1>4 DEF IsCall

\* The drawings of a restart: both paint the whole screen black.
LEMMA RestartDraws ==
  Draws(<<ClearJob>> \o DrawJobs(0, 0, XRES, YRES, 0, TRUE), ClearJob)
<1> DEFINE D == DrawJobs(0, 0, XRES, YRES, 0, TRUE)
           J == <<ClearJob>> \o D
<1>1. 0 \in Nat /\ XRES \in Nat \ {0} /\ YRES \in Nat \ {0} /\ 0 + YRES = YRES /\ 0 + XRES = XRES
  BY ScreenIs
<1>2. 0 \in Colors /\ TRUE \in BOOLEAN
  BY ConstantsAssumption DEF ConstantsAssumption
<1>3. RectPixels(0, 0, XRES, YRES, TRUE) = Screen
  <2>1. 0 + XRES - 1 = XRES - 1 /\ 0 + YRES - 1 = YRES - 1
    BY <1>1
  <2> QED BY <2>1, ScreenIs DEF RectPixels
<1>4. Draws(D, ClearJob)
  BY <1>1, <1>2, <1>3, RectangleDraws DEF ClearJob
<1>5. ClearJob \in JobType /\ ClearJob.pixels = Screen
  BY <1>2, JobIs, ScreenIs DEF ClearJob
<1> HIDE DEF D
<1>6. D \in Seq(JobType) /\ Len(D) \in Nat /\ Len(D) > 0 /\ D[Len(D)] = ClearJob
  BY <1>4 DEF Draws
<1>7. J \in Seq(JobType) /\ Len(J) = Len(D) + 1 /\ J[1] = ClearJob /\ \A i \in 1 .. Len(D) : J[i + 1] = D[i]
  BY <1>5, <1>6
<1> HIDE DEF J
<1>8. J # <<>> /\ J[Len(J)] = ClearJob
  BY <1>6, <1>7
<1>9. ASSUME NEW i \in 1 .. Len(J)
      PROVE  J[i].color = ClearJob.color /\ J[i].pixels \intersect Screen \subseteq ClearJob.pixels
  <2>1. CASE i = 1
    BY <1>5, <1>7, <2>1
  <2>2. CASE i # 1
    <3>1. i - 1 \in 1 .. Len(D) /\ (i - 1) + 1 = i
      BY <1>6, <1>7, <2>2
    <3>2. J[i] = D[i - 1]
      BY <1>7, <3>1
    <3> QED BY <1>4, <3>1, <3>2 DEF Draws
  <2> QED BY <2>1, <2>2
<1> QED BY <1>7, <1>8, <1>9 DEF Draws, J, D

\* The steps, with the calls that draw as one case.
LEMMA Steps ==
  ASSUME [Next]_vars
  PROVE  \/ UNCHANGED vars
         \/ Streams
         \/ getrun
         \/ \E jobs, asked : IsCall(jobs, asked) /\ Draw(jobs, asked)
         \/ \E p \in 0 .. MaxPower : setpower(p)
         \/ StartEngine
         \/ EngineDone
         \/ Poll
         \/ Restart
<1>1. ASSUME NEW r \in Rects, NEW c \in Colors, NEW fill \in BOOLEAN, drawrectangle(r, c, fill)
      PROVE  \E jobs, asked : IsCall(jobs, asked) /\ Draw(jobs, asked)
  <2> DEFINE jobs == DrawJobs(r[1], r[2], r[3], r[4], c, fill)
             asked == Job(RectPixels(r[1], r[2], r[3], r[4], fill), c)
  <2>1. IsCall(jobs, asked)
    BY Zenon DEF IsCall
  <2>2. Draw(jobs, asked)
    BY <1>1, Zenon DEF drawrectangle
  <2> QED BY <2>1, <2>2, Zenon
<1>2. ASSUME NEW c \in Colors, clear(c)
      PROVE  \E jobs, asked : IsCall(jobs, asked) /\ Draw(jobs, asked)
  <2> DEFINE r == <<0, 0, XRES, YRES>>
             jobs == DrawJobs(r[1], r[2], r[3], r[4], c, TRUE)
             asked == Job(RectPixels(r[1], r[2], r[3], r[4], TRUE), c)
  <2>0. r[1] = 0 /\ r[2] = 0 /\ r[3] = XRES /\ r[4] = YRES
    OBVIOUS
  <2>1. IsCall(jobs, asked)
    BY <2>0 DEF IsCall
  <2>2. Draw(jobs, asked)
    BY <1>2, Zenon DEF clear, drawrectangle
  <2> QED BY <2>1, <2>2, Zenon
<1>3. ASSUME NEW l \in Lines, NEW c \in Colors, drawline(l, c)
      PROVE  \E jobs, asked : IsCall(jobs, asked) /\ Draw(jobs, asked)
  <2> DEFINE asked == LineJob(l[1], l[2], l[3], l[4], c)
  <2>1. IsCall(<<asked>>, asked)
    BY Zenon DEF IsCall
  <2>2. Draw(<<asked>>, asked)
    BY <1>3, Zenon DEF drawline
  <2> QED BY <2>1, <2>2, Zenon
<1>4. ASSUME NEW f \in Figures, NEW c \in Colors, drawfigure(f, c)
      PROVE  \E jobs, asked : IsCall(jobs, asked) /\ Draw(jobs, asked)
  <2>1. IsCall(<<Job(f, c)>>, Job(f, c))
    BY Zenon DEF IsCall
  <2>2. Draw(<<Job(f, c)>>, Job(f, c))
    BY <1>4, Zenon DEF drawfigure
  <2> QED BY <2>1, <2>2, Zenon
<1> QED BY <1>1, <1>2, <1>3, <1>4, Zenon DEF Next, Streams

\* A drawing that is not the last leaves others.
LEMMA TailIs ==
  ASSUME NEW s \in Seq(JobType), s # <<>>
  PROVE  /\ Len(s) \in Nat /\ Len(s) > 0 /\ Head(s) = s[1] /\ s[1] \in JobType
         /\ Tail(s) \in Seq(JobType) /\ Len(Tail(s)) = Len(s) - 1
         /\ Len(s) = 1 <=> Tail(s) = <<>>
         /\ \A i \in 1 .. Len(s) - 1 : Tail(s)[i] = s[i + 1]
<1>1. /\ Len(s) \in Nat /\ Len(s) > 0 /\ Head(s) = s[1] /\ s[1] \in JobType
      /\ Tail(s) \in Seq(JobType) /\ Len(Tail(s)) = Len(s) - 1
      /\ \A i \in 1 .. Len(s) - 1 : Tail(s)[i] = s[i + 1]
  OBVIOUS
<1>2. Tail(s) = <<>> <=> Len(Tail(s)) = 0
  BY <1>1, EmptySeq
<1> QED BY <1>1, <1>2

\* Every step keeps the driver's part.
LEMMA CallNext == CallInv /\ [Next]_vars => CallInv'
<1> SUFFICES ASSUME CallInv, [Next]_vars
             PROVE  CallInv'
  OBVIOUS
<1>1. CASE UNCHANGED <<todo, polls, booting>>
  BY <1>1 DEF CallInv
<1>2. CASE \E jobs, asked : IsCall(jobs, asked) /\ Draw(jobs, asked)
  <2>1. PICK jobs, asked : IsCall(jobs, asked) /\ Draw(jobs, asked)
    BY <1>2
  <2>2. UNCHANGED <<polls, booting>> /\ todo' = jobs
    BY <2>1 DEF Draw
  <2>3. jobs \in Seq(JobType) /\ jobs # <<>>
    BY <2>1, CallDraws
  <2> QED BY <2>2, <2>3 DEF CallInv
<1>3. CASE StartEngine
  BY <1>3, ConstantsAssumption DEF StartEngine, CallInv, ConstantsAssumption
<1>4. CASE Poll
  <2>1. polls > 0 /\ todo # <<>> /\ todo \in Seq(JobType)
    BY <1>4 DEF Poll, CallInv
  <2>2. /\ Len(todo) = 1 <=> Tail(todo) = <<>>
        /\ Tail(todo) \in Seq(JobType)
    BY <2>1, TailIs
  <2>3. CASE Advance
    <3>1. todo' = Tail(todo) /\ polls' = 0
      BY <2>3 DEF Advance
    <3>2. CASE booting /\ Len(todo) = 1
      <4>1. booting' = FALSE
        BY <2>3, <3>2, Zenon DEF Advance
      <4>2. polls' \in Nat /\ ~ (polls' > 0) /\ todo' \in Seq(JobType)
        BY <2>2, <3>1
      <4> QED BY <4>1, <4>2, Zenon DEF CallInv
    <3>3. CASE ~ (booting /\ Len(todo) = 1)
      BY <2>2, <2>3, <3>1, <3>3 DEF Advance, CallInv
    <3> QED BY <3>2, <3>3
  <2>4. CASE polls # 1 /\ polls' = polls - 1 /\ UNCHANGED <<todo, booting>>
    BY <2>1, <2>4 DEF CallInv
  <2> QED BY <1>4, <2>3, <2>4 DEF Poll
<1>5. CASE Restart
  <2>1. booting' = TRUE /\ polls' = 0 /\ todo' = <<ClearJob>> \o DrawJobs(0, 0, XRES, YRES, 0, TRUE)
    BY <1>5 DEF Restart
  <2> QED BY <2>1, RestartDraws DEF CallInv, Draws
<1>6. CASE UNCHANGED vars
  BY <1>1, <1>6 DEF vars
<1>7. CASE Streams
  BY <1>1, <1>7 DEF putrun, Streams
<1>8. CASE getrun
  BY <1>1, <1>8 DEF getrun, driver
<1>9. CASE \E p \in 0 .. MaxPower : setpower(p)
  BY <1>1, <1>9 DEF setpower
<1>10. CASE EngineDone
  BY <1>1, <1>10 DEF EngineDone, driver
<1> QED BY <1>2, <1>3, <1>4, <1>5, <1>6, <1>7, <1>8, <1>9, <1>10, Steps

\* Every step keeps the panel in accord with the power setting.
LEMMA PowerNext == CallInv /\ PowerInv /\ [Next]_vars => PowerInv'
<1> SUFFICES ASSUME CallInv, PowerInv, [Next]_vars
             PROVE  PowerInv'
  OBVIOUS
<1>1. CASE UNCHANGED <<power, booting, panel>>
  BY <1>1 DEF PowerInv
<1>3. CASE \E p \in 0 .. MaxPower : setpower(p)
  <2>1. PICK p \in 0 .. MaxPower : setpower(p)
    BY <1>3
  <2>2. ~ booting /\ ~ booting' /\ power' = p /\ p \in Nat /\ panel = PanelOf(power)
    BY <2>1, ConstantsAssumption DEF ConstantsAssumption, setpower, Idle, PowerInv, CallInv
  <2>3. panel.backlight \/ power = 0
    BY <2>2 DEF PanelOf
  <2>4. panel' = PanelOf(p)
    BY <2>1, <2>3 DEF setpower, PanelOf
  <2> QED BY <2>2, <2>4 DEF PowerInv
<1>4. CASE Poll
  <2>1. CASE UNCHANGED <<power, booting, panel>>
    BY <1>1, <2>1
  <2>2. CASE Advance /\ booting /\ Len(todo) = 1
    BY <2>2 DEF Advance, PowerInv, PanelOf
  <2>3. CASE Advance /\ ~ (booting /\ Len(todo) = 1)
    BY <1>1, <2>3 DEF Advance
  <2> QED BY <1>4, <2>1, <2>2, <2>3 DEF Poll
<1>5. CASE Restart
  <2>1. power' = 0 /\ booting' = TRUE
    BY <1>5 DEF Restart
  <2> QED BY <2>1 DEF PowerInv
<1>6. CASE UNCHANGED vars
  BY <1>1, <1>6 DEF vars
<1>7. CASE Streams
  BY <1>1, <1>7 DEF putrun, Streams
<1>8. CASE getrun
  BY <1>1, <1>8 DEF getrun, driver, chip
<1>9. CASE \E jobs, asked : IsCall(jobs, asked) /\ Draw(jobs, asked)
  BY <1>1, <1>9 DEF Draw, chip
<1>10. CASE EngineDone \/ StartEngine
  BY <1>1, <1>10 DEF EngineDone, StartEngine, driver
<1> QED BY <1>3, <1>4, <1>5, <1>6, <1>7, <1>8, <1>9, <1>10, Steps

\* The driver starts between calls.
LEMMA InitCall == Init => CallInv
<1> SUFFICES ASSUME Init PROVE CallInv
  OBVIOUS
<1>1. todo = <<>> /\ polls = 0 /\ booting = FALSE
  BY DEF Init
<1>2. todo \in Seq(JobType) /\ polls \in Nat /\ ~ (polls > 0)
  BY <1>1
<1> QED BY <1>1, <1>2, Zenon DEF CallInv

\* After every step of the driver and the controller, restarts of the processor alone included,
\* the panel between calls is what the last ra8875_setpower or the initialisation made it.
THEOREM PowerCorrect == Spec => []PowerExact
<1>1. Init => CallInv /\ PowerInv
  <2> SUFFICES ASSUME Init PROVE CallInv /\ PowerInv
    OBVIOUS
  <2>1. power = 0 /\ todo = <<>> /\ polls = 0 /\ booting = FALSE /\ panel = PanelOff
    BY DEF Init
  <2>2. CallInv
    BY InitCall
  <2>3. PowerInv
    BY <2>1 DEF PowerInv, PanelOf
  <2> QED BY <2>2, <2>3
<1>2. CallInv /\ PowerInv /\ [Next]_vars => (CallInv /\ PowerInv)'
  BY CallNext, PowerNext
<1>3. CallInv /\ PowerInv => PowerExact
  BY DEF CallInv, PowerInv, PowerExact, PanelOf, Idle
<1> QED BY <1>1, <1>2, <1>3, PTL DEF Spec

-----------------------------------------------------------------------------
(* The cursor.                                                             *)

CursorInv == shadow = cursor /\ cursor \in [curh : Int, curv : Int]

\* The bytes hold the pixels of the run.
Carries(data, run) ==
  \A k \in 1 .. Len(run) : data[2 * k - 1] + 256 * data[2 * k] = run[k]

\* What a run puts on the bus, and what the controller makes of it.
LEMMA RunStored ==
  ASSUME TypedStream = FALSE, CursorInv,
         NEW row \in Int, NEW col \in Int, NEW n \in Nat \ {0}, NEW run \in [1 .. n -> Colors]
  PROVE  LET at == set_writecursor(col, row)
             data == Received(Bytes(run))
         IN  /\ at = [curh |-> col, curv |-> row]
             /\ Len(run) = n /\ Len(data) \div 2 = n
             /\ Carries(data, run)
<1> DEFINE at == set_writecursor(col, row)
           data == Received(Bytes(run))
<1>1. at = [curh |-> col, curv |-> row]
  BY DEF CursorInv, set_writecursor
<1>2. Len(run) = n
  BY LenProperties
<1>3. data = [k \in 1 .. 2 * n |-> IF k % 2 = 1 THEN run[(k + 1) \div 2] % 256 ELSE run[k \div 2] \div 256]
  BY <1>2 DEF Received, Bytes
<1> HIDE DEF data
<1>4. 2 * n \in Nat /\ Len(data) = 2 * n
  <2>1. 2 * n \in Nat
    OBVIOUS
  <2>2. data \in [1 .. 2 * n -> {data[k] : k \in 1 .. 2 * n}]
    BY <1>3
  <2> QED BY <2>1, <2>2, LenProperties
<1>5. Len(data) \div 2 = n
  BY <1>4
<1>6. ASSUME NEW k \in 1 .. n
      PROVE  data[2 * k - 1] + 256 * data[2 * k] = run[k]
  <2>1. /\ 2 * k - 1 \in 1 .. 2 * n /\ 2 * k \in 1 .. 2 * n
        /\ (2 * k - 1) % 2 = 1 /\ (2 * k) % 2 = 0
        /\ ((2 * k - 1) + 1) \div 2 = k /\ (2 * k) \div 2 = k
    OBVIOUS
  <2>2. data[2 * k - 1] = run[k] % 256 /\ data[2 * k] = run[k] \div 256
    BY <1>3, <2>1
  <2>3. run[k] \in Nat
    BY ConstantsAssumption DEF ConstantsAssumption
  <2>4. \A c \in Nat : (c % 256) + 256 * (c \div 256) = c
    OBVIOUS
  <2> QED BY <2>2, <2>3, <2>4
<1>7. Carries(data, run)
  BY <1>2, <1>6 DEF Carries
<1> QED BY <1>1, <1>2, <1>5, <1>7 DEF data

\* Every step keeps the shadow equal to the cursor.
LEMMA CursorNext ==
  ASSUME CursorInv, [Next]_vars, [~ LosesBytes /\ ~ KeepsCursor]_vars
  PROVE  CursorInv'
<1>1. CASE UNCHANGED <<shadow, cursor>>
  BY <1>1 DEF CursorInv
<1>2. CASE UNCHANGED vars
  BY <1>1, <1>2 DEF vars
<1> SUFFICES ASSUME ~ UNCHANGED vars PROVE CursorInv'
  BY <1>2
<1>3. (Streams => TypedStream = FALSE) /\ (Restart => ResetWorks)
  BY ConstantsAssumption DEF LosesBytes, KeepsCursor, ConstantsAssumption
<1>4. CASE Streams
  <2>a. PICK row \in Rows, col \in Columns :
          \E n \in 1 .. XRES - col : \E run \in Runs(n) : putrun(row, col, run)
    BY <1>4 DEF Streams
  <2>b. PICK n \in 1 .. XRES - col : \E run \in Runs(n) : putrun(row, col, run)
    BY <2>a
  <2>1. PICK run \in Runs(n) : putrun(row, col, run)
    BY <2>b
  <2>2. row \in Int /\ col \in Int /\ n \in Nat \ {0} /\ run \in [1 .. n -> Colors]
    BY ScreenIs DEF Rows, Columns, Runs
  <2> DEFINE at == set_writecursor(col, row)
             data == Received(Bytes(run))
  <2>3. at = [curh |-> col, curv |-> row] /\ Len(run) = n /\ Len(data) \div 2 = n
    BY <1>3, <1>4, <2>2, RunStored, Zenon
  <2>4. /\ cursor' = [at EXCEPT !.curh = @ + Len(data) \div 2]
        /\ shadow' = [curh |-> col + Len(run), curv |-> row]
    BY <2>1 DEF putrun, ShadowAfter
  <2> HIDE DEF at, data
  <2>5. cursor' = [curh |-> col + n, curv |-> row]
    BY <2>2, <2>3, <2>4
  <2> QED BY <2>2, <2>3, <2>4, <2>5 DEF CursorInv
<1>5. CASE Restart
  BY <1>3, <1>5 DEF Restart, CursorInv
<1>6. CASE getrun \/ EngineDone \/ StartEngine \/ Poll
  BY <1>1, <1>6 DEF getrun, EngineDone, StartEngine, Poll, driver, chip
<1>7. CASE \E jobs, asked : IsCall(jobs, asked) /\ Draw(jobs, asked)
  BY <1>1, <1>7 DEF Draw, chip
<1>8. CASE \E p \in 0 .. MaxPower : setpower(p)
  BY <1>1, <1>8 DEF setpower
<1> QED BY <1>2, <1>4, <1>5, <1>6, <1>7, <1>8, Steps

\* Between calls the shadow of the write cursor is the controller's cursor, on which the driver
\* leaves out register writes, until a run loses bytes or the processor restarts alone.
THEOREM ShadowCorrect ==
  Spec /\ [][~ LosesBytes /\ ~ KeepsCursor]_vars => []ShadowExact
<1>1. Init => CursorInv
  BY DEF Init, CursorInv
<1>2. CursorInv /\ [Next]_vars /\ [~ LosesBytes /\ ~ KeepsCursor]_vars => CursorInv'
  BY CursorNext
<1>3. CursorInv => ShadowExact
  BY DEF CursorInv, ShadowExact
<1> QED BY <1>1, <1>2, <1>3, PTL DEF Spec

-----------------------------------------------------------------------------
(* The picture.                                                            *)

\* The last drawing of a call.
Final == todo[Len(todo)]

PictureInv ==
  /\ late \in BOOLEAN
  /\ todo # <<>> => Draws(todo, Final)
  /\ ~ late /\ polls = 0 => engine = NoJob
  /\ ~ late /\ todo = <<>> => gram = want
  /\ ~ late /\ todo # <<>> => want = Paint(gram, Final)
  /\ ~ late /\ polls > 0 => engine \in {NoJob, todo[1]}
  /\ ~ late /\ polls > 0 /\ Len(todo) = 1 /\ engine = NoJob => gram = want

\* A drawing paints over what is part of it.
LEMMA PaintAbsorbs ==
  ASSUME NEW picture, NEW job, NEW over, job.color = over.color,
         job.pixels \intersect Screen \subseteq over.pixels
  PROVE  Paint(Paint(picture, job), over) = Paint(picture, over)
BY DEF Paint

\* A drawing of the whole screen leaves nothing of what was there.
LEMMA PaintAll == \A picture : Paint(picture, ClearJob) = BlackScreen
<1>1. ClearJob.pixels = Screen /\ ClearJob.color = 0
  BY DEF ClearJob, Job
<1> QED BY <1>1 DEF Paint, BlackScreen

\* What is left of a call after a drawing still ends in what was asked.
LEMMA TailDraws ==
  ASSUME NEW s, NEW asked, Draws(s, asked), Len(s) # 1
  PROVE  Tail(s) # <<>> /\ Draws(Tail(s), asked)
<1>1. s \in Seq(JobType) /\ s # <<>>
  BY DEF Draws
<1>2. /\ Len(s) \in Nat /\ Len(s) > 0
      /\ Tail(s) \in Seq(JobType) /\ Len(Tail(s)) = Len(s) - 1 /\ Tail(s) # <<>>
      /\ \A i \in 1 .. Len(s) - 1 : Tail(s)[i] = s[i + 1]
  BY <1>1, TailIs
<1>3. Tail(s)[Len(Tail(s))] = asked
  <2>1. Len(s) - 1 \in 1 .. Len(s) - 1 /\ (Len(s) - 1) + 1 = Len(s)
    BY <1>2
  <2> QED BY <1>2, <2>1 DEF Draws
<1>4. ASSUME NEW i \in 1 .. Len(Tail(s))
      PROVE  Tail(s)[i].color = asked.color /\ Tail(s)[i].pixels \intersect Screen \subseteq asked.pixels
  <2>1. i \in 1 .. Len(s) - 1 /\ i + 1 \in 1 .. Len(s)
    BY <1>2
  <2>2. Tail(s)[i] = s[i + 1]
    BY <1>2, <2>1
  <2> QED BY <2>1, <2>2 DEF Draws
<1> QED BY <1>2, <1>3, <1>4 DEF Draws

\* A run of pixels reaches the display as it was given.
LEMMA PictureRun ==
  ASSUME TypedStream = FALSE, CallInv, CursorInv, PictureInv,
         Streams
  PROVE  PictureInv'
<1>a. PICK row \in Rows, col \in Columns :
        \E n \in 1 .. XRES - col : \E run \in Runs(n) : putrun(row, col, run)
  BY DEF Streams
<1>b. PICK n \in 1 .. XRES - col : \E run \in Runs(n) : putrun(row, col, run)
  BY <1>a
<1>1. PICK run \in Runs(n) : putrun(row, col, run)
  BY <1>b
<1>2. row \in Int /\ col \in Int /\ n \in Nat \ {0} /\ run \in [1 .. n -> Colors]
  BY ScreenIs DEF Rows, Columns, Runs
<1> DEFINE at == set_writecursor(col, row)
           data == Received(Bytes(run))
<1>3. /\ at = [curh |-> col, curv |-> row] /\ Len(run) = n /\ Len(data) \div 2 = n
      /\ \A k \in 1 .. n : data[2 * k - 1] + 256 * data[2 * k] = run[k]
  <2> HIDE DEF at, data
  <2>1. at = [curh |-> col, curv |-> row]
    BY <1>2, RunStored, Zenon DEF at
  <2>2. Len(run) = n
    BY <1>2, RunStored, Zenon
  <2>3. Len(data) \div 2 = n
    BY <1>2, RunStored, Zenon DEF data
  <2>4. Carries(data, run)
    BY <1>2, RunStored, Zenon DEF data
  <2> QED BY <2>1, <2>2, <2>3, <2>4 DEF Carries
<1>4. todo = <<>> /\ todo' = <<>> /\ polls = 0 /\ polls' = 0 /\ engine' = engine /\ late' = late
  BY <1>1 DEF putrun, Idle, CallInv
<1>5. gram' = Stored(data, at)
  BY <1>1, Zenon DEF putrun
<1>6. ~ late => want' = [p \in Screen |-> IF p[2] = row /\ p[1] \in col .. col + Len(run) - 1
                                          THEN run[p[1] - col + 1] ELSE want[p]]
  BY <1>1 DEF putrun, Ask
<1> HIDE DEF at, data
<1>7. ASSUME ~ late
      PROVE  gram' = want'
  <2>1. gram = want
    BY <1>4, <1>7 DEF PictureInv
  <2>2. at.curh = col /\ at.curv = row
    BY <1>3
  <2>3. gram' = [p \in Screen |-> IF p[2] = row /\ p[1] - col + 1 \in 1 .. n
                                  THEN data[2 * (p[1] - col + 1) - 1] + 256 * data[2 * (p[1] - col + 1)]
                                  ELSE want[p]]
    BY <1>3, <1>5, <2>1, <2>2 DEF Stored
  <2>4. ASSUME NEW p \in Screen
        PROVE  /\ p[1] - col + 1 \in 1 .. n <=> p[1] \in col .. col + Len(run) - 1
               /\ p[1] - col + 1 \in 1 .. n =>
                    data[2 * (p[1] - col + 1) - 1] + 256 * data[2 * (p[1] - col + 1)] = run[p[1] - col + 1]
    <3>1. p[1] \in Int
      BY ScreenIs
    <3>2. p[1] - col + 1 \in 1 .. n <=> p[1] \in col .. col + n - 1
      BY <1>2, <3>1
    <3> QED BY <1>3, <3>2
  <2> QED BY <1>6, <1>7, <2>3, <2>4
<1> QED BY <1>4, <1>7 DEF PictureInv

\* A call that draws sets out to paint what was asked.
LEMMA PictureDraw ==
  ASSUME ~ DrawsTooLong, CallInv, PictureInv,
         NEW jobs, NEW asked, IsCall(jobs, asked), Draw(jobs, asked)
  PROVE  PictureInv'
<1>1. /\ todo = <<>> /\ todo' = jobs /\ polls = 0 /\ polls' = 0 /\ engine' = engine /\ late' = late
      /\ gram' = gram
  BY DEF Draw, Idle, CallInv, chip
<1>2. Draws(jobs, asked) /\ jobs # <<>> /\ jobs[Len(jobs)] = asked
  BY CallDraws DEF Draws
<1>3. Final' = asked
  BY <1>1, <1>2 DEF Final
<1>4. ~ late => want' = Paint(want, asked) /\ gram = want
  BY <1>1 DEF Draw, Ask, PictureInv
<1>5. ~ late => want' = Paint(gram', asked)
  BY <1>1, <1>4
<1> QED BY <1>1, <1>2, <1>3, <1>5 DEF PictureInv

\* The engine starts on the first drawing that is left.
LEMMA PictureStart ==
  ASSUME CallInv, PictureInv, StartEngine
  PROVE  PictureInv'
<1>1. /\ todo # <<>> /\ todo' = todo /\ engine' = Head(todo) /\ polls' = MaxPolls
      /\ gram' = gram /\ want' = want /\ late' = late
  BY DEF StartEngine
<1>2. engine' = todo[1] /\ todo[1] \in JobType
  BY <1>1, TailIs DEF CallInv
<1>3. engine' # NoJob
  BY <1>2, JobIs
<1>4. MaxPolls \in Nat /\ MaxPolls > 0
  BY ConstantsAssumption DEF ConstantsAssumption
<1>5. Final' = Final
  BY <1>1 DEF Final
<1>6. Draws(todo', Final') /\ (~ late => want' = Paint(gram', Final'))
  BY <1>1, <1>5 DEF PictureInv
<1> QED BY <1>1, <1>2, <1>3, <1>4, <1>6 DEF PictureInv

\* What the engine paints, the last drawing of the call paints over.
LEMMA PictureDone ==
  ASSUME CallInv, PictureInv, EngineDone
  PROVE  PictureInv'
<1>1. /\ engine # NoJob /\ engine' = NoJob /\ gram' = Paint(gram, engine) /\ todo' = todo
      /\ polls' = polls /\ want' = want /\ late' = late
  BY DEF EngineDone, driver
<1>2. Final' = Final
  BY <1>1 DEF Final
<1>3. CASE late
  BY <1>1, <1>2, <1>3 DEF PictureInv
<1>4. CASE ~ late
  <2>1. polls > 0 /\ todo # <<>> /\ engine = todo[1]
    BY <1>1, <1>4 DEF PictureInv, CallInv
  <2>2. Draws(todo, Final) /\ want = Paint(gram, Final)
    BY <1>4, <2>1 DEF PictureInv
  <2>3. Len(todo) \in Nat /\ Len(todo) > 0
    BY <2>1, TailIs DEF CallInv
  <2>4. engine.color = Final.color /\ engine.pixels \intersect Screen \subseteq Final.pixels
    <3>1. 1 \in 1 .. Len(todo)
      BY <2>3
    <3> QED BY <2>1, <2>2, <3>1 DEF Draws
  <2>5. want' = Paint(gram', Final')
    BY <1>1, <1>2, <2>2, <2>4, PaintAbsorbs
  <2>6. Len(todo) = 1 => gram' = want'
    BY <1>1, <2>1, <2>2 DEF Final
  <2> QED BY <1>1, <1>2, <1>4, <2>1, <2>2, <2>5, <2>6 DEF PictureInv
<1> QED BY <1>3, <1>4 DEF PictureInv

\* A drawing that is waited for to its end is on the display.
LEMMA PicturePoll ==
  ASSUME CallInv, PictureInv, Poll
  PROVE  PictureInv'
<1>1. /\ polls > 0 /\ todo # <<>> /\ todo \in Seq(JobType) /\ polls \in Nat /\ late \in BOOLEAN
      /\ gram' = gram /\ engine' = engine /\ Draws(todo, Final)
  BY DEF Poll, CallInv, PictureInv
<1>2. CASE ~ (engine = NoJob \/ polls = 1)
  <2>1. polls' = polls - 1 /\ todo' = todo /\ want' = want /\ late' = late
    BY <1>2 DEF Poll
  <2>2. polls' > 0 /\ ~ (polls' = 0)
    BY <1>1, <1>2, <2>1
  <2>3. Final' = Final
    BY <2>1 DEF Final
  <2> QED BY <1>1, <2>1, <2>2, <2>3 DEF PictureInv
<1>3. CASE engine = NoJob \/ polls = 1
  <2>1. todo' = Tail(todo) /\ polls' = 0 /\ late' = (late \/ engine # NoJob)
        /\ want' = IF late' THEN BlackScreen ELSE want
    BY <1>3 DEF Poll, Advance
  <2>2. late' \in BOOLEAN
    BY <2>1
  <2>3. /\ Len(todo) = 1 <=> todo' = <<>>
    BY <1>1, <2>1, TailIs
  <2>4. Len(todo) # 1 => Draws(todo', Final) /\ todo' # <<>>
    BY <1>1, <2>1, TailDraws
  <2>5. Len(todo) # 1 => Final' = Final
    BY <2>4 DEF Final, Draws
  <2>6. todo' # <<>> => Draws(todo', Final')
    BY <2>3, <2>4, <2>5
  <2>7. ~ late' => ~ late /\ engine = NoJob /\ want' = want
    BY <2>1
  <2>8. ~ late' /\ todo' = <<>> => gram' = want'
    BY <1>1, <2>3, <2>7 DEF PictureInv
  <2>9. ~ late' /\ todo' # <<>> => want' = Paint(gram', Final')
    BY <1>1, <2>3, <2>5, <2>7 DEF PictureInv
  <2>10. ~ (polls' > 0)
    BY <2>1
  <2> QED BY <1>1, <2>1, <2>2, <2>6, <2>7, <2>8, <2>9, <2>10 DEF PictureInv
<1> QED BY <1>2, <1>3

\* A restart that resets the controller leaves a call that paints the screen black.
LEMMA PictureRestart ==
  ASSUME ResetWorks, CallInv, PictureInv, Restart
  PROVE  PictureInv'
<1>1. /\ todo' = <<ClearJob>> \o DrawJobs(0, 0, XRES, YRES, 0, TRUE) /\ polls' = 0
      /\ want' = BlackScreen /\ late' = FALSE /\ engine' = NoJob /\ gram' = gram
  BY DEF Restart
<1>2. Draws(todo', ClearJob) /\ todo' # <<>>
  BY <1>1, RestartDraws DEF Draws
<1>3. Final' = ClearJob
  BY <1>2 DEF Final, Draws
<1>4. want' = Paint(gram', Final')
  BY <1>1, <1>3, PaintAll
<1>5. ~ (polls' > 0)
  BY <1>1
<1> QED BY <1>1, <1>2, <1>3, <1>4, <1>5 DEF PictureInv

\* Every step keeps the picture's part.
LEMMA PictureNext ==
  ASSUME CallInv, CursorInv, PictureInv, [Next]_vars, [~ LosesBytes /\ ~ KeepsCursor /\ ~ DrawsTooLong]_vars
  PROVE  PictureInv'
<1>1. CASE UNCHANGED <<todo, polls, engine, gram, want, late>>
  BY <1>1 DEF PictureInv, Final
<1>2. CASE UNCHANGED vars
  BY <1>1, <1>2 DEF vars
<1> SUFFICES ASSUME ~ UNCHANGED vars PROVE PictureInv'
  BY <1>2
<1>3. (Streams => TypedStream = FALSE) /\ (Restart => ResetWorks) /\ ~ DrawsTooLong
  BY ConstantsAssumption DEF LosesBytes, KeepsCursor, ConstantsAssumption
<1>4. CASE Streams
  BY <1>3, <1>4, PictureRun
<1>5. CASE Restart
  BY <1>3, <1>5, PictureRestart
<1>6. CASE getrun
  BY <1>1, <1>6 DEF getrun, driver, chip
<1>7. CASE \E jobs, asked : IsCall(jobs, asked) /\ Draw(jobs, asked)
  BY <1>3, <1>7, PictureDraw
<1>8. CASE \E p \in 0 .. MaxPower : setpower(p)
  BY <1>1, <1>8 DEF setpower
<1> QED BY <1>4, <1>5, <1>2, <1>6, <1>7, <1>8, Steps, PictureStart, PictureDone, PicturePoll

\* Between calls, as long as no wait for the engine has run out, the display shows what the
\* calls drew: runs of pixels (ra8875_putrun), rectangles, lines and figures in any order, with
\* restarts at any moment.  Only the three steps that are named above can end this.
THEOREM PictureCorrect ==
  Spec /\ [][~ LosesBytes /\ ~ KeepsCursor /\ ~ DrawsTooLong]_vars => []PictureExact
<1> DEFINE IInv == CallInv /\ CursorInv /\ PictureInv
<1>1. Init => IInv
  <2> SUFFICES ASSUME Init PROVE IInv
    OBVIOUS
  <2>1. CallInv /\ CursorInv
    BY InitCall DEF Init, CursorInv
  <2>2. PictureInv
    BY DEF Init, PictureInv
  <2> QED BY <2>1, <2>2
<1>2. IInv /\ [Next]_vars /\ [~ LosesBytes /\ ~ KeepsCursor /\ ~ DrawsTooLong]_vars => IInv'
  <2> SUFFICES ASSUME IInv, [Next]_vars, [~ LosesBytes /\ ~ KeepsCursor /\ ~ DrawsTooLong]_vars
               PROVE  IInv'
    OBVIOUS
  <2>1. [~ LosesBytes /\ ~ KeepsCursor]_vars
    OBVIOUS
  <2> QED BY <2>1, CallNext, CursorNext, PictureNext
<1>3. IInv => PictureExact
  <2>1. CallInv /\ todo = <<>> => polls = 0
    BY DEF CallInv
  <2> QED BY <2>1 DEF PictureInv, PictureExact, Idle
<1> QED BY <1>1, <1>2, <1>3, PTL DEF Spec
=============================================================================
