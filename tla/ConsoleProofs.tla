---------------------------- MODULE ConsoleProofs -----------------------------
(***************************************************************************)
(* Proofs about Console, for every screen, character size, tab distance,   *)
(* set of formats and number of CPUs: the cursor stays on the screen, what *)
(* is drawn is drawn in the frame buffer, the buffer belongs to the holder *)
(* of the lock, and the layout of number() fills a field exactly.          *)
(***************************************************************************)
EXTENDS Console, TLAPS

------------------------------------------------------------------------------
(* Arithmetic.                                                             *)

(* A product grows with its factor.                                        *)
LEMMA ProductMonotone ==
  ASSUME NEW a \in Nat, NEW b \in Nat, NEW m \in Nat, a <= b
  PROVE  a * m \in Nat /\ a * m <= b * m
  BY SMT

(* The cells of a row and of a column: how many, and that they fit.        *)
LEMMA Cells ==
  ASSUME NEW n \in Nat, NEW m \in Nat \ {0}, n >= m
  PROVE  /\ n \div m \in Nat \ {0}
         /\ (n \div m) * m <= n
  BY SMT

(* The screen has at least one cell.                                       *)
LEMMA ScreenHasCells ==
  /\ Columns \in Nat \ {0} /\ Columns * XCharSize <= XResolution
  /\ Rows \in Nat \ {0} /\ Rows * YCharSize <= YResolution
  BY ScreenAssumption, Cells DEF Columns, Rows

(* A cell of the screen is drawn within the frame buffer: putchar gets a   *)
(* pixel position that leaves room for a character.                        *)
LEMMA CellInFrame ==
  ASSUME NEW x \in 0 .. Columns - 1, NEW y \in 0 .. Rows - 1
  PROVE  /\ x * XCharSize \in 0 .. XResolution - XCharSize
         /\ y * YCharSize \in 0 .. YResolution - YCharSize
<1>1. (x + 1) * XCharSize <= Columns * XCharSize /\ x * XCharSize \in Nat
  BY ScreenHasCells, ScreenAssumption, ProductMonotone
<1>2. (x + 1) * XCharSize = x * XCharSize + XCharSize
  BY ScreenHasCells, ScreenAssumption
<1>3. (y + 1) * YCharSize <= Rows * YCharSize /\ y * YCharSize \in Nat
  BY ScreenHasCells, ScreenAssumption, ProductMonotone
<1>4. (y + 1) * YCharSize = y * YCharSize + YCharSize
  BY ScreenHasCells, ScreenAssumption
<1>5. Columns * XCharSize \in Nat /\ Rows * YCharSize \in Nat
  BY ScreenHasCells, ScreenAssumption, ProductMonotone
<1>. QED
  BY <1>1, <1>2, <1>3, <1>4, <1>5, ScreenHasCells, ScreenAssumption

------------------------------------------------------------------------------
(* number().                                                               *)

(* The layout of number() fills its field exactly: a number takes size     *)
(* characters, or what its sign, prefix and digits need if that is more;   *)
(* and no part is negative.  It is about NumberLayout, where one rest      *)
(* stands for what the code's decrements of size leave, not about the      *)
(* decrements one by one.                                                  *)
THEOREM FieldIsFilled ==
  ASSUME NEW digits \in Nat, NEW negative \in BOOLEAN, NEW base \in {8, 10, 16},
         NEW size \in Int, NEW precision \in Int, NEW type
  PROVE  LET l    == NumberLayout(digits, negative, base, size, precision, type)
             need == l.marks + AtLeast(digits, precision)
         IN  /\ l.before \in Nat /\ l.marks \in 0 .. 3 /\ l.zeros \in Nat /\ l.after \in Nat
             /\ l.before + l.marks + l.zeros + l.digits + l.after = AtLeast(need, size)
  BY SMT DEF NumberLayout, AtLeast

------------------------------------------------------------------------------
(* The cursor.                                                             *)

(* The end of an iteration brings any position right of and below the      *)
(* origin back to the screen.                                              *)
LEMMA MoveToScreen ==
  ASSUME NEW x \in Nat, NEW y \in Nat, MoveTo(x, y)
  PROVE  CursorOnScreen'
  BY ScreenHasCells DEF MoveTo, CursorOnScreen, Columns, Rows

\* Where a backspace goes to: a position the end of the iteration can repair.
LEMMA BackspaceIsNatural ==
  ASSUME CursorOnScreen
  PROVE  /\ (Columns - 1) * XCharSize \in Nat /\ (Rows - 1) * YCharSize \in Nat
         /\ XPosition \in Nat /\ YPosition \in Nat
<1>1. Columns - 1 \in Nat /\ Rows - 1 \in Nat
  BY ScreenHasCells
<1>2. (Columns - 1) * XCharSize \in Nat /\ (Rows - 1) * YCharSize \in Nat
  BY <1>1, ScreenAssumption
<1>. QED
  BY <1>1, <1>2 DEF CursorOnScreen

(* Every step keeps the cursor on the screen.                              *)
LEMMA StepKeepsCursor ==
  ASSUME CursorOnScreen, [Next]_vars
  PROVE  CursorOnScreen'
<1>1. XPosition \in Nat /\ YPosition \in Nat
  BY BackspaceIsNatural
<1>2. ASSUME UNCHANGED <<XPosition, YPosition>>
      PROVE  CursorOnScreen'
  BY <1>2 DEF CursorOnScreen, Columns, Rows
<1>3. ASSUME NEW c \in Cpu, Lock(c) \/ Format(c) \/ Unlock(c)
      PROVE  CursorOnScreen'
  BY <1>2, <1>3 DEF Lock, Format, Unlock
<1>4. ASSUME NEW c \in Cpu, NewLine(c)
      PROVE  CursorOnScreen'
  BY <1>1, <1>4, MoveToScreen DEF NewLine
<1>5. ASSUME NEW c \in Cpu, Backspace(c)
      PROVE  CursorOnScreen'
  <2>. DEFINE x == IF XPosition > 0 THEN XPosition - 1 ELSE (Columns - 1) * XCharSize
              y == IF XPosition > 0 THEN YPosition
                   ELSE IF YPosition > 0 THEN YPosition - 1 ELSE (Rows - 1) * YCharSize
  <2>1. x \in Nat /\ y \in Nat
    BY <1>1, BackspaceIsNatural
  <2>2. MoveTo(x, y)
    BY <1>5 DEF Backspace
  <2>. HIDE DEF x, y
  <2>. QED
    BY <2>1, <2>2, MoveToScreen
<1>6. ASSUME NEW c \in Cpu, TabStart(c) \/ TabMore(c) \/ Glyph(c)
      PROVE  CursorOnScreen'
  BY <1>1, <1>6, MoveToScreen DEF TabStart, TabMore, Glyph
<1>. QED
  BY <1>2, <1>3, <1>4, <1>5, <1>6 DEF Next, vars

(* The cursor is on the screen whatever is printed (printk.c 301-344).     *)
THEOREM CursorStaysOnScreen == Spec => []CursorOnScreen
<1>1. Init => CursorOnScreen
  BY ScreenHasCells DEF Init, CursorOnScreen
<1>. QED
  BY <1>1, StepKeepsCursor, PTL DEF Spec

------------------------------------------------------------------------------
(* The frame buffer.                                                       *)

(* A character drawn at a cell of the screen is drawn in the frame buffer. *)
LEMMA PutcharInFrame ==
  ASSUME NEW x \in 0 .. Columns - 1, NEW y \in 0 .. Rows - 1, NEW char, Putchar(x, y, char)
  PROVE  InFrame'
<1>1. glyph'.x = x * XCharSize /\ glyph'.y = y * YCharSize
  BY DEF Putchar
<1>. QED
  BY <1>1, CellInFrame DEF InFrame

(* No step draws outside the frame buffer, but for a backspace in column 0.*)
LEMMA StepDrawsInFrame ==
  ASSUME CursorOnScreen, Next
  PROVE  glyph' # glyph => InFrame' \/ (XPosition = 0 /\ \E c \in Cpu : Reads(c, "backspace"))
<1>. SUFFICES ASSUME glyph' # glyph
              PROVE  InFrame' \/ (XPosition = 0 /\ \E c \in Cpu : Reads(c, "backspace"))
  OBVIOUS
<1>1. XPosition \in 0 .. Columns - 1 /\ YPosition \in 0 .. Rows - 1
  BY DEF CursorOnScreen
<1>2. CASE \E c \in Cpu : Lock(c) \/ Format(c) \/ Unlock(c) \/ NewLine(c)
  BY <1>2 DEF Lock, Format, Unlock, NewLine
<1>3. ASSUME NEW c \in Cpu, Backspace(c), XPosition # 0
      PROVE  InFrame'
  <2>1. XPosition > 0 /\ XPosition - 1 \in 0 .. Columns - 1
    BY <1>1, <1>3, ScreenHasCells
  <2>2. Putchar(XPosition - 1, YPosition, "blank")
    BY <1>3, <2>1 DEF Backspace
  <2>. QED
    BY <1>1, <2>1, <2>2, PutcharInFrame
<1>4. CASE \E c \in Cpu : TabStart(c) \/ TabMore(c)
  <2>1. Putchar(XPosition, YPosition, "blank")
    BY <1>4 DEF TabStart, TabMore
  <2>. QED
    BY <1>1, <2>1, PutcharInFrame
<1>5. ASSUME NEW c \in Cpu, Glyph(c)
      PROVE  InFrame'
  <2>1. Putchar(XPosition, YPosition, buf[count[c] + 1])
    BY <1>5 DEF Glyph
  <2>. QED
    BY <1>1, <2>1, PutcharInFrame
<1>. QED
  BY <1>2, <1>3, <1>4, <1>5 DEF Next, Backspace

(* putchar, which tests nothing, writes within the frame buffer, except    *)
(* for the blank of a backspace in column 0.                               *)
THEOREM DrawsInFrame == Spec => GlyphInFrame
<1>1. CursorOnScreen /\ [Next]_vars =>
        [glyph' # glyph => InFrame' \/ (XPosition = 0 /\ \E c \in Cpu : Reads(c, "backspace"))]_vars
  BY StepDrawsInFrame
<1>. QED
  BY <1>1, CursorStaysOnScreen, PTL DEF Spec, GlyphInFrame

------------------------------------------------------------------------------
(* The lock and the buffer.                                                *)

\* One CPU at a time is in color_printk, and the lock says so.
Exclusive ==
  \A c \in Cpu : pc[c] # "idle" => lock = 1 /\ \A d \in Cpu : pc[d] # "idle" => d = c

\* The parts of the state the lock protects.
Protected ==
  /\ pc \in [Cpu -> {"idle", "format", "draw"}]
  /\ DOMAIN fmt = Cpu
  /\ Exclusive
  /\ BufferIsHolders

(* Every step keeps the buffer with the holder of the lock.                *)
LEMMA StepKeepsProtected ==
  ASSUME Protected, [Next]_vars
  PROVE  Protected'
<1>. USE DEF Protected, Exclusive, BufferIsHolders
<1>1. ASSUME NEW c \in Cpu, Lock(c)
      PROVE  Protected'
  BY <1>1 DEF Lock
<1>2. ASSUME NEW c \in Cpu, Format(c)
      PROVE  Protected'
  BY <1>2 DEF Format
<1>3. ASSUME NEW c \in Cpu, Unlock(c)
      PROVE  Protected'
  BY <1>3 DEF Unlock
<1>4. ASSUME UNCHANGED <<lock, buf, pc, fmt>>
      PROVE  Protected'
  BY <1>4
<1>5. ASSUME NEW c \in Cpu,
             NewLine(c) \/ Backspace(c) \/ TabStart(c) \/ TabMore(c) \/ Glyph(c)
      PROVE  UNCHANGED <<lock, buf, pc, fmt>>
  BY <1>5 DEF NewLine, Backspace, TabStart, TabMore, Glyph, Consume
<1>. QED
  BY <1>1, <1>2, <1>3, <1>4, <1>5 DEF Next, vars

(* The shared text buffer holds the text of the CPU that draws, for any    *)
(* number of CPUs (Pos.lock, printk.c 290 and 345).                        *)
THEOREM BufferProtected == Spec => []BufferIsHolders
<1>1. Init => Protected
  BY DEF Init, Protected, Exclusive, BufferIsHolders
<1>2. Protected => BufferIsHolders
  BY DEF Protected
<1>. QED
  BY <1>1, <1>2, StepKeepsProtected, PTL DEF Spec

------------------------------------------------------------------------------
(* Reading order.                                                          *)

(* One position further, over the end of a line and of the screen.         *)
LEMMA MoveToNextCell ==
  ASSUME CursorOnScreen, MoveTo(XPosition + 1, YPosition)
  PROVE  Reading' = (Reading + 1) % (Columns * Rows)
<1>. DEFINE C == Columns
            R == Rows
            X == XPosition
            Y == YPosition
<1>1. C \in Nat \ {0} /\ R \in Nat \ {0} /\ X \in 0 .. C - 1 /\ Y \in 0 .. R - 1
  BY ScreenHasCells DEF CursorOnScreen
<1>2. /\ XPosition' = IF X + 1 >= C THEN 0 ELSE X + 1
      /\ YPosition' = LET row == IF X + 1 >= C THEN Y + 1 ELSE Y
                      IN  IF row >= R THEN 0 ELSE row
  BY DEF MoveTo
<1>3. Reading' = YPosition' * C + XPosition' /\ Reading = Y * C + X
  BY DEF Reading, Columns
<1>4. C * R \in Nat \ {0} /\ R * C = C * R /\ (Y + 1) * C = Y * C + C /\ Y * C \in Nat
  BY <1>1
<1>5. CASE X + 1 < C
  <2>1. (Y + 1) * C <= R * C
    BY <1>1, ProductMonotone
  <2>2. Reading' = Y * C + X + 1 /\ Y * C + X + 1 \in 0 .. C * R - 1
    BY <1>1, <1>2, <1>3, <1>4, <1>5, <2>1
  <2>. HIDE DEF C, R, X, Y
  <2>. QED
    BY <1>1, <1>3, <1>4, <2>2 DEF C, R
<1>6. CASE X + 1 = C /\ Y + 1 < R
  <2>1. (Y + 2) * C <= R * C /\ (Y + 2) * C = (Y + 1) * C + C
    BY <1>1, <1>6, ProductMonotone
  <2>2. Reading' = (Y + 1) * C /\ Reading + 1 = (Y + 1) * C /\ (Y + 1) * C \in 0 .. C * R - 1
    BY <1>1, <1>2, <1>3, <1>4, <1>6, <2>1
  <2>. HIDE DEF C, R, X, Y
  <2>. QED
    BY <1>1, <1>4, <2>2 DEF C, R
<1>7. CASE X + 1 = C /\ Y + 1 = R
  <2>1. Reading' = 0 /\ Reading + 1 = C * R
    BY <1>1, <1>2, <1>3, <1>4, <1>7
  <2>. HIDE DEF C, R, X, Y
  <2>. QED
    BY <1>4, <2>1 DEF C, R
<1>. QED
  BY <1>1, <1>5, <1>6, <1>7

\* A CPU has a glyph, a blank or a blank of a tab to draw.
Draws(c) ==
  \/ Reads(c, "glyph") \/ Reads(c, "blank") \/ Reads(c, "tab")
  \/ pc[c] = "draw" /\ line[c] > 0

(* While a CPU has something to draw the next step draws it: the others    *)
(* wait, and it can do nothing else.                                       *)
LEMMA OnlyTheHolderActs ==
  ASSUME Protected, Next, NEW c \in Cpu, Draws(c)
  PROVE  TabStart(c) \/ TabMore(c) \/ Glyph(c)
<1>. USE DEF Reads
<1>1. pc[c] = "draw" /\ lock = 1 /\ \A d \in Cpu : pc[d] # "idle" => d = c
  BY DEF Protected, Exclusive, Draws
<1>2. PICK d \in Cpu : \/ Lock(d) \/ Format(d) \/ Unlock(d)
                       \/ NewLine(d) \/ Backspace(d) \/ TabStart(d) \/ TabMore(d) \/ Glyph(d)
  BY DEF Next
<1>3. ~ Lock(d)
  BY <1>1 DEF Lock
<1>4. d = c
  BY <1>1, <1>2, <1>3 DEF Format, Unlock, NewLine, Backspace, TabStart, TabMore, Glyph
<1>5. ~ Format(c) /\ ~ NewLine(c) /\ ~ Backspace(c)
  BY <1>1 DEF Format, NewLine, Backspace, Draws
<1>6. ~ Unlock(c)
  BY DEF Unlock, Draws
<1>. QED
  BY <1>2, <1>3, <1>4, <1>5, <1>6

(* The characters of a call follow one another in reading order, whoever   *)
(* else wants to print (printk.c 324-343).                                 *)
THEOREM DrawsInReadingOrder == Spec => ReadingOrder
<1>1. ASSUME Protected, CursorOnScreen, Next, NEW c \in Cpu, Draws(c)
      PROVE  /\ Reading' = (Reading + 1) % (Columns * Rows)
             /\ glyph'.x = XPosition * XCharSize /\ glyph'.y = YPosition * YCharSize
  <2>1. /\ MoveTo(XPosition + 1, YPosition)
        /\ \E char : Putchar(XPosition, YPosition, char)
    BY <1>1, OnlyTheHolderActs DEF TabStart, TabMore, Glyph
  <2>2. glyph'.x = XPosition * XCharSize /\ glyph'.y = YPosition * YCharSize
    BY <2>1 DEF Putchar
  <2>. QED
    BY <1>1, <2>1, <2>2, MoveToNextCell
<1>2. Init => Protected
  BY DEF Init, Protected, Exclusive, BufferIsHolders
<1>3. Protected /\ CursorOnScreen /\ [Next]_vars =>
        [\A c \in Cpu :
           Reads(c, "glyph") \/ Reads(c, "blank") \/ Reads(c, "tab") \/ (pc[c] = "draw" /\ line[c] > 0) =>
             /\ Reading' = (Reading + 1) % (Columns * Rows)
             /\ glyph' # glyph =>
                  glyph'.x = XPosition * XCharSize /\ glyph'.y = YPosition * YCharSize]_vars
  BY <1>1 DEF Draws
<1>. QED
  BY <1>2, <1>3, StepKeepsProtected, CursorStaysOnScreen, PTL DEF Spec, ReadingOrder

==============================================================================
