------------------------------- MODULE Console --------------------------------
(***************************************************************************)
(* The console of kernel/printk.c: color_printk with its spin lock, its    *)
(* one shared text buffer, the formatting of vsprintf and number, and the  *)
(* cursor that putchar draws at.                                           *)
(*                                                                         *)
(* Characters are abstracted to what the drawing loop tells apart: line    *)
(* feed, backspace, tab, blank and any other glyph.  A format is a         *)
(* sequence of such characters and of conversions, a conversion comes with *)
(* the size of its argument (how many digits, how many characters), and    *)
(* number and vsprintf are modelled by the layout they produce.            *)
(*                                                                         *)
(* A CPU that waits for the lock is a CPU in the guard of Lock; the calls  *)
(* of interrupt handlers are those of module Interrupts.                   *)
(***************************************************************************)
EXTENDS Integers, Sequences

CONSTANTS
  Cpu,                      \* the CPUs that print
  XResolution, YResolution, \* the screen in pixels (1440 and 900)
  XCharSize, YCharSize,     \* a character cell in pixels (8 and 16)
  Tab,                      \* distance of tab stops (8)
  Formats,                  \* what the callers print
  MaxCalls                  \* bound: calls per CPU

ASSUME ScreenAssumption ==
  /\ XCharSize \in Nat \ {0} /\ YCharSize \in Nat \ {0}
  /\ XResolution \in Nat /\ XResolution >= XCharSize
  /\ YResolution \in Nat /\ YResolution >= YCharSize
ASSUME TabAssumption == Tab \in Nat \ {0}
ASSUME BoundAssumption == MaxCalls \in Nat

VARIABLES
  lock,                   \* Pos.lock
  XPosition, YPosition,   \* Pos.XPosition, Pos.YPosition, in characters
  buf,                    \* the text buffer all CPUs share
  pc,                     \* where each CPU is in color_printk
  fmt,                    \* the format of each CPU's call
  count,                  \* characters of buf the loop has consumed
  line,                   \* blanks of a tab still to draw
  glyph,                  \* the last call of putchar: its pixel and character
  calls                   \* calls made, per CPU

vars == <<lock, XPosition, YPosition, buf, pc, fmt, count, line, glyph, calls>>

------------------------------------------------------------------------------
(* Formatting.                                                             *)

\* A character is one of these.
Chars == {"newline", "backspace", "tab", "blank", "glyph"}

AtLeast(m, n) == IF m < n THEN n ELSE m

\* The blanks, signs, zeros and digits number() lays out, in its order.  type
\* is the set of flags; digits the number of digits of num, 1 for num = 0.
NumberLayout(digits, negative, base, size, precision, type) ==
  LET signed == {"PLUS", "SPACE"} \cap type # {} \/ (negative /\ "SIGN" \in type)
      sign   == IF signed THEN 1 ELSE 0
      prefix == IF "SPECIAL" \notin type THEN 0
                ELSE IF base = 16 THEN 2 ELSE IF base = 8 THEN 1 ELSE 0
      prec   == AtLeast(digits, precision)
      rest   == AtLeast(0, size - sign - prefix - prec)
      left   == "LEFT" \in type
      zero   == "ZEROPAD" \in type /\ ~ left
  IN  [before |-> IF left \/ zero THEN 0 ELSE rest,
       marks  |-> sign + prefix,
       zeros  |-> (IF zero THEN rest ELSE 0) + (prec - digits),
       digits |-> digits,
       after  |-> IF left THEN rest ELSE 0]

Repeat(char, n) == [i \in 1 .. n |-> char]

NumberText(l) ==
  Repeat("blank", l.before) \o Repeat("glyph", l.marks + l.zeros + l.digits)
    \o Repeat("blank", l.after)

\* A conversion is a record: conv its letter, flags, qualifier, precision (-1
\* when absent); width, -1 when absent, from an argument if star; and of the
\* argument, digits and negative for a number, size for a string.  The letter
\* is "end" where the format ends before it.
WidthOf(f) == IF f.star /\ f.width < 0 THEN -f.width ELSE f.width

FlagsOf(f) == IF f.star /\ f.width < 0 THEN f.flags \cup {"LEFT"} ELSE f.flags

\* One character or a string of n characters in a field.
Field(n, width, left) ==
  LET pad == AtLeast(0, width - n)
  IN  IF left THEN Repeat("glyph", n) \o Repeat("blank", pad)
      ELSE Repeat("blank", pad) \o Repeat("glyph", n)

\* %c and %s.  A precision cuts a string; it is ignored for a character.
StringText(f) ==
  LET n == IF f.conv = "c" THEN 1
           ELSE IF f.precision >= 0 /\ f.precision < f.size THEN f.precision
           ELSE f.size
  IN  Field(n, WidthOf(f), "LEFT" \in FlagsOf(f))

\* %d, %i, %u, %o, %x, %X and %p.  An argument without the qualifier l is
\* fetched as unsigned int: it is never negative.
IntegerText(f) ==
  LET base  == IF f.conv = "o" THEN 8 ELSE IF f.conv \in {"x", "X", "p"} THEN 16 ELSE 10
      sign  == IF f.conv \in {"d", "i"} THEN {"SIGN"} ELSE {}
      plain == f.conv = "p" /\ WidthOf(f) = -1
  IN  NumberText(NumberLayout(f.digits, f.negative /\ f.qualifier = "l", base,
                              IF plain THEN 16 ELSE WidthOf(f), f.precision,
                              FlagsOf(f) \cup sign \cup IF plain THEN {"ZEROPAD"} ELSE {}))

Conversion(f) ==
  IF f.conv \in {"c", "s"} THEN StringText(f)
  ELSE IF f.conv = "n" THEN <<>>
  ELSE IF f.conv = "%" THEN <<"glyph">>
  ELSE IF f.conv = "unknown" THEN <<"glyph", "glyph">>
  ELSE IF f.conv = "end" THEN <<"glyph">>
  ELSE IntegerText(f)

\* The text of a format: a plain item stands for itself.  The code's buffer
\* has 4096 bytes, which vsprintf does not test for.
Vsprintf(format) ==
  LET text[n \in 0 .. Len(format)] ==
        IF n = 0 THEN <<>>
        ELSE text[n - 1] \o (IF format[n].conv = "plain" THEN <<format[n].char>>
                             ELSE Conversion(format[n]))
  IN  text[Len(format)]

------------------------------------------------------------------------------
(* The cursor.                                                             *)

Columns == XResolution \div XCharSize
Rows    == YResolution \div YCharSize

Init ==
  /\ lock = 0
  /\ XPosition = 0 /\ YPosition = 0
  /\ buf = <<>>
  /\ pc = [c \in Cpu |-> "idle"]
  /\ fmt = [c \in Cpu |-> <<>>]
  /\ count = [c \in Cpu |-> 0]
  /\ line = [c \in Cpu |-> 0]
  /\ glyph = [x |-> 0, y |-> 0, char |-> "blank"]
  /\ calls = [c \in Cpu |-> 0]

\* MUTANT of MoveTo: the last column is not left.
MoveToLate(x, y) ==
  LET row == IF x > Columns THEN y + 1 ELSE y
  IN  /\ XPosition' = IF x > Columns THEN 0 ELSE x
      /\ YPosition' = IF row >= Rows THEN 0 ELSE row

\* MUTANT of MoveTo: the row is tested before the column.
MoveToRowFirst(x, y) ==
  LET row == IF y >= Rows THEN 0 ELSE y
  IN  /\ XPosition' = IF x >= Columns THEN 0 ELSE x
      /\ YPosition' = IF x >= Columns THEN row + 1 ELSE row

\* The end of an iteration: past the last column to the next line, past the
\* last line to the first.
MoveTo(x, y) ==
  LET row == IF x >= Columns THEN y + 1 ELSE y
  IN  /\ XPosition' = IF x >= Columns THEN 0 ELSE x
      /\ YPosition' = IF row >= Rows THEN 0 ELSE row

\* putchar(): the pixel of the upper left corner, and what is drawn.
Putchar(x, y, char) ==
  glyph' = [x |-> x * XCharSize, y |-> y * YCharSize, char |-> char]

------------------------------------------------------------------------------
(* color_printk.                                                           *)

\* MUTANT of Lock: the console is not locked.
LockNothing(c) ==
  /\ pc[c] = "idle" /\ calls[c] < MaxCalls
  /\ \E f \in Formats : fmt' = [fmt EXCEPT ![c] = f]
  /\ pc' = [pc EXCEPT ![c] = "format"]
  /\ calls' = [calls EXCEPT ![c] = @ + 1]
  /\ UNCHANGED <<lock, XPosition, YPosition, buf, count, line, glyph>>

\* A call: SPIN_LOCK(Pos.lock).
Lock(c) ==
  /\ pc[c] = "idle" /\ calls[c] < MaxCalls
  /\ lock = 0
  /\ lock' = 1
  /\ \E f \in Formats : fmt' = [fmt EXCEPT ![c] = f]
  /\ pc' = [pc EXCEPT ![c] = "format"]
  /\ calls' = [calls EXCEPT ![c] = @ + 1]
  /\ UNCHANGED <<XPosition, YPosition, buf, count, line, glyph>>

Format(c) ==
  /\ pc[c] = "format"
  /\ buf' = Vsprintf(fmt[c])
  /\ count' = [count EXCEPT ![c] = 0]
  /\ pc' = [pc EXCEPT ![c] = "draw"]
  /\ UNCHANGED <<lock, XPosition, YPosition, fmt, line, glyph, calls>>

\* The next character is a char, and no tab is unfinished.
Reads(c, char) ==
  /\ pc[c] = "draw" /\ line[c] = 0
  /\ count[c] < Len(buf)
  /\ buf[count[c] + 1] = char

Consume(c) ==
  /\ count' = [count EXCEPT ![c] = @ + 1]
  /\ UNCHANGED <<lock, buf, pc, fmt, calls>>

NewLine(c) ==
  /\ Reads(c, "newline")
  /\ MoveTo(0, YPosition + 1)
  /\ Consume(c)
  /\ UNCHANGED <<line, glyph>>

\* Back by one character; left of column 0 and above row 0 the code continues
\* with the size of the screen in pixels.
Backspace(c) ==
  /\ Reads(c, "backspace")
  /\ LET x == IF XPosition > 0 THEN XPosition - 1 ELSE (Columns - 1) * XCharSize
         y == IF XPosition > 0 THEN YPosition
              ELSE IF YPosition > 0 THEN YPosition - 1 ELSE (Rows - 1) * YCharSize
     IN  Putchar(x, y, "blank") /\ MoveTo(x, y)
  /\ Consume(c)
  /\ UNCHANGED line

\* The blanks of a tab, the first with the character, then one by one.
TabStart(c) ==
  /\ Reads(c, "tab")
  /\ LET stop == (XPosition + Tab) - ((XPosition + Tab) % Tab)
     IN  line' = [line EXCEPT ![c] = stop - XPosition - 1]
  /\ Putchar(XPosition, YPosition, "blank")
  /\ MoveTo(XPosition + 1, YPosition)
  /\ Consume(c)

TabMore(c) ==
  /\ pc[c] = "draw" /\ line[c] > 0
  /\ line' = [line EXCEPT ![c] = @ - 1]
  /\ Putchar(XPosition, YPosition, "blank")
  /\ MoveTo(XPosition + 1, YPosition)
  /\ UNCHANGED <<lock, buf, pc, fmt, count, calls>>

\* MUTANT of Glyph: the cursor moves before the character is drawn.
GlyphAfterMove(c) ==
  /\ Reads(c, "glyph") \/ Reads(c, "blank")
  /\ Putchar(XPosition + 1, YPosition, buf[count[c] + 1])
  /\ MoveTo(XPosition + 1, YPosition)
  /\ Consume(c)
  /\ UNCHANGED line

\* Any other character.
Glyph(c) ==
  /\ Reads(c, "glyph") \/ Reads(c, "blank")
  /\ Putchar(XPosition, YPosition, buf[count[c] + 1])
  /\ MoveTo(XPosition + 1, YPosition)
  /\ Consume(c)
  /\ UNCHANGED line

Unlock(c) ==
  /\ pc[c] = "draw" /\ ~ (count[c] < Len(buf) \/ line[c] > 0)
  /\ lock' = 0
  /\ pc' = [pc EXCEPT ![c] = "idle"]
  /\ UNCHANGED <<XPosition, YPosition, buf, fmt, count, line, glyph, calls>>

Next ==
  \E c \in Cpu :
    \/ Lock(c) \/ Format(c) \/ Unlock(c)
    \/ NewLine(c) \/ Backspace(c) \/ TabStart(c) \/ TabMore(c) \/ Glyph(c)

Spec == Init /\ [][Next]_vars

------------------------------------------------------------------------------
(* Properties.                                                             *)

(* Whatever is printed, backspaces that run out of the screen to the left  *)
(* and above included, the cursor is back on the screen for the next       *)
(* character: the two tests at the end of the loop repair what the         *)
(* backspace computes.                                                     *)
CursorOnScreen == XPosition \in 0 .. Columns - 1 /\ YPosition \in 0 .. Rows - 1

\* All pixels of the last character drawn are in the frame buffer.
InFrame ==
  /\ glyph.x \in 0 .. XResolution - XCharSize
  /\ glyph.y \in 0 .. YResolution - YCharSize

(* putchar writes to the frame buffer without a test of its own: every     *)
(* character is drawn within it, except the blank of a backspace in column *)
(* 0, which is drawn at a column that was computed in pixels.              *)
GlyphInFrame ==
  [][glyph' # glyph => InFrame' \/ (XPosition = 0 /\ \E c \in Cpu : Reads(c, "backspace"))]_vars

(* The text buffer is shared: while a CPU draws, the buffer holds the text *)
(* of its own call, from vsprintf to the last character.                   *)
BufferIsHolders == \A c \in Cpu : pc[c] = "draw" => buf = Vsprintf(fmt[c])

\* The cursor as a position in reading order.
Reading == YPosition * Columns + XPosition

(* A call's characters follow one another: each glyph, blank and blank of  *)
(* a tab is drawn at the cursor, and the cursor moves on by one in reading *)
(* order, from the last cell of the screen to the first.                   *)
ReadingOrder ==
  [][\A c \in Cpu :
       Reads(c, "glyph") \/ Reads(c, "blank") \/ Reads(c, "tab") \/ (pc[c] = "draw" /\ line[c] > 0) =>
         /\ Reading' = (Reading + 1) % (Columns * Rows)
         /\ glyph' # glyph =>
              glyph'.x = XPosition * XCharSize /\ glyph'.y = YPosition * YCharSize]_vars

==============================================================================
