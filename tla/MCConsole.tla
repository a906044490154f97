------------------------------ MODULE MCConsole -------------------------------
(***************************************************************************)
(* What the CPUs of the model print: plain text with tabs and line feeds,  *)
(* backspaces, and a few of the conversions the kernel's messages use.     *)
(***************************************************************************)
EXTENDS Console

Plain(char) == [conv |-> "plain", char |-> char]

\* A conversion of a number with that many digits.
Number(conv, flags, width, digits) ==
  [conv |-> conv, flags |-> flags, width |-> width, star |-> FALSE, precision |-> -1,
   qualifier |-> "l", digits |-> digits, negative |-> FALSE, size |-> 0]

\* A conversion of a string (or, with c, of a character).
Text(conv, width, star, precision, size) ==
  [conv |-> conv, flags |-> {}, width |-> width, star |-> star, precision |-> precision,
   qualifier |-> "", digits |-> 0, negative |-> FALSE, size |-> size]

\* "a\n", "\ta", "\b\b", "%#03lx", "%d\t", "%-3ld\b", "%*.1s" of -2 and "ab",
\* and "%2c%%%", which ends in a lone percent sign.
MCFormats == {
  <<Plain("glyph"), Plain("newline")>>,
  <<Plain("tab"), Plain("glyph")>>,
  <<Plain("backspace"), Plain("backspace")>>,
  <<Number("x", {"SPECIAL", "ZEROPAD"}, 3, 2)>>,
  <<Number("d", {}, -1, 1), Plain("tab")>>,
  <<Number("d", {"LEFT"}, 3, 1), Plain("backspace")>>,
  <<Text("s", -2, TRUE, 1, 2)>>,
  <<Text("c", 2, FALSE, -1, 1), Text("%", -1, FALSE, -1, 0),
    Text("end", -1, FALSE, -1, 0)>>
}

==============================================================================
