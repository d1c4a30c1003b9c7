----------------------------- MODULE MCCmdline -----------------------------
(* Cmdline with a buffer of 150 bytes, which a profile and one long element fill. *)
EXTENDS Cmdline

F(val, spaces, quote, len) == [val |-> val, spaces |-> spaces, quote |-> quote, len |-> len]
MCNone == F("", FALSE, FALSE, 0)
MCFields == {MCNone, F("/sbin/init", FALSE, FALSE, 10), F("two words", TRUE, FALSE, 9), F("a quote", FALSE, TRUE, 7)}

\* A value with a space in it, quoted as the kernel wants it.
Quoted == <<[Word("dyndbg", "file", 10) EXCEPT !.quote = TRUE], [Word("stray", "", 5) EXCEPT !.quote = TRUE]>>

\* A parameter, two in one element, another init, "--", and one that with the rest of the
\* line just fits, or just does not.
Plain == {<<Word("nokaslr", "", 7)>>, Quoted,
          <<Word("a", "1", 3), Word("--", "", 2)>>,
          <<Word("init", "/bin/sh", 12)>>,
          <<Word("long", "", 62)>>, <<Word("long", "", 63)>>}

\* The same, and one whose quote is not closed.
Quotes == {Quoted, <<[Word("opt", "x", 6) EXCEPT !.quote = TRUE]>>}
=============================================================================
