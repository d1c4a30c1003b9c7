------------------------------ MODULE Cmdline ------------------------------
(***************************************************************************)
(* The kernel command line (machine/cmdline.go): how it is rendered, what  *)
(* validate refuses, and Profiling, which derives one line from another    *)
(* that shares its Extra slice.                                            *)
(*                                                                         *)
(* A line is a sequence of words [key, val, quote, len]: quote says that   *)
(* the word holds an odd number of quotes.  An element of Extra is one or  *)
(* more words.  Slices are Go's: an array, a length and a capacity.  The   *)
(* kernel's parser and Go's allocator are external.                        *)
(***************************************************************************)
EXTENDS Integers, SequencesExt

CONSTANTS Lines,       \* the Cmdline values a program holds
          Fields,      \* values of Console, Init and Root: [val, spaces, quote, len]
          None,        \* the empty value among them
          Elements,    \* elements a caller appends to Extra: sequences of words
          maxCmdline,  \* COMMAND_LINE_SIZE, counting the NUL (2048)
          MaxExtra,    \* bound: the longest Extra
          MaxArrays    \* bound: arrays allocated

\* A word of a line, and the value of a field.
Words == [key : STRING, val : STRING, quote : BOOLEAN, len : Nat]
Values == [val : STRING, spaces : BOOLEAN, quote : BOOLEAN, len : Nat]

ASSUME CmdlineAssumption ==
    /\ Fields \subseteq Values /\ None \in Values
    /\ Elements \subseteq Seq(Words)
    /\ maxCmdline \in Nat

VARIABLES
    line,    \* line[l]: [console, quiet, init, root, readonly, extra], or unset
    arrays,  \* the arrays behind Extra slices, each as long as its capacity
    asked    \* history: asked[l], what was put into l's Extra, as values

cmdlineVars == <<line, arrays, asked>>

Unset == [set |-> FALSE]
nil == <<>>
Slice(array, len, cap) == [array |-> array, len |-> len, cap |-> cap]
Word(key, val, len) == [key |-> key, val |-> val, quote |-> FALSE, len |-> len]

\* DefaultCmdline, with the caller's Init and Root.
DefaultCmdline(init, root, readonly) ==
    [set |-> TRUE, console |-> [None EXCEPT !.val = "ttyS0", !.len = 5], quiet |-> TRUE, init |-> init, root |-> root,
     readonly |-> readonly, extra |-> Slice(0, 0, 0)]

CmdlineInit ==
    /\ \E init, root \in Fields, readonly \in BOOLEAN, l \in Lines :
         line = [k \in Lines |-> IF k = l THEN DefaultCmdline(init, root, readonly) ELSE Unset]
    /\ arrays = <<>>
    /\ asked = [l \in Lines |-> <<>>]

-----------------------------------------------------------------------------
(* Rendering and validation.                                                *)

Extra(c) == [i \in 1..c.extra.len |-> arrays[c.extra.array][i]]

\* key=value; what follows a space in the value is a word of its own.
Param(key, f) ==
    IF f = None THEN <<>>
    ELSE <<[key |-> key, val |-> f.val, quote |-> f.quote, len |-> f.len + IF key = "console" THEN 8 ELSE 5]>>
         \o (IF f.spaces THEN <<Word("stray", "", 5)>> ELSE <<>>)

\* What String always adds: pci=lastbus=0, panic=1 and the rest, and TERM=dumb.
Always == <<Word("pci", "lastbus=0", 13), Word("panic", "1", 7), Word("TERM", "dumb", 9)>>

String(c) ==
    Param("console", c.console)
    \o (IF c.quiet THEN <<Word("quiet", "", 5)>> ELSE <<>>)
    \o <<Word("loglevel", IF c.quiet THEN "3" ELSE "0", 10)>>
    \o Param("root", c.root)
    \o (IF c.root # None THEN <<Word(IF c.readonly THEN "ro" ELSE "rw", "", 2)>> ELSE <<>>)
    \o Always
    \o FlattenSeq(Extra(c))
    \o Param("init", c.init)

\* The bytes up to the end of each word, the spaces behind them included, and those of a line.
ends(words) ==
    LET end[n \in 0..Len(words)] == IF n = 0 THEN 0 ELSE end[n - 1] + words[n].len + 1
    IN  end
Bytes(words) == ends(words)[Len(words)] - 1

\* Mutant: the terminating NUL is forgotten.
FitsWithoutNUL(c) == Bytes(String(c)) <= maxCmdline

Fits(c) == Bytes(String(c)) < maxCmdline

validateLine(c) ==
    /\ \A f \in {c.console, c.init, c.root} : ~ f.spaces /\ ~ f.quote
    /\ \A i \in 1..c.extra.len : \A j \in DOMAIN Extra(c)[i] : Extra(c)[i][j].key # "--"
    /\ Fits(c)

-----------------------------------------------------------------------------
(* Deriving lines from lines.                                               *)

\* l = c with element appended to its Extra.  Go's append writes in place while there is
\* room, and copies to a new array otherwise, as large as the runtime likes (external).
append(c, l, element) ==
    \/ /\ c.extra.len < c.extra.cap
       /\ arrays' = [arrays EXCEPT ![c.extra.array][c.extra.len + 1] = element]
       /\ line' = [line EXCEPT ![l] = [c EXCEPT !.extra.len = @ + 1]]
    \/ /\ c.extra.len = c.extra.cap
       /\ Len(arrays) < MaxArrays
       /\ \E spare \in 0..1 :
            /\ arrays' = Append(arrays, Append(Extra(c), element) \o [i \in 1..spare |-> nil])
            /\ line' = [line EXCEPT ![l] =
                          [c EXCEPT !.extra = Slice(Len(arrays) + 1, @.len + 1, @.len + 1 + spare)]]

\* A caller says something the machine has no opinion about.
AppendExtra(l, element) ==
    /\ line[l].set
    /\ line[l].extra.len < MaxExtra
    /\ append(line[l], l, element)
    /\ asked' = [asked EXCEPT ![l] = Append(@, element)]

\* Mutant: the slice keeps its capacity.
Unclipped(slice) == slice

\* slices.Clip (external).
Clip(slice) == [slice EXCEPT !.cap = slice.len]

\* The five parameters of a profile, as one element.
Profile == <<Word("initcall_debug", "", 82)>>

\* m = l.Profiling(): a copy of l that is not quiet, with the profile's parameters.
Profiling(l, m) ==
    /\ line[l].set
    /\ ~ line[m].set
    /\ append([line[l] EXCEPT !.quiet = FALSE, !.extra = Clip(@)], m, Profile)
    /\ asked' = [asked EXCEPT ![m] = Append(asked[l], Profile)]

CmdlineNext ==
    \/ \E l \in Lines, element \in Elements : AppendExtra(l, element)
    \/ \E l, m \in Lines : Profiling(l, m)

CmdlineSpec == CmdlineInit /\ [][CmdlineNext]_cmdlineVars

-----------------------------------------------------------------------------
(* The kernel (external): next_arg and parse_args over what fits the buffer. *)

\* A word is read: one that is cut off by the end of the buffer is lost with what follows, a
\* quote that is not closed takes what follows into the same parameter, and "--", bare or in
\* quotes, hands the rest of the line to init.
next_arg(acc, w, whole) ==
    IF acc.over \/ ~ whole THEN [acc EXCEPT !.over = TRUE]
    ELSE IF acc.open THEN [acc EXCEPT !.open = ~ w.quote]
    ELSE IF w.key \in {"--", "quoted --"} THEN [acc EXCEPT !.over = TRUE]
    ELSE [acc EXCEPT !.read = Append(@, w), !.open = w.quote]

\* The parameters the kernel reads from its buffer.
Read(words) ==
    LET after[n \in 0..Len(words)] ==
            IF n = 0 THEN [read |-> <<>>, open |-> FALSE, over |-> FALSE]
            ELSE next_arg(after[n - 1], words[n], ends(words)[n] <= maxCmdline)
    IN  after[Len(words)].read

-----------------------------------------------------------------------------
(* Properties.                                                              *)

\* Deriving a line from another changes neither: each holds exactly what was put into it,
\* whatever is appended to either afterwards.
LinesAreIndependent == \A l \in Lines : line[l].set => Extra(line[l]) = asked[l]

\* "validate refuses a command line the kernel would read as something else": of a line
\* it accepts the kernel reads every parameter that is the machine's, and runs the init
\* that was asked for, whatever Extra says before it.
KernelReadsTheLine == \A l \in Lines : line[l].set /\ validateLine(line[l]) =>
    LET read == Read(String(line[l])) IN
    /\ ToSet(Always \o Param("console", line[l].console) \o Param("root", line[l].root)) \subseteq ToSet(read)
    /\ line[l].init # None =>
         \E n \in DOMAIN read : /\ read[n].key = "init" /\ read[n].val = line[l].init.val
                               /\ \A m \in DOMAIN read : m > n => read[m].key # "init"

-----------------------------------------------------------------------------
(* What makes them hold: no two lines hold one array.                       *)

Element == Elements \cup {Profile, nil}

Cmdlines == [set : {TRUE}, console : {[None EXCEPT !.val = "ttyS0", !.len = 5]}, quiet : BOOLEAN,
             init : Fields, root : Fields, readonly : BOOLEAN, extra : [array : Nat, len : Nat, cap : Nat]]

\* A line that was made: its fields are its caller's, and its slice fits its array.
LineInv(c) ==
    /\ c \in Cmdlines
    /\ c.extra.len <= c.extra.cap
    /\ c.extra.array <= Len(arrays)
    /\ IF c.extra.array = 0 THEN c.extra.cap = 0 ELSE Len(arrays[c.extra.array]) = c.extra.cap

OwnInv == \A l, m \in Lines :
    line[l].set /\ line[m].set /\ line[l].extra.array = line[m].extra.array /\ line[l].extra.array # 0 => l = m

CmdlineInv ==
    /\ arrays \in Seq(Seq(Element))
    /\ DOMAIN line = Lines /\ DOMAIN asked = Lines
    /\ \A l \in Lines : line[l].set \in BOOLEAN /\ (line[l].set => LineInv(line[l]) /\ Extra(line[l]) = asked[l])
    /\ OwnInv
=============================================================================
