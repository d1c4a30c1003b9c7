---------------------------- MODULE MachineType ----------------------------
(***************************************************************************)
(* The machine type every checkpoint is saved on, watched while the QEMU   *)
(* under it is bumped (hack/machinetype/main.go, run by the build of a     *)
(* QEMU): a build fails whose QEMU deprecates the type or no longer has    *)
(* it, and says so when there is a newer one.                              *)
(*                                                                         *)
(* QEMU's releases are numbered; each brings the versioned type of its     *)
(* X.Y.  The regular expressions that read a line are left out.            *)
(***************************************************************************)
EXTENDS Integers, SequencesExt

CONSTANTS FirstMajor,      \* release 0 is FirstMajor.0
          Minors,          \* releases of one major version
          DeprecatedAfter, \* releases until QEMU deprecates a type
          RemovedAfter,    \* and until it removes it
          MaxSkip,         \* releases between two that are built, at most
          MaxQEMU          \* bound: the last release there is

ASSUME MachineTypeAssumption ==
    /\ {FirstMajor, MaxQEMU} \subseteq Nat
    /\ {Minors, DeprecatedAfter, RemovedAfter, MaxSkip} \subseteq Nat \ {0}
    /\ DeprecatedAfter + MaxSkip <= RemovedAfter

VARIABLES
    pinned,   \* machine.MachineType: the release whose type it is
    shipped,  \* the QEMU the last good build was of
    tried,    \* the last one built that could be asked for its types
    said,     \* what the check of it said
    warned    \* whether a check has failed for the type's deprecation since it was chosen

typeVars == <<pinned, shipped, tried, said, warned>>

\* The X.Y of a release.
version(r) == <<FirstMajor + r \div Minors, r % Minors>>

\* QEMU's answer to -machine help, in no order one may rely on, and the compat arrays its
\* source has, hw_compat_X_Y and pc_compat_X_Y, each as it is found there (external).
Offered(q) == {r \in 0..q : q - r < RemovedAfter}
help(q) == SetToSeqs({[v |-> version(r), deprecated |-> q - r >= DeprecatedAfter] : r \in Offered(q)})
Arrays(q) == [a \in {"hw", "pc"} \X {version(r) : r \in Offered(q) \ {q}} |-> "whole"]

-----------------------------------------------------------------------------
(* Check and Compat.                                                        *)

\* Mutant: each number for itself.
newerEither(v, than) == v[1] > than[1] \/ v[2] > than[2]

newer(v, than) == v[1] > than[1] \/ (v[1] = than[1] /\ v[2] > than[2])

\* Mutant: deprecation is no failure.
readLineLenient(want, acc, line) ==
    [acc EXCEPT !.found = @ \/ line.v = want, !.newest = IF newer(line.v, @) THEN line.v ELSE @]

\* One turn of Check's loop; a deprecated type ends it.
readLine(want, acc, line) ==
    IF acc.deprecated \/ (line.v = want /\ line.deprecated) THEN [acc EXCEPT !.deprecated = TRUE]
    ELSE [acc EXCEPT !.found = @ \/ line.v = want, !.newest = IF newer(line.v, @) THEN line.v ELSE @]

\* The loop, over all the lines.
readLines(lines, want) ==
    LET after[n \in 0..Len(lines)] ==
            IF n = 0 THEN [found |-> FALSE, deprecated |-> FALSE, newest |-> <<0, 0>>]
            ELSE readLine(want, after[n - 1], lines[n])
    IN  after[Len(lines)]

\* What is said of the type want: a failure, the newest type if that is a newer one, or nothing.
Check(lines, want) ==
    LET end == readLines(lines, want)
    IN  IF end.deprecated THEN [exit |-> 1, why |-> "deprecated"]
        ELSE IF ~ end.found THEN [exit |-> 1, why |-> "missing"]
        ELSE [exit |-> 0, notice |-> IF newer(end.newest, want) THEN end.newest ELSE <<>>]

\* How an array is found in the source: whole, without an end, or not at all.
array(source, name) == IF name \in DOMAIN source THEN source[name] ELSE "none"

\* What there is to print of what the newer types change: both arrays, or what the first that
\* is not whole lacks.
Compat(source, want) ==
    LET hw == array(source, <<"hw", want>>)
    IN  IF hw # "whole" THEN hw ELSE array(source, <<"pc", want>>)

-----------------------------------------------------------------------------

TypeInit ==
    /\ pinned = 0 /\ shipped = 0 /\ tried = 0
    /\ said = [exit |-> 0, notice |-> <<>>]
    /\ warned = FALSE

\* A QEMU is built and checked, and shipped if it passes.
Build(q, lines) ==
    /\ tried' = q
    /\ said' = Check(lines, version(pinned))
    /\ shipped' = IF said'.exit = 0 THEN q ELSE shipped
    /\ warned' = (warned \/ said' = [exit |-> 1, why |-> "deprecated"])
    /\ UNCHANGED pinned

\* A QEMU is built that cannot be asked (-machine help fails): nothing is learned of its
\* types, and the next one is tried from the last that could be.
BuildMute ==
    /\ said' = [exit |-> 1, why |-> "help"]
    /\ UNCHANGED <<pinned, shipped, tried, warned>>

\* Someone decides to move the machine to a type the QEMU that ships offers and has not
\* deprecated, and builds again (external).
MoveType(r) ==
    /\ r \in Offered(shipped) /\ shipped - r < DeprecatedAfter /\ r > pinned
    /\ pinned' = r
    /\ tried' = shipped
    /\ \E lines \in help(shipped) : said' = Check(lines, version(r))
    /\ warned' = FALSE
    /\ UNCHANGED shipped

TypeNext ==
    \/ \E q \in tried..(tried + MaxSkip) : q <= MaxQEMU /\ \E lines \in help(q) : Build(q, lines)
    \/ BuildMute
    \/ \E r \in 0..MaxQEMU : MoveType(r)

TypeSpec == TypeInit /\ [][TypeNext]_typeVars

-----------------------------------------------------------------------------
(* Properties.                                                              *)

\* "This fires years before a QEMU stops loading the checkpoints it saved": no build meets a
\* QEMU without the machine's type that was not refused one that deprecated it before, so
\* long as no bump skips all the releases between the two.
WarnedInTime == said = [exit |-> 1, why |-> "missing"] => warned

\* A notice names the newest type, whatever order QEMU lists them in, exactly if that is not
\* the machine's own - 10.0 is newer than 9.2 - and exactly then has compat something to print.
NoticeIsNewest == said.exit = 0 =>
    /\ said.notice = IF tried = pinned THEN <<>> ELSE version(tried)
    /\ said.notice # <<>> <=> Compat(Arrays(tried), version(pinned)) = "whole"
=============================================================================
