------------------------------- MODULE Report -------------------------------
(***************************************************************************)
(* Two reports of the feature matrix, and what Diff says moved between     *)
(* them (boot/report.go): the older one is fixed, and the newer one grows  *)
(* from it as axes, command lines and rows change.                         *)
(*                                                                         *)
(* A row's fingerprint, outcome and time are one thing that moved or did   *)
(* not; the Markdown around the lines is left out.                         *)
(***************************************************************************)
EXTENDS Slices

CONSTANTS OldSections,    \* the sections there may be in the older report: sequences of rows
          Axes,           \* axes a matrix may have: [axis, drop, add], drop and add what their
                          \* other choice takes out of a command line and puts into it
          NewArgs,        \* options a release may add to every command line, or take from it
          NewNames,       \* names a variant of the image may be given
          MaxEdits        \* bound: changes from the older report to the newer

\* A row: what it is called, the choice on each axis (none for the image's variants), its
\* command line, and what was measured; from is the name of the older row it stands for.
Row(id, features, args, measured, from) ==
    [id |-> id, features |-> features, args |-> args, measured |-> measured, from |-> from]

Occurrences(arg, args) == Cardinality({i \in DOMAIN args : args[i] = arg})

IsRow(r) == r = Row(r.id, r.features, r.args, r.measured, r.from) /\ r.args \in Seq(STRING)

\* A section has no two rows of one name.
IsSection(rows) ==
    /\ rows \in Seq(ToSet(rows))
    /\ \A r \in ToSet(rows) : IsRow(r)
    /\ \A i, j \in DOMAIN rows : rows[i].id = rows[j].id => i = j

\* The image's variants have no axes.
IsVariants(rows) == \A r \in ToSet(rows) : DOMAIN r.features = {}

\* Whether a row made the other choice on an axis, and the axes on which only q did.
Chosen(r, axis) == axis \in DOMAIN r.features /\ r.features[axis] = "other"
Beyond(r, q) == {a \in Axes : Chosen(q, a.axis) /\ ~ Chosen(r, a.axis)}

Adds(A, arg) == \E a \in A : arg \in ToSet(a.add)
Drops(A, arg) == \E a \in A : arg \in ToSet(a.drop)

\* How often arg is in the line of a row q that made r's other choices and those on A: more
\* often only if one of A adds it, less often only if one of A drops it.
Grows(arg, r, q, A) ==
    LET n == Occurrences(arg, r.args)
        m == Occurrences(arg, q.args)
    IN  /\ Drops(A, arg) \/ n <= m
        /\ Adds(A, arg) \/ m <= n
        /\ Adds(A, arg) /\ ~ Drops(Axes, arg) => n < m

\* The rows of a matrix have the same axes and are called after their choices, and apart from
\* what the other choices change their command lines are alike.
IsMatrix(rows) ==
    /\ \A r \in ToSet(rows) :
        /\ r.id = r.features /\ r.features \in [DOMAIN r.features -> {"plain", "other"}]
        /\ DOMAIN r.features # {} /\ DOMAIN r.features \subseteq {a.axis : a \in Axes}
    /\ \A r, q \in ToSet(rows) :
        /\ DOMAIN r.features = DOMAIN q.features
        /\ Beyond(q, r) = {} => \A arg \in ToSet(r.args) \cup ToSet(q.args) \cup UNION {ToSet(a.add) : a \in Axes} :
                                    Grows(arg, r, q, Beyond(r, q))

\* The other choice on an axis shows: it adds an argument that no axis takes away.
ASSUME ReportAssumption ==
    /\ MaxEdits \in Nat
    /\ NewArgs \subseteq Seq(STRING)
    /\ \A a \in Axes : /\ a.add \in Seq(STRING) /\ a.drop \in Seq(STRING)
                      /\ \E arg \in ToSet(a.add) : ~ Drops(Axes, arg)
    /\ \A a, b \in Axes : a.axis = b.axis => a = b
    /\ \A rows \in OldSections :
        /\ IsSection(rows)
        /\ \/ IsVariants(rows)
           \/ IsMatrix(rows) /\ \A r \in ToSet(rows) : r.from = r.id

VARIABLES
    old,      \* the rows of the older report's section; fixed
    new,      \* those of the newer
    partial,  \* whether the newer one was asked for some of its rows only (Only)
    edits     \* how many changes led to it

reportVars == <<old, new, partial, edits>>

-----------------------------------------------------------------------------
(* renames.                                                                 *)

\* The arguments of a command line, each as often as it is there.
Copies(args) == {c \in ToSet(args) \X (1..Len(args)) : c[2] <= Occurrences(c[1], args)}

\* How many arguments one command line has that the other does not, counting repeats.
distance(a, b) == Cardinality(SymDiff(Copies(a), Copies(b)))

sameAxes(a, b) ==
    /\ DOMAIN a.features = {} <=> DOMAIN b.features = {}
    /\ \A k \in DOMAIN a.features \cap DOMAIN b.features : a.features[k] = b.features[k]

\* Mutant: rows with axes, too, stand for each other only if they boot the same line.
CanStandExactly(r, c) == sameAxes(r, c) /\ distance(r.args, c.args) = 0

\* c can stand for r.
CanStand(r, c) == sameAxes(r, c) /\ (DOMAIN r.features = {} => distance(r.args, c.args) = 0)

\* One turn of nearest's loop.
closer(r, best, c) ==
    LET d == distance(r.args, c.args) IN
    IF ~ CanStand(r, c) THEN best
    ELSE IF ~ best.found \/ d < best.n THEN [row |-> c, n |-> d, found |-> TRUE, tie |-> FALSE]
    ELSE [best EXCEPT !.tie = best.tie \/ d = best.n]

\* The row of among that is nearest to r; ok only if there is one and no other as near.
nearest(r, among) ==
    LET best[i \in 0..Len(among)] == IF i = 0 THEN [row |-> r, n |-> 0, found |-> FALSE, tie |-> FALSE]
                                     ELSE closer(r, best[i - 1], among[i])
        last == best[Len(among)]
    IN  [row |-> last.row, ok |-> last.found /\ ~ last.tie]

\* Rows whose id the other report does not have.
only(rows, others) == Filter(rows, {r \in ToSet(rows) : \A o \in ToSet(others) : o.id # r.id})

\* Mutant: the nearest older row, whoever is nearer to that.
standsOneWay(r, o, news) == TRUE

\* r is also the nearest to o.
standsForBoth(r, o, news) == nearest(o, news).ok /\ nearest(o, news).row.id = r.id

\* <<newer row, older row>> for the newer rows that are an older one under another name.
renames(olds, news) == {<<r, nearest(r, olds).row>> : r \in {r \in ToSet(news) :
    nearest(r, olds).ok /\ standsForBoth(r, nearest(r, olds).row, news)}}

-----------------------------------------------------------------------------
(* section and Diff.                                                        *)

Line(id, what) == [id |-> id, what |-> what]

\* What a row and the one it is compared with differ in.
moved(o, r) == (IF o.measured # r.measured THEN {<<"measured">>} ELSE {})
               \cup (IF o.args # r.args THEN {<<"command line">>} ELSE {})

\* The lines of a section.
section(before, after, asked) ==
    LET renamed == renames(only(before, after), only(after, before))
        same == {p \in ToSet(after) \X ToSet(before) : p[1].id = p[2].id}
        paired == {Line(p[1].id, moved(p[2], p[1])) : p \in same}
                  \cup {Line(p[1].id, {<<"was", p[2].id>>} \cup moved(p[2], p[1])) : p \in renamed}
    IN  {l \in paired : l.what # {}}
        \cup {Line(r.id, {<<"new row">>}) : r \in {r \in ToSet(after) : \A p \in same \cup renamed : p[1] # r}}
        \cup {Line(o.id, {<<"row gone">>}) :
                o \in {o \in ToSet(before) : ~ asked /\ \A p \in same \cup renamed : p[2] # o}}

-----------------------------------------------------------------------------
(* How a report comes to differ from the one before it (external): a tree   *)
(* with other axes, another command line or other variants is measured.     *)

ReportInit ==
    /\ old \in OldSections
    /\ new = old
    /\ partial = FALSE
    /\ edits = 0

Edit(rows) ==
    /\ ~ partial
    /\ edits < MaxEdits
    /\ edits' = edits + 1
    /\ new' = rows
    /\ UNCHANGED <<old, partial>>

Specs == new # <<>> /\ \A r \in ToSet(new) : DOMAIN r.features # {}

\* A choice on one more axis, and on one less.
with(f, axis, choice) == [k \in DOMAIN f \cup {axis} |-> IF k = axis THEN choice ELSE f[k]]
without(f, axis) == [k \in DOMAIN f \ {axis} |-> f[k]]

\* Where an option is in a command line, and the line without it.
At(opt, args) == {n \in 0..(Len(args) - Len(opt)) : SubSeq(args, n + 1, n + Len(opt)) = opt}
cut(args, opt) == LET n == CHOOSE n \in At(opt, args) : TRUE
                  IN  SubSeq(args, 1, n) \o SubSeq(args, n + Len(opt) + 1, Len(args))

\* The matrix is the product of its axes: the plain choice on a new one changes nothing, and
\* its row is the one that stands for the row there was.
AddAxis(a) ==
    LET plain(r) == Row(with(r.id, a.axis, "plain"), with(r.features, a.axis, "plain"), r.args, r.measured, r.from)
        other(r) == Row(with(r.id, a.axis, "other"), with(r.features, a.axis, "other"),
                        cut(r.args, a.drop) \o a.add, r.measured, <<>>)
    IN /\ Specs
       /\ \A r \in ToSet(new) : a.axis \notin DOMAIN r.features /\ At(a.drop, r.args) # {}
       /\ Edit([i \in DOMAIN new |-> plain(new[i])] \o [i \in DOMAIN new |-> other(new[i])])

DropAxis(axis) ==
    LET drop(r) == Row(without(r.id, axis), without(r.features, axis), r.args, r.measured, r.from)
        kept == Filter(new, {r \in ToSet(new) : r.features[axis] = "plain"})
    IN /\ Specs
       /\ \A r \in ToSet(new) : axis \in DOMAIN r.features /\ DOMAIN r.features # {axis}
       /\ Edit([i \in DOMAIN kept |-> drop(kept[i])])

\* Every command line moves alike.
AddArgument(opt) == Edit([i \in DOMAIN new |-> [new[i] EXCEPT !.args = @ \o opt]])
DropArgument(opt) == /\ \A r \in ToSet(new) : At(opt, r.args) # {}
                     /\ Edit([i \in DOMAIN new |-> [new[i] EXCEPT !.args = cut(@, opt)]])

LoseRow(i) == Edit(Filter(new, ToSet(new) \ {new[i]}))
Remeasure(i) == Edit([new EXCEPT ![i].measured = 1 - @])
Reorder == Len(new) > 1 /\ Edit(Reverse(new))

\* A variant of the image under another name.
Rename(i, id) ==
    /\ ~ Specs /\ id \notin {r.id : r \in ToSet(new)}
    /\ Edit([new EXCEPT ![i].id = id])

\* The last thing said of the newer report: only some rows were asked for.
Ask(keep) ==
    /\ ~ partial
    /\ partial' = TRUE
    /\ new' = Filter(new, keep)
    /\ UNCHANGED <<old, edits>>

ReportNext ==
    \/ \E a \in Axes : AddAxis(a)
    \/ \E axis \in UNION {DOMAIN r.features : r \in ToSet(new)} : DropAxis(axis)
    \/ \E opt \in NewArgs : AddArgument(opt) \/ DropArgument(opt)
    \/ \E i \in DOMAIN new : LoseRow(i) \/ Remeasure(i) \/ \E id \in NewNames : Rename(i, id)
    \/ Reorder
    \/ \E r \in ToSet(new) : Ask(ToSet(new) \ {r})

ReportSpec == ReportInit /\ [][ReportNext]_reportVars

-----------------------------------------------------------------------------
(* Properties.                                                              *)

Olds == only(old, new)
News == only(new, old)

\* Rows that can stand for r and are no farther from it than any other.
NearestSet(r, among) == {c \in ToSet(among) : CanStand(r, c) /\ \A d \in ToSet(among) :
    CanStand(r, d) => distance(r.args, c.args) <= distance(r.args, d.args)}

\* The rows that are paired are those that are each other's only nearest, whatever order they
\* are in; no older row stands behind two newer ones, and every row of either report is
\* accounted for once: under its own name, as another's earlier name, as new or as gone.
EveryRowOnce ==
    LET lines == section(old, new, partial)
        told(id, what) == \E l \in lines : l.id = id /\ what \in l.what
        was(r, o) == told(r.id, <<"was", o.id>>)
    IN  /\ renames(Olds, News) = {p \in ToSet(News) \X ToSet(Olds) :
                                    NearestSet(p[1], Olds) = {p[2]} /\ NearestSet(p[2], News) = {p[1]}}
        /\ \A r, q \in ToSet(new), o, p \in ToSet(old) : was(r, o) /\ was(q, p) => (r = q <=> o = p)
        /\ \A r \in ToSet(News) : told(r.id, <<"new row">>) # \E o \in ToSet(old) : was(r, o)
        /\ \A o \in ToSet(Olds) : IF partial THEN ~ told(o.id, <<"row gone">>)
                                  ELSE told(o.id, <<"row gone">>) # \E r \in ToSet(new) : was(r, o)

\* r stands for o: it comes from it, with the plain choice on every axis only one of them has.
StandsFor(r, o) == DOMAIN r.features # {} /\ o.id = r.from

\* From r's command line to q's nothing moved against the other choice on a: no argument that
\* it adds is there less often, and none that it drops more often.
Along(a, r, q) ==
    /\ \A arg \in ToSet(a.add) : Occurrences(arg, r.args) <= Occurrences(arg, q.args)
    /\ \A arg \in ToSet(a.drop) : Occurrences(arg, q.args) <= Occurrences(arg, r.args)

\* The command lines moved between o and r, but not against an axis that was added, nor
\* along one that was dropped.
MovedApart(r, o) == \A a \in Axes :
    /\ a.axis \in DOMAIN r.features \ DOMAIN o.features => Along(a, o, r)
    /\ a.axis \in DOMAIN o.features \ DOMAIN r.features => Along(a, r, o)

\* "An axis added or removed renames every row": the row with the plain choice on what was
\* added, and on what was dropped, is compared with the row it stands for - although its
\* command line moved with all the others, so long as that did not undo what such an axis does.
AxesRename == \A r \in ToSet(new), o \in ToSet(old) :
    StandsFor(r, o) /\ MovedApart(r, o) => r.id = o.id \/ <<r, o>> \in renames(Olds, News)

\* "Two releases apart the command line has moved too [...] on every row alike [...] and the
\* dropped axis's value that added nothing to the command line is still the closest": the same,
\* however the lines moved.
PlainIsClosest == \A r \in ToSet(new), o \in ToSet(old) :
    StandsFor(r, o) => r.id = o.id \/ <<r, o>> \in renames(Olds, News)
=============================================================================
