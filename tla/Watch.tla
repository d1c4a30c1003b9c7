------------------------------- MODULE Watch -------------------------------
(***************************************************************************)
(* boot.Watch: a boot's console read as it comes, in pieces cut anywhere,  *)
(* and the read at which each phase's marker first appeared                *)
(* (boot/phases.go).  A time is the number of the read it is taken at.     *)
(***************************************************************************)
EXTENDS Naturals, Sequences

CONSTANTS Bytes,      \* what a console is made of
          markers,    \* markers[p]: what says that phase p is reached, a set of sequences
          MaxRead,    \* the size of a read's buffer
          MaxOutput   \* bound: how much a console writes

Phases == DOMAIN markers
Marks == UNION {markers[p] : p \in Phases}

ASSUME WatchAssumption ==
    /\ \A p \in Phases : markers[p] \subseteq Seq(Bytes) \ {<<>>}
    /\ \E m \in Marks : \A k \in Marks : Len(k) <= Len(m)
    /\ MaxRead \in Nat \ {0} /\ MaxOutput \in Nat

VARIABLES
    until,   \* the phase to return at; fixed
    output,  \* everything read
    window,  \* what is kept of it to search in
    at,      \* at[p]: the read phase p was found in, 0 when it was not
    ends,    \* how much had been read after each read
    watch    \* "reading", or how Watch returned

watchVars == <<until, output, window, at, ends, watch>>

\* m is somewhere in s.
bytesContains(s, m) == \E i \in 1..Len(s) : i + Len(m) - 1 <= Len(s) /\ SubSeq(s, i, i + Len(m) - 1) = m

Longest == CHOOSE n \in {Len(m) : m \in Marks} : \A m \in Marks : Len(m) <= n

\* Mutant: one byte too few.
overlapShort == Longest - 2

\* How much of what was read is kept for the next read.
overlap == Longest - 1

Keep(s, n) == IF Len(s) > n THEN SubSeq(s, Len(s) - n + 1, Len(s)) ELSE s

WatchInit ==
    /\ until \in Phases
    /\ output = <<>> /\ window = <<>> /\ ends = <<>>
    /\ at = [p \in Phases |-> 0]
    /\ watch = "reading"

\* Phases not reached before, now found in the window.
stamp(seen, read) == [p \in Phases |->
    IF at[p] = 0 /\ \E m \in markers[p] : bytesContains(seen, m) THEN read ELSE at[p]]

\* Mutant: an error is looked at before the bytes that came with it.
ReadErrorFirst(chunk, err) ==
    /\ watch = "reading"
    /\ output' = output \o chunk
    /\ ends' = Append(ends, Len(output'))
    /\ window' = IF err = "nil" THEN Keep(window \o chunk, overlap) ELSE window
    /\ at' = IF err = "nil" THEN stamp(window \o chunk, Len(ends')) ELSE at
    /\ watch' = IF err = "nil" THEN (IF at'[until] # 0 THEN "ok" ELSE "reading") ELSE "ok"
    /\ UNCHANGED until

\* One read: some bytes or none, with an error or without.
Read(chunk, err) ==
    /\ watch = "reading"
    /\ IF chunk # <<>>
       THEN /\ output' = output \o chunk
            /\ ends' = Append(ends, Len(output'))
            /\ at' = stamp(window \o chunk, Len(ends'))
            /\ window' = IF at'[until] # 0 THEN window \o chunk ELSE Keep(window \o chunk, overlap)
       ELSE UNCHANGED <<output, ends, at, window>>
    /\ watch' = IF chunk # <<>> /\ at'[until] # 0 THEN "ok"
                ELSE IF err = "nil" THEN "reading" ELSE IF err = "EOF" THEN "ok" ELSE "failed"
    /\ UNCHANGED until

Chunks == UNION {[1..n -> Bytes] : n \in 0..MaxRead}

WatchNext == \E chunk \in Chunks, err \in {"nil", "EOF", "error"} :
    /\ Len(output) + Len(chunk) <= MaxOutput
    /\ Read(chunk, err)

WatchSpec == WatchInit /\ [][WatchNext]_watchVars

-----------------------------------------------------------------------------
(* Properties.                                                              *)

Appeared(p, s) == \E m \in markers[p] : bytesContains(s, m)

\* Wherever the reads cut the console, a phase is stamped at the read that brought the last
\* byte of the first of its markers in the whole output, and never if there is none.
StampedWhereItAppeared == \A p \in Phases :
    IF at[p] = 0 THEN ~ Appeared(p, output)
    ELSE /\ Appeared(p, SubSeq(output, 1, ends[at[p]]))
         /\ at[p] > 1 => ~ Appeared(p, SubSeq(output, 1, ends[at[p] - 1]))

\* Watch returns at the read in which the phase asked for appears - no later one comes - and
\* an error that comes with those bytes does not take it back.
ReturnsOnceReached == Appeared(until, output) <=> watch = "ok" /\ at[until] = Len(ends) /\ ends # <<>>

-----------------------------------------------------------------------------
(* What makes them hold: between two reads the window is the end of the     *)
(* output, all of it or as much as a marker cut by the next read can need.  *)

WatchType ==
    /\ until \in Phases /\ at \in [Phases -> Nat]
    /\ {output, window} \subseteq Seq(Bytes) /\ ends \in Seq(Nat)
    /\ watch \in {"reading", "ok", "failed"}

WindowInv ==
    /\ Len(window) <= Len(output)
    /\ \A i \in 1..Len(window) : window[i] = output[Len(output) - Len(window) + i]
    /\ watch = "reading" => Len(window) = Len(output) \/ Len(window) >= overlap

EndsInv ==
    /\ \A p \in Phases : at[p] <= Len(ends)
    /\ \A i \in 1..Len(ends) : ends[i] <= Len(output)
    /\ Len(ends) > 0 => ends[Len(ends)] = Len(output)
    /\ Len(ends) = 0 => Len(output) = 0

SeenInv == \A p \in Phases : at[p] # 0 <=> Appeared(p, output)

UntilInv == at[until] # 0 => watch = "ok" /\ at[until] = Len(ends)

WatchInv == WatchType /\ WindowInv /\ EndsInv /\ SeenInv /\ UntilInv /\ StampedWhereItAppeared
=============================================================================
