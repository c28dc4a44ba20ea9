----------------------------- MODULE SeqWindow ------------------------------
(***************************************************************************)
(* seqWindow (internal/storeforward/pump.go): the bitmap in which the Pump *)
(* remembers the stream sequences it wrote.  The bit of sequence s is      *)
(* s mod N (s & (n-1), n a power of two, in the code); a window is its set *)
(* of raised bits and its base.                                            *)
(***************************************************************************)
EXTENDS Integers

CONSTANT N  \* window span in sequences

ASSUME SpanAssumption == N \in Nat \ {0}

Slots == 0..(N - 1)
Slot(s) == s % N

Windows == [bits : SUBSET Slots, base : Nat]

NewWindow == [bits |-> {}, base |-> 0]

Covers(w, s) == w.base <= s /\ s - w.base < N

ContainsAlias(w, s) == Slot(s) \in w.bits  \* faulty: ignores the base
Contains(w, s) == Covers(w, s) /\ Slot(s) \in w.bits

\* slide forgets the sequences it passes, all of them when it passes N or more.
Slide(w, newBase) ==
    [bits |-> IF newBase - w.base >= N
              THEN {}
              ELSE w.bits \ {Slot(s) : s \in w.base..(newBase - 1)},
     base |-> newBase]

Raise(w, s) == [w EXCEPT !.bits = @ \cup {Slot(s)}]

\* A sequence older than the window is not recorded; a newer one becomes the
\* newest the window covers.
Add(w, s) ==
    IF s < w.base THEN w
    ELSE IF s - w.base >= N THEN Raise(Slide(w, s - N + 1), s)
    ELSE Raise(w, s)

-----------------------------------------------------------------------------
(* The bitmap against the set it stands for, under any order of inserts.   *)

CONSTANT Seqs   \* the sequences inserted

ASSUME SeqsAssumption == Seqs \subseteq Nat

VARIABLES
    win,    \* the window
    added   \* history: every sequence inserted so far

windowVars == <<win, added>>

WindowInit == win = NewWindow /\ added = {}

Insert(s) ==
    /\ win' = Add(win, s)
    /\ added' = added \cup {s}

WindowNext == \E s \in Seqs : Insert(s)

WindowSpec == WindowInit /\ [][WindowNext]_windowVars

WindowTypeOK == win \in Windows /\ added \subseteq Seqs

\* contains answers exactly "inserted, and still covered": a sequence that
\* aliases the slot of another is never taken for it (the Pump would ack a
\* message it did not write), and none the window covers is forgotten (the Pump
\* would write it twice).
WindowExact ==
    \A s \in Seqs : Contains(win, s) <=> s \in added /\ Covers(win, s)

\* "A redelivered message is recognised as long as its original was written
\* within the last dedupWindowSeqs stream messages."
RecentRemembered ==
    \A s \in added : (\A t \in added : t - s < N) => Contains(win, s)
=============================================================================
