------------------------------ MODULE TimeText ------------------------------
(***************************************************************************)
(* Times in the database: encodeTime writes them as RFC3339Nano text in    *)
(* UTC, and SQL compares the texts (hold_expires_at, available_at and      *)
(* expires_at against now).                                                *)
(*                                                                         *)
(* An instant is a second and a fraction of FractionDigits digits.  The    *)
(* text of the second has a fixed width, that of the fraction loses its    *)
(* trailing zeros, and the point with its last digit: 1.5 s is "01.5Z" and *)
(* 1 s is "01Z".                                                           *)
(***************************************************************************)
EXTENDS Integers, Sequences, SequencesExt

CONSTANTS
    FractionDigits,  \* 9
    SecondDigits,    \* width of the text up to the second
    Digit            \* digits of the instance

ASSUME TimeTextAssumption ==
    FractionDigits \in Nat /\ SecondDigits \in Nat \ {0} /\ Digit \subseteq 0..9

\* The order of the characters.
Point == -1
Letter == 10        \* Z, which is greater than every digit

\* Mutant: the second loses its leading zeros.
PadNot(ds) == SubSeq(ds, IF ds[1] = 0 THEN 2 ELSE 1, Len(ds))

\* Trailing zeros are dropped.
Trim(ds) == SubSeq(ds, 1, CHOOSE n \in 0..Len(ds) :
                /\ n > 0 => ds[n] # 0
                /\ \A i \in n + 1..Len(ds) : ds[i] = 0)
Pad(ds) == ds

encodeTime(t) ==
    Pad(t.second) \o (IF Trim(t.fraction) = <<>> THEN <<>> ELSE <<Point>> \o Trim(t.fraction))
                  \o <<Letter>>

\* Text comparison, and the comparison of numbers of one width.
TextBefore(a, b) ==
    \E n \in 0..Len(a) :
        /\ n < Len(b)
        /\ SubSeq(a, 1, n) = SubSeq(b, 1, n)
        /\ n = Len(a) \/ a[n + 1] < b[n + 1]
=============================================================================
