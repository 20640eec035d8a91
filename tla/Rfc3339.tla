------------------------------ MODULE Rfc3339 -------------------------------
(***************************************************************************)
(* The text a timestamp is stored as (chrono's to_rfc3339, server/src/     *)
(* lib.rs: post_message, purge_expired) and the order SQLite compares it   *)
(* in.  The fraction of a second is written in groups of three digits, as  *)
(* many as are needed, and a value too large for its fixed width gets a    *)
(* sign in front, as years above 9999 do.                                  *)
(*                                                                         *)
(* Years to seconds are one number of two digits here, and a group is one  *)
(* digit: widths do not matter to the order, only that they differ.        *)
(***************************************************************************)
EXTENDS Naturals, Sequences

Plus == 43
Dot == 46
Digit(d) == 48 + d

\* "{:02}", or with a sign when that is too narrow.
Number(n) ==
  IF n < 100 THEN <<Digit(n \div 10), Digit(n % 10)>>
  ELSE <<Plus, Digit(n \div 100), Digit((n \div 10) % 10), Digit(n % 10)>>

\* SecondsFormat::AutoSi: nothing, milli-, micro- or nanoseconds.
Fraction(f) ==
  LET groups == IF f[3] # 0 THEN 3 ELSE IF f[2] # 0 THEN 2 ELSE IF f[1] # 0 THEN 1 ELSE 0
  IN IF groups = 0 THEN <<>> ELSE <<Dot>> \o [i \in 1..groups |-> Digit(f[i])]

\* ... followed by the offset "+00:00".
Text(t) == Number(t.sec) \o Fraction(t.frac) \o <<Plus>>

\* SQLite's order of texts: by the first byte that differs.
TextBefore(a, b) ==
  \E n \in 0..Len(a) :
    /\ n < Len(b)
    /\ \A i \in 1..n : a[i] = b[i]
    /\ n = Len(a) \/ a[n + 1] < b[n + 1]

\* The order of time.
Earlier(t, u) ==
  LET nanos(v) == ((v.sec * 10 + v.frac[1]) * 10 + v.frac[2]) * 10 + v.frac[3]
  IN nanos(t) < nanos(u)
=============================================================================
