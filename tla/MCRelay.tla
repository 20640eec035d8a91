------------------------------ MODULE MCRelay -------------------------------
(***************************************************************************)
(* TLC instance of Relay.                                                  *)
(***************************************************************************)
EXTENDS Relay, Rfc3339

\* A zero, clamped up, and a page request beyond MaxLimit, clamped down.
MCLimits == {0, 3}

Instants(secs) == [sec : secs, frac : [1..3 -> {0, 1, 9}]]

\* Relay compares timestamps as numbers where the code compares texts: that is
\* the same order, whatever lengths their fractions have, ...
ASSUME TextOrderIsTimeOrder ==
  \A t, u \in Instants({0, 9, 10, 99}) : TextBefore(Text(t), Text(u)) <=> Earlier(t, u)

\* ... until a year needs a fifth digit: that expiry would be before any now.
ASSUME LateYearsSortFirst ==
  \A t \in Instants({0, 99}), u \in Instants({100}) : TextBefore(Text(u), Text(t))
=============================================================================
