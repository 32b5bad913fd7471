----------------------------- MODULE MCLayouts -----------------------------
(***************************************************************************)
(* Instances of Layouts for TLC: every format string of up to five         *)
(* letters, and those at the limits of the header and of the expander.     *)
(***************************************************************************)
EXTENDS Layouts

One(c) == [n |-> 1, letter |-> c]
Short == {[k \in DOMAIN s |-> One(s[k])] : s \in BoundedSeq(Letters, 5)}

Many(n, c, m, d) == <<[n |-> n, letter |-> c], [n |-> m, letter |-> d]>>
Limits ==
  {Many(n, "l", m, "*") : n \in {26, 27, 28, 31, 32}, m \in 0 .. 3}
  \cup {Many(n, "i", 1, "*") : n \in {0, 1000}}
  \cup {Many(0, "*", n, c) : n \in 0 .. 1, c \in {"c", "i"}}
  \cup {Many(n, "c", 1, "*") \o Many(m, "c", 2, "*") : n, m \in {7, 8, 9}}

ShortAndLimits == Short \cup Limits

DataBytes == {0, 1, 2, 7, 8, 9, 16, 17}

NoData == {}
=============================================================================
