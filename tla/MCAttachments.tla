----------------------------- MODULE MCAttachments -----------------------------
(* Instances of Attachments for TLC: a file at the limit and one over it. *)
EXTENDS Attachments, TLC

CONSTANTS r1, r2, r3, b1, b2, b3

Sent(n, d, s) == [size |-> n, declared |-> d, sniffed |-> s]
MCFiles == {Sent(2, "text/markdown", "text/plain"), Sent(3, "", "image/png"), Sent(1, "image/svg+xml", "text/plain")}
MCSymmetry == Permutations({r1, r2, r3}) \cup Permutations({b1, b2, b3})
===============================================================================
