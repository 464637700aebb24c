------------------------------- MODULE MCNvme -------------------------------
(* Transfers for TLC. *)
EXTENDS Nvme

Transfer(l, b, n) == [lba |-> l, buf |-> b, nlb |-> n]

\* One command in one page, one in two from the middle of a page, one with a
\* list, one that is cut in two, and one with a list from the middle of a page.
MCRequests == {Transfer(0, 0, 1), Transfer(3, 1, 2), Transfer(0, 4, 5), Transfer(1, 2, 8),
               Transfer(2, 1, 5)}

MCListRequests == {Transfer(0, 0, 5)}
=============================================================================
