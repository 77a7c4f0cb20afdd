-------------------------------- MODULE Sums --------------------------------
(* What SUM(...) in a query and Array.reduce in a handler add up. *)
EXTENDS FiniteSetsExt

\* The values of f over the elements of S.
SumOver(f, S) == MapThenSumSet(LAMBDA x : f[x], S)

=============================================================================
