---------------------------- MODULE MCReadiness ----------------------------
(***************************************************************************)
(* An instance of ReleaseReadiness with the default thresholds (tenths of  *)
(* a per cent, milliseconds, per cent) and up to two files, beside the     *)
(* flake summary, that are not as a good run leaves them.                  *)
(***************************************************************************)
EXTENDS ReleaseReadiness

(* A failure, no tests, and retries: just within the limit, within it once
   rounded, above it, and of the only test. *)
MCCounts ==
  {Suite(50, 1, 0), Suite(0, 0, 0), Suite(50, 0, 1), Suite(49, 0, 1), Suite(50, 0, 2),
   Suite(0, 0, 1)}

(* A limit, just kept and just exceeded, or a report that does not say. *)
Around(limit) == {None, limit, limit + 1}
=============================================================================
