------------------------------- MODULE MCGate -------------------------------
(***************************************************************************)
(* Small instances of the Gate for TLC.  Callers, ids and tokens are       *)
(* interchangeable, which the safety runs use.                             *)
(***************************************************************************)
EXTENDS Gate, TLC

\* The clock and the expiry of whatever it stamps.
MCTimes == 0 .. MaxClock + Ttl

Symmetry == Permutations(Threads) \union Permutations(Ids) \union Permutations(Tokens)

\* No guard reads the last reply of the store or the last answer to a caller:
\* they are outputs, which the action properties look at on every transition.
View == <<entries, claimOf, outcome, charged, inserted, host, permits, pc, arguments,
          stamp, token, verdict, history>>
=============================================================================
