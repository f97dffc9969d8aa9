------------------------------ MODULE MCSearch ------------------------------
(* Values for the constants of Search: two queries that overlap in one repository. *)
EXTENDS Search

CONSTANTS r1, r2

TwoQueries == << {r1}, Repos >>
=============================================================================
