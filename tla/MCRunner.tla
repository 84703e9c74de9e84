------------------------------ MODULE MCRunner ------------------------------
(* An instance of Runner for TLC. *)
EXTENDS Runner

\* Test 2 is to be filled, test 1 expects a failure and test 3 a success.
MCExpected == <<1, Unset, 0>>
MCPosts == <<1, 1, 0>>
=============================================================================
