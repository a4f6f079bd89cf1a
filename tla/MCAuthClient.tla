---------------------------- MODULE MCAuthClient ----------------------------
(* Values of the constants of AuthClient for TLC. *)
EXTENDS AuthClient, TLC

\* One request at a time with everything around it, and two that overtake each other.
One == [uses |-> {"password", "unload", "events", "renew"}, fetches |-> 1]
TwoCalls == [uses |-> {"password"}, fetches |-> 2]
TwoOverStream == [uses |-> {"events"}, fetches |-> 2]
All == {One, TwoCalls, TwoOverStream}

Symmetry == Permutations(Login) \cup Permutations(Fetch) \cup Permutations(User)

=============================================================================
