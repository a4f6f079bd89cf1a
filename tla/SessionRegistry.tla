-------------------------- MODULE SessionRegistry --------------------------
(***************************************************************************)
(* What the session table promises to the rest of the program, without     *)
(* saying how: a session is opened once, closed at most once, and a tab is *)
(* told to log out only when its session is closed.                        *)
(* Auth implements this specification.                                     *)
(***************************************************************************)

CONSTANT Session

VARIABLES
  live,    \* sessions that have a row
  ended,   \* sessions that were opened and whose row is gone
  told     \* sessions whose tab received a logout event

vars == <<live, ended, told>>

Init == live = {} /\ ended = {} /\ told = {}

\* A fresh session identifier gets a row.
Open(s) ==
  /\ s \notin live \cup ended
  /\ live' = live \cup {s}
  /\ UNCHANGED <<ended, told>>

\* Rows are deleted, and tabs of sessions that are closed by then are told.
Close(S, T) ==
  /\ live' = live \ S
  /\ ended' = ended \cup S
  /\ told' = told \cup T

Next ==
  \/ \E s \in Session : Open(s)
  \/ \E S \in SUBSET live : \E T \in SUBSET (ended \cup S) : Close(S, T)

Spec == Init /\ [][Next]_vars

---------------------------------------------------------------------------

TypeOK ==
  /\ live \subseteq Session
  /\ ended \subseteq Session
  /\ told \subseteq Session

\* A session is never both open and closed, and no tab whose session is still
\* open has been told to log out.
ToldAreClosed == live \cap ended = {} /\ told \subseteq ended

\* A closed session stays closed: its identifier is never given a row again.
ClosedForGood == [][ended \subseteq ended']_vars

============================================================================
