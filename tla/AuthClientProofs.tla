-------------------------- MODULE AuthClientProofs --------------------------
(***************************************************************************)
(* Proofs about AuthClient, for any accounts, logins and requests.          *)
(*                                                                          *)
(* While no answer came after its login was left, everything the tab has    *)
(* (tokens, streams, timers, requests, cached data) is of the login whose    *)
(* user it shows. The inductive invariant says so part by part, and that    *)
(* nothing is left over on the login page.                                  *)
(***************************************************************************)
EXTENDS AuthClient, FiniteSetTheorems, TLAPS

\* The sessions of the tab: in its storage, of its streams, and in what it has asked for.
InTab == ({access, refresh, reader, timerRef} \cup connecting \cup streaming \cup timers) \ {none}
Held == InTab \cup ({call[q].token : q \in Fetch} \ {none})

\* They come from logins that were answered.
HoldsAnswered ==
  /\ \A s \in Held : login[s].step = "done"
  /\ \A s \in Login : login[s].step # "idle" => login[s].as \in User

\* The server knows a session from the step that opens it.
OpenedOnce ==
  /\ \A s \in live \cup ended : login[s].step \notin {"idle", "sent", "cleared"}
  /\ inbox \cap live = {}

\* The page is inside exactly when there is a user, and the tokens are his.
ScreenFits ==
  /\ page = "inside" <=> user # none
  /\ user # none => access # none /\ refresh # none /\ Owner(refresh) = user
  /\ user = none => refresh = none
  /\ isRedirecting => leaving

Pending(p) == login[p].mine /\ login[p].step \in {"sent", "cleared", "granted"}

\* One login at a time, on the login page, without its dialog.
OneLogin ==
  \A p \in Login : Pending(p) =>
    /\ \A q \in Login : Pending(q) => p = q
    /\ page = "login" /\ dialog = none
    /\ overtaken = {} => ~leaving

\* Only for the session the tab holds is there a stream or a timer, and the refs name it.
OwnStream ==
  overtaken = {} =>
    /\ access = refresh
    /\ connecting \cup streaming \cup timers \subseteq {access}
    /\ streaming \subseteq {reader} /\ timers \subseteq {timerRef}

\* What was cached and asked for is of the user, and on the login page there is none.
OwnData ==
  ~softLogout /\ overtaken = {} =>
    /\ user # none =>
         /\ cached \subseteq {user}
         /\ \A q \in Fetch : call[q].mine /\ call[q].token # none => Owner(call[q].token) = user
    /\ user = none /\ ~leaving =>
         /\ cached = {}
         /\ \A q \in Fetch : call[q].mine => call[q] = Unused

\* A request that was not repeated may be, once.
Retries ==
  \A q \in Fetch :
    /\ call[q].step = "idle" => call[q] = Unused
    /\ ~call[q].retried \/ call[q].step = "refreshing" => repeats[q] = 0
    /\ call[q].step = "refreshing" => call[q].retried /\ call[q].token # none
    /\ repeats[q] <= 1

IInv ==
  /\ TypeOK /\ HoldsAnswered /\ OpenedOnce /\ ScreenFits /\ OneLogin /\ OwnStream /\ OwnData
  /\ Retries

---------------------------------------------------------------------------
(* Steps *)

StreamStep(s) == Connected(s) \/ ConnectFails(s) \/ Reconnect(s) \/ StreamEnds(s)

\* The ways out: by the button, by a refused refresh, by an event.
Leaves(gone) ==
  /\ LocalLogout(gone) /\ UNCHANGED <<login, cached>>
  /\ \/ softLogout' = TRUE /\ UNCHANGED <<leaving, isRedirecting>>
     \/ Redirect /\ UNCHANGED softLogout
     \/ leaving' = TRUE /\ inbox # {} /\ UNCHANGED <<isRedirecting, softLogout>>

\* Nothing of the tab changes but what it has asked for.
Calm ==
  UNCHANGED <<storage, page, leaving, isRedirecting, connecting, streaming, reader, timerRef,
              timers, cached, overtaken, softLogout>>

Answered == \E s \in Login : LoginAnswered(s)
Streams == \E s \in Login : StreamStep(s)
Serving == \E q \in Fetch : Served(q)
Refreshes == \E q \in Fetch : Refreshed(q)
Leaving == \E gone \in SUBSET Login : Leaves(gone)

OfAKind == Answered \/ Streams \/ Serving \/ Refreshes \/ Leaving \/ Load \/ CloseTab \/ Calm

\* Every step is of one of these kinds.
LEMMA StepIsOfAKind ==
  ASSUME [Next]_vars
  PROVE  OfAKind
<1> USE DEF server, storage, window, stream, requests, history, Calm, OfAKind
<1>1. ASSUME NEW s \in Login, NEW u \in User, SubmitLogin(s, u) PROVE OfAKind
  BY <1>1 DEF SubmitLogin, StartLogin
<1>2. ASSUME NEW s \in Login, ForceLogin(s) PROVE OfAKind
  BY <1>2 DEF ForceLogin, StartLogin
<1>3. CASE CancelLogin
  BY <1>3 DEF CancelLogin
<1>4. ASSUME NEW s \in Login, Duplicate(s) PROVE OfAKind
  BY <1>4 DEF Duplicate
<1>5. ASSUME NEW s \in Login, ServerClears(s) PROVE OfAKind
  BY <1>5 DEF ServerClears, Goto, Registry!Close
<1>6. ASSUME NEW s \in Login, ServerOpens(s) PROVE OfAKind
  BY <1>6 DEF ServerOpens, Goto, Registry!Open
<1>7. ASSUME NEW s \in Login, LoginAnswered(s) PROVE OfAKind
  BY <1>7 DEF Answered
<1>8. ASSUME NEW s \in Login, LoginLost(s) PROVE OfAKind
  BY <1>8 DEF LoginLost, Goto
<1>9. ASSUME NEW q \in Fetch, Ask(q) PROVE OfAKind
  BY <1>9 DEF Ask, Send
<1>10. ASSUME NEW q \in Fetch, ChangePassword(q) PROVE OfAKind
  BY <1>10 DEF ChangePassword, Send
<1>11. ASSUME NEW q \in Fetch, Logout(q) PROVE OfAKind
  BY <1>11 DEF Logout, Send
<1>12. ASSUME NEW q \in Fetch, Served(q) PROVE OfAKind
  BY <1>12 DEF Serving
<1>13. ASSUME NEW q \in Fetch, PasswordChanged(q) PROVE OfAKind
  BY <1>13 DEF PasswordChanged
<1>14. ASSUME NEW q \in Fetch, ServerDeletes(q) PROVE OfAKind
  BY <1>14 DEF ServerDeletes, Registry!Close
<1>15. ASSUME NEW q \in Fetch, LogoutAnswered(q) PROVE OfAKind
  <2>1. Leaves({})
    BY <1>15 DEF LogoutAnswered, Finished, Leaves
  <2> QED
    BY <2>1 DEF Leaving
<1>16. ASSUME NEW q \in Fetch, Fails(q) PROVE OfAKind
  <2>1. Calm \/ Leaves({})
    BY <1>16 DEF Fails, Rejected, Finished, Leaves
  <2> QED
    BY <2>1 DEF Leaving
<1>17. ASSUME NEW q \in Fetch, Unauthorized(q) PROVE OfAKind
  BY <1>17 DEF Unauthorized
<1>18. ASSUME NEW q \in Fetch, NothingToRefresh(q) PROVE OfAKind
  <2>1. Leaves({})
    BY <1>18 DEF NothingToRefresh, GiveUp, Finished, Leaves
  <2> QED
    BY <2>1 DEF Leaving
<1>19. ASSUME NEW q \in Fetch, UnauthorizedAgain(q) PROVE OfAKind
  <2>1. Calm \/ Leaves({})
    BY <1>19 DEF UnauthorizedAgain, Rejected, Finished, Leaves
  <2> QED
    BY <2>1 DEF Leaving
<1>20. ASSUME NEW q \in Fetch, Refreshed(q) PROVE OfAKind
  BY <1>20 DEF Refreshes
<1>21. ASSUME NEW q \in Fetch, RefreshRefused(q) PROVE OfAKind
  <2>1. Leaves({})
    BY <1>21 DEF RefreshRefused, GiveUp, Finished, Leaves
  <2> QED
    BY <2>1 DEF Leaving
<1>22. ASSUME NEW q \in Fetch, Dropped(q) PROVE OfAKind
  BY <1>22 DEF Dropped, Finished
<1>23. ASSUME NEW s \in Login, Connected(s) PROVE OfAKind
  BY <1>23 DEF Streams, StreamStep
<1>24. ASSUME NEW s \in Login, ConnectFails(s) PROVE OfAKind
  BY <1>24 DEF Streams, StreamStep
<1>25. ASSUME NEW s \in Login, Reconnect(s) PROVE OfAKind
  BY <1>25 DEF Streams, StreamStep
<1>26. ASSUME NEW s \in Login, StreamEnds(s) PROVE OfAKind
  BY <1>26 DEF Streams, StreamStep
<1>27. ASSUME NEW s \in Login, ReceiveLogout(s) PROVE OfAKind
  <2>1. Leaves({s})
    BY <1>27 DEF ReceiveLogout, Leaves
  <2> QED
    BY <2>1 DEF Leaving
<1>28. CASE Load
  BY <1>28
<1>29. CASE CloseTab
  BY <1>29
<1>30. ASSUME NEW b \in beacons, BeaconArrives(b) PROVE OfAKind
  BY <1>30 DEF BeaconArrives, Registry!Close
<1>31. ASSUME NEW b \in beacons, BeaconLost(b) PROVE OfAKind
  BY <1>31 DEF BeaconLost
<1>32. ASSUME NEW s \in Login, Elsewhere(s) PROVE OfAKind
  BY <1>32 DEF Elsewhere, Registry!Close
<1>33. CASE UNCHANGED vars
  BY <1>33 DEF vars
<1> HIDE DEF server, storage, window, stream, requests, history, Calm, OfAKind
<1> QED
  BY <1>1, <1>2, <1>3, <1>4, <1>5, <1>6, <1>7, <1>8, <1>9, <1>10, <1>11, <1>12,
     <1>13, <1>14, <1>15, <1>16, <1>17, <1>18, <1>19, <1>20, <1>21, <1>22, <1>23,
     <1>24, <1>25, <1>26, <1>27, <1>28, <1>29, <1>30, <1>31, <1>32, <1>33 DEF Next,
     LoginStep, CallStep

---------------------------------------------------------------------------
(* Types *)

\* A request that is done leaves its place as it was before.
LEMMA FinishedFits ==
  ASSUME TypeOK, NEW q \in Fetch, Finished(q)
  PROVE  /\ login' \in [Login -> LoginState]
         /\ call' \in [Fetch -> CallState]
         /\ repeats' \in [Fetch -> Nat]
<1>1. Unused \in CallState
  BY DEF Unused, CallState, Kinds
<1>2. 0 \in Nat
  OBVIOUS
<1> QED
  BY <1>1, <1>2 DEF TypeOK, Finished

\* A login that moves on keeps its place in the types.
LEMMA GotoFits ==
  ASSUME TypeOK, NEW s \in Login, NEW from,
         NEW to \in {"idle", "sent", "cleared", "granted", "done", "failed"}, Goto(s, from, to)
  PROVE  login' \in [Login -> LoginState]
<1>1. [login[s] EXCEPT !.step = to] \in LoginState
  BY DEF TypeOK, LoginState
<1>2. login' = [login EXCEPT ![s] = [login[s] EXCEPT !.step = to]]
  BY DEF Goto
<1> QED
  BY <1>1, <1>2 DEF TypeOK

\* The local logout keeps the types.
LEMMA LocalLogoutFits ==
  ASSUME TypeOK, NEW gone \in SUBSET Login, LocalLogout(gone)
  PROVE  /\ user' \in User \cup {none} /\ access' \in Login \cup {none}
         /\ refresh' \in Login \cup {none} /\ page' \in {"closed", "login", "inside"}
         /\ connecting' \subseteq Login /\ streaming' \subseteq Login
         /\ reader' \in Login \cup {none} /\ timerRef' \in Login \cup {none}
         /\ timers' \subseteq Login /\ inbox' \subseteq streaming' /\ overtaken' \subseteq Login
  BY DEF TypeOK, LocalLogout, LeaveStream

\* So does a fresh page.
LEMMA FreshPageFits ==
  ASSUME TypeOK, FreshPage
  PROVE  /\ login' \in [Login -> LoginState] /\ call' \in [Fetch -> CallState]
         /\ repeats' \in [Fetch -> Nat]
<1>1. ASSUME NEW s \in Login PROVE [login[s] EXCEPT !.mine = @ /\ login[s].step = "idle"] \in LoginState
  <2>1. login[s] \in LoginState
    BY DEF TypeOK
  <2>2. (login[s].mine /\ login[s].step = "idle") \in BOOLEAN
    OBVIOUS
  <2> QED
    BY <2>1, <2>2 DEF LoginState
<1>2. ASSUME NEW q \in Fetch PROVE [call[q] EXCEPT !.mine = @ /\ call[q].step = "idle"] \in CallState
  <2>1. call[q] \in CallState
    BY DEF TypeOK
  <2>2. (call[q].mine /\ call[q].step = "idle") \in BOOLEAN
    OBVIOUS
  <2> QED
    BY <2>1, <2>2 DEF CallState
<1> QED
  BY <1>1, <1>2 DEF FreshPage, TypeOK, requests

\* Every step preserves the types.
LEMMA TypeKept ==
  ASSUME TypeOK, HoldsAnswered, Retries, [Next]_vars
  PROVE  TypeOK'
<1> DEFINE G == TypeOK'
<1> SUFFICES G
  OBVIOUS
<1> USE DEF TypeOK, Registry!TypeOK, server, storage, window, stream, requests,
     history
<1>1. ASSUME NEW s \in Login, NEW u \in User, SubmitLogin(s, u) PROVE G
  BY <1>1, ClientAssumption DEF SubmitLogin, StartLogin, LoginState
<1>2. ASSUME NEW s \in Login, ForceLogin(s) PROVE G
  BY <1>2, ClientAssumption DEF ForceLogin, StartLogin, LoginState
<1>3. CASE CancelLogin
  BY <1>3, ClientAssumption DEF CancelLogin
<1>4. ASSUME NEW s \in Login, Duplicate(s) PROVE G
  BY <1>4, ClientAssumption DEF Duplicate, NoLogin, LoginState, Owner
<1>5. ASSUME NEW s \in Login, ServerClears(s) PROVE G
  <2>1. login' \in [Login -> LoginState]
    BY <1>5, GotoFits DEF ServerClears
  <2> QED
    BY <1>5, <2>1 DEF ServerClears, Registry!Close, SessionsOf, Goto
<1>6. ASSUME NEW s \in Login, ServerOpens(s) PROVE G
  <2>1. login' \in [Login -> LoginState]
    BY <1>6, GotoFits DEF ServerOpens
  <2> QED
    BY <1>6, <2>1 DEF ServerOpens, Registry!Open, Goto
<1>7. ASSUME NEW s \in Login, LoginAnswered(s) PROVE G
  <2>1. login' \in [Login -> LoginState]
    BY <1>7, GotoFits DEF LoginAnswered
  <2>2. Owner(s) \in User \cup {none}
    BY DEF Owner, LoginState
  <2> QED
    BY <1>7, <2>1, <2>2 DEF LoginAnswered, Goto
<1>8. ASSUME NEW s \in Login, LoginLost(s) PROVE G
  <2>1. login' \in [Login -> LoginState]
    BY <1>8, GotoFits DEF LoginLost
  <2> QED
    BY <1>8, <2>1 DEF LoginLost, Goto
<1>9. ASSUME NEW q \in Fetch, Ask(q) PROVE G
  <2> DEFINE r == [call[q] EXCEPT !.kind = "data", !.step = "sent", !.token = access,
                                  !.retried = call[q].retried]
  <2>1. call[q] \in CallState
    OBVIOUS
  <2>2. "data" \in Kinds /\ access \in Login \cup {none} /\ call[q].retried \in BOOLEAN
    BY <1>9, <2>1 DEF Ask, Send, CallState, Kinds
  <2>3. call' = [call EXCEPT ![q] = r]
    BY <1>9, <2>1 DEF Ask, Send, CallState
  <2>a. r \in CallState
    BY <2>1, <2>2 DEF CallState
  <2> HIDE DEF r
  <2>4. call' \in [Fetch -> CallState]
    BY <2>3, <2>a
  <2> QED
    BY <1>9, <2>4 DEF Ask, Send
<1>10. ASSUME NEW q \in Fetch, ChangePassword(q) PROVE G
  <2> DEFINE r == [call[q] EXCEPT !.kind = "password", !.step = "sent", !.token = access,
                                  !.retried = call[q].retried]
  <2>1. call[q] \in CallState
    OBVIOUS
  <2>2. "password" \in Kinds /\ access \in Login \cup {none} /\ call[q].retried \in BOOLEAN
    BY <1>10, <2>1 DEF ChangePassword, Send, CallState, Kinds
  <2>3. call' = [call EXCEPT ![q] = r]
    BY <1>10, <2>1 DEF ChangePassword, Send, CallState
  <2>a. r \in CallState
    BY <2>1, <2>2 DEF CallState
  <2> HIDE DEF r
  <2>4. call' \in [Fetch -> CallState]
    BY <2>3, <2>a
  <2> QED
    BY <1>10, <2>4 DEF ChangePassword, Send
<1>11. ASSUME NEW q \in Fetch, Logout(q) PROVE G
  <2> DEFINE r == [call[q] EXCEPT !.kind = "logout", !.step = "sent", !.token = access,
                                  !.retried = call[q].retried]
  <2>1. call[q] \in CallState
    OBVIOUS
  <2>2. "logout" \in Kinds /\ access \in Login \cup {none} /\ call[q].retried \in BOOLEAN
    BY <1>11, <2>1 DEF Logout, Send, CallState, Kinds
  <2>3. call' = [call EXCEPT ![q] = r]
    BY <1>11, <2>1 DEF Logout, Send, CallState
  <2>a. r \in CallState
    BY <2>1, <2>2 DEF CallState
  <2> HIDE DEF r
  <2>4. call' \in [Fetch -> CallState]
    BY <2>3, <2>a
  <2> QED
    BY <1>11, <2>4 DEF Logout, Send
<1>12. ASSUME NEW q \in Fetch, Served(q) PROVE G
  <2>1. /\ login' \in [Login -> LoginState] /\ call' \in [Fetch -> CallState]
        /\ repeats' \in [Fetch -> Nat]
    BY <1>12, FinishedFits DEF Served
  <2>2. call[q].token \in Login
    BY <1>12 DEF Served, CallState
  <2>3. Owner(call[q].token) \in User
    BY <2>2, <1>12 DEF Served, HoldsAnswered, Owner, Held, InTab
  <2> QED
    BY <1>12, <2>1, <2>3 DEF Served
<1>13. ASSUME NEW q \in Fetch, PasswordChanged(q) PROVE G
  <2> DEFINE r == [call[q] EXCEPT !.kind = "logout", !.step = "sent", !.token = access,
                                  !.retried = FALSE]
  <2>1. call[q] \in CallState
    OBVIOUS
  <2>2. "logout" \in Kinds /\ access \in Login \cup {none} /\ FALSE \in BOOLEAN
    BY <1>13, <2>1 DEF PasswordChanged, At, CallState, Kinds
  <2>3. call' = [call EXCEPT ![q] = r]
    BY <1>13, <2>1 DEF PasswordChanged, At, CallState
  <2>a. r \in CallState
    BY <2>1, <2>2 DEF CallState
  <2> HIDE DEF r
  <2>4. call' \in [Fetch -> CallState]
    BY <2>3, <2>a
  <2> QED
    BY <1>13, <2>4 DEF PasswordChanged, At
<1>14. ASSUME NEW q \in Fetch, ServerDeletes(q) PROVE G
  <2> DEFINE r == [call[q] EXCEPT !.kind = call[q].kind, !.step = "deleted", !.token = call[q].token,
                                  !.retried = call[q].retried]
  <2>1. call[q] \in CallState
    OBVIOUS
  <2>2. call[q].kind \in Kinds /\ call[q].token \in Login \cup {none} /\ call[q].retried \in BOOLEAN
    BY <1>14, <2>1 DEF ServerDeletes, At, CallState, Kinds
  <2>3. call' = [call EXCEPT ![q] = r]
    BY <1>14, <2>1 DEF ServerDeletes, At, CallState
  <2>a. r \in CallState
    BY <2>1, <2>2 DEF CallState
  <2> HIDE DEF r
  <2>4. call' \in [Fetch -> CallState]
    BY <2>3, <2>a
  <2> QED
    BY <1>14, <2>4 DEF ServerDeletes, Registry!Close, SessionsOf
<1>15. ASSUME NEW q \in Fetch, LogoutAnswered(q) PROVE G
  <2>1. /\ login' \in [Login -> LoginState] /\ call' \in [Fetch -> CallState]
        /\ repeats' \in [Fetch -> Nat]
    BY <1>15, FinishedFits DEF LogoutAnswered
  <2>2. {} \in SUBSET Login
    OBVIOUS
  <2>3. /\ user' \in User \cup {none} /\ access' \in Login \cup {none}
        /\ refresh' \in Login \cup {none} /\ page' \in {"closed", "login", "inside"}
        /\ connecting' \subseteq Login /\ streaming' \subseteq Login
        /\ reader' \in Login \cup {none} /\ timerRef' \in Login \cup {none}
        /\ timers' \subseteq Login /\ inbox' \subseteq streaming' /\ overtaken' \subseteq Login
    BY <1>15, <2>2, LocalLogoutFits DEF LogoutAnswered
  <2>4. /\ leaving' \in BOOLEAN /\ isRedirecting' \in BOOLEAN /\ softLogout' \in BOOLEAN
        /\ UNCHANGED <<server, dialog, beacons, cached>>
    BY <1>15 DEF LogoutAnswered, Redirect
  <2> QED
    BY <2>1, <2>3, <2>4
<1>16. ASSUME NEW q \in Fetch, Fails(q) PROVE G
  <2>1. /\ login' \in [Login -> LoginState] /\ call' \in [Fetch -> CallState]
        /\ repeats' \in [Fetch -> Nat]
    BY <1>16, FinishedFits DEF Fails, Rejected
  <2>2. {} \in SUBSET Login
    OBVIOUS
  <2>3. /\ user' \in User \cup {none} /\ access' \in Login \cup {none}
        /\ refresh' \in Login \cup {none} /\ page' \in {"closed", "login", "inside"}
        /\ connecting' \subseteq Login /\ streaming' \subseteq Login
        /\ reader' \in Login \cup {none} /\ timerRef' \in Login \cup {none}
        /\ timers' \subseteq Login /\ inbox' \subseteq streaming' /\ overtaken' \subseteq Login
    BY <1>16, <2>2, LocalLogoutFits DEF Fails, Rejected
  <2>4. /\ leaving' \in BOOLEAN /\ isRedirecting' \in BOOLEAN /\ softLogout' \in BOOLEAN
        /\ UNCHANGED <<server, dialog, beacons, cached>>
    BY <1>16 DEF Fails, Rejected, Redirect
  <2> QED
    BY <2>1, <2>3, <2>4
<1>17. ASSUME NEW q \in Fetch, Unauthorized(q) PROVE G
  <2> DEFINE r == [call[q] EXCEPT !.kind = call[q].kind, !.step = "refreshing", !.token = refresh,
                                  !.retried = TRUE]
  <2>1. call[q] \in CallState
    OBVIOUS
  <2>2. call[q].kind \in Kinds /\ refresh \in Login \cup {none} /\ TRUE \in BOOLEAN
    BY <1>17, <2>1 DEF Unauthorized, CallState, Kinds
  <2>3. call' = [call EXCEPT ![q] = r]
    BY <1>17, <2>1 DEF Unauthorized, CallState
  <2>a. r \in CallState
    BY <2>1, <2>2 DEF CallState
  <2> HIDE DEF r
  <2>4. call' \in [Fetch -> CallState]
    BY <2>3, <2>a
  <2> QED
    BY <1>17, <2>4 DEF Unauthorized
<1>18. ASSUME NEW q \in Fetch, NothingToRefresh(q) PROVE G
  <2>1. /\ login' \in [Login -> LoginState] /\ call' \in [Fetch -> CallState]
        /\ repeats' \in [Fetch -> Nat]
    BY <1>18, FinishedFits DEF NothingToRefresh, GiveUp
  <2>2. {} \in SUBSET Login
    OBVIOUS
  <2>3. /\ user' \in User \cup {none} /\ access' \in Login \cup {none}
        /\ refresh' \in Login \cup {none} /\ page' \in {"closed", "login", "inside"}
        /\ connecting' \subseteq Login /\ streaming' \subseteq Login
        /\ reader' \in Login \cup {none} /\ timerRef' \in Login \cup {none}
        /\ timers' \subseteq Login /\ inbox' \subseteq streaming' /\ overtaken' \subseteq Login
    BY <1>18, <2>2, LocalLogoutFits DEF NothingToRefresh, GiveUp
  <2>4. /\ leaving' \in BOOLEAN /\ isRedirecting' \in BOOLEAN /\ softLogout' \in BOOLEAN
        /\ UNCHANGED <<server, dialog, beacons, cached>>
    BY <1>18 DEF NothingToRefresh, GiveUp, Redirect
  <2> QED
    BY <2>1, <2>3, <2>4
<1>19. ASSUME NEW q \in Fetch, UnauthorizedAgain(q) PROVE G
  <2>1. /\ login' \in [Login -> LoginState] /\ call' \in [Fetch -> CallState]
        /\ repeats' \in [Fetch -> Nat]
    BY <1>19, FinishedFits DEF UnauthorizedAgain, Rejected
  <2>2. {} \in SUBSET Login
    OBVIOUS
  <2>3. /\ user' \in User \cup {none} /\ access' \in Login \cup {none}
        /\ refresh' \in Login \cup {none} /\ page' \in {"closed", "login", "inside"}
        /\ connecting' \subseteq Login /\ streaming' \subseteq Login
        /\ reader' \in Login \cup {none} /\ timerRef' \in Login \cup {none}
        /\ timers' \subseteq Login /\ inbox' \subseteq streaming' /\ overtaken' \subseteq Login
    BY <1>19, <2>2, LocalLogoutFits DEF UnauthorizedAgain, Rejected
  <2>4. /\ leaving' \in BOOLEAN /\ isRedirecting' \in BOOLEAN /\ softLogout' \in BOOLEAN
        /\ UNCHANGED <<server, dialog, beacons, cached>>
    BY <1>19 DEF UnauthorizedAgain, Rejected, Redirect
  <2> QED
    BY <2>1, <2>3, <2>4
<1>20. ASSUME NEW q \in Fetch, Refreshed(q) PROVE G
  <2> DEFINE r == [call[q] EXCEPT !.kind = call[q].kind, !.step = "sent", !.token = call[q].token,
                                  !.retried = call[q].retried]
  <2>1. call[q] \in CallState
    OBVIOUS
  <2>2. call[q].kind \in Kinds /\ call[q].token \in Login \cup {none} /\ call[q].retried \in BOOLEAN
    BY <1>20, <2>1 DEF Refreshed, CallState, Kinds
  <2>3. call' = [call EXCEPT ![q] = r]
    BY <1>20, <2>1 DEF Refreshed, CallState
  <2>a. r \in CallState
    BY <2>1, <2>2 DEF CallState
  <2> HIDE DEF r
  <2>4. call' \in [Fetch -> CallState]
    BY <2>3, <2>a
  <2>5. repeats' \in [Fetch -> Nat] /\ call[q].token \in Login
    BY <1>20, <2>1 DEF Refreshed, CallState, Retries
  <2> QED
    BY <1>20, <2>4, <2>5 DEF Refreshed
<1>21. ASSUME NEW q \in Fetch, RefreshRefused(q) PROVE G
  <2>1. /\ login' \in [Login -> LoginState] /\ call' \in [Fetch -> CallState]
        /\ repeats' \in [Fetch -> Nat]
    BY <1>21, FinishedFits DEF RefreshRefused, GiveUp
  <2>2. {} \in SUBSET Login
    OBVIOUS
  <2>3. /\ user' \in User \cup {none} /\ access' \in Login \cup {none}
        /\ refresh' \in Login \cup {none} /\ page' \in {"closed", "login", "inside"}
        /\ connecting' \subseteq Login /\ streaming' \subseteq Login
        /\ reader' \in Login \cup {none} /\ timerRef' \in Login \cup {none}
        /\ timers' \subseteq Login /\ inbox' \subseteq streaming' /\ overtaken' \subseteq Login
    BY <1>21, <2>2, LocalLogoutFits DEF RefreshRefused, GiveUp
  <2>4. /\ leaving' \in BOOLEAN /\ isRedirecting' \in BOOLEAN /\ softLogout' \in BOOLEAN
        /\ UNCHANGED <<server, dialog, beacons, cached>>
    BY <1>21 DEF RefreshRefused, GiveUp, Redirect
  <2> QED
    BY <2>1, <2>3, <2>4
<1>22. ASSUME NEW q \in Fetch, Dropped(q) PROVE G
  <2>1. login' \in [Login -> LoginState] /\ call' \in [Fetch -> CallState]
        /\ repeats' \in [Fetch -> Nat]
    BY <1>22, FinishedFits DEF Dropped
  <2> QED
    BY <1>22, <2>1 DEF Dropped
<1>23. ASSUME NEW s \in Login, Connected(s) PROVE G
  BY <1>23, ClientAssumption DEF Connected
<1>24. ASSUME NEW s \in Login, ConnectFails(s) PROVE G
  BY <1>24, ClientAssumption DEF ConnectFails
<1>25. ASSUME NEW s \in Login, Reconnect(s) PROVE G
  BY <1>25, ClientAssumption DEF Reconnect
<1>26. ASSUME NEW s \in Login, StreamEnds(s) PROVE G
  BY <1>26, ClientAssumption DEF StreamEnds
<1>27. ASSUME NEW s \in Login, ReceiveLogout(s) PROVE G
  BY <1>27, ClientAssumption DEF ReceiveLogout, LocalLogout, LeaveStream
<1>28. CASE Load
  <2>1. /\ login' \in [Login -> LoginState] /\ call' \in [Fetch -> CallState]
        /\ repeats' \in [Fetch -> Nat]
    BY <1>28, FreshPageFits DEF Load
  <2>2. beacons' \subseteq Login \X {"beforeunload", "pagehide"}
    BY <1>28 DEF Load, SendBeacons
  <2> QED
    BY <1>28, <2>1, <2>2 DEF Load, FreshPage, isAuthenticated
<1>29. CASE CloseTab
  <2>1. /\ login' \in [Login -> LoginState] /\ call' \in [Fetch -> CallState]
        /\ repeats' \in [Fetch -> Nat]
    BY <1>29, FreshPageFits DEF CloseTab
  <2>2. beacons' \subseteq Login \X {"beforeunload", "pagehide"}
    BY <1>29 DEF CloseTab, SendBeacons
  <2> QED
    BY <1>29, <2>1, <2>2 DEF CloseTab, FreshPage, isAuthenticated
<1>30. ASSUME NEW b \in beacons, BeaconArrives(b) PROVE G
  BY <1>30, ClientAssumption DEF BeaconArrives, Registry!Close, SessionsOf
<1>31. ASSUME NEW b \in beacons, BeaconLost(b) PROVE G
  BY <1>31, ClientAssumption DEF BeaconLost
<1>32. ASSUME NEW s \in Login, Elsewhere(s) PROVE G
  BY <1>32, ClientAssumption DEF Elsewhere, Registry!Close
<1>33. CASE UNCHANGED vars
  BY <1>33, ClientAssumption DEF vars
<1> HIDE DEF G, TypeOK, Registry!TypeOK, server, storage, window, stream, requests,
     history
<1> QED
  BY <1>1, <1>2, <1>3, <1>4, <1>5, <1>6, <1>7, <1>8, <1>9, <1>10, <1>11, <1>12,
     <1>13, <1>14, <1>15, <1>16, <1>17, <1>18, <1>19, <1>20, <1>21, <1>22, <1>23,
     <1>24, <1>25, <1>26, <1>27, <1>28, <1>29, <1>30, <1>31, <1>32, <1>33 DEF Next,
     LoginStep, CallStep

---------------------------------------------------------------------------
(* What a step leaves of the requests *)

\* A request that is done is unused again, and the others stay as they are.
LEMMA FinishedCalls ==
  ASSUME TypeOK, NEW q \in Fetch, Finished(q)
  PROVE  /\ call'[q] = Unused /\ repeats'[q] = 0
         /\ \A r \in Fetch : r # q => call'[r] = call[r] /\ repeats'[r] = repeats[r]
  BY DEF TypeOK, Finished

\* A fresh page drops the requests that are under way, and an unused one stays unused.
LEMMA FreshPageCalls ==
  ASSUME TypeOK, FreshPage, NEW r \in Fetch
  PROVE  /\ call'[r].kind = call[r].kind /\ call'[r].step = call[r].step
         /\ call'[r].token = call[r].token /\ call'[r].retried = call[r].retried
         /\ call'[r].mine => call[r].mine /\ call[r].step = "idle"
         /\ repeats'[r] = repeats[r]
         /\ call[r] = Unused => call'[r] = Unused
<1>1. call[r] \in CallState
  BY DEF TypeOK
<1>2. call'[r] = [call[r] EXCEPT !.mine = @ /\ call[r].step = "idle"]
  BY DEF FreshPage
<1>3. repeats' = repeats
  BY DEF FreshPage
<1>4. call'[r].mine = (call[r].mine /\ call[r].step = "idle")
  BY <1>1, <1>2 DEF CallState
<1>5. ASSUME call[r] = Unused PROVE call'[r] = Unused
  <2>1. (Unused.mine /\ Unused.step = "idle") = TRUE
    BY DEF Unused
  <2>2. call'[r] = [Unused EXCEPT !.mine = TRUE]
    BY <1>2, <1>5, <2>1
  <2> QED
    BY <2>2 DEF Unused
<1>6. /\ call'[r].kind = call[r].kind /\ call'[r].step = call[r].step
      /\ call'[r].token = call[r].token /\ call'[r].retried = call[r].retried
  BY <1>1, <1>2 DEF CallState
<1> QED
  BY <1>3, <1>4, <1>5, <1>6

\* A login only goes forward, and one that was answered stays as it is.
LEMMA LoginsKept ==
  ASSUME TypeOK, ClientAssumption, HoldsAnswered, [Next]_vars
  PROVE  \A p \in Login :
           /\ login[p].step = "done" => login'[p].step = "done" /\ login'[p].as = login[p].as
           /\ login[p].step \notin {"idle", "sent", "cleared"} =>
                login'[p].step \notin {"idle", "sent", "cleared"}
           /\ login'[p].step # "idle" => login'[p].as \in User
<1> DEFINE G ==
       \A p \in Login :
         /\ login[p].step = "done" => login'[p].step = "done" /\ login'[p].as = login[p].as
         /\ login[p].step \notin {"idle", "sent", "cleared"} =>
              login'[p].step \notin {"idle", "sent", "cleared"}
         /\ login'[p].step # "idle" => login'[p].as \in User
<1> SUFFICES G
  OBVIOUS
<1> DEFINE H == \A p \in Login : login[p].step # "idle" => login[p].as \in User
<1>a. H /\ login \in [Login -> LoginState] /\ dialog \in User \cup {none}
  BY DEF HoldsAnswered, TypeOK
<1> USE DEF LoginState, NoLogin, server, storage, window, stream, requests, history
<1>1. ASSUME NEW s \in Login, NEW u \in User, SubmitLogin(s, u) PROVE G
  BY <1>1, <1>a DEF SubmitLogin, StartLogin
<1>2. ASSUME NEW s \in Login, ForceLogin(s) PROVE G
  BY <1>2, <1>a DEF ForceLogin, StartLogin
<1>3. CASE CancelLogin
  BY <1>3, <1>a DEF CancelLogin
<1>4. ASSUME NEW s \in Login, Duplicate(s) PROVE G
  BY <1>4, <1>a DEF Duplicate
<1>5. ASSUME NEW s \in Login, ServerClears(s) PROVE G
  BY <1>5, <1>a DEF ServerClears, Goto, Registry!Close
<1>6. ASSUME NEW s \in Login, ServerOpens(s) PROVE G
  BY <1>6, <1>a DEF ServerOpens, Goto, Registry!Open
<1>7. ASSUME NEW s \in Login, LoginAnswered(s) PROVE G
  BY <1>7, <1>a DEF LoginAnswered, Goto
<1>8. ASSUME NEW s \in Login, LoginLost(s) PROVE G
  BY <1>8, <1>a DEF LoginLost, Goto
<1>9. ASSUME NEW q \in Fetch, Ask(q) PROVE G
  BY <1>9, <1>a DEF Ask, Send
<1>10. ASSUME NEW q \in Fetch, ChangePassword(q) PROVE G
  BY <1>10, <1>a DEF ChangePassword, Send
<1>11. ASSUME NEW q \in Fetch, Logout(q) PROVE G
  BY <1>11, <1>a DEF Logout, Send
<1>12. ASSUME NEW q \in Fetch, Served(q) PROVE G
  BY <1>12, <1>a DEF Served, Finished
<1>13. ASSUME NEW q \in Fetch, PasswordChanged(q) PROVE G
  BY <1>13, <1>a DEF PasswordChanged
<1>14. ASSUME NEW q \in Fetch, ServerDeletes(q) PROVE G
  BY <1>14, <1>a DEF ServerDeletes, Registry!Close
<1>15. ASSUME NEW q \in Fetch, LogoutAnswered(q) PROVE G
  BY <1>15, <1>a DEF LogoutAnswered, Finished, LocalLogout, LeaveStream
<1>16. ASSUME NEW q \in Fetch, Fails(q) PROVE G
  BY <1>16, <1>a DEF Fails, Rejected, Finished, LocalLogout, LeaveStream
<1>17. ASSUME NEW q \in Fetch, Unauthorized(q) PROVE G
  BY <1>17, <1>a DEF Unauthorized
<1>18. ASSUME NEW q \in Fetch, NothingToRefresh(q) PROVE G
  BY <1>18, <1>a DEF NothingToRefresh, GiveUp, Redirect, Finished,
     LocalLogout, LeaveStream
<1>19. ASSUME NEW q \in Fetch, UnauthorizedAgain(q) PROVE G
  BY <1>19, <1>a DEF UnauthorizedAgain, Rejected, Finished, LocalLogout,
     LeaveStream
<1>20. ASSUME NEW q \in Fetch, Refreshed(q) PROVE G
  BY <1>20, <1>a DEF Refreshed
<1>21. ASSUME NEW q \in Fetch, RefreshRefused(q) PROVE G
  BY <1>21, <1>a DEF RefreshRefused, GiveUp, Redirect, Finished, LocalLogout,
     LeaveStream
<1>22. ASSUME NEW q \in Fetch, Dropped(q) PROVE G
  BY <1>22, <1>a DEF Dropped, Finished
<1>23. ASSUME NEW s \in Login, Connected(s) PROVE G
  BY <1>23, <1>a DEF Connected
<1>24. ASSUME NEW s \in Login, ConnectFails(s) PROVE G
  BY <1>24, <1>a DEF ConnectFails
<1>25. ASSUME NEW s \in Login, Reconnect(s) PROVE G
  BY <1>25, <1>a DEF Reconnect
<1>26. ASSUME NEW s \in Login, StreamEnds(s) PROVE G
  BY <1>26, <1>a DEF StreamEnds
<1>27. ASSUME NEW s \in Login, ReceiveLogout(s) PROVE G
  BY <1>27, <1>a DEF ReceiveLogout, LocalLogout, LeaveStream
<1>28. CASE Load
  BY <1>28, <1>a DEF Load, FreshPage, SendBeacons
<1>29. CASE CloseTab
  BY <1>29, <1>a DEF CloseTab, FreshPage, SendBeacons
<1>30. ASSUME NEW b \in beacons, BeaconArrives(b) PROVE G
  BY <1>30, <1>a DEF BeaconArrives, Registry!Close
<1>31. ASSUME NEW b \in beacons, BeaconLost(b) PROVE G
  BY <1>31, <1>a DEF BeaconLost
<1>32. ASSUME NEW s \in Login, Elsewhere(s) PROVE G
  BY <1>32, <1>a DEF Elsewhere, Registry!Close
<1>33. CASE UNCHANGED vars
  BY <1>33, <1>a DEF vars
<1> HIDE DEF G, LoginState, NoLogin, server, storage, window, stream, requests,
     history
<1> QED
  BY <1>1, <1>2, <1>3, <1>4, <1>5, <1>6, <1>7, <1>8, <1>9, <1>10, <1>11, <1>12,
     <1>13, <1>14, <1>15, <1>16, <1>17, <1>18, <1>19, <1>20, <1>21, <1>22, <1>23,
     <1>24, <1>25, <1>26, <1>27, <1>28, <1>29, <1>30, <1>31, <1>32, <1>33 DEF Next,
     LoginStep, CallStep

\* A request carries what the tab holds, and a new one is sent from inside.
LEMMA CallsKept ==
  ASSUME TypeOK, Retries, [Next]_vars
  PROVE  \A r \in Fetch :
           \/ call'[r] = Unused
           \/ /\ call'[r].token \in {call[r].token, access, refresh}
              /\ call'[r].mine => call[r].mine
              /\ call[r] = Unused => page = "inside"
<1> DEFINE G ==
       \A r \in Fetch :
         \/ call'[r] = Unused
         \/ /\ call'[r].token \in {call[r].token, access, refresh}
            /\ call'[r].mine => call[r].mine
            /\ call[r] = Unused => page = "inside"
<1> SUFFICES G
  OBVIOUS
<1>a. /\ call \in [Fetch -> CallState] /\ repeats \in [Fetch -> Nat]
      /\ \A r \in Fetch : call[r].step = "idle" => call[r] = Unused
  BY DEF Retries, TypeOK
<1> USE DEF CallState, Unused, At, server, storage, window, stream, requests,
     history
<1>1. ASSUME NEW s \in Login, NEW u \in User, SubmitLogin(s, u) PROVE G
  BY <1>1, <1>a DEF SubmitLogin, StartLogin
<1>2. ASSUME NEW s \in Login, ForceLogin(s) PROVE G
  BY <1>2, <1>a DEF ForceLogin, StartLogin
<1>3. CASE CancelLogin
  BY <1>3, <1>a DEF CancelLogin
<1>4. ASSUME NEW s \in Login, Duplicate(s) PROVE G
  BY <1>4, <1>a DEF Duplicate
<1>5. ASSUME NEW s \in Login, ServerClears(s) PROVE G
  BY <1>5, <1>a DEF ServerClears, Goto, Registry!Close
<1>6. ASSUME NEW s \in Login, ServerOpens(s) PROVE G
  BY <1>6, <1>a DEF ServerOpens, Goto, Registry!Open
<1>7. ASSUME NEW s \in Login, LoginAnswered(s) PROVE G
  BY <1>7, <1>a DEF LoginAnswered, Goto
<1>8. ASSUME NEW s \in Login, LoginLost(s) PROVE G
  BY <1>8, <1>a DEF LoginLost, Goto
<1>9. ASSUME NEW q \in Fetch, Ask(q) PROVE G
  BY <1>9, <1>a DEF Ask, Send
<1>10. ASSUME NEW q \in Fetch, ChangePassword(q) PROVE G
  BY <1>10, <1>a DEF ChangePassword, Send
<1>11. ASSUME NEW q \in Fetch, Logout(q) PROVE G
  BY <1>11, <1>a DEF Logout, Send
<1>12. ASSUME NEW q \in Fetch, Served(q) PROVE G
  <2>1. Finished(q)
    BY <1>12 DEF Served
  <2> QED
    BY <2>1, FinishedCalls, <1>a
<1>13. ASSUME NEW q \in Fetch, PasswordChanged(q) PROVE G
  <2>1. call[q] \in CallState /\ call[q].step = "sent" /\ call[q].mine
    BY <1>13, <1>a DEF PasswordChanged
  <2>2. call'[q] = [call[q] EXCEPT !.kind = "logout", !.token = access, !.retried = FALSE]
    BY <1>13, <1>a DEF PasswordChanged
  <2>3. /\ call'[q].token = access /\ call'[q].step = "sent"
        /\ call[q] # Unused
    BY <2>1, <2>2 DEF Unused
  <2>4. \A r \in Fetch : r # q => call'[r] = call[r] /\ repeats'[r] = repeats[r]
    BY <1>13, <1>a DEF PasswordChanged
  <2>5. repeats'[q] = 0
    BY <1>13, <1>a DEF PasswordChanged
  <2> QED
    BY <1>a, <2>1, <2>3, <2>4, <2>5
<1>14. ASSUME NEW q \in Fetch, ServerDeletes(q) PROVE G
  <2>1. call[q] \in CallState /\ call[q].step # "idle"
    BY <1>14, <1>a DEF ServerDeletes
  <2>2. call'[q] = [call[q] EXCEPT !.step = "deleted"]
    BY <1>14, <1>a DEF ServerDeletes
  <2>3. /\ call'[q].token = call[q].token /\ call'[q].mine = call[q].mine
        /\ call[q] # Unused
    BY <2>1, <2>2 DEF Unused
  <2>4. \A r \in Fetch : r # q => call'[r] = call[r]
    BY <1>14, <1>a DEF ServerDeletes
  <2> QED
    BY <1>a, <2>3, <2>4
<1>15. ASSUME NEW q \in Fetch, LogoutAnswered(q) PROVE G
  <2>1. Finished(q)
    BY <1>15 DEF LogoutAnswered
  <2> QED
    BY <2>1, FinishedCalls, <1>a
<1>16. ASSUME NEW q \in Fetch, Fails(q) PROVE G
  <2>1. Finished(q)
    BY <1>16 DEF Fails, Rejected
  <2> QED
    BY <2>1, FinishedCalls, <1>a
<1>17. ASSUME NEW q \in Fetch, Unauthorized(q) PROVE G
  <2>1. call[q] \in CallState /\ call[q].step # "idle"
    BY <1>17, <1>a DEF Unauthorized
  <2>2. call'[q] = [call[q] EXCEPT !.retried = TRUE, !.step = "refreshing", !.token = refresh]
    BY <1>17, <1>a DEF Unauthorized
  <2>3. /\ call'[q].token = refresh /\ call'[q].mine = call[q].mine
        /\ call[q] # Unused
    BY <2>1, <2>2 DEF Unused
  <2>4. \A r \in Fetch : r # q => call'[r] = call[r]
    BY <1>17, <1>a DEF Unauthorized
  <2> QED
    BY <1>a, <2>3, <2>4
<1>18. ASSUME NEW q \in Fetch, NothingToRefresh(q) PROVE G
  <2>1. Finished(q)
    BY <1>18 DEF NothingToRefresh, GiveUp
  <2> QED
    BY <2>1, FinishedCalls, <1>a
<1>19. ASSUME NEW q \in Fetch, UnauthorizedAgain(q) PROVE G
  <2>1. Finished(q)
    BY <1>19 DEF UnauthorizedAgain, Rejected
  <2> QED
    BY <2>1, FinishedCalls, <1>a
<1>20. ASSUME NEW q \in Fetch, Refreshed(q) PROVE G
  <2>1. call[q] \in CallState /\ call[q].step # "idle"
    BY <1>20, <1>a DEF Refreshed
  <2>2. call'[q] = [call[q] EXCEPT !.step = "sent"]
    BY <1>20, <1>a DEF Refreshed
  <2>3. /\ call'[q].token = call[q].token /\ call'[q].mine = call[q].mine
        /\ call[q] # Unused
    BY <2>1, <2>2 DEF Unused
  <2>4. \A r \in Fetch : r # q => call'[r] = call[r]
    BY <1>20, <1>a DEF Refreshed
  <2> QED
    BY <1>a, <2>3, <2>4
<1>21. ASSUME NEW q \in Fetch, RefreshRefused(q) PROVE G
  <2>1. Finished(q)
    BY <1>21 DEF RefreshRefused, GiveUp
  <2> QED
    BY <2>1, FinishedCalls, <1>a
<1>22. ASSUME NEW q \in Fetch, Dropped(q) PROVE G
  <2>1. Finished(q)
    BY <1>22 DEF Dropped
  <2> QED
    BY <2>1, FinishedCalls, <1>a
<1>23. ASSUME NEW s \in Login, Connected(s) PROVE G
  BY <1>23, <1>a DEF Connected
<1>24. ASSUME NEW s \in Login, ConnectFails(s) PROVE G
  BY <1>24, <1>a DEF ConnectFails
<1>25. ASSUME NEW s \in Login, Reconnect(s) PROVE G
  BY <1>25, <1>a DEF Reconnect
<1>26. ASSUME NEW s \in Login, StreamEnds(s) PROVE G
  BY <1>26, <1>a DEF StreamEnds
<1>27. ASSUME NEW s \in Login, ReceiveLogout(s) PROVE G
  BY <1>27, <1>a DEF ReceiveLogout, LocalLogout, LeaveStream
<1>28. CASE Load
  <2>1. FreshPage
    BY <1>28 DEF Load
  <2> QED
    BY <2>1, FreshPageCalls, <1>a
<1>29. CASE CloseTab
  <2>1. FreshPage
    BY <1>29 DEF CloseTab
  <2> QED
    BY <2>1, FreshPageCalls, <1>a
<1>30. ASSUME NEW b \in beacons, BeaconArrives(b) PROVE G
  BY <1>30, <1>a DEF BeaconArrives, Registry!Close
<1>31. ASSUME NEW b \in beacons, BeaconLost(b) PROVE G
  BY <1>31, <1>a DEF BeaconLost
<1>32. ASSUME NEW s \in Login, Elsewhere(s) PROVE G
  BY <1>32, <1>a DEF Elsewhere, Registry!Close
<1>33. CASE UNCHANGED vars
  BY <1>33, <1>a DEF vars
<1> HIDE DEF G, CallState, Unused, At, server, storage, window, stream, requests,
     history
<1> QED
  BY <1>1, <1>2, <1>3, <1>4, <1>5, <1>6, <1>7, <1>8, <1>9, <1>10, <1>11, <1>12,
     <1>13, <1>14, <1>15, <1>16, <1>17, <1>18, <1>19, <1>20, <1>21, <1>22, <1>23,
     <1>24, <1>25, <1>26, <1>27, <1>28, <1>29, <1>30, <1>31, <1>32, <1>33 DEF Next,
     LoginStep, CallStep

\* Every step preserves the count of repetitions.
LEMMA RetriesKept ==
  ASSUME TypeOK, Retries, [Next]_vars
  PROVE  Retries'
<1> DEFINE R(c, n) ==
       /\ c.step = "idle" => c = Unused
       /\ ~c.retried \/ c.step = "refreshing" => n = 0
       /\ c.step = "refreshing" => c.retried /\ c.token # none
       /\ n <= 1
<1> DEFINE G == \A r \in Fetch : R(call'[r], repeats'[r])
<1> SUFFICES G
  BY DEF Retries
<1>a. /\ call \in [Fetch -> CallState] /\ repeats \in [Fetch -> Nat]
      /\ \A r \in Fetch : R(call[r], repeats[r])
  BY DEF TypeOK, Retries
<1>b. R(Unused, 0) /\ Unused.step = "idle"
  BY DEF Unused
<1> USE DEF CallState, At, server, storage, window, stream, requests, history
<1>1. ASSUME NEW s \in Login, NEW u \in User, SubmitLogin(s, u) PROVE G
  BY <1>1, <1>a, <1>b DEF SubmitLogin, StartLogin
<1>2. ASSUME NEW s \in Login, ForceLogin(s) PROVE G
  BY <1>2, <1>a, <1>b DEF ForceLogin, StartLogin
<1>3. CASE CancelLogin
  BY <1>3, <1>a, <1>b DEF CancelLogin
<1>4. ASSUME NEW s \in Login, Duplicate(s) PROVE G
  BY <1>4, <1>a, <1>b DEF Duplicate
<1>5. ASSUME NEW s \in Login, ServerClears(s) PROVE G
  BY <1>5, <1>a, <1>b DEF ServerClears, Goto, Registry!Close
<1>6. ASSUME NEW s \in Login, ServerOpens(s) PROVE G
  BY <1>6, <1>a, <1>b DEF ServerOpens, Goto, Registry!Open
<1>7. ASSUME NEW s \in Login, LoginAnswered(s) PROVE G
  BY <1>7, <1>a, <1>b DEF LoginAnswered, Goto
<1>8. ASSUME NEW s \in Login, LoginLost(s) PROVE G
  BY <1>8, <1>a, <1>b DEF LoginLost, Goto
<1>9. ASSUME NEW q \in Fetch, Ask(q) PROVE G
  BY <1>9, <1>a, <1>b DEF Ask, Send
<1>10. ASSUME NEW q \in Fetch, ChangePassword(q) PROVE G
  BY <1>10, <1>a, <1>b DEF ChangePassword, Send
<1>11. ASSUME NEW q \in Fetch, Logout(q) PROVE G
  BY <1>11, <1>a, <1>b DEF Logout, Send
<1>12. ASSUME NEW q \in Fetch, Served(q) PROVE G
  <2>1. Finished(q)
    BY <1>12 DEF Served
  <2>2. /\ call'[q] = Unused /\ repeats'[q] = 0
        /\ \A r \in Fetch : r # q => call'[r] = call[r] /\ repeats'[r] = repeats[r]
    BY <2>1, FinishedCalls
  <2> HIDE DEF R
  <2> QED
    BY <2>2, <1>a, <1>b
<1>13. ASSUME NEW q \in Fetch, PasswordChanged(q) PROVE G
  <2>1. call[q] \in CallState /\ call[q].step = "sent" /\ call[q].mine
    BY <1>13, <1>a DEF PasswordChanged
  <2>2. call'[q] = [call[q] EXCEPT !.kind = "logout", !.token = access, !.retried = FALSE]
    BY <1>13, <1>a DEF PasswordChanged
  <2>3. /\ call'[q].token = access /\ call'[q].step = "sent"
        /\ call[q] # Unused
    BY <2>1, <2>2 DEF Unused
  <2>4. \A r \in Fetch : r # q => call'[r] = call[r] /\ repeats'[r] = repeats[r]
    BY <1>13, <1>a DEF PasswordChanged
  <2>5. repeats'[q] = 0
    BY <1>13, <1>a DEF PasswordChanged
  <2> QED
    BY <1>a, <2>1, <2>3, <2>4, <2>5
<1>14. ASSUME NEW q \in Fetch, ServerDeletes(q) PROVE G
  BY <1>14, <1>a, <1>b DEF ServerDeletes, Registry!Close
<1>15. ASSUME NEW q \in Fetch, LogoutAnswered(q) PROVE G
  <2>1. Finished(q)
    BY <1>15 DEF LogoutAnswered
  <2>2. /\ call'[q] = Unused /\ repeats'[q] = 0
        /\ \A r \in Fetch : r # q => call'[r] = call[r] /\ repeats'[r] = repeats[r]
    BY <2>1, FinishedCalls
  <2> HIDE DEF R
  <2> QED
    BY <2>2, <1>a, <1>b
<1>16. ASSUME NEW q \in Fetch, Fails(q) PROVE G
  <2>1. Finished(q)
    BY <1>16 DEF Fails, Rejected
  <2>2. /\ call'[q] = Unused /\ repeats'[q] = 0
        /\ \A r \in Fetch : r # q => call'[r] = call[r] /\ repeats'[r] = repeats[r]
    BY <2>1, FinishedCalls
  <2> HIDE DEF R
  <2> QED
    BY <2>2, <1>a, <1>b
<1>17. ASSUME NEW q \in Fetch, Unauthorized(q) PROVE G
  BY <1>17, <1>a, <1>b DEF Unauthorized
<1>18. ASSUME NEW q \in Fetch, NothingToRefresh(q) PROVE G
  <2>1. Finished(q)
    BY <1>18 DEF NothingToRefresh, GiveUp
  <2>2. /\ call'[q] = Unused /\ repeats'[q] = 0
        /\ \A r \in Fetch : r # q => call'[r] = call[r] /\ repeats'[r] = repeats[r]
    BY <2>1, FinishedCalls
  <2> HIDE DEF R
  <2> QED
    BY <2>2, <1>a, <1>b
<1>19. ASSUME NEW q \in Fetch, UnauthorizedAgain(q) PROVE G
  <2>1. Finished(q)
    BY <1>19 DEF UnauthorizedAgain, Rejected
  <2>2. /\ call'[q] = Unused /\ repeats'[q] = 0
        /\ \A r \in Fetch : r # q => call'[r] = call[r] /\ repeats'[r] = repeats[r]
    BY <2>1, FinishedCalls
  <2> HIDE DEF R
  <2> QED
    BY <2>2, <1>a, <1>b
<1>20. ASSUME NEW q \in Fetch, Refreshed(q) PROVE G
  BY <1>20, <1>a, <1>b DEF Refreshed
<1>21. ASSUME NEW q \in Fetch, RefreshRefused(q) PROVE G
  <2>1. Finished(q)
    BY <1>21 DEF RefreshRefused, GiveUp
  <2>2. /\ call'[q] = Unused /\ repeats'[q] = 0
        /\ \A r \in Fetch : r # q => call'[r] = call[r] /\ repeats'[r] = repeats[r]
    BY <2>1, FinishedCalls
  <2> HIDE DEF R
  <2> QED
    BY <2>2, <1>a, <1>b
<1>22. ASSUME NEW q \in Fetch, Dropped(q) PROVE G
  <2>1. Finished(q)
    BY <1>22 DEF Dropped
  <2>2. /\ call'[q] = Unused /\ repeats'[q] = 0
        /\ \A r \in Fetch : r # q => call'[r] = call[r] /\ repeats'[r] = repeats[r]
    BY <2>1, FinishedCalls
  <2> HIDE DEF R
  <2> QED
    BY <2>2, <1>a, <1>b
<1>23. ASSUME NEW s \in Login, Connected(s) PROVE G
  BY <1>23, <1>a, <1>b DEF Connected
<1>24. ASSUME NEW s \in Login, ConnectFails(s) PROVE G
  BY <1>24, <1>a, <1>b DEF ConnectFails
<1>25. ASSUME NEW s \in Login, Reconnect(s) PROVE G
  BY <1>25, <1>a, <1>b DEF Reconnect
<1>26. ASSUME NEW s \in Login, StreamEnds(s) PROVE G
  BY <1>26, <1>a, <1>b DEF StreamEnds
<1>27. ASSUME NEW s \in Login, ReceiveLogout(s) PROVE G
  BY <1>27, <1>a, <1>b DEF ReceiveLogout, LocalLogout, LeaveStream
<1>28. CASE Load
  <2>1. FreshPage
    BY <1>28 DEF Load
  <2> QED
    BY <2>1, FreshPageCalls, <1>a, <1>b
<1>29. CASE CloseTab
  <2>1. FreshPage
    BY <1>29 DEF CloseTab
  <2> QED
    BY <2>1, FreshPageCalls, <1>a, <1>b
<1>30. ASSUME NEW b \in beacons, BeaconArrives(b) PROVE G
  BY <1>30, <1>a, <1>b DEF BeaconArrives, Registry!Close
<1>31. ASSUME NEW b \in beacons, BeaconLost(b) PROVE G
  BY <1>31, <1>a, <1>b DEF BeaconLost
<1>32. ASSUME NEW s \in Login, Elsewhere(s) PROVE G
  BY <1>32, <1>a, <1>b DEF Elsewhere, Registry!Close
<1>33. CASE UNCHANGED vars
  BY <1>33, <1>a, <1>b DEF vars
<1> HIDE DEF G, R, CallState, At, server, storage, window, stream, requests, history
<1> QED
  BY <1>1, <1>2, <1>3, <1>4, <1>5, <1>6, <1>7, <1>8, <1>9, <1>10, <1>11, <1>12,
     <1>13, <1>14, <1>15, <1>16, <1>17, <1>18, <1>19, <1>20, <1>21, <1>22, <1>23,
     <1>24, <1>25, <1>26, <1>27, <1>28, <1>29, <1>30, <1>31, <1>32, <1>33 DEF Next,
     LoginStep, CallStep

---------------------------------------------------------------------------
(* The parts of the invariant *)

\* What the tab holds after a step it held before, or it comes from the login that is
\* answered by the step.
LEMMA HoldsKept ==
  ASSUME TypeOK, HoldsAnswered, Retries, ClientAssumption, [Next]_vars
  PROVE  HoldsAnswered'
<1> DEFINE G == \A s \in InTab' : s \in Held \/ login'[s].step = "done"
<1>1. \A r \in Fetch : call'[r].token \in Held \cup {none}
  <2>1. Unused.token = none
    BY DEF Unused
  <2> QED
    BY <2>1, CallsKept DEF Held, InTab
<1>2. InTab \subseteq Held /\ \A r \in Fetch : call[r].token \in Held \cup {none}
  BY DEF Held
<1>3. ASSUME Answered PROVE G
  <2>1. PICK s \in Login : LoginAnswered(s)
    BY <1>3 DEF Answered
  <2>2. login'[s].step = "done"
    BY <2>1 DEF LoginAnswered, Goto, TypeOK, LoginState
  <2>3. /\ access' = s /\ refresh' = s /\ reader' = reader /\ timerRef' = timerRef
        /\ connecting' = connecting \cup {s} /\ streaming' = streaming /\ timers' = timers
    BY <2>1 DEF LoginAnswered
  <2> QED
    BY <1>2, <2>2, <2>3 DEF InTab
<1>4. ASSUME Streams PROVE G
  <2>1. PICK s \in Login : StreamStep(s)
    BY <1>4 DEF Streams
  <2> USE <1>2 DEF InTab, storage, TypeOK
  <2>2. CASE Connected(s)
    BY <2>2 DEF Connected
  <2>3. CASE ConnectFails(s)
    BY <2>3 DEF ConnectFails
  <2>4. CASE Reconnect(s)
    BY <2>4 DEF Reconnect
  <2>5. CASE StreamEnds(s)
    BY <2>5 DEF StreamEnds
  <2> QED
    BY <2>1, <2>2, <2>3, <2>4, <2>5 DEF StreamStep
<1>5. ASSUME Serving PROVE G
  BY <1>5, <1>2 DEF Serving, Served, InTab, storage, stream
<1>6. ASSUME Refreshes PROVE G
  <2>1. PICK q \in Fetch : Refreshed(q)
    BY <1>6 DEF Refreshes
  <2>2. call[q].token \in Held \cup {none}
    BY <1>2
  <2>3. /\ access' = call[q].token /\ refresh' = refresh /\ reader' = reader /\ timerRef' = timerRef
        /\ connecting' = connecting /\ streaming' = streaming /\ timers' = timers
    BY <2>1 DEF Refreshed, stream
  <2> QED
    BY <1>2, <2>2, <2>3 DEF InTab
<1>7. ASSUME Leaving PROVE G
  <2>1. PICK gone \in SUBSET Login : Leaves(gone)
    BY <1>7 DEF Leaving
  <2> QED
    BY <2>1, <1>2 DEF Leaves, LocalLogout, LeaveStream, InTab
<1>8. ASSUME Load PROVE G
  BY <1>8, <1>2 DEF Load, FreshPage, InTab, storage
<1>9. ASSUME CloseTab PROVE G
  BY <1>9, <1>2 DEF CloseTab, FreshPage, InTab
<1>10. ASSUME Calm PROVE G
  BY <1>10, <1>2 DEF Calm, InTab, storage
<1>11. G
  BY StepIsOfAKind, <1>3, <1>4, <1>5, <1>6, <1>7, <1>8, <1>9, <1>10 DEF OfAKind
<1>12. Held \subseteq Login
  BY DEF Held, InTab, TypeOK, CallState
<1>13. \A s \in Held' : s \in Held \/ login'[s].step = "done"
  BY <1>1, <1>11 DEF Held
<1>14. \A s \in Held' : login'[s].step = "done"
  BY <1>12, <1>13, LoginsKept DEF HoldsAnswered
<1>15. \A s \in Login : login'[s].step # "idle" => login'[s].as \in User
  BY LoginsKept
<1> QED
  BY <1>14, <1>15 DEF HoldsAnswered

\* A session that is held keeps its account.
LEMMA OwnersKept ==
  ASSUME TypeOK, HoldsAnswered, ClientAssumption, [Next]_vars, NEW s \in Held
  PROVE  s \in Login /\ Owner(s)' = Owner(s) /\ Owner(s) \in User
<1>1. s \in Login
  BY DEF Held, InTab, TypeOK, CallState
<1>2. login[s].step = "done" /\ login[s].as \in User
  BY <1>1 DEF HoldsAnswered
<1>3. login'[s].as = login[s].as
  BY <1>1, <1>2, LoginsKept
<1> QED
  BY <1>1, <1>2, <1>3 DEF Owner

\* A session is opened by its login only, and closed when its stream is told.
LEMMA OpenedKept ==
  ASSUME TypeOK, HoldsAnswered, OpenedOnce, ClientAssumption, [Next]_vars
  PROVE  /\ \A p \in live' \cup ended' :
                login[p].step \notin {"idle", "sent", "cleared"} \/ login'[p].step = "granted"
         /\ inbox' \cap live' = {}
<1> DEFINE G ==
       /\ \A p \in live' \cup ended' :
              login[p].step \notin {"idle", "sent", "cleared"} \/ login'[p].step = "granted"
       /\ inbox' \cap live' = {}
<1> SUFFICES G
  OBVIOUS
<1>a. /\ login \in [Login -> LoginState] /\ live \subseteq Login /\ inbox \subseteq streaming
      /\ \A p \in streaming : login[p].step = "done"
  BY ClientAssumption DEF TypeOK, Registry!TypeOK, HoldsAnswered, Held, InTab
<1> USE DEF OpenedOnce, server, storage, window, stream, requests, history,
     SessionsOf
<1>1. ASSUME NEW s \in Login, NEW u \in User, SubmitLogin(s, u) PROVE G
  BY <1>1, <1>a DEF SubmitLogin, StartLogin
<1>2. ASSUME NEW s \in Login, ForceLogin(s) PROVE G
  BY <1>2, <1>a DEF ForceLogin, StartLogin
<1>3. CASE CancelLogin
  BY <1>3, <1>a DEF CancelLogin
<1>4. ASSUME NEW s \in Login, Duplicate(s) PROVE G
  BY <1>4, <1>a DEF Duplicate
<1>5. ASSUME NEW s \in Login, ServerClears(s) PROVE G
  BY <1>5, <1>a DEF ServerClears, Goto, Registry!Close
<1>6. ASSUME NEW s \in Login, ServerOpens(s) PROVE G
  BY <1>6, <1>a DEF ServerOpens, Goto, Registry!Open
<1>7. ASSUME NEW s \in Login, LoginAnswered(s) PROVE G
  BY <1>7, <1>a DEF LoginAnswered, Goto
<1>8. ASSUME NEW s \in Login, LoginLost(s) PROVE G
  BY <1>8, <1>a DEF LoginLost, Goto
<1>9. ASSUME NEW q \in Fetch, Ask(q) PROVE G
  BY <1>9, <1>a DEF Ask, Send
<1>10. ASSUME NEW q \in Fetch, ChangePassword(q) PROVE G
  BY <1>10, <1>a DEF ChangePassword, Send
<1>11. ASSUME NEW q \in Fetch, Logout(q) PROVE G
  BY <1>11, <1>a DEF Logout, Send
<1>12. ASSUME NEW q \in Fetch, Served(q) PROVE G
  BY <1>12, <1>a DEF Served, Finished
<1>13. ASSUME NEW q \in Fetch, PasswordChanged(q) PROVE G
  BY <1>13, <1>a DEF PasswordChanged
<1>14. ASSUME NEW q \in Fetch, ServerDeletes(q) PROVE G
  BY <1>14, <1>a DEF ServerDeletes, Registry!Close
<1>15. ASSUME NEW q \in Fetch, LogoutAnswered(q) PROVE G
  BY <1>15, <1>a DEF LogoutAnswered, Finished, LocalLogout, LeaveStream
<1>16. ASSUME NEW q \in Fetch, Fails(q) PROVE G
  BY <1>16, <1>a DEF Fails, Rejected, Finished, LocalLogout, LeaveStream
<1>17. ASSUME NEW q \in Fetch, Unauthorized(q) PROVE G
  BY <1>17, <1>a DEF Unauthorized
<1>18. ASSUME NEW q \in Fetch, NothingToRefresh(q) PROVE G
  BY <1>18, <1>a DEF NothingToRefresh, GiveUp, Redirect, Finished, LocalLogout,
     LeaveStream
<1>19. ASSUME NEW q \in Fetch, UnauthorizedAgain(q) PROVE G
  BY <1>19, <1>a DEF UnauthorizedAgain, Rejected, Finished, LocalLogout, LeaveStream
<1>20. ASSUME NEW q \in Fetch, Refreshed(q) PROVE G
  BY <1>20, <1>a DEF Refreshed
<1>21. ASSUME NEW q \in Fetch, RefreshRefused(q) PROVE G
  BY <1>21, <1>a DEF RefreshRefused, GiveUp, Redirect, Finished, LocalLogout,
     LeaveStream
<1>22. ASSUME NEW q \in Fetch, Dropped(q) PROVE G
  BY <1>22, <1>a DEF Dropped, Finished
<1>23. ASSUME NEW s \in Login, Connected(s) PROVE G
  BY <1>23, <1>a DEF Connected
<1>24. ASSUME NEW s \in Login, ConnectFails(s) PROVE G
  BY <1>24, <1>a DEF ConnectFails
<1>25. ASSUME NEW s \in Login, Reconnect(s) PROVE G
  BY <1>25, <1>a DEF Reconnect
<1>26. ASSUME NEW s \in Login, StreamEnds(s) PROVE G
  BY <1>26, <1>a DEF StreamEnds
<1>27. ASSUME NEW s \in Login, ReceiveLogout(s) PROVE G
  BY <1>27, <1>a DEF ReceiveLogout, LocalLogout, LeaveStream
<1>28. CASE Load
  BY <1>28, <1>a DEF Load, FreshPage, SendBeacons
<1>29. CASE CloseTab
  BY <1>29, <1>a DEF CloseTab, FreshPage, SendBeacons
<1>30. ASSUME NEW b \in beacons, BeaconArrives(b) PROVE G
  BY <1>30, <1>a DEF BeaconArrives, Registry!Close
<1>31. ASSUME NEW b \in beacons, BeaconLost(b) PROVE G
  BY <1>31, <1>a DEF BeaconLost
<1>32. ASSUME NEW s \in Login, Elsewhere(s) PROVE G
  BY <1>32, <1>a DEF Elsewhere, Registry!Close
<1>33. CASE UNCHANGED vars
  BY <1>33, <1>a DEF vars
<1> HIDE DEF G, OpenedOnce, server, storage, window, stream, requests, history,
     SessionsOf
<1> QED
  BY <1>1, <1>2, <1>3, <1>4, <1>5, <1>6, <1>7, <1>8, <1>9, <1>10, <1>11, <1>12,
     <1>13, <1>14, <1>15, <1>16, <1>17, <1>18, <1>19, <1>20, <1>21, <1>22, <1>23,
     <1>24, <1>25, <1>26, <1>27, <1>28, <1>29, <1>30, <1>31, <1>32, <1>33 DEF Next,
     LoginStep, CallStep

\* Who the tab shows is whose tokens it has.
LEMMA ScreenKept ==
  ASSUME TypeOK, HoldsAnswered, Retries, ScreenFits, OneLogin, ClientAssumption, [Next]_vars
  PROVE  ScreenFits'
<1> USE DEF ScreenFits
<1>1. refresh # none => login'[refresh].as = login[refresh].as /\ refresh \in Login
  BY OwnersKept DEF Held, InTab, Owner
<1>2. none \notin User /\ none \notin Login
  BY ClientAssumption
<1>3. CASE Answered
  <2>1. PICK s \in Login : LoginAnswered(s)
    BY <1>3 DEF Answered
  <2>2. Owner(s)' = Owner(s) /\ Owner(s) \in User
    BY <2>1 DEF LoginAnswered, Goto, Owner, HoldsAnswered, TypeOK, LoginState
  <2>3. refresh' = s /\ access' = s /\ user' = Owner(s) /\ page' = "inside"
        /\ isRedirecting' = isRedirecting /\ leaving' = leaving
    BY <2>1 DEF LoginAnswered
  <2> QED
    BY <2>2, <2>3, <1>2 DEF Owner
<1>4. CASE Streams
  BY <1>4, <1>1 DEF Streams, StreamStep, Connected, ConnectFails, Reconnect, StreamEnds, storage,
     window, Owner
<1>5. CASE Serving
  BY <1>5, <1>1 DEF Serving, Served, storage, window, Owner
<1>6. CASE Refreshes
  <2>1. PICK q \in Fetch : Refreshed(q)
    BY <1>6 DEF Refreshes
  <2>2. access' # none
    BY <2>1 DEF Refreshed, Retries
  <2> QED
    BY <2>1, <2>2, <1>1 DEF Refreshed, window, Owner
<1>7. CASE Leaving
  BY <1>7, <1>2 DEF Leaving, Leaves, LocalLogout, Redirect, TypeOK
<1>8. CASE Load
  BY <1>8, <1>1 DEF Load, FreshPage, storage, isAuthenticated, Owner
<1>9. CASE CloseTab
  BY <1>9 DEF CloseTab, FreshPage
<1>10. CASE Calm
  BY <1>10, <1>1 DEF Calm, storage, Owner
<1> QED
  BY StepIsOfAKind, <1>3, <1>4, <1>5, <1>6, <1>7, <1>8, <1>9, <1>10 DEF OfAKind

\* No stream and no timer but that of the tokens, for a tab that had none before.
LEMMA StreamsKept ==
  ASSUME TypeOK, Retries, ScreenFits, OneLogin, OwnStream, ClientAssumption, [Next]_vars
  PROVE  OwnStream'
<1> USE DEF OwnStream
<1>1. none \notin Login /\ reader \in Login \cup {none} /\ connecting \cup streaming \cup timers \subseteq Login
  BY ClientAssumption DEF TypeOK
<1>2. CASE Answered
  <2>1. PICK s \in Login : LoginAnswered(s)
    BY <1>2 DEF Answered
  <2>2. Pending(s)
    BY <2>1 DEF LoginAnswered, Goto, Pending
  <2>3. user = none /\ refresh = none
    BY <2>2 DEF OneLogin, ScreenFits
  <2> QED
    BY <2>1, <2>3, <1>1 DEF LoginAnswered, history
<1>3. CASE Streams
  <2>1. PICK s \in Login : StreamStep(s)
    BY <1>3 DEF Streams
  <2>2. CASE Connected(s)
    BY <2>2, <1>1 DEF Connected, storage, history
  <2>3. CASE ConnectFails(s)
    BY <2>3 DEF ConnectFails, storage, history
  <2>4. CASE Reconnect(s)
    BY <2>4, <1>1 DEF Reconnect, storage, history
  <2>5. CASE StreamEnds(s)
    BY <2>5 DEF StreamEnds, storage, history
  <2> QED
    BY <2>1, <2>2, <2>3, <2>4, <2>5 DEF StreamStep
<1>4. CASE Serving
  BY <1>4 DEF Serving, Served, storage, stream
<1>5. CASE Refreshes
  BY <1>5 DEF Refreshes, Refreshed, stream
<1>6. CASE Leaving
  BY <1>6, <1>1 DEF Leaving, Leaves, LocalLogout, LeaveStream
<1>7. CASE Load
  BY <1>7 DEF Load, FreshPage, storage
<1>8. CASE CloseTab
  BY <1>8 DEF CloseTab, FreshPage
<1>9. CASE Calm
  BY <1>9 DEF Calm, storage
<1> QED
  BY StepIsOfAKind, <1>2, <1>3, <1>4, <1>5, <1>6, <1>7, <1>8, <1>9 DEF OfAKind

\* What is cached and asked for stays that of the user.
LEMMA DataKept ==
  ASSUME TypeOK, HoldsAnswered, Retries, ScreenFits, OneLogin, OwnStream, OwnData,
         ClientAssumption, [Next]_vars
  PROVE  OwnData'
<1> SUFFICES ASSUME ~softLogout', overtaken' = {}
             PROVE  /\ user' # none =>
                         /\ cached' \subseteq {user'}
                         /\ \A q \in Fetch : call'[q].mine /\ call'[q].token # none
                                               => login'[call'[q].token].as = user'
                    /\ user' = none /\ ~leaving' =>
                         /\ cached' = {}
                         /\ \A q \in Fetch : call'[q].mine => call'[q] = Unused
  BY DEF OwnData, Owner
<1> DEFINE Calls == \A q \in Fetch :
             \/ call'[q] = Unused
             \/ /\ call'[q].token \in {call[q].token, access, refresh}
                /\ call'[q].mine => call[q].mine
                /\ call[q] = Unused => page = "inside"
<1>1. Calls
  BY CallsKept
<1>2. \A s \in Held : login'[s].as = login[s].as
  BY OwnersKept DEF Owner
<1>3. Unused.token = none
  BY DEF Unused
<1>4. /\ access # none => access \in Held
      /\ refresh # none => refresh \in Held
      /\ \A q \in Fetch : call[q].token # none => call[q].token \in Held
  BY DEF Held, InTab
\* A step that leaves the user, the page and the cache leaves the rest true.
<1>5. ASSUME ~softLogout, overtaken = {}, user' = user, leaving' = leaving,
             cached' \subseteq cached \cup ({user} \ {none})
      PROVE  /\ user' # none =>
                  /\ cached' \subseteq {user'}
                  /\ \A q \in Fetch : call'[q].mine /\ call'[q].token # none
                                        => login'[call'[q].token].as = user'
             /\ user' = none /\ ~leaving' =>
                  /\ cached' = {}
                  /\ \A q \in Fetch : call'[q].mine => call'[q] = Unused
  <2>1. access = refresh
    BY <1>5 DEF OwnStream
  <2>2. user # none => refresh # none /\ login[refresh].as = user
    BY DEF ScreenFits, Owner
  <2>3. user # none => \A q \in Fetch : call[q].mine /\ call[q].token # none
                                           => login[call[q].token].as = user
    BY <1>5 DEF OwnData, Owner
  <2>4. user = none /\ ~leaving => \A q \in Fetch : call[q].mine => call[q] = Unused
    BY <1>5 DEF OwnData
  <2>5. user = none => page # "inside"
    BY DEF ScreenFits
  <2>6. ASSUME user # none, NEW q \in Fetch, call'[q].mine, call'[q].token # none
        PROVE  login'[call'[q].token].as = user
    BY <2>1, <2>2, <2>3, <2>6, <1>1, <1>2, <1>3, <1>4
  <2>7. ASSUME user = none, ~leaving, NEW q \in Fetch, call'[q].mine
        PROVE  call'[q] = Unused
    BY <2>4, <2>5, <2>7, <1>1
  <2>8. /\ user # none => cached \subseteq {user}
        /\ user = none /\ ~leaving => cached = {}
    BY <1>5 DEF OwnData
  <2> QED
    BY <1>5, <2>6, <2>7, <2>8
<1> HIDE DEF Calls
<1>6. CASE Answered
  <2>1. PICK s \in Login : LoginAnswered(s)
    BY <1>6 DEF Answered
  <2>2. Pending(s)
    BY <2>1 DEF LoginAnswered, Goto, Pending
  <2>3. overtaken = {} /\ ~softLogout /\ cached' = cached /\ call' = call
        /\ user' = Owner(s)
    BY <2>1 DEF LoginAnswered, Goto, history
  <2>4. user = none /\ ~leaving
    BY <2>2, <2>3 DEF OneLogin, ScreenFits
  <2>5. cached = {} /\ \A q \in Fetch : call[q].mine => call[q] = Unused
    BY <2>3, <2>4 DEF OwnData
  <2>6. Owner(s) # none
    BY <2>1, ClientAssumption DEF LoginAnswered, Goto, HoldsAnswered, Owner
  <2> QED
    BY <2>3, <2>5, <2>6, <1>3
<1>7. CASE Streams
  BY <1>7, <1>5 DEF Streams, StreamStep, Connected, ConnectFails, Reconnect, StreamEnds, storage,
     window, history
<1>8. CASE Serving
  <2>1. PICK q \in Fetch : Served(q)
    BY <1>8 DEF Serving
  <2>2. /\ cached' = cached \cup {Owner(call[q].token)} /\ overtaken = {} /\ ~softLogout
        /\ user' = user /\ leaving' = leaving /\ call[q].mine /\ call[q].token # none
    BY <2>1 DEF Served, storage, window
  <2>3. user # none => Owner(call[q].token) = user
    BY <2>2 DEF OwnData
  <2>4. user # none \/ leaving
    BY <2>2, <1>3 DEF OwnData
  <2>5. CASE user # none
    BY <2>2, <2>3, <2>5, <1>5
  <2>6. CASE user = none /\ leaving
    BY <2>2, <2>6
  <2> QED
    BY <2>4, <2>5, <2>6
<1>9. CASE Refreshes
  BY <1>9, <1>5 DEF Refreshes, Refreshed, window
<1>10. CASE Leaving
  <2>1. PICK gone \in SUBSET Login : Leaves(gone)
    BY <1>10 DEF Leaving
  <2>2. user' = none /\ overtaken = {} /\ cached' = cached
    BY <2>1 DEF Leaves, LocalLogout, LeaveStream
  <2>3. CASE leaving'
    BY <2>2, <2>3
  <2>4. CASE ~leaving'
    <3>1. Redirect /\ ~softLogout
      BY <2>1, <2>4 DEF Leaves
    <3>2. leaving' = leaving /\ page # "inside"
      BY <3>1, <2>4 DEF Redirect, ScreenFits, TypeOK
    <3>3. user = none
      BY <3>2 DEF ScreenFits
    <3> QED
      BY <3>1, <3>2, <3>3, <2>2, <1>5
  <2> QED
    BY <2>3, <2>4
<1>11. ASSUME FreshPage PROVE cached' = {} /\ \A q \in Fetch : call'[q].mine => call'[q] = Unused
  BY <1>11, FreshPageCalls DEF FreshPage, Retries
<1>12. CASE Load
  BY <1>12, <1>11, <1>3 DEF Load
<1>13. CASE CloseTab
  BY <1>13, <1>11, <1>3 DEF CloseTab
<1>14. CASE Calm
  BY <1>14, <1>5 DEF Calm, storage
<1> QED
  BY StepIsOfAKind, <1>6, <1>7, <1>8, <1>9, <1>10, <1>12, <1>13, <1>14 DEF OfAKind

\* A login that is pending after a step was pending before, or nothing was and the form was sent.
LEMMA PendingKept ==
  ASSUME TypeOK, OneLogin, [Next]_vars
  PROVE  \/ \A p \in Login : Pending(p)' => Pending(p) /\ (dialog = none => dialog' = none)
         \/ /\ \A p \in Login : ~Pending(p)
            /\ \E s \in Login : \A p \in Login : Pending(p)' => p = s
            /\ page' = "login" /\ ~leaving' /\ dialog' = none
<1> DEFINE G ==
       \/ \A p \in Login : Pending(p)' => Pending(p) /\ (dialog = none => dialog' = none)
       \/ /\ \A p \in Login : ~Pending(p)
          /\ \E s \in Login : \A p \in Login : Pending(p)' => p = s
          /\ page' = "login" /\ ~leaving' /\ dialog' = none
<1> SUFFICES G
  OBVIOUS
<1>a. /\ login \in [Login -> LoginState] /\ leaving \in BOOLEAN
      /\ dialog # none => \A p \in Login : ~Pending(p)
      /\ \A p, q \in Login : Pending(p) /\ Pending(q) => p = q
      /\ isLoginLoading <=> \E p \in Login : Pending(p)
  BY DEF TypeOK, OneLogin, Pending, isLoginLoading
<1> USE DEF Pending, LoginState, NoLogin, server, storage, window, stream, requests,
     history
<1>1. ASSUME NEW s \in Login, NEW u \in User, SubmitLogin(s, u) PROVE G
  BY <1>1, <1>a DEF SubmitLogin, StartLogin
<1>2. ASSUME NEW s \in Login, ForceLogin(s) PROVE G
  BY <1>2, <1>a DEF ForceLogin, StartLogin
<1>3. CASE CancelLogin
  BY <1>3, <1>a DEF CancelLogin
<1>4. ASSUME NEW s \in Login, Duplicate(s) PROVE G
  BY <1>4, <1>a DEF Duplicate
<1>5. ASSUME NEW s \in Login, ServerClears(s) PROVE G
  BY <1>5, <1>a DEF ServerClears, Goto, Registry!Close
<1>6. ASSUME NEW s \in Login, ServerOpens(s) PROVE G
  BY <1>6, <1>a DEF ServerOpens, Goto, Registry!Open
<1>7. ASSUME NEW s \in Login, LoginAnswered(s) PROVE G
  BY <1>7, <1>a DEF LoginAnswered, Goto
<1>8. ASSUME NEW s \in Login, LoginLost(s) PROVE G
  BY <1>8, <1>a DEF LoginLost, Goto
<1>9. ASSUME NEW q \in Fetch, Ask(q) PROVE G
  BY <1>9, <1>a DEF Ask, Send
<1>10. ASSUME NEW q \in Fetch, ChangePassword(q) PROVE G
  BY <1>10, <1>a DEF ChangePassword, Send
<1>11. ASSUME NEW q \in Fetch, Logout(q) PROVE G
  BY <1>11, <1>a DEF Logout, Send
<1>12. ASSUME NEW q \in Fetch, Served(q) PROVE G
  BY <1>12, <1>a DEF Served, Finished
<1>13. ASSUME NEW q \in Fetch, PasswordChanged(q) PROVE G
  BY <1>13, <1>a DEF PasswordChanged
<1>14. ASSUME NEW q \in Fetch, ServerDeletes(q) PROVE G
  BY <1>14, <1>a DEF ServerDeletes, Registry!Close
<1>15. ASSUME NEW q \in Fetch, LogoutAnswered(q) PROVE G
  BY <1>15, <1>a DEF LogoutAnswered, Finished, LocalLogout, LeaveStream
<1>16. ASSUME NEW q \in Fetch, Fails(q) PROVE G
  BY <1>16, <1>a DEF Fails, Rejected, Finished, LocalLogout, LeaveStream
<1>17. ASSUME NEW q \in Fetch, Unauthorized(q) PROVE G
  BY <1>17, <1>a DEF Unauthorized
<1>18. ASSUME NEW q \in Fetch, NothingToRefresh(q) PROVE G
  BY <1>18, <1>a DEF NothingToRefresh, GiveUp, Redirect, Finished, LocalLogout,
     LeaveStream
<1>19. ASSUME NEW q \in Fetch, UnauthorizedAgain(q) PROVE G
  BY <1>19, <1>a DEF UnauthorizedAgain, Rejected, Finished, LocalLogout, LeaveStream
<1>20. ASSUME NEW q \in Fetch, Refreshed(q) PROVE G
  BY <1>20, <1>a DEF Refreshed
<1>21. ASSUME NEW q \in Fetch, RefreshRefused(q) PROVE G
  BY <1>21, <1>a DEF RefreshRefused, GiveUp, Redirect, Finished, LocalLogout,
     LeaveStream
<1>22. ASSUME NEW q \in Fetch, Dropped(q) PROVE G
  BY <1>22, <1>a DEF Dropped, Finished
<1>23. ASSUME NEW s \in Login, Connected(s) PROVE G
  BY <1>23, <1>a DEF Connected
<1>24. ASSUME NEW s \in Login, ConnectFails(s) PROVE G
  BY <1>24, <1>a DEF ConnectFails
<1>25. ASSUME NEW s \in Login, Reconnect(s) PROVE G
  BY <1>25, <1>a DEF Reconnect
<1>26. ASSUME NEW s \in Login, StreamEnds(s) PROVE G
  BY <1>26, <1>a DEF StreamEnds
<1>27. ASSUME NEW s \in Login, ReceiveLogout(s) PROVE G
  BY <1>27, <1>a DEF ReceiveLogout, LocalLogout, LeaveStream
<1>28. CASE Load
  BY <1>28, <1>a DEF Load, FreshPage, SendBeacons
<1>29. CASE CloseTab
  BY <1>29, <1>a DEF CloseTab, FreshPage, SendBeacons
<1>30. ASSUME NEW b \in beacons, BeaconArrives(b) PROVE G
  BY <1>30, <1>a DEF BeaconArrives, Registry!Close
<1>31. ASSUME NEW b \in beacons, BeaconLost(b) PROVE G
  BY <1>31, <1>a DEF BeaconLost
<1>32. ASSUME NEW s \in Login, Elsewhere(s) PROVE G
  BY <1>32, <1>a DEF Elsewhere, Registry!Close
<1>33. CASE UNCHANGED vars
  BY <1>33, <1>a DEF vars
<1> HIDE DEF G, Pending, LoginState, NoLogin, server, storage, window, stream,
     requests, history
<1> QED
  BY <1>1, <1>2, <1>3, <1>4, <1>5, <1>6, <1>7, <1>8, <1>9, <1>10, <1>11, <1>12,
     <1>13, <1>14, <1>15, <1>16, <1>17, <1>18, <1>19, <1>20, <1>21, <1>22, <1>23,
     <1>24, <1>25, <1>26, <1>27, <1>28, <1>29, <1>30, <1>31, <1>32, <1>33 DEF Next,
     LoginStep, CallStep

\* One login at a time, on the login page.
LEMMA OneLoginKept ==
  ASSUME TypeOK, ScreenFits, OneLogin, OwnStream, ClientAssumption, [Next]_vars
  PROVE  OneLogin'
<1> SUFFICES ASSUME NEW p \in Login, Pending(p)'
             PROVE  /\ \A q \in Login : Pending(q)' => p = q
                    /\ page' = "login" /\ dialog' = none
                    /\ overtaken' = {} => ~leaving'
  BY DEF OneLogin
<1>1. CASE \A q \in Login : ~Pending(q)
  BY <1>1, PendingKept
<1>2. CASE \E q \in Login : Pending(q)
  <2>1. /\ \A q \in Login : Pending(q)' => Pending(q)
        /\ Pending(p) /\ dialog' = none
    BY <1>2, PendingKept DEF OneLogin
  <2>2. /\ \A q \in Login : Pending(q) => p = q
        /\ page = "login" /\ (overtaken = {} => ~leaving)
    BY <2>1 DEF OneLogin
  <2>3. page' = "login" /\ (overtaken' = {} => ~leaving')
    <3>1. CASE Answered
      <4>1. PICK s \in Login : LoginAnswered(s)
        BY <3>1 DEF Answered
      <4>2. Pending(s)
        BY <4>1 DEF LoginAnswered, Goto, Pending
      <4>3. p = s
        BY <2>2, <4>2
      <4>4. login'[s].step = "done"
        BY <4>1 DEF LoginAnswered, Goto, TypeOK, LoginState
      <4> QED
        BY <4>3, <4>4 DEF Pending
    <3>2. CASE Streams
      BY <3>2, <2>2 DEF Streams, StreamStep, Connected, ConnectFails, Reconnect, StreamEnds,
         window, history
    <3>3. CASE Serving
      BY <3>3, <2>2 DEF Serving, Served, window
    <3>4. CASE Refreshes
      BY <3>4, <2>2 DEF Refreshes, Refreshed, window
    <3>5. CASE Leaving
      <4>1. PICK gone \in SUBSET Login : Leaves(gone)
        BY <3>5 DEF Leaving
      <4>2. overtaken = {} => inbox = {}
        BY <2>2, ClientAssumption DEF OwnStream, ScreenFits, TypeOK
      <4>3. page' = "login" /\ overtaken' = overtaken \cup connecting
        BY <4>1 DEF Leaves, LocalLogout, LeaveStream
      <4>4. leaving' = leaving \/ inbox # {}
        BY <2>2, <4>1 DEF Leaves, Redirect, TypeOK
      <4> QED
        BY <2>2, <4>2, <4>3, <4>4
    <3>6. CASE FreshPage
      <4>1. login'[p] = [login[p] EXCEPT !.mine = @ /\ login[p].step = "idle"]
        BY <3>6 DEF FreshPage
      <4> QED
        BY <4>1 DEF Pending, TypeOK, LoginState
    <3>7. CASE Calm
      BY <3>7, <2>2 DEF Calm
    <3> QED
      BY StepIsOfAKind, <3>1, <3>2, <3>3, <3>4, <3>5, <3>6, <3>7 DEF OfAKind, Load, CloseTab
  <2> QED
    BY <2>1, <2>2, <2>3
<1> QED
  BY <1>1, <1>2

---------------------------------------------------------------------------
(* The invariant *)

\* It holds at first ...
LEMMA IInvInit ==
  ASSUME Init, ClientAssumption
  PROVE  IInv
<1>1. \A s \in Login : login[s] = NoLogin
  BY DEF Init
<1>2. \A q \in Fetch : call[q] = Unused /\ repeats[q] = 0
  BY DEF Init
<1>3. Unused \in CallState /\ Unused.token = none /\ Unused.step = "idle"
  BY DEF Unused, CallState, Kinds
<1>4. NoLogin \in LoginState /\ NoLogin.step = "idle"
  BY DEF NoLogin, LoginState
<1>5. TypeOK
  BY <1>3, <1>4 DEF Init, TypeOK, Registry!Init, Registry!TypeOK
<1>6. HoldsAnswered
  <2>1. Held = {}
    BY <1>2, <1>3 DEF Init, Held, InTab
  <2> QED
    BY <2>1, <1>1, <1>4 DEF HoldsAnswered
<1>7. OpenedOnce
  BY DEF Init, OpenedOnce, Registry!Init
<1>8. ScreenFits
  BY DEF Init, ScreenFits
<1>9. OneLogin
  BY <1>1, <1>4 DEF OneLogin, Pending
<1>10. OwnStream
  BY DEF Init, OwnStream
<1>11. OwnData
  BY <1>2 DEF Init, OwnData
<1>12. Retries
  <2>1. ~Unused.retried
    BY DEF Unused
  <2> QED
    BY <1>2, <1>3 DEF Retries
<1> QED
  BY <1>5, <1>6, <1>7, <1>8, <1>9, <1>10, <1>11, <1>12 DEF IInv

\* ... and every step preserves it.
LEMMA IInvStep ==
  ASSUME IInv, ClientAssumption, [Next]_vars
  PROVE  IInv'
<1> USE DEF IInv
<1>1. OpenedOnce'
  <2>1. /\ \A p \in live' \cup ended' :
             login[p].step \notin {"idle", "sent", "cleared"} \/ login'[p].step = "granted"
        /\ inbox' \cap live' = {}
    BY OpenedKept
  <2>2. live' \cup ended' \subseteq Login
    BY TypeKept DEF TypeOK, Registry!TypeOK
  <2>3. \A p \in live' \cup ended' : login'[p].step \notin {"idle", "sent", "cleared"}
    BY <2>1, <2>2, LoginsKept
  <2> QED
    BY <2>1, <2>3 DEF OpenedOnce
<1> QED
  BY TypeKept, HoldsKept, <1>1, ScreenKept, OneLoginKept, StreamsKept, DataKept, RetriesKept

\* The invariant behind the theorems below holds of every reachable state: every request
\* and answer under way belongs to the login whose token it carries (axios.ts, authStore.ts).
THEOREM Inductive == Spec => []IInv
  BY IInvInit, IInvStep, ClientAssumption, PTL DEF Spec

---------------------------------------------------------------------------
(* What follows *)

\* TypeOK, OwnAnswersOnly, CacheForgets and RepeatedOnce: in every state of every
\* behaviour, what the tab has is that of the login it shows, unless an answer came after
\* its login was left (useSessionEvents.ts, axios.ts), and no request is repeated twice.
THEOREM TabIsAlwaysOwn == Spec => []TabIsOwn
<1>1. ASSUME IInv PROVE TabIsOwn
  <2>1. OwnAnswersOnly
    BY <1>1 DEF IInv, OwnAnswersOnly, OwnStream, ScreenFits, isAuthenticated
  <2>2. CacheForgets
    BY <1>1 DEF IInv, CacheForgets, OwnData, isAuthenticated
  <2>3. RepeatedOnce
    BY <1>1 DEF IInv, RepeatedOnce, Retries
  <2> QED
    BY <1>1, <2>1, <2>2, <2>3 DEF TabIsOwn, IInv
<1> QED
  BY Inductive, <1>1, PTL

\* A tab that was logged out is in again only with the answer to a login: nothing else
\* sets the user, and an access token that comes late finds none.
THEOREM OutUntilLogin == Spec => StaysOut
<1> DEFINE A == ~isAuthenticated /\ isAuthenticated'
                  => \E s \in Login : login[s].step = "granted" /\ login'[s].step = "done"
<1>1. ASSUME IInv, [Next]_vars PROVE A
  <2> SUFFICES ASSUME user = none, user' # none
               PROVE  \E s \in Login : login[s].step = "granted" /\ login'[s].step = "done"
    BY <1>1 DEF IInv, ScreenFits, isAuthenticated
  <2>1. CASE Answered
    <3>1. PICK s \in Login : LoginAnswered(s)
      BY <2>1 DEF Answered
    <3>2. login[s].step = "granted" /\ login'[s].step = "done"
      BY <3>1, <1>1 DEF IInv, LoginAnswered, Goto, TypeOK, LoginState
    <3> QED
      BY <3>2
  <2>2. CASE Streams
    BY <2>2 DEF Streams, StreamStep, Connected, ConnectFails, Reconnect, StreamEnds, storage
  <2>3. CASE Serving \/ Refreshes
    BY <2>3 DEF Serving, Served, Refreshes, Refreshed, storage
  <2>4. CASE Leaving
    BY <2>4 DEF Leaving, Leaves, LocalLogout
  <2>5. CASE Load \/ CloseTab
    BY <2>5 DEF Load, CloseTab, storage
  <2>6. CASE Calm
    BY <2>6 DEF Calm, storage
  <2> QED
    BY <1>1, StepIsOfAKind, <2>1, <2>2, <2>3, <2>4, <2>5, <2>6 DEF OfAKind
<1>2. ASSUME IInv, [Next]_vars PROVE [A]_vars
  BY <1>1, <1>2
<1> QED
  BY Inductive, <1>2, PTL DEF Spec, StaysOut

\* A logout event on the way is for the session the tab holds, and that session is closed,
\* unless an answer came after its login was left.
THEOREM EventsAreForTheTab == Spec => EventsHitTheirSession
<1> DEFINE A == \A s \in inbox :
       s \notin inbox' /\ isAuthenticated /\ ~isAuthenticated' /\ leaving'
         => access \notin live \/ overtaken # {}
<1>1. ASSUME IInv PROVE A
  <2> SUFFICES ASSUME overtaken = {}, NEW s \in inbox PROVE access \notin live
    OBVIOUS
  <2>1. s = access
    BY <1>1 DEF IInv, TypeOK, OwnStream
  <2> QED
    BY <1>1, <2>1 DEF IInv, OpenedOnce
<1>2. ASSUME IInv, [Next]_vars PROVE [A]_vars
  BY <1>1, <1>2
<1> QED
  BY Inductive, <1>2, PTL DEF Spec, EventsHitTheirSession


\* The steps that change the session table.
LEMMA RegistrySteps ==
  ASSUME [Next]_vars
  PROVE  \/ \E s \in Login : ServerClears(s) \/ ServerOpens(s) \/ Elsewhere(s)
         \/ \E q \in Fetch : ServerDeletes(q)
         \/ \E b \in beacons : BeaconArrives(b)
         \/ UNCHANGED <<live, ended, told>>
<1> DEFINE G ==
       \/ \E s \in Login : ServerClears(s) \/ ServerOpens(s) \/ Elsewhere(s)
       \/ \E q \in Fetch : ServerDeletes(q)
       \/ \E b \in beacons : BeaconArrives(b)
       \/ UNCHANGED <<live, ended, told>>
<1> SUFFICES G
  OBVIOUS
<1> USE DEF server, storage, window, stream, requests, history
<1>1. ASSUME NEW s \in Login, NEW u \in User, SubmitLogin(s, u) PROVE G
  BY <1>1 DEF SubmitLogin, StartLogin
<1>2. ASSUME NEW s \in Login, ForceLogin(s) PROVE G
  BY <1>2 DEF ForceLogin, StartLogin
<1>3. CASE CancelLogin
  BY <1>3 DEF CancelLogin
<1>4. ASSUME NEW s \in Login, Duplicate(s) PROVE G
  BY <1>4 DEF Duplicate
<1>5. ASSUME NEW s \in Login, ServerClears(s) PROVE G
  BY <1>5
<1>6. ASSUME NEW s \in Login, ServerOpens(s) PROVE G
  BY <1>6
<1>7. ASSUME NEW s \in Login, LoginAnswered(s) PROVE G
  BY <1>7 DEF LoginAnswered, Goto
<1>8. ASSUME NEW s \in Login, LoginLost(s) PROVE G
  BY <1>8 DEF LoginLost, Goto
<1>9. ASSUME NEW q \in Fetch, Ask(q) PROVE G
  BY <1>9 DEF Ask, Send
<1>10. ASSUME NEW q \in Fetch, ChangePassword(q) PROVE G
  BY <1>10 DEF ChangePassword, Send
<1>11. ASSUME NEW q \in Fetch, Logout(q) PROVE G
  BY <1>11 DEF Logout, Send
<1>12. ASSUME NEW q \in Fetch, Served(q) PROVE G
  BY <1>12 DEF Served, Finished
<1>13. ASSUME NEW q \in Fetch, PasswordChanged(q) PROVE G
  BY <1>13 DEF PasswordChanged
<1>14. ASSUME NEW q \in Fetch, ServerDeletes(q) PROVE G
  BY <1>14
<1>15. ASSUME NEW q \in Fetch, LogoutAnswered(q) PROVE G
  BY <1>15 DEF LogoutAnswered, Finished, LocalLogout, LeaveStream
<1>16. ASSUME NEW q \in Fetch, Fails(q) PROVE G
  BY <1>16 DEF Fails, Rejected, Finished, LocalLogout, LeaveStream
<1>17. ASSUME NEW q \in Fetch, Unauthorized(q) PROVE G
  BY <1>17 DEF Unauthorized
<1>18. ASSUME NEW q \in Fetch, NothingToRefresh(q) PROVE G
  BY <1>18 DEF NothingToRefresh, GiveUp, Redirect, Finished, LocalLogout,
     LeaveStream
<1>19. ASSUME NEW q \in Fetch, UnauthorizedAgain(q) PROVE G
  BY <1>19 DEF UnauthorizedAgain, Rejected, Finished, LocalLogout, LeaveStream
<1>20. ASSUME NEW q \in Fetch, Refreshed(q) PROVE G
  BY <1>20 DEF Refreshed
<1>21. ASSUME NEW q \in Fetch, RefreshRefused(q) PROVE G
  BY <1>21 DEF RefreshRefused, GiveUp, Redirect, Finished, LocalLogout, LeaveStream
<1>22. ASSUME NEW q \in Fetch, Dropped(q) PROVE G
  BY <1>22 DEF Dropped, Finished
<1>23. ASSUME NEW s \in Login, Connected(s) PROVE G
  BY <1>23 DEF Connected
<1>24. ASSUME NEW s \in Login, ConnectFails(s) PROVE G
  BY <1>24 DEF ConnectFails
<1>25. ASSUME NEW s \in Login, Reconnect(s) PROVE G
  BY <1>25 DEF Reconnect
<1>26. ASSUME NEW s \in Login, StreamEnds(s) PROVE G
  BY <1>26 DEF StreamEnds
<1>27. ASSUME NEW s \in Login, ReceiveLogout(s) PROVE G
  BY <1>27 DEF ReceiveLogout, LocalLogout, LeaveStream
<1>28. CASE Load
  BY <1>28 DEF Load, FreshPage, SendBeacons
<1>29. CASE CloseTab
  BY <1>29 DEF CloseTab, FreshPage, SendBeacons
<1>30. ASSUME NEW b \in beacons, BeaconArrives(b) PROVE G
  BY <1>30
<1>31. ASSUME NEW b \in beacons, BeaconLost(b) PROVE G
  BY <1>31 DEF BeaconLost
<1>32. ASSUME NEW s \in Login, Elsewhere(s) PROVE G
  BY <1>32
<1>33. CASE UNCHANGED vars
  BY <1>33 DEF vars
<1> HIDE DEF G, server, storage, window, stream, requests, history
<1> QED
  BY <1>1, <1>2, <1>3, <1>4, <1>5, <1>6, <1>7, <1>8, <1>9, <1>10, <1>11, <1>12,
     <1>13, <1>14, <1>15, <1>16, <1>17, <1>18, <1>19, <1>20, <1>21, <1>22, <1>23,
     <1>24, <1>25, <1>26, <1>27, <1>28, <1>29, <1>30, <1>31, <1>32, <1>33 DEF Next,
     LoginStep, CallStep

\* What the tab makes the server do, and what the server does of its own, are steps of
\* the session registry that Auth implements (RegistryImplemented in AuthProofs).
THEOREM UsesTheRegistry == Spec => Registry!Spec
<1> DEFINE G == [Registry!Next]_(Registry!vars)
<1>1. ASSUME IInv, [Next]_vars PROVE G
  <2> USE DEF Registry!vars, server, storage, window, stream, requests, history
  <2>a. /\ live \subseteq Login
        /\ \A s \in live \cup ended : login[s].step \notin {"idle", "sent", "cleared"}
    BY <1>1 DEF IInv, OpenedOnce, TypeOK, Registry!TypeOK
  <2>1. ASSUME NEW S \in SUBSET live, NEW T \in SUBSET S, Registry!Close(S, T) PROVE G
    BY <2>1 DEF Registry!Next
  <2>2. \A u : SessionsOf(u) \subseteq live
    BY DEF SessionsOf
  <2>3. ASSUME NEW s \in Login, ServerClears(s) PROVE G
    <3> DEFINE S == SessionsOf(Owner(s))
    <3>1. PICK T \in {{}, IF login[s].force THEN S \cap streaming ELSE {}} : Registry!Close(S, T)
      BY <2>3 DEF ServerClears
    <3>2. S \in SUBSET live /\ T \in SUBSET S
      BY <2>2
    <3> HIDE DEF S
    <3> QED
      BY <2>1, <3>1, <3>2
  <2>4. ASSUME NEW s \in Login, ServerOpens(s) PROVE G
    BY <2>4 DEF ServerOpens, Registry!Next
  <2>5. ASSUME NEW q \in Fetch, ServerDeletes(q) PROVE G
    <3>1. SessionsOf(Owner(call[q].token)) \in SUBSET live
      BY <2>2
    <3> QED
      BY <2>1, <2>5, <3>1 DEF ServerDeletes
  <2>6. ASSUME NEW b \in beacons, BeaconArrives(b) PROVE G
    <3>1. SessionsOf(Owner(b[1])) \in SUBSET live
      BY <2>2
    <3> QED
      BY <2>1, <2>6, <3>1 DEF BeaconArrives
  <2>7. ASSUME NEW s \in Login, Elsewhere(s) PROVE G
    <3>1. PICK T \in {{}, {s} \cap streaming} : Registry!Close({s}, T)
      BY <2>7 DEF Elsewhere
    <3>2. {s} \in SUBSET live /\ T \in SUBSET {s}
      BY <2>7 DEF Elsewhere
    <3> QED
      BY <2>1, <3>1, <3>2
  <2>8. CASE UNCHANGED <<live, ended, told>>
    BY <2>8
  <2>9. \/ \E s \in Login : ServerClears(s) \/ ServerOpens(s) \/ Elsewhere(s)
        \/ \E q \in Fetch : ServerDeletes(q)
        \/ \E b \in beacons : BeaconArrives(b)
        \/ UNCHANGED <<live, ended, told>>
    BY <1>1, RegistrySteps
  <2> QED
    BY <2>3, <2>4, <2>5, <2>6, <2>7, <2>8, <2>9
<1>2. Init => Registry!Init
  BY DEF Init
<1> QED
  BY Inductive, <1>1, <1>2, PTL DEF Spec, Registry!Spec

=============================================================================
