----------------------------- MODULE AuthClient -----------------------------
(***************************************************************************)
(* One browser tab (frontend/src): the tokens in its session storage, the   *)
(* store, the interceptor that refreshes a token and repeats the request,   *)
(* login with the duplicate dialog, logout, the event stream with its       *)
(* reconnect timer, the beacons sent on unload, and the query cache.        *)
(*                                                                          *)
(* The server is SessionRegistry, the specification that Auth is proved to  *)
(* implement: a request closes and opens sessions by its actions only. What *)
(* other browsers, the cron and administrators do is the action Elsewhere.  *)
(* Tokens carry a session; whether the server still takes one (expiry, an   *)
(* inactive account, a restart) is its choice at every request. JavaScript  *)
(* runs to the end of a callback, so an action is one callback.             *)
(***************************************************************************)
EXTENDS Naturals, FiniteSets

CONSTANTS
  User,      \* accounts
  Login,     \* login requests of the tab, each sent once; a session is its login
  Fetch,     \* the other requests that may be under way, used again when answered
  Scenarios, \* what may happen in one behaviour, and how many fetches at a time
  none       \* no user, no token, no reader

ASSUME ClientAssumption ==
  /\ none \notin User \cup Login
  /\ Scenarios \subseteq [uses : SUBSET {"password", "unload", "events", "renew"}, fetches : Nat]

VARIABLES
  scenario,            \* chosen once
  live, ended, told,   \* the session table, as SessionRegistry has it
  user,                \* store.user, persisted in the session storage
  access, refresh,     \* the tokens in the session storage, by their session
  page,                \* "closed", "login" or "inside"
  leaving,             \* location.href was assigned, the page has not been unloaded
  isRedirecting,       \* the interceptor's flag
  dialog,              \* pendingCredentials of the duplicate dialog
  login, call,         \* the requests
  connecting,          \* sessions whose session-events fetch is pending
  streaming,           \* sessions whose stream is open
  reader, timerRef,    \* readerRef and reconnectTimerRef
  timers,              \* reconnect timers that will fire
  inbox,               \* streams with a logout event on the way
  beacons,             \* logout beacons on the way, by the unload event that sent them
  cached,              \* accounts whose data the query cache holds
  overtaken,           \* history: sessions this tab left with an answer pending
  softLogout,          \* history: this page has logged out without being reloaded
  repeats              \* history: how often each request was repeated

server == <<scenario, live, ended, told>>
storage == <<user, access, refresh>>
window == <<page, leaving, isRedirecting, dialog>>
stream == <<connecting, streaming, reader, timerRef, timers, inbox>>
requests == <<login, call>>
history == <<overtaken, softLogout, repeats>>
vars == <<server, storage, window, requests, stream, beacons, cached, history>>

Registry == INSTANCE SessionRegistry WITH Session <- Login

Kinds == {"data", "password", "logout"}
LoginState == [step : {"idle", "sent", "cleared", "granted", "done", "failed"},
               as : User \cup {none}, \* the account
               force : BOOLEAN, \* forceLogin
               mine : BOOLEAN]  \* the page that sent it is still there
CallState == [kind : Kinds, step : {"idle", "sent", "deleted", "refreshing"},
              token : Login \cup {none}, \* the Authorization header, or the refresh token
              retried : BOOLEAN,         \* _retry
              mine : BOOLEAN]

Unused == [kind |-> "data", step |-> "idle", token |-> none, retried |-> FALSE, mine |-> TRUE]

TypeOK ==
  /\ scenario \in Scenarios
  /\ Registry!TypeOK
  /\ user \in User \cup {none}
  /\ access \in Login \cup {none} /\ refresh \in Login \cup {none}
  /\ page \in {"closed", "login", "inside"}
  /\ leaving \in BOOLEAN /\ isRedirecting \in BOOLEAN
  /\ dialog \in User \cup {none}
  /\ login \in [Login -> LoginState] /\ call \in [Fetch -> CallState]
  /\ connecting \subseteq Login /\ streaming \subseteq Login
  /\ reader \in Login \cup {none} /\ timerRef \in Login \cup {none}
  /\ timers \subseteq Login /\ inbox \subseteq streaming
  /\ beacons \subseteq Login \X {"beforeunload", "pagehide"}
  /\ cached \subseteq User /\ overtaken \subseteq Login
  /\ softLogout \in BOOLEAN /\ repeats \in [Fetch -> Nat]

NoLogin == [step |-> "idle", as |-> none, force |-> FALSE, mine |-> TRUE]

Init ==
  /\ scenario \in Scenarios
  /\ Registry!Init
  /\ user = none /\ access = none /\ refresh = none
  /\ page = "closed" /\ leaving = FALSE /\ isRedirecting = FALSE /\ dialog = none
  /\ login = [s \in Login |-> NoLogin]
  /\ call = [q \in Fetch |-> Unused]
  /\ connecting = {} /\ streaming = {} /\ reader = none /\ timerRef = none
  /\ timers = {} /\ inbox = {} /\ beacons = {} /\ cached = {}
  /\ overtaken = {} /\ softLogout = FALSE /\ repeats = [q \in Fetch |-> 0]

---------------------------------------------------------------------------
(* Helpers. A Slip_ is a plausible mistake in one of them; no action uses it. *)

\* The account a session belongs to.
Owner(s) == login[s].as
SessionsOf(u) == {s \in live : Owner(s) = u}

isAuthenticated == user # none /\ access # none

Goto(s, from, to) ==
  /\ login[s].step = from
  /\ login' = [login EXCEPT ![s].step = to]
  /\ UNCHANGED call
Finished(q) ==
  /\ call' = [call EXCEPT ![q] = Unused]
  /\ repeats' = [repeats EXCEPT ![q] = 0]
  /\ UNCHANGED login
At(q, kinds, step) == call[q].kind \in kinds /\ call[q].step = step

Slip_LeaveStream(gone) ==  \* the timer is not cleared
  /\ streaming' = streaming \ (gone \cup {reader})
  /\ inbox' = inbox \ (gone \cup {reader})
  /\ reader' = none
  /\ timerRef' = none
  /\ overtaken' = overtaken \cup connecting
  /\ UNCHANGED <<connecting, timers>>

\* The clean-up of useSessionEvents when user changes: what the refs name is
\* cancelled; a fetch that is still pending is not.
LeaveStream(gone) ==
  /\ streaming' = streaming \ (gone \cup {reader})
  /\ inbox' = inbox \ (gone \cup {reader})
  /\ reader' = none
  /\ timers' = timers \ {timerRef}
  /\ timerRef' = none
  /\ overtaken' = overtaken \cup connecting
  /\ UNCHANGED connecting

Slip_LocalLogout(gone) ==  \* the persisted user is forgotten
  /\ access' = none /\ refresh' = none /\ UNCHANGED user
  /\ page' = "login"
  /\ LeaveStream(gone)

\* store.logout(): storage and store are cleared, the effect above is cleaned up,
\* and PrivateRoute leaves for the login page.
LocalLogout(gone) ==
  /\ user' = none /\ access' = none /\ refresh' = none
  /\ page' = "login"
  /\ LeaveStream(gone)

\* window.location.href = '/login', once per page and not from the login page.
Redirect ==
  LET go == page = "inside" /\ ~isRedirecting IN
  /\ isRedirecting' = (isRedirecting \/ go)
  /\ leaving' = (leaving \/ go)

\* A new page: what the old one had in memory is gone, what it sent is not.
FreshPage ==
  /\ leaving' = FALSE /\ isRedirecting' = FALSE /\ dialog' = none
  /\ login' = [s \in Login |-> [login[s] EXCEPT !.mine = @ /\ login[s].step = "idle"]]
  /\ call' = [q \in Fetch |-> [call[q] EXCEPT !.mine = @ /\ call[q].step = "idle"]]
  /\ streaming' = {} /\ reader' = none /\ timerRef' = none /\ timers' = {} /\ inbox' = {}
  /\ cached' = {} /\ softLogout' = FALSE /\ UNCHANGED repeats

\* beforeunload and pagehide each send the token there is.
SendBeacons ==
  beacons' = beacons \cup
    (IF access = none THEN {} ELSE {access} \X {"beforeunload", "pagehide"})

---------------------------------------------------------------------------
(* Plausible mistakes in actions; no action uses them. *)

Slip_Elsewhere(s) ==  \* the event goes to every stream of the account
  /\ s \in live
  /\ Registry!Close({s}, {})
  /\ inbox' = inbox \cup {t \in streaming : Owner(t) = Owner(s)}
  /\ UNCHANGED <<scenario, storage, window, requests, connecting, streaming, reader, timerRef, timers,
                 beacons, cached, history>>

---------------------------------------------------------------------------
(* Login *)

\* The button is disabled while a login is pending.
isLoginLoading ==
  \E p \in Login : login[p].mine /\ login[p].step \in {"sent", "cleared", "granted"}

StartLogin(s, u, force) ==
  /\ page = "login" /\ ~leaving /\ login[s].step = "idle"
  /\ login' = [login EXCEPT ![s] = [step |-> "sent", as |-> u, force |-> force, mine |-> TRUE]]
  /\ dialog' = none
  /\ UNCHANGED <<server, storage, page, leaving, isRedirecting, call, stream, beacons, cached, history>>

\* The form is sent.
SubmitLogin(s, u) ==
  /\ ~isLoginLoading /\ dialog = none
  /\ StartLogin(s, u, FALSE)

\* The duplicate dialog is confirmed ...
ForceLogin(s) ==
  /\ dialog # none
  /\ StartLogin(s, dialog, TRUE)

\* ... or refused.
CancelLogin ==
  /\ dialog # none /\ ~leaving
  /\ dialog' = none
  /\ UNCHANGED <<server, storage, page, leaving, isRedirecting, requests, stream, beacons, cached, history>>

\* DUPLICATE_SESSION: the account has a session and the login was not forced. It made no
\* session, so its place is used again.
Duplicate(s) ==
  /\ ~login[s].force /\ SessionsOf(Owner(s)) # {}
  /\ login[s].step = "sent" /\ login' = [login EXCEPT ![s] = NoLogin] /\ UNCHANGED call
  /\ dialog' = IF login[s].mine THEN Owner(s) ELSE dialog
  /\ UNCHANGED <<server, storage, page, leaving, isRedirecting, stream, beacons, cached, history>>

\* The server deletes the account's sessions, telling their streams if forced ...
ServerClears(s) ==
  LET S == SessionsOf(Owner(s)) IN
  /\ Goto(s, "sent", "cleared")
  /\ \E T \in {{}, IF login[s].force THEN S \cap streaming ELSE {}} :
       Registry!Close(S, T) /\ inbox' = inbox \cup T
  /\ UNCHANGED <<scenario, storage, window, connecting, streaming, reader, timerRef, timers, beacons, cached, history>>

\* ... and creates the session the tokens will carry.
ServerOpens(s) ==
  /\ Goto(s, "cleared", "granted")
  /\ Registry!Open(s)
  /\ UNCHANGED <<scenario, storage, window, stream, beacons, cached, history>>

\* setAuth and navigate; the new user starts an event stream.
LoginAnswered(s) ==
  /\ login[s].mine
  /\ Goto(s, "granted", "done")
  /\ user' = Owner(s) /\ access' = s /\ refresh' = s
  /\ page' = "inside"
  /\ connecting' = connecting \cup {s}
  /\ UNCHANGED <<server, leaving, isRedirecting, dialog, streaming, reader, timerRef, timers,
                 inbox, beacons, cached, history>>

\* Refused, failed, or the page that sent it is gone: nobody takes the answer.
LoginLost(s) ==
  /\ login[s].step \in {"sent", "cleared", "granted"}
  /\ Goto(s, login[s].step, "failed")
  /\ UNCHANGED <<server, storage, window, stream, beacons, cached, history>>

LoginStep(s) ==
  Duplicate(s) \/ ServerClears(s) \/ ServerOpens(s) \/ LoginAnswered(s) \/ LoginLost(s)

---------------------------------------------------------------------------
(* Requests with a token *)

Send(q, k) ==
  /\ page = "inside" /\ ~leaving /\ call[q].step = "idle"
  /\ Cardinality({p \in Fetch : call[p].step # "idle"}) < scenario.fetches
  /\ call' = [call EXCEPT ![q] = [@ EXCEPT !.kind = k, !.step = "sent", !.token = access]]
  /\ UNCHANGED <<server, storage, window, login, stream, beacons, cached, history>>

\* A page asks for data.
Ask(q) == Send(q, "data")

\* The password dialog is sent; nothing disables its button while it is pending.
ChangePassword(q) == "password" \in scenario.uses /\ Send(q, "password")

\* The logout item of the menu.
Logout(q) == Send(q, "logout")

Served(q) ==
  /\ At(q, {"data"}, "sent") /\ call[q].mine /\ call[q].token # none
  /\ Finished(q)
  /\ cached' = cached \cup {Owner(call[q].token)}
  /\ UNCHANGED <<server, storage, window, stream, beacons, overtaken, softLogout>>

\* handlePasswordChangeSuccess logs out with a request of its own.
PasswordChanged(q) ==
  /\ At(q, {"password"}, "sent") /\ call[q].mine /\ call[q].token # none
  /\ call' = [call EXCEPT ![q] = [@ EXCEPT !.kind = "logout", !.token = access, !.retried = FALSE]]
  /\ repeats' = [repeats EXCEPT ![q] = 0]
  /\ UNCHANGED <<server, storage, window, login, stream, beacons, cached, overtaken, softLogout>>

\* logout deletes every session of the token's account.
ServerDeletes(q) ==
  /\ At(q, {"logout"}, "sent") /\ call[q].token # none
  /\ Registry!Close(SessionsOf(Owner(call[q].token)), {})
  /\ call' = [call EXCEPT ![q].step = "deleted"]
  /\ UNCHANGED <<scenario, storage, window, login, stream, beacons, cached, history>>

LogoutAnswered(q) ==
  /\ At(q, {"logout"}, "deleted") /\ call[q].mine
  /\ Finished(q)
  /\ LocalLogout({})
  /\ softLogout' = TRUE
  /\ UNCHANGED <<server, leaving, isRedirecting, dialog, beacons, cached>>

\* The request is rejected: a logout logs out all the same.
Rejected(q) ==
  /\ Finished(q)
  /\ IF call[q].kind = "logout"
     THEN LocalLogout({}) /\ softLogout' = TRUE
     ELSE UNCHANGED <<storage, page, stream, overtaken, softLogout>>
  /\ UNCHANGED <<server, leaving, isRedirecting, dialog, beacons, cached>>

\* No answer, or an error other than 401.
Fails(q) ==
  /\ call[q].mine /\ call[q].step \in {"sent", "deleted"}
  /\ Rejected(q)

\* 401: the token is not taken any more, or the current password was wrong. The
\* first time the interceptor asks for a new token ...
Unauthorized(q) ==
  /\ call[q].step = "sent" /\ call[q].mine
  /\ ~call[q].retried /\ refresh # none
  /\ call' = [call EXCEPT ![q] = [@ EXCEPT !.retried = TRUE, !.step = "refreshing", !.token = refresh]]
  /\ UNCHANGED <<server, storage, window, login, stream, beacons, cached, history>>

\* ... without a refresh token, or when it is refused, it logs out ...
GiveUp(q) ==
  /\ call[q].mine
  /\ Finished(q)
  /\ LocalLogout({})
  /\ Redirect
  /\ UNCHANGED <<server, dialog, beacons, cached, softLogout>>

NothingToRefresh(q) ==
  /\ call[q].step = "sent" /\ ~call[q].retried /\ refresh = none
  /\ GiveUp(q)

RefreshRefused(q) ==
  /\ call[q].step = "refreshing"
  /\ GiveUp(q)

\* ... and the second time it passes the error on.
UnauthorizedAgain(q) ==
  /\ call[q].step = "sent" /\ call[q].mine /\ call[q].retried
  /\ Rejected(q)

\* The new access token is of the refresh token's session, whatever the tab has
\* become; the request is repeated with it.
Refreshed(q) ==
  /\ call[q].step = "refreshing" /\ call[q].mine
  /\ access' = call[q].token
  /\ call' = [call EXCEPT ![q].step = "sent"]
  /\ repeats' = [repeats EXCEPT ![q] = @ + 1]
  /\ overtaken' = overtaken \cup ({call[q].token} \ {refresh})
  /\ UNCHANGED <<server, user, refresh, window, login, stream, beacons, cached, softLogout>>

\* The page that sent it is gone: nobody takes the answer.
Dropped(q) ==
  /\ ~call[q].mine
  /\ Finished(q)
  /\ UNCHANGED <<server, storage, window, stream, beacons, cached, overtaken, softLogout>>

CallStep(q) ==
  \/ Served(q) \/ PasswordChanged(q) \/ ServerDeletes(q) \/ LogoutAnswered(q)
  \/ Fails(q) \/ Unauthorized(q) \/ NothingToRefresh(q) \/ UnauthorizedAgain(q)
  \/ Refreshed(q) \/ RefreshRefused(q) \/ Dropped(q)

---------------------------------------------------------------------------
(* The event stream *)

\* The response is there: the refs are overwritten, whoever they named.
Connected(s) ==
  /\ s \in connecting /\ "events" \in scenario.uses
  /\ connecting' = connecting \ {s}
  /\ streaming' = streaming \cup {s} /\ reader' = s
  /\ timers' = timers \cup {s} /\ timerRef' = s
  /\ UNCHANGED <<server, storage, window, requests, inbox, beacons, cached, history>>

\* Refused or broken: not tried again.
ConnectFails(s) ==
  /\ s \in connecting
  /\ connecting' = connecting \ {s}
  /\ UNCHANGED <<server, storage, window, requests, streaming, reader, timerRef, timers, inbox,
                 beacons, cached, history>>

\* After 50 minutes the current stream is given up for a new one.
Reconnect(s) ==
  /\ s \in timers /\ "renew" \in scenario.uses
  /\ timers' = timers \ {s}
  /\ timerRef' = IF timerRef = s THEN none ELSE timerRef
  /\ streaming' = streaming \ {reader} /\ inbox' = inbox \ {reader}
  /\ reader' = none
  /\ connecting' = connecting \cup ({access} \ {none})
  /\ UNCHANGED <<server, storage, window, requests, beacons, cached, history>>

\* The server restarts or a proxy ends the stream; what was on the way is lost.
StreamEnds(s) ==
  /\ s \in streaming /\ "renew" \in scenario.uses
  /\ streaming' = streaming \ {s} /\ inbox' = inbox \ {s}
  /\ reader' = IF reader = s THEN none ELSE reader
  /\ UNCHANGED <<server, storage, window, requests, connecting, timerRef, timers, beacons, cached, history>>

\* logout event: local logout, alert, redirect, whatever login the tab has now.
ReceiveLogout(s) ==
  /\ s \in inbox
  /\ LocalLogout({s})
  /\ leaving' = TRUE
  /\ UNCHANGED <<server, isRedirecting, dialog, requests, beacons, cached, softLogout, repeats>>

---------------------------------------------------------------------------
(* The page and the rest of the world *)

\* Opened, reloaded by its user or by a redirect: the session storage is kept,
\* and with a user and a token the page is inside and opens its stream.
Load ==
  /\ leaving \/ page = "closed" \/ "unload" \in scenario.uses
  /\ SendBeacons
  /\ FreshPage
  /\ page' = IF isAuthenticated THEN "inside" ELSE "login"
  /\ connecting' = IF isAuthenticated THEN {access} ELSE {}
  /\ UNCHANGED <<server, storage, overtaken>>

\* A closed tab takes its session storage with it.
CloseTab ==
  /\ page # "closed" /\ "unload" \in scenario.uses
  /\ SendBeacons
  /\ FreshPage
  /\ user' = none /\ access' = none /\ refresh' = none
  /\ page' = "closed"
  /\ connecting' = {} /\ overtaken' = {}
  /\ UNCHANGED server

\* The server verifies the token and deletes every session of its account ...
BeaconArrives(b) ==
  /\ Registry!Close(SessionsOf(Owner(b[1])), {})
  /\ beacons' = beacons \ {b}
  /\ UNCHANGED <<scenario, storage, window, requests, stream, cached, history>>

\* ... unless the beacon is lost or its token has expired.
BeaconLost(b) ==
  /\ beacons' = beacons \ {b}
  /\ UNCHANGED <<server, storage, window, requests, stream, cached, history>>

\* Another browser logs in or out, or the cron runs.
Elsewhere(s) ==
  /\ s \in live
  /\ \E T \in {{}, {s} \cap streaming} : Registry!Close({s}, T) /\ inbox' = inbox \cup T
  /\ UNCHANGED <<scenario, storage, window, requests, connecting, streaming, reader, timerRef, timers,
                 beacons, cached, history>>

Next ==
  \/ \E s \in Login :
       \/ \E u \in User : SubmitLogin(s, u)
       \/ ForceLogin(s)
       \/ LoginStep(s)
       \/ Connected(s) \/ ConnectFails(s) \/ Reconnect(s) \/ StreamEnds(s) \/ ReceiveLogout(s)
       \/ Elsewhere(s)
  \/ \E q \in Fetch : Ask(q) \/ ChangePassword(q) \/ Logout(q) \/ CallStep(q)
  \/ \E b \in beacons : BeaconArrives(b) \/ BeaconLost(b)
  \/ CancelLogin
  \/ Load
  \/ CloseTab

Spec == Init /\ [][Next]_vars

---------------------------------------------------------------------------
(* Properties *)

\* A tab that was logged out, by its user, by the server or by a refused refresh,
\* stays logged out until a login is answered: no token that arrives late, and no
\* page load, brings the former login back.
StaysOut ==
  [][~isAuthenticated /\ isAuthenticated'
       => \E s \in Login : login[s].step = "granted" /\ login'[s].step = "done"]_vars

\* Answers that come after their login was left are not thrown away: a refresh
\* writes its token, a connection becomes the tab's stream, and the two refs the
\* clean-up goes by are overwritten. Without one, the tab acts for the account it
\* shows, and only for the session it holds is there a stream or a timer, through
\* every reconnect, parallel refresh and change of account.
OwnAnswersOnly ==
  overtaken = {} =>
    /\ isAuthenticated => Owner(access) = user
    /\ streaming \cup timers \subseteq {access}

\* A logout event logs a tab out only when the session the tab holds is closed, or
\* when it comes on a stream of a login the tab has left.
EventsHitTheirSession ==
  [][\A s \in inbox :
       s \notin inbox' /\ isAuthenticated /\ ~isAuthenticated' /\ leaving'
         => access \notin live \/ overtaken # {}]_vars

\* The query cache is never cleared. What it holds of another account than the one
\* shown comes from before a logout by the button, or from an answer that came after
\* its login was left; a forced logout reloads the page and empties it.
CacheForgets ==
  isAuthenticated /\ ~softLogout /\ overtaken = {} => cached \subseteq {user}

\* A request is repeated once, however often the server answers 401 (a wrong
\* current password is answered 401 with every token).
RepeatedOnce == \A q \in Fetch : repeats[q] <= 1

\* Every reachable state is well typed, and what the tab holds, sends and caches is
\* that of its login.
TabIsOwn == TypeOK /\ OwnAnswersOnly /\ CacheForgets /\ RepeatedOnce

=============================================================================
