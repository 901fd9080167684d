-------------------------------- MODULE Auth --------------------------------
(***************************************************************************)
(* Logging in with the mix-ins of tornado.auth.  One browser, with its one *)
(* cookie jar, has several tabs; each logs in once.  A login is two        *)
(* requests: one that redirects to the service, and one, when the user     *)
(* comes back, that asks the service who it is, in up to three fetches.    *)
(* A fetch ends well, with an error, with a body that cannot be decoded,   *)
(* or with one that holds no user; those of several tabs end in any order. *)
(*                                                                         *)
(* A request token, with its secret, is named for the tab it was made for. *)
(* A response reaches the browser when it is finished; nothing is written  *)
(* before the handler is told.  Signatures, arguments and the fields of a  *)
(* user are the data this leaves out.                                      *)
(***************************************************************************)
EXTENDS Naturals, FiniteSets

CONSTANTS Tabs, Mixins

VARIABLES
  mixin,   \* the mix-in of the application's handlers
  style,   \* they are coroutines, or pass callbacks (FacebookMixin's must)
  logs,    \* a Future swallows what its callbacks raise (concurrent.futures)
           \* or lets it out (the substitute)
  jar,     \* the cookie _oauth_request_token: a tab's token, or none
  login    \* of each tab

au == <<mixin, style, logs, jar, login>>

OAuth == {"oauth", "twitter", "friendfeed"} \* with a request token
Nobody == "nobody"

Init ==
  /\ mixin \in Mixins /\ style \in {"coroutine", "callback"} /\ logs \in BOOLEAN
  /\ mixin = "facebook" => style = "callback"
  /\ jar = Nobody
  /\ login = [t \in Tabs |->
       [at      |-> "start",
        token   |-> Nobody, \* the request token of the cookie that was sent
        hybrid  |-> FALSE,  \* Google was asked for a request token
        future  |-> "none", \* of get_authenticated_user: "user", "nameless" for a
                            \* user without fields, "None" for nobody, an error
        clears  |-> FALSE,  \* the response will clear the cookie
        answer  |-> "none",
        wrong   |-> {}]]    \* the fetches that did not end well, or the cookie

Waiting == {"token", "access", "info", "check"} \* for a fetch
Outcomes == {"good", "error", "garbage", "empty"}

Step(t, l) == login' = [login EXCEPT ![t] = l] /\ UNCHANGED <<mixin, style, logs>>

\* l after an outcome.
After(l, outcome) == IF outcome = "good" THEN l ELSE [l EXCEPT !.wrong = @ \union {l.at}]

-----------------------------------------------------------------------------
\* async_callback's wrapper: the error page; the future is left as it is.  The
\* cookies set so far go with it.
HandleRequestException(t, l) ==
  /\ Step(t, [l EXCEPT !.at = "end", !.answer = "error"])
  /\ jar' = IF l.clears THEN Nobody ELSE jar

\* What a callback raises that a future calls goes to the log, or on to whoever
\* resolved the future.  FacebookMixin calls it without a future.
Swallowed == style = "callback" /\ logs /\ mixin # "facebook"

\* future.set_result or set_exception: the coroutine goes on, or
\* _auth_future_to_callback has the handler's callback called, with None for
\* an AuthError.  It raises another exception itself.
Resolve(t, l, result) ==
  LET resolved == [l EXCEPT !.future = result]
  IN IF style = "coroutine" \/ result # "exception"
       THEN Step(t, [resolved EXCEPT !.at = "told"]) /\ UNCHANGED jar
     ELSE IF Swallowed
       THEN Step(t, [resolved EXCEPT !.at = "hangs"]) /\ UNCHANGED jar
       ELSE HandleRequestException(t, resolved)

\* The handler has the result, and ends the request.
AnswerPage(t) ==
  /\ login[t].at = "told"
  /\ Step(t, [login[t] EXCEPT !.at = "end", !.answer = "page"])
  /\ jar' = IF login[t].clears THEN Nobody ELSE jar

\* It raises before it wrote anything.
AnswerFails(t) ==
  /\ login[t].at = "told"
  /\ IF Swallowed
       THEN Step(t, [login[t] EXCEPT !.at = "hangs", !.answer = "lost"]) /\ UNCHANGED jar
       ELSE HandleRequestException(t, login[t])

\* It raises after it flushed: _execute ends the response of a coroutine, but
\* async_callback, which has a callback's exception, only logs it.
AnswerBreaksOff(t) ==
  /\ login[t].at = "told"
  /\ Step(t, [login[t] EXCEPT !.at = IF style = "coroutine" THEN "end" ELSE "hangs",
                              !.answer = "cut"])
  /\ jar' = IF login[t].clears THEN Nobody ELSE jar

Answer(t) == AnswerPage(t) \/ AnswerFails(t) \/ AnswerBreaksOff(t)

\* OpenIdMixin.authenticate_redirect
OpenIdRedirect(t) == Step(t, [login[t] EXCEPT !.at = "service"])

\* GoogleMixin.authorize_redirect: the service is asked for a request token too.
GoogleRedirect(t) == Step(t, [login[t] EXCEPT !.at = "service", !.hybrid = TRUE])

\* OAuth2Mixin.authorize_redirect
OAuth2Redirect(t) == Step(t, [login[t] EXCEPT !.at = "service"])

\* FacebookMixin.authenticate_redirect
FacebookRedirect(t) == Step(t, [login[t] EXCEPT !.at = "service"])

\* OAuthMixin.authorize_redirect: fetches a request token.
OAuthRedirect(t) == Step(t, [login[t] EXCEPT !.at = "token"])

\* TwitterMixin.authenticate_redirect
TwitterRedirect(t) == Step(t, [login[t] EXCEPT !.at = "token"])

\* The first request of a login.
AuthorizeRedirect(t) ==
  /\ login[t].at = "start"
  /\ CASE mixin = "openid"        -> OpenIdRedirect(t)
       [] mixin = "google"        -> OpenIdRedirect(t) \/ GoogleRedirect(t)
       [] mixin = "facebookgraph" -> OAuth2Redirect(t)
       [] mixin = "facebook"      -> FacebookRedirect(t)
       [] mixin = "twitter"       -> OAuthRedirect(t) \/ TwitterRedirect(t)
       [] OTHER                   -> OAuthRedirect(t)
  /\ UNCHANGED jar

\* _on_request_token
OnRequestToken(t, outcome) ==
  LET l == After(login[t], outcome) IN
  /\ login[t].at = "token" /\ outcome # "empty"
  /\ IF outcome = "good"
       THEN Step(t, [l EXCEPT !.at = "service"]) /\ jar' = t
       ELSE HandleRequestException(t, l)

\* A bug: the cookie is not compared with the argument oauth_token.
TokenMatchesAny(t) == TRUE

\* The token in the cookie is the one that comes back.
TokenMatches(t) == jar = t

\* OAuthMixin.get_authenticated_user
OAuthUser(t) ==
  LET l       == login[t]
      cleared == [l EXCEPT !.clears = TRUE, !.token = jar,
                           !.wrong = IF jar = t THEN @ ELSE @ \union {"cookie"}]
  IN IF jar = Nobody
       THEN Resolve(t, [l EXCEPT !.wrong = @ \union {"cookie"}], "AuthError")
     ELSE IF ~TokenMatches(t) THEN Resolve(t, cleared, "AuthError")
     ELSE Step(t, [cleared EXCEPT !.at = "access"]) /\ UNCHANGED jar

\* The others have all they need in the request.
Fetch(t, at) == Step(t, [login[t] EXCEPT !.at = at, !.token = t]) /\ UNCHANGED jar

\* OpenIdMixin.get_authenticated_user
OpenIdUser(t) == Fetch(t, "check")

\* GoogleMixin.get_authenticated_user: the request token, if it was granted.
GoogleUser(t) ==
  \/ login[t].hybrid /\ Fetch(t, "access")
  \/ /\ Step(t, [login[t] EXCEPT !.at = "check", !.token = t, !.hybrid = FALSE])
     /\ UNCHANGED jar

\* FacebookMixin.get_authenticated_user
FacebookUser(t) == Fetch(t, "info")

\* FacebookGraphMixin.get_authenticated_user
FacebookGraphUser(t) == Fetch(t, "access")

\* The user comes back from the service, with what was granted to this tab.
GetAuthenticatedUser(t) ==
  /\ login[t].at = "service"
  /\ CASE mixin \in OAuth           -> OAuthUser(t)
       [] mixin = "google"          -> GoogleUser(t)
       [] mixin = "openid"          -> OpenIdUser(t)
       [] mixin = "facebook"        -> FacebookUser(t)
       [] mixin = "facebookgraph"   -> FacebookGraphUser(t)

\* A bug: an error is reported to nobody.
OnAccessTokenSilent(t, outcome) ==
  /\ login[t].at = "access" /\ outcome # "empty"
  /\ Step(t, [After(login[t], outcome) EXCEPT
               !.at = IF outcome # "good" THEN "hangs"
                      ELSE IF mixin = "google" THEN "check" ELSE "info"])
  /\ UNCHANGED jar

\* OAuthMixin._on_access_token: with the token, who is it?  (FriendFeed's
\* _oauth_get_user_future takes an argument that it is not called with.)
OnAccessToken(t, outcome) ==
  LET l == After(login[t], outcome) IN
  /\ login[t].at = "access" /\ outcome # "empty"
  /\ \/ outcome = "error" /\ Resolve(t, l, "AuthError")
     \/ outcome = "garbage" /\ HandleRequestException(t, l)
     \/ outcome = "good" /\ mixin = "friendfeed" /\ Resolve(t, l, "exception")
     \/ /\ outcome = "good" /\ mixin # "friendfeed" /\ UNCHANGED jar
        /\ Step(t, [l EXCEPT !.at = IF mixin = "google" THEN "check" ELSE "info"])

\* _on_oauth_get_user: what the subclass's _oauth_get_user_future came to,
\* which may be any exception.
OnOAuthGetUser(t, l, outcome) ==
  \/ outcome \in {"error", "empty"} /\ Resolve(t, l, "AuthError")
  \/ outcome = "garbage" /\ Resolve(t, l, "exception")

\* twitter_request: a body that is not JSON ends in async_callback, one without
\* a screen name in the coroutine that asked.
OnTwitterRequest(t, l, outcome) ==
  OnOAuthGetUser(t, l, outcome) \/ (outcome = "garbage" /\ HandleRequestException(t, l))

\* facebook_request and _on_get_user_info of FacebookGraphMixin: an AuthError
\* comes back as None, and only None is nobody: any object is a user, also one
\* without the fields of one, and what is no object fails in async_callback.
OnFacebookRequest(t, l, outcome) ==
  \/ outcome \in {"error", "empty"} /\ Resolve(t, l, "None")
  \/ outcome = "empty" /\ Resolve(t, l, "nameless")
  \/ outcome \in {"garbage", "empty"} /\ HandleRequestException(t, l)

\* facebook_request, _parse_response and _on_get_user_info of FacebookMixin: an
\* error, in HTTP or in the body, and a body that is not JSON are None; JSON
\* that is no list of a user with all fields fails in async_callback.
ParseResponse(t, l, outcome) ==
  \/ Resolve(t, l, "None")
  \/ outcome = "empty" /\ HandleRequestException(t, l)

\* The service has answered who it is.
OnUserInfo(t, outcome) ==
  LET l == After(login[t], outcome) IN
  /\ login[t].at = "info"
  /\ IF outcome = "good" THEN Resolve(t, l, "user")
     ELSE CASE mixin = "oauth"         -> OnOAuthGetUser(t, l, outcome)
            [] mixin = "twitter"       -> OnTwitterRequest(t, l, outcome)
            [] mixin = "facebookgraph" -> OnFacebookRequest(t, l, outcome)
            [] mixin = "facebook"      -> ParseResponse(t, l, outcome)

\* A bug: any answer verifies the user.
ConfirmedByAnyone(outcome) == outcome # "error"

\* The response confirms the user: is_valid:true.
Confirmed(outcome) == outcome \in {"good", "empty"}

\* _on_authentication_verified, and _on_oauth_get_user for Google's hybrid.
OnAuthenticationVerified(t, outcome) ==
  LET l == After(login[t], outcome) IN
  /\ login[t].at = "check"
  /\ CASE ~Confirmed(outcome) -> Resolve(t, l, "AuthError")
       [] outcome = "empty" -> Resolve(t, l, IF l.hybrid THEN "AuthError" ELSE "None")
       [] OTHER -> Resolve(t, l, "user")

Fetched(t) == \E outcome \in Outcomes :
  \/ OnRequestToken(t, outcome) \/ OnAccessToken(t, outcome)
  \/ OnUserInfo(t, outcome) \/ OnAuthenticationVerified(t, outcome)

Next == \E t \in Tabs : AuthorizeRedirect(t) \/ GetAuthenticatedUser(t) \/ Fetched(t) \/ Answer(t)

\* A fetch ends (AsyncHTTPClient has timeouts), and a handler that was told its
\* user ends the request or raises.
Fairness == \A t \in Tabs : WF_au(Fetched(t)) /\ WF_au(Answer(t))

Spec == Init /\ [][Next]_au
FairSpec == Spec /\ Fairness

-----------------------------------------------------------------------------
\* A login gives the user of its own token (auth.py:350-382, 452-500, 917-946):
\* never the one of another tab, though the cookie holds only the last one
\* asked for; the user when everything went well, and only then.  The one
\* result that looks like a user and is none is Facebook Graph's for an object
\* without fields (auth.py:1226-1236), and then its token was good.  (Two logins
\* at a time may spoil each other: the cookie is overwritten by the later one,
\* and cleared by the answer of the earlier one.)
LoginsGiveTheirUser == \A t \in Tabs :
  LET l == login[t] IN
    /\ l.future \in {"user", "nameless"} => l.token = t
    /\ l.future = "user" => l.wrong = {}
    /\ l.future = "nameless" => mixin = "facebookgraph" /\ l.wrong = {"info"}
    /\ l.at = "end" /\ l.wrong = {} => l.future = "user"

\* No request hangs (auth.py:82-109, 409-500, web.py:1084-1103): whatever the
\* service says in each of the fetches, the handler is told, and its request ends
\* with its page or an error.  The exceptions are all of handlers with callbacks:
\* where futures log what callbacks raise, an exception that is no AuthError
\* and those of the callback itself are lost; and the callback may raise after
\* it flushed.
LoginsEnd == \A t \in Tabs :
  login[t].at \in Waiting \union {"told"} ~>
    \/ login[t].at \in {"service", "end"}
    \/ style = "callback" /\ login[t].answer = "cut"
    \/ Swallowed /\ (login[t].future = "exception" \/ login[t].answer = "lost")
=============================================================================
