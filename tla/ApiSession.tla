------------------------------ MODULE ApiSession ------------------------------
(***************************************************************************)
(* The HTTP session of JackeryApi (client/api.py): the token, the lock      *)
(* under which requests log in, the one automatic login that answers a      *)
(* refused token, and the login of the entry's setup, which takes no lock.  *)
(*                                                                          *)
(* A Jackery account has one session.  A login of anybody else (the mobile  *)
(* app) or of this client ends the session before it, and a request learns  *)
(* so when its token is refused.                                            *)
(*                                                                          *)
(* A token is a member of Tokens.  The cloud issues tokens that nobody      *)
(* holds, so the number of logins has no bound.                             *)
(***************************************************************************)
EXTENDS Naturals, Sequences, Queues

CONSTANTS
  Requests,       \* callers of _get_json, _put_json, _post_form, _post_json, _delete_json
  Repeating,      \* those that pass retry_transport_once
  Tokens,
  NoToken,
  SetupAttempts,  \* SETUP_LOGIN_MAX_ATTEMPTS
  Cooldown        \* AUTH_AUTO_RELOGIN_COOLDOWN_SEC, in units of CooldownTick

ASSUME ApiAssumption == SetupAttempts \in Nat \ {0} /\ Cooldown \in Nat

VARIABLES
  token,        \* JackeryApi._token
  apiLock,      \* JackeryApi._lock: the holder, then the waiters in order
  cooldown,     \* what is left of the cooldown since _last_auto_relogin_monotonic
  request,      \* each request at the await where it is suspended
  setup,        \* the login of _async_authenticate_api_layer
  session,      \* the token the cloud accepts; NoToken when it is somebody else's
  distrusted    \* history: the token in place has been refused

apiVars == <<token, apiLock, cooldown, request, setup, session, distrusted>>

(***************************************************************************)
(* ensure, recover: waiting for the lock in _ensure_token and in            *)
(* _relogin_and_retry_request.  login, relogin: inside async_login under    *)
(* it.  sent, resent: an attempt is in flight, before and after recovery.   *)
(***************************************************************************)
ApiStages == {"idle", "ensure", "login", "sent", "recover", "relogin", "resent"}

ApiRequest == [at      : ApiStages,
            used    : Tokens \cup {NoToken},   \* token_used
            sent    : Tokens \cup {NoToken},   \* the token header of the attempt in flight
            granted : Tokens \cup {NoToken},   \* what the cloud answered to the login
            again   : BOOLEAN]                 \* retry_pending

NoRequest == [at |-> "idle", used |-> NoToken, sent |-> NoToken, granted |-> NoToken,
         again |-> FALSE]

SetupState == [at : {"none", "login", "sleep", "done"}, attempt : 1 .. SetupAttempts,
               granted : Tokens \cup {NoToken}]

ApiTypeOK ==
  /\ token \in Tokens \cup {NoToken}
  /\ apiLock \in Seq(Requests)
  /\ cooldown \in 0 .. Cooldown
  /\ request \in [Requests -> ApiRequest]
  /\ setup \in SetupState
  /\ session \in Tokens \cup {NoToken}
  /\ distrusted \in BOOLEAN

ApiInit ==
  /\ token = NoToken
  /\ apiLock = << >>
  /\ cooldown = 0
  /\ request = [r \in Requests |-> NoRequest]
  /\ setup = [at |-> "none", attempt |-> 1, granted |-> NoToken]
  /\ session = NoToken
  /\ distrusted = FALSE

-------------------------------------------------------------------------------
(* Helpers.                                                                 *)

\* Tokens somebody still holds; the cloud issues none of them again.
TokensHeld == {token, session, setup.granted}
          \cup UNION {{request[r].used, request[r].sent, request[r].granted} :
                        r \in Requests}

HoldsApiLock(r)  == apiLock # << >> /\ Head(apiLock) = r

\* An attempt is sent with the token in place at that moment (_headers), if any.
AttemptSent(c, stage) == [c EXCEPT !.at = stage, !.sent = token]

\* async_login stores what the cloud granted.
StoresLogin(granted) ==
  /\ token' = granted
  /\ distrusted' = FALSE

-------------------------------------------------------------------------------
(* A request.                                                               *)

\* _ensure_token with a token in place, and the first attempt.
CallsWithToken(r) ==
  /\ request[r].at = "idle"
  /\ token # NoToken
  /\ request' = [request EXCEPT ![r] =
                   [AttemptSent(NoRequest, "sent") EXCEPT !.used = token, !.again = r \in Repeating]]
  /\ UNCHANGED <<token, apiLock, cooldown, setup, session, distrusted>>

\* _ensure_token without one: the lock is free and the login begins at once, or it waits.
CallsWithoutToken(r) ==
  /\ request[r].at = "idle"
  /\ token = NoToken
  /\ apiLock' = Append(apiLock, r)
  /\ request' = [request EXCEPT ![r] =
                   [NoRequest EXCEPT !.at = IF apiLock = << >> THEN "login" ELSE "ensure"]]
  /\ UNCHANGED <<token, cooldown, setup, session, distrusted>>

\* The lock has come to a waiting _ensure_token: it looks at the token once more.
EnsureGetsLock(r) ==
  /\ request[r].at = "ensure" /\ HoldsApiLock(r)
  /\ IF token = NoToken
       THEN /\ request' = [request EXCEPT ![r].at = "login"]
            /\ UNCHANGED apiLock
       ELSE /\ request' = [request EXCEPT ![r] =
                   [AttemptSent(@, "sent") EXCEPT !.used = token, !.again = r \in Repeating]]
            /\ apiLock' = Tail(apiLock)
  /\ UNCHANGED <<token, cooldown, setup, session, distrusted>>

\* async_login succeeds; the lock is released and the (next) attempt is sent.
LoginReturns(r) ==
  /\ request[r].at \in {"login", "relogin"}
  /\ request[r].granted # NoToken
  /\ StoresLogin(request[r].granted)
  /\ request' = [request EXCEPT ![r] =
       [at |-> IF @.at = "login" THEN "sent" ELSE "resent",
        used |-> IF @.at = "login" THEN @.granted ELSE @.used,
        sent |-> @.granted, granted |-> NoToken, again |-> r \in Repeating]]
  /\ apiLock' = Tail(apiLock)
  /\ UNCHANGED <<cooldown, setup, session>>

\* async_login raises: not reached, not answered, or rejected.
LoginFails(r) ==
  /\ request[r].at \in {"login", "relogin"}
  /\ request' = [request EXCEPT ![r] = NoRequest]
  /\ apiLock' = Tail(apiLock)
  /\ UNCHANGED <<token, cooldown, setup, session, distrusted>>

\* The attempt is answered and its token accepted.
RequestAccepted(r) ==
  /\ request[r].at \in {"sent", "resent"}
  /\ request[r].sent # NoToken /\ request[r].sent = session
  /\ request' = [request EXCEPT ![r] = NoRequest]
  /\ UNCHANGED <<token, apiLock, cooldown, setup, session, distrusted>>

(***************************************************************************)
(* The attempt fails in transport: it is repeated once if the caller asked  *)
(* for that, with the token of that moment, or the request raises.          *)
(***************************************************************************)
AttemptFails(r) ==
  /\ request[r].at \in {"sent", "resent"}
  /\ request' = [request EXCEPT ![r] =
       IF @.again THEN [AttemptSent(@, @.at) EXCEPT !.again = FALSE] ELSE NoRequest]
  /\ UNCHANGED <<token, apiLock, cooldown, setup, session, distrusted>>

\* The token in place is not the one that was refused: another request has logged in.
LoggedInMeanwhile_Never(used) == FALSE
LoggedInMeanwhile_AnyToken(used) == token # NoToken
LoggedInMeanwhile(used) == token # NoToken /\ token # used

\* _relogin_and_retry_request under the lock, with the other requests at rs.
RecoverUnderLock(r, rs, lock, doubt) ==
  IF LoggedInMeanwhile(rs[r].used)
    THEN /\ request' = [rs EXCEPT ![r] =
              [AttemptSent(@, "resent") EXCEPT !.again = r \in Repeating]]
         /\ apiLock' = Tail(lock)
         /\ distrusted' = doubt
         /\ UNCHANGED <<token, cooldown>>
    ELSE IF cooldown > 0
    THEN /\ request' = [rs EXCEPT ![r] = NoRequest]
         /\ apiLock' = Tail(lock)
         /\ distrusted' = doubt
         /\ UNCHANGED <<token, cooldown>>
    ELSE /\ request' = [rs EXCEPT ![r].at = "relogin"]
         /\ apiLock' = lock
         /\ cooldown' = Cooldown
         /\ token' = NoToken
         /\ distrusted' = FALSE

\* The first attempt is refused: recovery begins if the lock is free, or waits for it.
RefusedFirst(r) ==
  /\ request[r].at = "sent"
  /\ LET rs    == [request EXCEPT ![r].at = "recover", ![r].sent = NoToken]
         doubt == distrusted \/ (request[r].sent = token /\ token # NoToken)
     IN  IF apiLock = << >>
           THEN RecoverUnderLock(r, rs, <<r>>, doubt)
           ELSE /\ request' = rs
                /\ apiLock' = Append(apiLock, r)
                /\ distrusted' = doubt
                /\ UNCHANGED <<token, cooldown>>
  /\ UNCHANGED <<setup, session>>

RecoverGetsLock(r) ==
  /\ request[r].at = "recover" /\ HoldsApiLock(r)
  /\ RecoverUnderLock(r, request, apiLock, distrusted)
  /\ UNCHANGED <<setup, session>>

\* The attempt after recovery is refused too: JackeryAuthError.
RefusedAgain(r) ==
  /\ request[r].at = "resent"
  /\ request' = [request EXCEPT ![r] = NoRequest]
  /\ distrusted' = (distrusted \/ (request[r].sent = token /\ token # NoToken))
  /\ UNCHANGED <<token, apiLock, cooldown, setup, session>>

(***************************************************************************)
(* The task of the request is cancelled: a waiter leaves the queue, a       *)
(* holder releases the lock.  A cancelled re-login restores the time of the *)
(* one before, whose cooldown had passed.                                   *)
(***************************************************************************)
RequestCancelled(r) ==
  /\ request[r].at # "idle"
  /\ request' = [request EXCEPT ![r] = NoRequest]
  /\ apiLock' = Left(apiLock, r)
  /\ cooldown' = IF request[r].at = "relogin" THEN 0 ELSE cooldown
  /\ UNCHANGED <<token, setup, session, distrusted>>

-------------------------------------------------------------------------------
(* The setup's login, the cloud, and everybody else.                         *)

\* _async_authenticate_api_layer: async_login without the lock, repeated when rejected.
SetupLogin ==
  /\ setup.at \in {"none", "sleep"}
  /\ setup' = [setup EXCEPT !.at = "login"]
  /\ UNCHANGED <<token, apiLock, cooldown, request, session, distrusted>>

SetupLoginReturns ==
  /\ setup.at = "login" /\ setup.granted # NoToken
  /\ StoresLogin(setup.granted)
  /\ setup' = [setup EXCEPT !.at = "done", !.granted = NoToken]
  /\ UNCHANGED <<apiLock, cooldown, request, session>>

SetupLoginRejected_OneMore ==
  /\ setup.at = "login" /\ setup.granted = NoToken
  /\ setup' = IF setup.attempt <= SetupAttempts
                THEN [setup EXCEPT !.at = "sleep", !.attempt = @ + 1]
                ELSE [setup EXCEPT !.at = "done"]
  /\ UNCHANGED <<token, apiLock, cooldown, request, session, distrusted>>

SetupLoginRejected ==
  /\ setup.at = "login" /\ setup.granted = NoToken
  /\ setup' = IF setup.attempt < SetupAttempts
                THEN [setup EXCEPT !.at = "sleep", !.attempt = @ + 1]
                ELSE [setup EXCEPT !.at = "done"]
  /\ UNCHANGED <<token, apiLock, cooldown, request, session, distrusted>>

\* JackeryApiError, the setup's time limit, or the task is cancelled.
SetupLoginFails ==
  /\ setup.at \in {"login", "sleep"}
  /\ setup' = [setup EXCEPT !.at = "done", !.granted = NoToken]
  /\ UNCHANGED <<token, apiLock, cooldown, request, session, distrusted>>

\* The cloud serves a login: it opens a session and ends the one before.
CloudGrants(t) ==
  /\ t \notin TokensHeld
  /\ session' = t
  /\ \/ \E r \in Requests :
          /\ request[r].at \in {"login", "relogin"} /\ request[r].granted = NoToken
          /\ request' = [request EXCEPT ![r].granted = t]
          /\ UNCHANGED setup
     \/ /\ setup.at = "login" /\ setup.granted = NoToken
        /\ setup' = [setup EXCEPT !.granted = t]
        /\ UNCHANGED request
  /\ UNCHANGED <<token, apiLock, cooldown, distrusted>>

\* Someone else logs in, or a login reaches the cloud whose caller has gone.
SessionTaken ==
  /\ session # NoToken
  /\ session' = NoToken
  /\ UNCHANGED <<token, apiLock, cooldown, request, setup, distrusted>>

\* invalidate_mqtt_session_for_http_refresh, after the broker refused the seed.
BrokerRefused ==
  /\ token' = NoToken
  /\ distrusted' = FALSE
  /\ UNCHANGED <<apiLock, cooldown, request, setup, session>>

CooldownTick ==
  /\ cooldown > 0
  /\ cooldown' = cooldown - 1
  /\ UNCHANGED <<token, apiLock, request, setup, session, distrusted>>

RequestStep(r) ==
  \/ CallsWithToken(r) \/ CallsWithoutToken(r) \/ EnsureGetsLock(r)
  \/ LoginReturns(r) \/ LoginFails(r)
  \/ RequestAccepted(r) \/ AttemptFails(r)
  \/ RefusedFirst(r) \/ RecoverGetsLock(r) \/ RefusedAgain(r)
  \/ RequestCancelled(r)

SetupStep == SetupLogin \/ SetupLoginReturns \/ SetupLoginRejected \/ SetupLoginFails

\* One token is as good as another: the cloud grants a chosen one of those not held.
Grants == Tokens \ TokensHeld # {} /\ CloudGrants(CHOOSE t \in Tokens \ TokensHeld : TRUE)

ApiNext ==
  \/ \E r \in Requests : RequestStep(r)
  \/ SetupStep
  \/ Grants
  \/ SessionTaken
  \/ BrokerRefused
  \/ CooldownTick

ApiSpec == ApiInit /\ [][ApiNext]_apiVars

(***************************************************************************)
(* What the network and the event loop are assumed to do: the poll cycle    *)
(* keeps calling, answers come or time out, and now and then a login and a  *)
(* refusal reach the client.  Nothing is assumed of cancellations, of       *)
(* other clients, or of transport failures between.                         *)
(***************************************************************************)
ApiFairness ==
  /\ WF_apiVars(CooldownTick)
  /\ WF_apiVars(SetupLogin) /\ WF_apiVars(SetupLoginReturns \/ SetupLoginFails)
  /\ SF_apiVars(Grants)
  /\ \A r \in Requests :
       /\ WF_apiVars(CallsWithToken(r) \/ CallsWithoutToken(r))
       /\ SF_apiVars(EnsureGetsLock(r)) /\ SF_apiVars(RecoverGetsLock(r))
       /\ SF_apiVars(LoginReturns(r))
       /\ WF_apiVars(LoginReturns(r) \/ LoginFails(r))
       /\ WF_apiVars(RequestAccepted(r) \/ RefusedAgain(r) \/ AttemptFails(r))
       /\ SF_apiVars(RefusedFirst(r))

-------------------------------------------------------------------------------
(* Properties.                                                               *)

\* A re-login throws a token away only if that token has been refused: of several
\* requests refused with one token the first logs in and the others take its token,
\* whatever was repeated, invalidated or stored by the setup meanwhile.
FreshTokenKept ==
  [][\A r \in Requests :
       /\ request[r].at # "relogin" /\ request'[r].at = "relogin"
       /\ token # NoToken
       => \/ distrusted
          \/ request[r].at = "sent" /\ request[r].sent = token]_apiVars

\* Once the other clients and the broker leave the account alone, the client comes
\* to hold the session's token again and again: no refusal, failed login, cooldown,
\* cancellation or overtaken setup login leaves it with a dead token for good.
SessionRecovers ==
  <>[][~SessionTaken /\ ~BrokerRefused]_apiVars
    => []<>(token # NoToken /\ token = session)
===============================================================================
