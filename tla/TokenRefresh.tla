----------------------------- MODULE TokenRefresh -----------------------------
(***************************************************************************)
(* The API calls of the browser: the axios interceptors of api/client.ts,  *)
(* and login and logout (auth.service.ts, AuthContext.tsx).                *)
(*                                                                         *)
(* A call that is refused with 401 has the access token refreshed and is   *)
(* sent again; calls refused meanwhile wait in a queue for that refresh.   *)
(* Tabs share localStorage, and each has its own queue.                    *)
(*                                                                         *)
(* JavaScript runs one event at a time: an action is the arrival of one    *)
(* response with everything that runs before the next event, the promise   *)
(* callbacks included.  The server answers in an action of its own, so     *)
(* that answers are delayed and overtake each other.                       *)
(*                                                                         *)
(* A definition named Operator_Change is a variant of Operator with a      *)
(* plausible mistake in it; no specification uses it.                      *)
(***************************************************************************)
EXTENDS Naturals, Sequences, FiniteSets

CONSTANTS
    Tabs,           \* the browser's tabs
    Calls,          \* the API calls made
    Tab,            \* the tab that makes a call
    Kind,           \* what a call is
    StartPage,      \* the page a tab shows to begin with
    MaxTokens       \* bound: access tokens issued in a behaviour

VARIABLES
    storage,        \* localStorage: the access and the refresh token
    isRefreshing,   \* the flag of a tab
    failedQueue,    \* the calls of a tab that wait for its refresh
    refresh,        \* the refresh request of a tab
    call,           \* where each call is
    leaving,        \* the page a tab is about to load, or "stay"
    page,           \* the page a tab shows
    tokens,         \* the access tokens issued: their session, and if they are valid
    dead            \* the sessions (refresh tokens) the server refuses

client == <<storage, isRefreshing, failedQueue, leaving, page>>
server == <<tokens, dead>>
vars   == <<client, refresh, call, server>>
-----------------------------------------------------------------------------
Kinds == {"api", "login", "logout"}

ASSUME TokenAssumption ==
    /\ Tab \in [Calls -> Tabs]
    /\ Kind \in [Calls -> Kinds]
    /\ StartPage \in [Tabs -> {"app", "login"}]
    /\ MaxTokens \in Nat \ {0}

\* Tokens and sessions are numbers; 0 is none.  The session a login opens has the
\* number of its first access token.
Token == 0 .. MaxTokens

Places == {"new", "sent", "answered", "queued", "refreshing", "ended", "lost"}

\* token: the access token a call was sent with; session: the refresh token a
\* logout carries; _retry: it has been sent again by a refresh of its own.
Call == [at : Places, token : Token, session : Token, retry : BOOLEAN,
         answer : {"none", "ok", "401", "error"}, grant : Token]

\* token: the refresh token posted; answer: the new access token, 0 for a failure.
Refresh == [at : {"none", "sent", "answered"}, token : Token, answer : Token]

NewCall   == [at |-> "new", token |-> 0, session |-> 0, retry |-> FALSE,
              answer |-> "none", grant |-> 0]
NoRefresh == [at |-> "none", token |-> 0, answer |-> 0]

\* The browser holds the tokens of session 1.
Init == /\ storage = [access |-> 1, refresh |-> 1]
        /\ isRefreshing = [t \in Tabs |-> FALSE]
        /\ failedQueue = [t \in Tabs |-> <<>>]
        /\ refresh = [t \in Tabs |-> NoRefresh]
        /\ call = [c \in Calls |-> NewCall]
        /\ leaving = [t \in Tabs |-> "stay"]
        /\ page = StartPage
        /\ tokens = <<[session |-> 1, valid |-> TRUE]>>
        /\ dead = {}
-----------------------------------------------------------------------------
\* What the client does

NoTokens == [access |-> 0, refresh |-> 0]

Queued(t) == {failedQueue[t][k] : k \in DOMAIN failedQueue[t]}

\* The request interceptor puts the stored access token on a call.
Sent(r, store) == [r EXCEPT !.at = "sent", !.token = store.access, !.answer = "none"]

Ended(r) == [r EXCEPT !.at = "ended"]

Leave(t, where) == [leaving EXCEPT ![t] = where]

\* redirectToLogin reloads nothing on the login page itself.
RedirectToLogin(t) == IF page[t] = "login" THEN leaving ELSE Leave(t, "login")

\* A page makes a call: a login on the login page, a logout in the app, others
\* anywhere, also while the next page is on its way.  A logout without a refresh
\* token only clears the storage.
Make(c) ==
    LET t == Tab[c] IN
    /\ call[c].at = "new"
    /\ Kind[c] = "login" => page[t] = "login"
    /\ Kind[c] = "logout" => page[t] = "app"
    /\ IF Kind[c] = "logout" /\ storage.refresh = 0
       THEN /\ call' = [call EXCEPT ![c] = Ended(@)]
            /\ storage' = NoTokens
            /\ leaving' = Leave(t, "login")
       ELSE /\ call' = [call EXCEPT ![c] =
                  [Sent(@, storage) EXCEPT !.session = storage.refresh]]
            /\ UNCHANGED <<storage, leaving>>
    /\ UNCHANGED <<isRefreshing, failedQueue, refresh, page, server>>

\* What a logout leaves in the storage, however it ends.
LogoutStorage_KeepsRefresh == [storage EXCEPT !.access = 0]
LogoutStorage == NoTokens

\* A response that is no 401 (or a time-out) ends the call: a login stores its
\* tokens and loads the app, a logout clears them and loads the login page.
Finish(c) ==
    LET t == Tab[c] IN
    /\ call[c].at = "answered"
    /\ call[c].answer # "401" \/ call[c].retry
    /\ call' = [call EXCEPT ![c] = Ended(@)]
    /\ CASE Kind[c] = "login" /\ call[c].answer = "ok" ->
              /\ storage' = [access |-> call[c].grant, refresh |-> call[c].grant]
              /\ leaving' = Leave(t, "app")
         [] Kind[c] = "logout" ->
              /\ storage' = LogoutStorage
              /\ leaving' = Leave(t, "login")
         [] OTHER -> UNCHANGED <<storage, leaving>>
    /\ UNCHANGED <<isRefreshing, failedQueue, refresh, page, server>>

Unauthorized(c) == call[c].at = "answered" /\ call[c].answer = "401" /\ ~call[c].retry

Joins_Never(t) == FALSE
Joins(t) == isRefreshing[t]

\* 401 while the tab is refreshing: the call joins the queue.
JoinQueue(c) ==
    LET t == Tab[c] IN
    /\ Unauthorized(c)
    /\ Joins(t)
    /\ call' = [call EXCEPT ![c].at = "queued"]
    /\ failedQueue' = [failedQueue EXCEPT ![t] = Append(@, c)]
    /\ UNCHANGED <<storage, isRefreshing, refresh, leaving, page, server>>

\* 401 otherwise: the call has the token refreshed.
StartRefresh(c) ==
    LET t == Tab[c] IN
    /\ Unauthorized(c)
    /\ ~Joins(t)
    /\ storage.refresh # 0
    /\ isRefreshing' = [isRefreshing EXCEPT ![t] = TRUE]
    /\ refresh' = [refresh EXCEPT ![t] = [at |-> "sent", token |-> storage.refresh, answer |-> 0]]
    /\ call' = [call EXCEPT ![c].at = "refreshing", ![c].retry = TRUE]
    /\ UNCHANGED <<storage, failedQueue, leaving, page, server>>

\* ... but without a refresh token it is rejected and the user sent to log in.
NoRefreshToken(c) ==
    LET t == Tab[c] IN
    /\ Unauthorized(c)
    /\ ~Joins(t)
    /\ storage.refresh = 0
    /\ call' = [call EXCEPT ![c] = [Ended(@) EXCEPT !.retry = TRUE]]
    /\ storage' = NoTokens
    /\ leaving' = IF Kind[c] = "logout" THEN Leave(t, "login") ELSE RedirectToLogin(t)
    /\ UNCHANGED <<isRefreshing, failedQueue, refresh, page, server>>

Refreshing(t) == {c \in Calls : Tab[c] = t /\ call[c].at = "refreshing"}

Stored_HeaderOnly(token) == storage
Stored(token) == [storage EXCEPT !.access = token]

\* The new token is stored; the queued calls and the one that asked are sent again.
\* (The backend never answers 200 with success false.)
RefreshSucceeds(t) ==
    LET again == Queued(t) \cup Refreshing(t) IN
    /\ refresh[t].at = "answered"
    /\ refresh[t].answer # 0
    /\ storage' = Stored(refresh[t].answer)
    /\ call' = [c \in Calls |-> IF c \in again THEN Sent(call[c], storage') ELSE call[c]]
    /\ failedQueue' = [failedQueue EXCEPT ![t] = <<>>]
    /\ isRefreshing' = [isRefreshing EXCEPT ![t] = FALSE]
    /\ refresh' = [refresh EXCEPT ![t] = NoRefresh]
    /\ UNCHANGED <<leaving, page, server>>

\* The calls a failed refresh rejects.
Rejected_StarterOnly(t) == Refreshing(t)
Rejected(t) == Queued(t) \cup Refreshing(t)

\* They are rejected, the tokens removed, and the user sent to log in.
RefreshFails(t) ==
    /\ refresh[t].at = "answered"
    /\ refresh[t].answer = 0
    /\ storage' = NoTokens
    /\ call' = [c \in Calls |-> IF c \in Rejected(t) THEN Ended(call[c]) ELSE call[c]]
    /\ failedQueue' = [failedQueue EXCEPT ![t] = <<>>]
    /\ isRefreshing' = [isRefreshing EXCEPT ![t] = FALSE]
    /\ refresh' = [refresh EXCEPT ![t] = NoRefresh]
    /\ leaving' = IF \E c \in Rejected(t) : Kind[c] = "logout"
                  THEN Leave(t, "login") ELSE RedirectToLogin(t)
    /\ UNCHANGED <<page, server>>

\* The browser loads the next page: the calls of the old one are dropped, and
\* whatever it had in memory.
Unload(t) ==
    /\ leaving[t] # "stay"
    /\ page' = [page EXCEPT ![t] = leaving[t]]
    /\ leaving' = [leaving EXCEPT ![t] = "stay"]
    /\ call' = [c \in Calls |->
                   IF Tab[c] = t /\ call[c].at \notin {"new", "ended"}
                   THEN [call[c] EXCEPT !.at = "lost"] ELSE call[c]]
    /\ isRefreshing' = [isRefreshing EXCEPT ![t] = FALSE]
    /\ failedQueue' = [failedQueue EXCEPT ![t] = <<>>]
    /\ refresh' = [refresh EXCEPT ![t] = NoRefresh]
    /\ UNCHANGED <<storage, server>>
-----------------------------------------------------------------------------
\* What the server does

Answer(c, answer) == call' = [call EXCEPT ![c].at = "answered", ![c].answer = answer]

\* A new access token for a session.
Issue(session) == /\ Len(tokens) < MaxTokens
                  /\ tokens' = Append(tokens, [session |-> session, valid |-> TRUE])

\* An ordinary call is authorised by its access token alone.
ServeApi(c) ==
    /\ call[c].at = "sent" /\ Kind[c] = "api"
    /\ Answer(c, IF call[c].token # 0 /\ tokens[call[c].token].valid THEN "ok" ELSE "401")
    /\ UNCHANGED <<client, refresh, server>>

\* A login opens a session, or the password is wrong.
ServeLogin(c) ==
    /\ call[c].at = "sent" /\ Kind[c] = "login"
    /\ \/ /\ Issue(Len(tokens) + 1)
          /\ call' = [call EXCEPT ![c].at = "answered", ![c].answer = "ok",
                                  ![c].grant = Len(tokens')]
          /\ UNCHANGED dead
       \/ /\ Answer(c, "401")
          /\ UNCHANGED server
    /\ UNCHANGED <<client, refresh>>

\* A logout revokes the session of the refresh token it carries; an expired one is
\* refused with 401.
ServeLogout(c) ==
    /\ call[c].at = "sent" /\ Kind[c] = "logout"
    /\ \/ Answer(c, "ok") /\ dead' = dead \cup {call[c].session}
       \/ Answer(c, "401") /\ call[c].session \in dead /\ UNCHANGED dead
    /\ UNCHANGED <<client, refresh, tokens>>

\* The server fails, or the answer does not come within the time-out.
FailCall(c) ==
    /\ call[c].at = "sent"
    /\ Answer(c, "error")
    /\ UNCHANGED <<client, refresh, server>>

\* A refresh is answered with a new access token while its session lives, and
\* fails otherwise; it can fail at any time.
ServeRefresh(t) ==
    /\ refresh[t].at = "sent"
    /\ \/ /\ refresh[t].token \notin dead
          /\ Issue(refresh[t].token)
          /\ refresh' = [refresh EXCEPT ![t].at = "answered", ![t].answer = Len(tokens')]
       \/ /\ refresh' = [refresh EXCEPT ![t].at = "answered"]
          /\ UNCHANGED tokens
    /\ UNCHANGED <<client, call, dead>>

\* Access tokens expire, sessions expire or are revoked.
Expire ==
    /\ \/ /\ \E k \in DOMAIN tokens : tokens' = [tokens EXCEPT ![k].valid = FALSE]
          /\ UNCHANGED dead
       \/ /\ dead' = dead \cup ({storage.refresh} \ {0})
          /\ UNCHANGED tokens
    /\ UNCHANGED <<client, refresh, call>>
-----------------------------------------------------------------------------
Done == \A c \in Calls : call[c].at \in {"new", "ended", "lost"}

\* Nothing is under way; pages may have no calls left to make.
Idle == Done /\ UNCHANGED vars

Handle(c) == Finish(c) \/ JoinQueue(c) \/ StartRefresh(c) \/ NoRefreshToken(c)
Serve(c)  == ServeApi(c) \/ ServeLogin(c) \/ ServeLogout(c) \/ FailCall(c)
EndRefresh(t) == RefreshSucceeds(t) \/ RefreshFails(t)

Next == \/ \E c \in Calls : Make(c) \/ Handle(c) \/ Serve(c)
        \/ \E t \in Tabs : EndRefresh(t) \/ ServeRefresh(t) \/ Unload(t)
        \/ Expire
        \/ Idle

\* Requests are answered or fail, and the browser handles what arrives.
Fairness == /\ \A c \in Calls : WF_vars(Serve(c)) /\ WF_vars(Handle(c))
            /\ \A t \in Tabs : WF_vars(ServeRefresh(t)) /\ WF_vars(EndRefresh(t))

Spec == Init /\ [][Next]_vars
FairSpec == Spec /\ Fairness
=============================================================================
