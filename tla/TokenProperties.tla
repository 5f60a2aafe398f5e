--------------------------- MODULE TokenProperties ---------------------------
(* What should be true of the browser's API calls. *)
EXTENDS TokenRefresh

\* Variables have their types.
TypeOK ==
    /\ storage \in [access : Token, refresh : Token]
    /\ isRefreshing \in [Tabs -> BOOLEAN]
    /\ failedQueue \in [Tabs -> Seq(Calls)]
    /\ refresh \in [Tabs -> Refresh]
    /\ call \in [Calls -> Call]
    /\ leaving \in [Tabs -> {"stay", "app", "login"}]
    /\ page \in [Tabs -> {"app", "login"}]
    /\ tokens \in Seq([session : Token, valid : BOOLEAN]) /\ Len(tokens) <= MaxTokens
    /\ dead \subseteq Token

\* Nobody is left waiting: the calls of a tab that wait are the ones in its queue,
\* each once, and they wait for a refresh that is under way for exactly one call
\* (isRefreshing, failedQueue).
QueueIsServed ==
    \A t \in Tabs :
        /\ Queued(t) = {c \in Calls : Tab[c] = t /\ call[c].at = "queued"}
        /\ Len(failedQueue[t]) = Cardinality(Queued(t))
        /\ failedQueue[t] # <<>> => isRefreshing[t]
        /\ isRefreshing[t] <=> refresh[t].at # "none"
        /\ Cardinality(Refreshing(t)) = IF isRefreshing[t] THEN 1 ELSE 0

\* A call is never sent again with the token it was refused with (the response
\* interceptor stores the new token before it releases the queue).
RetriesUseNewToken ==
    [][\A c \in Calls :
          call[c].at \in {"queued", "refreshing"} /\ call'[c].at = "sent"
              => call'[c].token # call[c].token]_vars

\* Every call that is made is answered to its caller, or dropped with its page: no
\* refusal, however many calls it meets, leaves one waiting for ever.
CallsAreAnswered ==
    \A c \in Calls : call[c].at = "sent" ~> call[c].at \in {"ended", "lost"}

\* The two tokens stored are of one session, so that a call is made for the user who
\* logged in last.  (One tab that began in the app: a refresh that a login overtakes
\* mixes them.)
TokensBelongTogether ==
    storage.access # 0 /\ storage.refresh # 0 =>
        tokens[storage.access].session = storage.refresh

\* "Client clears all tokens from storage" at logout (18_Security_Architecture, 2.5):
\* without a refresh token there is no access token either.
TokensCleared == storage.refresh = 0 => storage.access = 0

-----------------------------------------------------------------------------
\* The invariant behind the properties of any number of tabs

\* The queue of a tab holds each call that waits once, and waits for the refresh
\* of one call.
QueueOK(t) ==
    /\ Queued(t) = {c \in Calls : Tab[c] = t /\ call[c].at = "queued"}
    /\ \A j, k \in DOMAIN failedQueue[t] : failedQueue[t][j] = failedQueue[t][k] => j = k
    /\ failedQueue[t] # <<>> => refresh[t].at # "none"
    /\ isRefreshing[t] <=> refresh[t].at # "none"
    /\ IF refresh[t].at # "none" THEN \E c \in Calls : Refreshing(t) = {c}
                                 ELSE Refreshing(t) = {}

\* Every token the browser has seen was issued.
TokensKnown ==
    /\ storage.access <= Len(tokens)
    /\ \A c \in Calls : call[c].token <= Len(tokens) /\ call[c].grant <= Len(tokens)
    /\ \A t \in Tabs : refresh[t].answer <= Len(tokens)

\* A refreshed token that has not arrived yet is in use nowhere.
AnswerFresh(t) ==
    refresh[t].answer # 0 =>
        /\ storage.access # refresh[t].answer
        /\ \A c \in Calls : /\ call[c].token # refresh[t].answer
                             /\ call[c].grant # refresh[t].answer
        /\ \A u \in Tabs \ {t} : refresh[u].answer # refresh[t].answer

IInv == /\ TypeOK
        /\ \A t \in Tabs : QueueOK(t)
        /\ TokensKnown
        /\ \A t \in Tabs : AnswerFresh(t)

-----------------------------------------------------------------------------
\* The invariant behind TokensBelongTogether: one tab that began in the app, and
\* one login

InFlight(c) == call[c].at \notin {"new", "ended", "lost"}

LoggedIn == \E c \in Calls : Kind[c] = "login" /\ call[c].at = "ended"

\* Access tokens are of the session of the refresh token they were issued for.
SessionsOK(t) ==
    /\ refresh[t].at # "none" /\ storage.refresh # 0 => refresh[t].token = storage.refresh
    /\ refresh[t].answer # 0 => tokens[refresh[t].answer].session = refresh[t].token
    /\ \A c \in Calls : call[c].grant # 0 => tokens[call[c].grant].session = call[c].grant

\* The way to the login page clears the storage; nothing but a login fills it.
PagesOK(t) ==
    /\ leaving[t] = "login" => page[t] = "app" /\ storage.refresh = 0
    /\ page[t] = "login" /\ ~LoggedIn => storage.refresh = 0 /\ refresh[t].at = "none"
    /\ \A c \in Calls : InFlight(c) /\ Kind[c] = "login" => page[t] = "login"
    /\ \A c \in Calls : InFlight(c) /\ Kind[c] = "logout" => page[t] = "app"

TogetherInv == /\ TokensBelongTogether
               /\ \A t \in Tabs : SessionsOK(t) /\ PagesOK(t)
=============================================================================
