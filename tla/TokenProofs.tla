----------------------------- MODULE TokenProofs -----------------------------
(***************************************************************************)
(* However many tabs make calls, and whatever the server answers and when: *)
(* each queue is served, and no call is sent again with the token it was   *)
(* refused with.  In one tab that began in the app, with one login, the    *)
(* two tokens stored are of one session.                                   *)
(***************************************************************************)
EXTENDS TokenProperties, FiniteSetTheorems, SequenceTheorems, TLAPS

Answers == {"none", "ok", "401", "error"}

\* What a step does to the call c when it moves it from one place to another.
Moves(c, from, to) ==
    /\ call' \in [Calls -> Call]
    /\ call[c].at \in from /\ call'[c].at \in to
    /\ call'[c].token \in {call[c].token, storage.access}
    /\ \A d \in Calls \ {c} : call'[d] = call[d]

\* The records of the calls keep their type when the code updates them.
LEMMA CallTypes ==
    ASSUME NEW r \in Call
    PROVE  /\ \A p \in Places : [r EXCEPT !.at = p] \in Call
           /\ \A p \in Places, x \in Answers : [r EXCEPT !.at = p, !.answer = x] \in Call
           /\ \A p \in Places : [r EXCEPT !.at = p, !.retry = TRUE] \in Call
           /\ \A p \in Places, x \in Answers, k \in Token :
                [r EXCEPT !.at = p, !.answer = x, !.grant = k] \in Call
           /\ \A p \in Places, x \in Answers, k \in Token :
                [r EXCEPT !.at = p, !.token = k, !.answer = x] \in Call
  BY DEF Call, Answers

\* A call that moves in its function, however many of its fields the code sets.
LEMMA OneCallChanges ==
    ASSUME TypeOK, NEW c \in Calls, NEW r \in Call, call' = [call EXCEPT ![c] = r]
    PROVE  /\ call' \in [Calls -> Call] /\ call'[c] = r
           /\ \A d \in Calls \ {c} : call'[d] = call[d]
  BY DEF TypeOK

\* An answer reaches a call and changes nothing else of it.
LEMMA AnswerMoves ==
    ASSUME TypeOK, NEW c \in Calls, NEW x \in Answers, Answer(c, x),
           call[c].at = "sent"
    PROVE  Moves(c, {"sent"}, {"answered"}) /\ call'[c].grant = call[c].grant
  <1> DEFINE r == [call[c] EXCEPT !.at = "answered", !.answer = x]
  <1>1. call[c] \in Call
    BY DEF TypeOK
  <1>2. r \in Call
    BY <1>1, CallTypes DEF Places
  <1>3. call' = [call EXCEPT ![c] = r]
    BY <1>1 DEF Answer, TypeOK
  <1>4. r.at = "answered" /\ r.token = call[c].token /\ r.grant = call[c].grant
    BY <1>1 DEF Call
  <1> HIDE DEF r
  <1> QED
    BY <1>2, <1>3, <1>4, OneCallChanges DEF Moves

\* A call is made, ends, waits or asks for a refresh: it goes one way, and its grant stays.
LEMMA CallMoves ==
    ASSUME TypeOK, NEW c \in Calls
    PROVE  /\ Make(c) => Moves(c, {"new"}, {"ended", "sent"})
           /\ Finish(c) => Moves(c, {"answered"}, {"ended"})
           /\ JoinQueue(c) => Moves(c, {"answered"}, {"queued"})
           /\ StartRefresh(c) => Moves(c, {"answered"}, {"refreshing"})
           /\ NoRefreshToken(c) => Moves(c, {"answered"}, {"ended"})
           /\ Make(c) \/ Handle(c) => call'[c].grant = call[c].grant
  <1>0. call[c] \in Call /\ storage.access \in Token /\ storage.refresh \in Token
    BY DEF TypeOK
  <1>1. ASSUME Make(c)
        PROVE  Moves(c, {"new"}, {"ended", "sent"}) /\ call'[c].grant = call[c].grant
    <2>1. CASE Kind[c] = "logout" /\ storage.refresh = 0
      <3> DEFINE r == Ended(call[c])
      <3>1. r \in Call /\ r.at = "ended" /\ r.token = call[c].token /\ r.grant = call[c].grant
        BY <1>0 DEF Ended, Call, Places
      <3>2. call' = [call EXCEPT ![c] = r] /\ call[c].at = "new"
        BY <1>1, <2>1 DEF Make, TypeOK
      <3> HIDE DEF r
      <3> QED
        BY <3>1, <3>2, OneCallChanges DEF Moves
    <2>2. CASE ~(Kind[c] = "logout" /\ storage.refresh = 0)
      <3> DEFINE r == [Sent(call[c], storage) EXCEPT !.session = storage.refresh]
      <3>1. r \in Call /\ r.at = "sent" /\ r.token = storage.access /\ r.grant = call[c].grant
        BY <1>0 DEF Sent, Call, Places
      <3>2. call' = [call EXCEPT ![c] = r] /\ call[c].at = "new"
        BY <1>1, <2>2 DEF Make, TypeOK
      <3> HIDE DEF r
      <3> QED
        BY <3>1, <3>2, OneCallChanges DEF Moves
    <2> QED
      BY <2>1, <2>2
  <1>2. ASSUME Finish(c)
        PROVE  Moves(c, {"answered"}, {"ended"}) /\ call'[c].grant = call[c].grant
    <2> DEFINE r == Ended(call[c])
    <2>1. r \in Call /\ r.at = "ended" /\ r.token = call[c].token /\ r.grant = call[c].grant
      BY <1>0 DEF Ended, Call, Places
    <2>2. call' = [call EXCEPT ![c] = r] /\ call[c].at = "answered"
      BY <1>2 DEF Finish, TypeOK
    <2> HIDE DEF r
    <2> QED
      BY <2>1, <2>2, OneCallChanges DEF Moves
  <1>3. ASSUME JoinQueue(c)
        PROVE  Moves(c, {"answered"}, {"queued"}) /\ call'[c].grant = call[c].grant
    <2> DEFINE r == [call[c] EXCEPT !.at = "queued"]
    <2>1. r \in Call /\ r.at = "queued" /\ r.token = call[c].token /\ r.grant = call[c].grant
      BY <1>0 DEF Call, Places
    <2>2. call' = [call EXCEPT ![c] = r] /\ call[c].at = "answered"
      BY <1>3 DEF JoinQueue, Unauthorized, TypeOK
    <2> HIDE DEF r
    <2> QED
      BY <2>1, <2>2, OneCallChanges DEF Moves
  <1>4. ASSUME StartRefresh(c)
        PROVE  Moves(c, {"answered"}, {"refreshing"}) /\ call'[c].grant = call[c].grant
    <2> DEFINE r == [call[c] EXCEPT !.at = "refreshing", !.retry = TRUE]
    <2>1. /\ r \in Call /\ r.at = "refreshing" /\ r.token = call[c].token
          /\ r.grant = call[c].grant
      BY <1>0 DEF Call, Places
    <2>2. call' = [call EXCEPT ![c] = r] /\ call[c].at = "answered"
      BY <1>0, <1>4 DEF StartRefresh, Unauthorized, TypeOK
    <2> HIDE DEF r
    <2> QED
      BY <2>1, <2>2, OneCallChanges DEF Moves
  <1>5. ASSUME NoRefreshToken(c)
        PROVE  Moves(c, {"answered"}, {"ended"}) /\ call'[c].grant = call[c].grant
    <2> DEFINE r == [Ended(call[c]) EXCEPT !.retry = TRUE]
    <2>1. r \in Call /\ r.at = "ended" /\ r.token = call[c].token /\ r.grant = call[c].grant
      BY <1>0 DEF Ended, Call, Places
    <2>2. call' = [call EXCEPT ![c] = r] /\ call[c].at = "answered"
      BY <1>5 DEF NoRefreshToken, Unauthorized, TypeOK
    <2> HIDE DEF r
    <2> QED
      BY <2>1, <2>2, OneCallChanges DEF Moves
  <1> QED
    BY <1>1, <1>2, <1>3, <1>4, <1>5 DEF Handle

\* The server's answer to a call; only a login is granted anything.
LEMMA ServeMoves ==
    ASSUME TypeOK, NEW c \in Calls, Serve(c)
    PROVE  /\ Moves(c, {"sent"}, {"answered"})
           /\ call'[c].token = call[c].token
           /\ \/ /\ call'[c].grant = call[c].grant /\ UNCHANGED tokens
              \/ /\ Kind[c] = "login" /\ Issue(Len(tokens) + 1)
                 /\ call'[c].grant = Len(tokens') /\ UNCHANGED dead
  <1>0. /\ call[c] \in Call /\ storage.access \in Token
        /\ tokens \in Seq([session : Token, valid : BOOLEAN]) /\ Len(tokens) <= MaxTokens
    BY DEF TypeOK
  <1>1. ASSUME NEW x \in Answers, Answer(c, x), call[c].at = "sent"
        PROVE  /\ Moves(c, {"sent"}, {"answered"}) /\ call'[c].grant = call[c].grant
               /\ call'[c].token = call[c].token
    <2>1. call'[c].token = call[c].token
      BY <1>1, <1>0 DEF Answer, TypeOK, Call
    <2> QED
      BY <1>1, <2>1, AnswerMoves
  <1>2. CASE ServeApi(c)
    <2>1. PICK x \in Answers : Answer(c, x)
      BY <1>2 DEF ServeApi, Answers
    <2> QED
      BY <1>1, <1>2, <2>1 DEF ServeApi, server
  <1>3. CASE ServeLogout(c) \/ FailCall(c)
    <2>1. /\ Answer(c, "ok") \/ Answer(c, "401") \/ Answer(c, "error")
          /\ call[c].at = "sent" /\ UNCHANGED tokens
      BY <1>3 DEF ServeLogout, FailCall, server
    <2> QED
      BY <1>1, <2>1 DEF Answers
  <1>4. CASE ServeLogin(c)
    <2>1. CASE Answer(c, "401") /\ UNCHANGED server
      BY <1>1, <1>4, <2>1 DEF ServeLogin, server, Answers
    <2>2. CASE /\ Issue(Len(tokens) + 1) /\ UNCHANGED dead
               /\ call' = [call EXCEPT ![c].at = "answered", ![c].answer = "ok",
                                       ![c].grant = Len(tokens')]
      <3> DEFINE n == Len(tokens')
                 r == [call[c] EXCEPT !.at = "answered", !.answer = "ok", !.grant = n]
      <3>1. n \in Token
        BY <1>0, <2>2, TokenAssumption DEF Issue, Token
      <3>2. call' = [call EXCEPT ![c] = r]
        BY <1>0, <2>2 DEF TypeOK
      <3> HIDE DEF n
      <3>3. r \in Call /\ r.at = "answered" /\ r.token = call[c].token /\ r.grant = n
        BY <1>0, <3>1 DEF Call, Places
      <3> HIDE DEF r
      <3>4. Moves(c, {"sent"}, {"answered"}) /\ call'[c] = r
        BY <1>4, <3>2, <3>3, OneCallChanges DEF Moves, ServeLogin
      <3> QED
        BY <1>4, <2>2, <3>3, <3>4 DEF n, ServeLogin
    <2> QED
      BY <1>4, <2>1, <2>2 DEF ServeLogin
  <1> QED
    BY <1>2, <1>3, <1>4 DEF Serve

\* What a step does to the tab t when its refresh ends or its page is left: no call
\* of the tab waits any longer.
Clears(t) ==
    /\ call' \in [Calls -> Call]
    /\ failedQueue' = [failedQueue EXCEPT ![t] = <<>>]
    /\ isRefreshing' = [isRefreshing EXCEPT ![t] = FALSE]
    /\ refresh' = [refresh EXCEPT ![t] = NoRefresh]
    /\ \A c \in Calls :
         IF Tab[c] = t
         THEN /\ call'[c].at \notin {"queued", "refreshing"}
              /\ call'[c].token \in {call[c].token, storage'.access}
              /\ call'[c].grant = call[c].grant
         ELSE call'[c] = call[c]

\* The end of a refresh releases or rejects every call of the tab that waits, and an
\* unloaded page has none.
LEMMA TabClears ==
    ASSUME TypeOK, NEW t \in Tabs, QueueOK(t)
    PROVE  EndRefresh(t) \/ Unload(t) => Clears(t)
  <1>0. call \in [Calls -> Call] /\ refresh[t] \in Refresh /\ storage.access \in Token
    BY DEF TypeOK
  <1>1. \A c \in Calls : c \in Queued(t) \cup Refreshing(t)
                            <=> Tab[c] = t /\ call[c].at \in {"queued", "refreshing"}
    BY DEF QueueOK, Refreshing
  <1>2. ASSUME RefreshSucceeds(t) PROVE Clears(t)
    <2>1. storage' = Stored(refresh[t].answer) /\ storage'.access \in Token
      BY <1>0, <1>2 DEF RefreshSucceeds, Stored, Refresh, TypeOK
    <2>2. \A c \in Calls : /\ Sent(call[c], storage') \in Call
                           /\ Sent(call[c], storage').at = "sent"
                           /\ Sent(call[c], storage').token = storage'.access
                           /\ Sent(call[c], storage').grant = call[c].grant
      BY <1>0, <2>1 DEF Sent, Call, Places
    <2>3. call' = [c \in Calls |-> IF c \in Queued(t) \cup Refreshing(t)
                                   THEN Sent(call[c], storage') ELSE call[c]]
      BY <1>2 DEF RefreshSucceeds
    <2>4. call' \in [Calls -> Call]
      BY <1>0, <2>2, <2>3
    <2>5. ASSUME NEW c \in Calls
          PROVE  IF Tab[c] = t
                 THEN /\ call'[c].at \notin {"queued", "refreshing"}
                      /\ call'[c].token \in {call[c].token, storage'.access}
                      /\ call'[c].grant = call[c].grant
                 ELSE call'[c] = call[c]
      <3>1. call'[c] = IF c \in Queued(t) \cup Refreshing(t)
                       THEN Sent(call[c], storage') ELSE call[c]
        BY <2>3
      <3> QED
        BY <1>1, <2>2, <3>1
    <2> QED
      BY <1>2, <2>4, <2>5 DEF RefreshSucceeds, Clears
  <1>3. ASSUME RefreshFails(t) PROVE Clears(t)
    <2>1. \A c \in Calls : /\ Ended(call[c]) \in Call /\ Ended(call[c]).at = "ended"
                           /\ Ended(call[c]).token = call[c].token
                           /\ Ended(call[c]).grant = call[c].grant
      BY <1>0 DEF Ended, Call, Places
    <2>2. call' = [c \in Calls |-> IF c \in Queued(t) \cup Refreshing(t)
                                   THEN Ended(call[c]) ELSE call[c]]
      BY <1>3 DEF RefreshFails, Rejected
    <2>3. call' \in [Calls -> Call]
      BY <1>0, <2>1, <2>2
    <2>4. ASSUME NEW c \in Calls
          PROVE  IF Tab[c] = t
                 THEN /\ call'[c].at \notin {"queued", "refreshing"}
                      /\ call'[c].token \in {call[c].token, storage'.access}
                      /\ call'[c].grant = call[c].grant
                 ELSE call'[c] = call[c]
      <3>1. call'[c] = IF c \in Queued(t) \cup Refreshing(t)
                       THEN Ended(call[c]) ELSE call[c]
        BY <2>2
      <3> QED
        BY <1>1, <2>1, <3>1
    <2> QED
      BY <1>3, <2>3, <2>4 DEF RefreshFails, Clears
  <1>4. ASSUME Unload(t) PROVE Clears(t)
    <2> DEFINE Lost(r) == [r EXCEPT !.at = "lost"]
    <2>1. \A c \in Calls : /\ Lost(call[c]) \in Call /\ Lost(call[c]).at = "lost"
                           /\ Lost(call[c]).token = call[c].token
                           /\ Lost(call[c]).grant = call[c].grant
      BY <1>0 DEF Call, Places
    <2>2. call' = [c \in Calls |-> IF Tab[c] = t /\ call[c].at \notin {"new", "ended"}
                                   THEN Lost(call[c]) ELSE call[c]]
      BY <1>4 DEF Unload
    <2> HIDE DEF Lost
    <2>3. call' \in [Calls -> Call]
      BY <1>0, <2>1, <2>2
    <2>4. ASSUME NEW c \in Calls
          PROVE  IF Tab[c] = t
                 THEN /\ call'[c].at \notin {"queued", "refreshing"}
                      /\ call'[c].token \in {call[c].token, storage'.access}
                      /\ call'[c].grant = call[c].grant
                 ELSE call'[c] = call[c]
      <3>1. call'[c] = IF Tab[c] = t /\ call[c].at \notin {"new", "ended"}
                       THEN Lost(call[c]) ELSE call[c]
        BY <2>2
      <3> QED
        BY <2>1, <3>1
    <2> QED
      BY <1>4, <2>3, <2>4 DEF Unload, Clears
  <1> QED
    BY <1>2, <1>3, <1>4 DEF EndRefresh
-----------------------------------------------------------------------------
\* Types

\* A record of two tokens is what the storage holds.
LEMMA InitType == Init => TypeOK
  <1> SUFFICES ASSUME Init PROVE TypeOK
    OBVIOUS
  <1>1. 0 \in Token /\ 1 \in Token
    BY TokenAssumption DEF Token
  <1>2. storage \in [access : Token, refresh : Token]
    BY <1>1 DEF Init
  <1>3. NewCall \in Call /\ NoRefresh \in Refresh
    BY <1>1 DEF NewCall, Call, Places, NoRefresh, Refresh
  <1>4. /\ isRefreshing \in [Tabs -> BOOLEAN] /\ failedQueue \in [Tabs -> Seq(Calls)]
        /\ refresh \in [Tabs -> Refresh] /\ call \in [Calls -> Call]
    BY <1>3 DEF Init
  <1>5. leaving \in [Tabs -> {"stay", "app", "login"}] /\ page \in [Tabs -> {"app", "login"}]
    BY TokenAssumption DEF Init
  <1>6. /\ tokens \in Seq([session : Token, valid : BOOLEAN]) /\ Len(tokens) <= MaxTokens
        /\ dead \subseteq Token
    <2> DEFINE first == [session |-> 1, valid |-> TRUE]
    <2>1. first \in [session : Token, valid : BOOLEAN]
      BY <1>1
    <2> HIDE DEF first
    <2>2. tokens = <<first>> /\ dead = {}
      BY DEF Init, first
    <2> QED
      BY <2>1, <2>2, TokenAssumption
  <1> QED
    BY <1>2, <1>4, <1>5, <1>6 DEF TypeOK

\* Issuing a token keeps the tokens typed and within their bound.
LEMMA IssueType ==
    ASSUME TypeOK, NEW s \in Token, Issue(s)
    PROVE  /\ tokens' \in Seq([session : Token, valid : BOOLEAN])
           /\ Len(tokens') = Len(tokens) + 1 /\ Len(tokens') \in Token
           /\ Len(tokens') <= MaxTokens
           /\ tokens'[Len(tokens')].session = s
           /\ \A k \in 1 .. Len(tokens) : tokens'[k] = tokens[k]
  <1> DEFINE S     == [session : Token, valid : BOOLEAN]
             issued == [session |-> s, valid |-> TRUE]
  <1>1. issued \in S /\ issued.session = s
    OBVIOUS
  <1>2. tokens \in Seq(S) /\ Len(tokens) \in Nat /\ Len(tokens) < MaxTokens
        /\ MaxTokens \in Nat
    BY TokenAssumption DEF Issue, TypeOK
  <1>3. tokens' = Append(tokens, issued)
    BY DEF Issue
  <1> HIDE DEF S, issued
  <1>4. /\ tokens' \in Seq(S) /\ Len(tokens') = Len(tokens) + 1
        /\ \A k \in 1 .. Len(tokens) : tokens'[k] = tokens[k]
        /\ tokens'[Len(tokens) + 1] = issued
    BY <1>1, <1>2, <1>3, AppendProperties
  <1>5. Len(tokens') \in Token /\ Len(tokens') <= MaxTokens
    BY <1>2, <1>4 DEF Token
  <1> QED
    BY <1>1, <1>4, <1>5 DEF S

\* Expiry keeps the tokens, their sessions, and their types.
LEMMA ExpireType ==
    ASSUME TypeOK, Expire
    PROVE  /\ tokens' \in Seq([session : Token, valid : BOOLEAN]) /\ Len(tokens') = Len(tokens)
           /\ dead' \subseteq Token
           /\ \A k \in 1 .. Len(tokens) : tokens'[k].session = tokens[k].session
  <1> DEFINE S == [session : Token, valid : BOOLEAN]
  <1>0. tokens \in Seq(S) /\ dead \subseteq Token /\ storage.refresh \in Token
    BY DEF TypeOK
  <1>1. CASE \E k \in DOMAIN tokens : tokens' = [tokens EXCEPT ![k].valid = FALSE] /\ UNCHANGED dead
    <2>1. PICK k \in DOMAIN tokens : tokens' = [tokens EXCEPT ![k].valid = FALSE]
      BY <1>1
    <2> DEFINE e == [tokens[k] EXCEPT !.valid = FALSE]
    <2>2. tokens[k] \in S
      <3> HIDE DEF S
      <3> QED
        BY <1>0, ElementOfSeq
    <2>3. e \in S /\ e.session = tokens[k].session
      BY <2>2
    <2>4. tokens' = [tokens EXCEPT ![k] = e]
      BY <1>0, <2>1
    <2> HIDE DEF e, S
    <2>5. tokens' \in Seq(S) /\ Len(tokens') = Len(tokens)
      BY <1>0, <2>3, <2>4, ExceptSeq
    <2>6. \A j \in 1 .. Len(tokens) : tokens'[j].session = tokens[j].session
      BY <1>0, <2>3, <2>4, ExceptSeq
    <2> QED
      BY <1>0, <1>1, <2>5, <2>6 DEF S
  <1>2. CASE dead' = dead \cup ({storage.refresh} \ {0}) /\ UNCHANGED tokens
    BY <1>0, <1>2
  <1> QED
    BY <1>1, <1>2 DEF Expire

\* A step keeps the variables typed.
LEMMA TypeStep ==
    ASSUME TypeOK, \A t \in Tabs : QueueOK(t), Next
    PROVE  TypeOK'
  <1>0. /\ storage \in [access : Token, refresh : Token] /\ 0 \in Token
        /\ NoTokens \in [access : Token, refresh : Token]
        /\ \A c \in Calls : Tab[c] \in Tabs /\ call[c] \in Call
        /\ call \in [Calls -> Call] /\ NoRefresh \in Refresh
        /\ refresh \in [Tabs -> Refresh]
        /\ \A t \in Tabs : refresh[t] \in Refresh
        /\ leaving \in [Tabs -> {"stay", "app", "login"}]
    BY TokenAssumption DEF TypeOK, Token, NoTokens, NoRefresh, Refresh
  <1>L. \A t \in Tabs, x \in {"stay", "app", "login"} :
            Leave(t, x) \in [Tabs -> {"stay", "app", "login"}]
    BY <1>0 DEF Leave
  <1>1. ASSUME NEW c \in Calls, Make(c) PROVE TypeOK'
    <2>1. call' \in [Calls -> Call]
      BY <1>1, CallMoves DEF Moves
    <2>2. /\ storage' \in [access : Token, refresh : Token]
          /\ leaving' \in [Tabs -> {"stay", "app", "login"}]
      BY <1>0, <1>L, <1>1 DEF Make
    <2> QED
      BY <1>1, <2>1, <2>2 DEF Make, TypeOK, server
  <1>2. ASSUME NEW c \in Calls, Handle(c) PROVE TypeOK'
    <2>1. call' \in [Calls -> Call]
      BY <1>2, CallMoves DEF Moves, Handle
    <2>2. CASE Finish(c)
      <3>1. call[c].grant \in Token
        BY <1>0 DEF Call
      <3>2. /\ storage' \in [access : Token, refresh : Token]
            /\ leaving' \in [Tabs -> {"stay", "app", "login"}]
        <4>1. CASE Kind[c] = "login" /\ call[c].answer = "ok"
          BY <1>0, <1>L, <2>2, <3>1, <4>1 DEF Finish
        <4>2. CASE Kind[c] = "logout"
          BY <1>0, <1>L, <2>2, <4>2 DEF Finish, LogoutStorage
        <4>3. CASE ~(Kind[c] = "login" /\ call[c].answer = "ok") /\ Kind[c] # "logout"
          BY <1>0, <2>2, <4>3 DEF Finish
        <4> QED
          BY <4>1, <4>2, <4>3
      <3> QED
        BY <2>1, <2>2, <3>2 DEF Finish, TypeOK, server
    <2>3. CASE JoinQueue(c)
      <3>1. failedQueue' \in [Tabs -> Seq(Calls)]
        <4>1. Append(failedQueue[Tab[c]], c) \in Seq(Calls)
          BY <1>0 DEF TypeOK
        <4> QED
          BY <2>3, <4>1 DEF JoinQueue, TypeOK
      <3> QED
        BY <2>1, <2>3, <3>1 DEF JoinQueue, TypeOK, server
    <2>4. CASE StartRefresh(c)
      <3>1. isRefreshing' \in [Tabs -> BOOLEAN]
        BY <2>4 DEF StartRefresh, TypeOK
      <3>2. refresh' \in [Tabs -> Refresh]
        <4>1. [at |-> "sent", token |-> storage.refresh, answer |-> 0] \in Refresh
          BY <1>0 DEF Refresh
        <4> QED
          BY <1>0, <2>4, <4>1 DEF StartRefresh
      <3> QED
        BY <2>1, <2>4, <3>1, <3>2 DEF StartRefresh, TypeOK, server
    <2>5. CASE NoRefreshToken(c)
      <3>1. /\ storage' \in [access : Token, refresh : Token]
            /\ leaving' \in [Tabs -> {"stay", "app", "login"}]
        BY <1>0, <1>L, <2>5 DEF NoRefreshToken, RedirectToLogin
      <3> QED
        BY <2>1, <2>5, <3>1 DEF NoRefreshToken, TypeOK, server
    <2> QED
      BY <1>2, <2>2, <2>3, <2>4, <2>5 DEF Handle
  <1>3. ASSUME NEW c \in Calls, Serve(c) PROVE TypeOK'
    <2>1. call' \in [Calls -> Call]
      BY <1>3, ServeMoves DEF Moves
    <2>2. dead' \subseteq Token
      BY <1>0, <1>3 DEF Serve, ServeApi, ServeLogin, ServeLogout, FailCall, server, TypeOK, Call
    <2>3. tokens' \in Seq([session : Token, valid : BOOLEAN]) /\ Len(tokens') <= MaxTokens
      <3>1. CASE UNCHANGED tokens
        BY <3>1 DEF TypeOK
      <3>2. CASE Issue(Len(tokens) + 1)
        <4>1. Len(tokens) + 1 \in Token
          BY <3>2, TokenAssumption DEF Issue, TypeOK, Token
        <4> QED
          BY <3>2, <4>1, IssueType
      <3> QED
        BY <1>3, <3>1, <3>2, ServeMoves
    <2>4. UNCHANGED <<client, refresh>>
      BY <1>3 DEF Serve, ServeApi, ServeLogin, ServeLogout, FailCall
    <2> QED
      BY <2>1, <2>2, <2>3, <2>4 DEF TypeOK, client
  <1>4. ASSUME NEW t \in Tabs, EndRefresh(t) \/ Unload(t) PROVE TypeOK'
    <2>1. Clears(t)
      BY <1>4, TabClears
    <2>2. /\ failedQueue' \in [Tabs -> Seq(Calls)] /\ isRefreshing' \in [Tabs -> BOOLEAN]
          /\ refresh' \in [Tabs -> Refresh] /\ call' \in [Calls -> Call]
      BY <1>0, <2>1 DEF Clears, TypeOK
    <2>3. CASE RefreshSucceeds(t)
      <3>1. storage' \in [access : Token, refresh : Token]
        BY <1>0, <2>3 DEF RefreshSucceeds, Stored, Refresh
      <3> QED
        BY <2>2, <2>3, <3>1 DEF RefreshSucceeds, TypeOK, server
    <2>4. CASE RefreshFails(t)
      <3>1. leaving' \in [Tabs -> {"stay", "app", "login"}]
        BY <1>0, <1>L, <2>4 DEF RefreshFails, RedirectToLogin
      <3> QED
        BY <1>0, <2>2, <2>4, <3>1 DEF RefreshFails, TypeOK, server
    <2>5. CASE Unload(t)
      <3>1. /\ page' \in [Tabs -> {"app", "login"}]
            /\ leaving' \in [Tabs -> {"stay", "app", "login"}]
        BY <1>0, <2>5 DEF Unload, TypeOK
      <3> QED
        BY <2>2, <2>5, <3>1 DEF Unload, TypeOK, server
    <2> QED
      BY <1>4, <2>3, <2>4, <2>5 DEF EndRefresh
  <1>5. ASSUME NEW t \in Tabs, ServeRefresh(t) PROVE TypeOK'
    <2>1. CASE /\ Issue(refresh[t].token)
               /\ refresh' = [refresh EXCEPT ![t].at = "answered", ![t].answer = Len(tokens')]
      <3> DEFINE n == Len(tokens')
                 r == [refresh[t] EXCEPT !.at = "answered", !.answer = n]
      <3>1. refresh[t].token \in Token
        BY <1>0 DEF Refresh
      <3>2. /\ tokens' \in Seq([session : Token, valid : BOOLEAN]) /\ Len(tokens') <= MaxTokens
            /\ n \in Token
        BY <2>1, <3>1, IssueType
      <3>3. refresh' = [refresh EXCEPT ![t] = r]
        BY <1>0, <2>1
      <3> HIDE DEF n
      <3>4. r \in Refresh
        BY <1>0, <3>2 DEF Refresh
      <3> HIDE DEF r
      <3>5. refresh' \in [Tabs -> Refresh]
        BY <1>0, <3>3, <3>4
      <3> QED
        BY <1>5, <3>2, <3>5 DEF ServeRefresh, TypeOK, client
    <2>2. CASE refresh' = [refresh EXCEPT ![t].at = "answered"] /\ UNCHANGED tokens
      <3> DEFINE r == [refresh[t] EXCEPT !.at = "answered"]
      <3>1. r \in Refresh
        BY <1>0 DEF Refresh
      <3>2. refresh' = [refresh EXCEPT ![t] = r]
        BY <1>0, <2>2
      <3> HIDE DEF r
      <3>3. refresh' \in [Tabs -> Refresh]
        BY <1>0, <3>1, <3>2
      <3> QED
        BY <1>5, <2>2, <3>3 DEF ServeRefresh, TypeOK, client
    <2> QED
      BY <1>5, <2>1, <2>2 DEF ServeRefresh
  <1>6. CASE Expire
    BY <1>6, ExpireType DEF Expire, TypeOK, client
  <1>7. CASE Idle
    BY <1>7 DEF Idle, TypeOK, vars, client, server
  <1> QED
    BY <1>1, <1>2, <1>3, <1>4, <1>5, <1>6, <1>7 DEF Next

-----------------------------------------------------------------------------
\* The queue

\* Waiting calls stay where they are.
Waits(c) == call[c].at \in {"queued", "refreshing"}
Stays(c) == call'[c].at = call[c].at \/ (~Waits(c) /\ ~Waits(c)')

\* A step that touches no call that waits, no queue, and no refresh but to answer it.
LEMMA QueueGoesOn ==
    ASSUME NEW t \in Tabs, QueueOK(t), failedQueue'[t] = failedQueue[t],
           isRefreshing'[t] = isRefreshing[t],
           refresh'[t].at = "none" <=> refresh[t].at = "none",
           \A c \in Calls : Tab[c] = t => Stays(c)
    PROVE  QueueOK(t)'
  <1>1. /\ Queued(t)' = Queued(t) /\ Refreshing(t)' = Refreshing(t)
        /\ {c \in Calls : Tab[c] = t /\ call'[c].at = "queued"}
             = {c \in Calls : Tab[c] = t /\ call[c].at = "queued"}
    BY DEF Queued, Refreshing, Stays, Waits
  <1>2. isRefreshing'[t] <=> refresh'[t].at # "none"
    BY DEF QueueOK
  <1> QED
    BY <1>1, <1>2 DEF QueueOK

\* A refused call joins a queue it is not in.
LEMMA JoinKeepsQueue ==
    ASSUME TypeOK, \A t \in Tabs : QueueOK(t), NEW c \in Calls, JoinQueue(c)
    PROVE  \A t \in Tabs : QueueOK(t)'
  <1>0. Tab[c] \in Tabs /\ Moves(c, {"answered"}, {"queued"})
    BY TokenAssumption, CallMoves
  <1>1. ASSUME NEW t \in Tabs, t # Tab[c] PROVE QueueOK(t)'
    <2>1. failedQueue'[t] = failedQueue[t] /\ UNCHANGED <<isRefreshing, refresh>>
      BY <1>1 DEF JoinQueue, TypeOK
    <2>2. \A d \in Calls : Tab[d] = t => Stays(d)
      BY <1>0, <1>1 DEF Moves, Stays
    <2> QED
      BY <2>1, <2>2, QueueGoesOn
  <1>2. ASSUME NEW t \in Tabs, t = Tab[c] PROVE QueueOK(t)'
    <2> DEFINE q == failedQueue[t]
    <2>1. q \in Seq(Calls) /\ Len(q) \in Nat /\ DOMAIN q = 1 .. Len(q)
      BY DEF TypeOK
    <2>2. failedQueue'[t] = Append(q, c) /\ UNCHANGED <<isRefreshing, refresh>>
      BY <1>2 DEF JoinQueue, TypeOK
    <2> HIDE DEF q
    <2>3. /\ DOMAIN failedQueue'[t] = 1 .. Len(q) + 1
          /\ failedQueue'[t][Len(q) + 1] = c
          /\ \A k \in 1 .. Len(q) : failedQueue'[t][k] = q[k]
      BY <2>1, <2>2, AppendProperties
    <2>4. \A k \in 1 .. Len(q) : q[k] \in Calls /\ call[q[k]].at = "queued" /\ Tab[q[k]] = t
      BY <2>1 DEF QueueOK, Queued, q
    <2>5. call[c].at = "answered" /\ call'[c].at = "queued"
          /\ \A d \in Calls \ {c} : call'[d] = call[d]
      BY <1>0 DEF Moves
    <2>6. Queued(t)' = Queued(t) \cup {c}
      <3>1. Queued(t) = {q[k] : k \in 1 .. Len(q)}
        BY <2>1 DEF Queued, q
      <3>2. Queued(t)' = {failedQueue'[t][k] : k \in 1 .. Len(q) + 1}
        BY <2>3 DEF Queued
      <3>3. ASSUME NEW x PROVE x \in Queued(t)' <=> x \in Queued(t) \cup {c}
        <4>1. ASSUME x \in Queued(t)' PROVE x \in Queued(t) \cup {c}
          BY <2>1, <2>3, <3>1, <3>2, <4>1
        <4>2. ASSUME x \in Queued(t) PROVE x \in Queued(t)'
          BY <2>1, <2>3, <3>1, <3>2, <4>2
        <4>3. c \in Queued(t)'
          BY <2>1, <2>3, <3>2
        <4> QED
          BY <4>1, <4>2, <4>3
      <3> QED
        BY <3>3
    <2>7. Queued(t)' = {d \in Calls : Tab[d] = t /\ call'[d].at = "queued"}
      BY <1>2, <2>5, <2>6 DEF QueueOK
    <2>8. \A j, k \in DOMAIN failedQueue'[t] :
             failedQueue'[t][j] = failedQueue'[t][k] => j = k
      <3> SUFFICES ASSUME NEW j \in 1 .. Len(q) + 1, NEW k \in 1 .. Len(q) + 1,
                          failedQueue'[t][j] = failedQueue'[t][k]
                   PROVE  j = k
        BY <2>3
      <3>1. CASE j \in 1 .. Len(q) /\ k \in 1 .. Len(q)
        BY <2>1, <2>3, <3>1 DEF QueueOK, q
      <3>2. CASE j = Len(q) + 1 /\ k \in 1 .. Len(q)
        BY <2>3, <2>4, <2>5, <3>2
      <3>3. CASE k = Len(q) + 1 /\ j \in 1 .. Len(q)
        BY <2>3, <2>4, <2>5, <3>3
      <3> QED
        BY <2>1, <3>1, <3>2, <3>3
    <2>9. isRefreshing[t]
      BY <1>2 DEF JoinQueue, Joins
    <2>10. (isRefreshing'[t] <=> refresh'[t].at # "none") /\ refresh'[t].at # "none"
      BY <2>2, <2>9 DEF QueueOK
    <2>11. Refreshing(t)' = Refreshing(t)
      BY <2>5 DEF Refreshing
    <2>12. \E d \in Calls : Refreshing(t)' = {d}
      BY <2>2, <2>10, <2>11 DEF QueueOK
    <2> QED
      BY <2>7, <2>8, <2>10, <2>12 DEF QueueOK
  <1> QED
    BY <1>1, <1>2

\* A refused call starts a refresh when no call of its tab waits.
LEMMA StartKeepsQueue ==
    ASSUME TypeOK, \A t \in Tabs : QueueOK(t), NEW c \in Calls, StartRefresh(c)
    PROVE  \A t \in Tabs : QueueOK(t)'
  <1>0. Tab[c] \in Tabs /\ Moves(c, {"answered"}, {"refreshing"})
    BY TokenAssumption, CallMoves
  <1>1. ASSUME NEW t \in Tabs, t # Tab[c] PROVE QueueOK(t)'
    <2>1. /\ UNCHANGED failedQueue /\ isRefreshing'[t] = isRefreshing[t]
          /\ refresh'[t] = refresh[t]
      BY <1>1 DEF StartRefresh, TypeOK
    <2>2. \A d \in Calls : Tab[d] = t => Stays(d)
      BY <1>0, <1>1 DEF Moves, Stays
    <2> QED
      BY <2>1, <2>2, QueueGoesOn
  <1>2. ASSUME NEW t \in Tabs, t = Tab[c] PROVE QueueOK(t)'
    <2>1. isRefreshing'[t] /\ refresh'[t].at = "sent" /\ UNCHANGED failedQueue
      BY <1>2 DEF StartRefresh, TypeOK
    <2>2. /\ call[c].at = "answered" /\ call'[c].at = "refreshing"
          /\ \A d \in Calls \ {c} : call'[d] = call[d]
      BY <1>0 DEF Moves
    <2>3. ~ isRefreshing[t]
      BY <1>2 DEF StartRefresh, Joins
    <2>4. refresh[t].at = "none"
      BY <2>3 DEF QueueOK
    <2>5. Refreshing(t) = {} /\ failedQueue[t] = <<>>
      BY <2>4 DEF QueueOK
    <2>6. Refreshing(t)' = {c}
      BY <1>2, <2>2, <2>5 DEF Refreshing
    <2>7. /\ Queued(t)' = Queued(t)
          /\ {d \in Calls : Tab[d] = t /\ call'[d].at = "queued"}
               = {d \in Calls : Tab[d] = t /\ call[d].at = "queued"}
      BY <2>1, <2>2 DEF Queued
    <2> QED
      BY <2>1, <2>6, <2>7 DEF QueueOK
  <1> QED
    BY <1>1, <1>2

\* A tab that has been cleared waits for nothing; the others go on.
LEMMA ClearKeepsQueue ==
    ASSUME TypeOK, \A t \in Tabs : QueueOK(t), NEW t \in Tabs, Clears(t)
    PROVE  \A u \in Tabs : QueueOK(u)'
  <1>1. ASSUME NEW u \in Tabs, u # t PROVE QueueOK(u)'
    <2>1. /\ failedQueue'[u] = failedQueue[u] /\ isRefreshing'[u] = isRefreshing[u]
          /\ refresh'[u] = refresh[u]
      BY <1>1 DEF Clears, TypeOK
    <2>2. \A c \in Calls : Tab[c] = u => Stays(c)
      BY <1>1 DEF Clears, Stays
    <2> QED
      BY <2>1, <2>2, QueueGoesOn
  <1>2. QueueOK(t)'
    <2>1. /\ failedQueue'[t] = <<>> /\ ~ isRefreshing'[t] /\ refresh'[t].at = "none"
      BY DEF Clears, TypeOK, NoRefresh
    <2>2. /\ Queued(t)' = {} /\ Refreshing(t)' = {}
          /\ {c \in Calls : Tab[c] = t /\ call'[c].at = "queued"} = {}
      BY <2>1 DEF Clears, Queued, Refreshing
    <2> QED
      BY <2>1, <2>2 DEF QueueOK
  <1> QED
    BY <1>1, <1>2

\* A step keeps the queues.
LEMMA QueueStep ==
    ASSUME TypeOK, \A t \in Tabs : QueueOK(t), Next
    PROVE  \A t \in Tabs : QueueOK(t)'
  <1>1. ASSUME NEW c \in Calls, Make(c) \/ Finish(c) \/ NoRefreshToken(c) \/ Serve(c),
               NEW t \in Tabs
        PROVE  QueueOK(t)'
    <2>1. UNCHANGED <<failedQueue, isRefreshing, refresh>>
      BY <1>1 DEF Make, Finish, NoRefreshToken, Serve, ServeApi, ServeLogin, ServeLogout,
                  FailCall, client
    <2>2. Moves(c, {"new", "answered", "sent"}, {"ended", "sent", "answered"})
      BY <1>1, CallMoves, ServeMoves DEF Moves
    <2>3. \A d \in Calls : Stays(d)
      BY <2>2 DEF Moves, Stays, Waits
    <2> QED
      BY <2>1, <2>3, QueueGoesOn
  <1>2. ASSUME NEW u \in Tabs, ServeRefresh(u), NEW t \in Tabs
        PROVE  QueueOK(t)'
    <2>1. /\ UNCHANGED <<failedQueue, isRefreshing, call>>
          /\ refresh'[t].at = "none" <=> refresh[t].at = "none"
      BY <1>2 DEF ServeRefresh, client, TypeOK, Refresh
    <2>2. \A d \in Calls : Stays(d)
      BY <2>1 DEF Stays
    <2> QED
      BY <2>1, <2>2, QueueGoesOn
  <1>3. ASSUME Expire \/ Idle, NEW t \in Tabs
        PROVE  QueueOK(t)'
    <2>1. UNCHANGED <<failedQueue, isRefreshing, refresh, call>>
      BY <1>3 DEF Expire, Idle, vars, client
    <2>2. \A d \in Calls : Stays(d)
      BY <2>1 DEF Stays
    <2> QED
      BY <2>1, <2>2, QueueGoesOn
  <1>4. ASSUME NEW u \in Tabs, EndRefresh(u) \/ Unload(u)
        PROVE  \A t \in Tabs : QueueOK(t)'
    BY <1>4, TabClears, ClearKeepsQueue
  <1> QED
    BY <1>1, <1>2, <1>3, <1>4, JoinKeepsQueue, StartKeepsQueue DEF Next, Handle

-----------------------------------------------------------------------------
\* The tokens

\* What the invariant says of tokens, as numbers.
LEMMA TokenNumbers ==
    ASSUME TypeOK
    PROVE  /\ storage.access \in Nat /\ storage.refresh \in Nat /\ Len(tokens) \in Nat
           /\ \A c \in Calls : call[c].token \in Nat /\ call[c].grant \in Nat
           /\ \A t \in Tabs : refresh[t].answer \in Nat /\ refresh[t].token \in Nat
  <1>1. /\ Token \subseteq Nat
        /\ \A c \in Calls : call[c] \in Call
        /\ \A t \in Tabs : refresh[t] \in Refresh
    BY TokenAssumption DEF Token, TypeOK
  <1>2. storage.access \in Token /\ storage.refresh \in Token /\ Len(tokens) \in Nat
    BY DEF TypeOK
  <1>3. \A c \in Calls : call[c].token \in Token /\ call[c].grant \in Token
    BY <1>1 DEF Call
  <1>4. \A t \in Tabs : refresh[t].answer \in Token /\ refresh[t].token \in Token
    BY <1>1 DEF Refresh
  <1> QED
    BY <1>1, <1>2, <1>3, <1>4

\* A step that issues no token and hands out none but those in use.
LEMMA NothingNew ==
    ASSUME TypeOK, TokensKnown, \A t \in Tabs : AnswerFresh(t),
           Len(tokens') = Len(tokens),
           storage'.access \in {storage.access, 0} \cup {call[c].grant : c \in Calls},
           \A c \in Calls : /\ call'[c].token \in {call[c].token, storage.access}
                            /\ call'[c].grant = call[c].grant,
           \A t \in Tabs : refresh'[t].answer \in {refresh[t].answer, 0}
    PROVE  TokensKnown' /\ \A t \in Tabs : AnswerFresh(t)'
  <1>1. TokensKnown'
    BY TokenNumbers DEF TokensKnown
  <1>2. ASSUME NEW t \in Tabs, refresh'[t].answer # 0
        PROVE  /\ storage'.access # refresh'[t].answer
               /\ \A c \in Calls : /\ call'[c].token # refresh'[t].answer
                                    /\ call'[c].grant # refresh'[t].answer
               /\ \A u \in Tabs \ {t} : refresh'[u].answer # refresh'[t].answer
    <2>1. refresh'[t].answer = refresh[t].answer
      BY <1>2
    <2> QED
      BY <1>2, <2>1 DEF AnswerFresh
  <1> QED
    BY <1>1, <1>2 DEF AnswerFresh

\* A call that is made, or whose answer is handled, has none but tokens in use.
LEMMA OwnStepFresh ==
    ASSUME TypeOK, TokensKnown, \A t \in Tabs : AnswerFresh(t),
           NEW c \in Calls, Make(c) \/ Handle(c)
    PROVE  TokensKnown' /\ \A t \in Tabs : AnswerFresh(t)'
  <1>1. /\ Moves(c, {"new", "answered"}, {"ended", "sent", "queued", "refreshing"})
        /\ call'[c].grant = call[c].grant
    BY CallMoves DEF Moves, Handle
  <1>2. \A d \in Calls : /\ call'[d].token \in {call[d].token, storage.access}
                         /\ call'[d].grant = call[d].grant
    BY <1>1 DEF Moves
  <1>3. UNCHANGED tokens
    BY DEF Make, Handle, Finish, JoinQueue, StartRefresh, NoRefreshToken, server
  <1>4. storage'.access \in {storage.access, 0} \cup {call[d].grant : d \in Calls}
    <2>1. CASE Make(c) \/ JoinQueue(c) \/ StartRefresh(c) \/ NoRefreshToken(c)
      BY <2>1 DEF Make, JoinQueue, StartRefresh, NoRefreshToken, NoTokens
    <2>2. CASE Finish(c)
      <3>1. CASE Kind[c] = "login" /\ call[c].answer = "ok"
        BY <2>2, <3>1 DEF Finish
      <3>2. CASE Kind[c] = "logout"
        BY <2>2, <3>2 DEF Finish, LogoutStorage, NoTokens
      <3>3. CASE ~(Kind[c] = "login" /\ call[c].answer = "ok") /\ Kind[c] # "logout"
        BY <2>2, <3>3 DEF Finish
      <3> QED
        BY <3>1, <3>2, <3>3
    <2> QED
      BY <2>1, <2>2 DEF Handle
  <1>5. \A t \in Tabs : refresh'[t].answer \in {refresh[t].answer, 0}
    <2>1. CASE StartRefresh(c)
      BY <2>1 DEF StartRefresh, TypeOK
    <2>2. CASE ~StartRefresh(c)
      BY <2>2 DEF Make, Handle, Finish, JoinQueue, NoRefreshToken
    <2> QED
      BY <2>1, <2>2
  <1> QED
    BY <1>2, <1>3, <1>4, <1>5, NothingNew

\* The token of a login is in use nowhere else.
LEMMA ServeFresh ==
    ASSUME TypeOK, TokensKnown, \A t \in Tabs : AnswerFresh(t), NEW c \in Calls, Serve(c)
    PROVE  TokensKnown' /\ \A t \in Tabs : AnswerFresh(t)'
  <1>1. Moves(c, {"sent"}, {"answered"}) /\ UNCHANGED <<storage, refresh>>
    BY ServeMoves DEF Serve, ServeApi, ServeLogin, ServeLogout, FailCall, client
  <1>2. \A d \in Calls : call'[d].token \in {call[d].token, storage.access}
    BY <1>1 DEF Moves
  <1>3. CASE call'[c].grant = call[c].grant /\ UNCHANGED tokens
    <2>1. \A d \in Calls : call'[d].grant = call[d].grant
      BY <1>1, <1>3 DEF Moves
    <2> QED
      BY <1>1, <1>2, <1>3, <2>1, NothingNew
  <1>4. CASE Issue(Len(tokens) + 1) /\ call'[c].grant = Len(tokens')
    <2>1. Len(tokens) + 1 \in Token
      BY <1>4, TokenAssumption, TokenNumbers DEF Issue, Token
    <2>2. Len(tokens') = Len(tokens) + 1
      BY <1>4, <2>1, IssueType
    <2>3. \A d \in Calls \ {c} : call'[d].grant = call[d].grant
      BY <1>1 DEF Moves
    <2>4. TokensKnown'
      BY <1>1, <1>2, <1>4, <2>2, <2>3, TokenNumbers DEF TokensKnown
    <2>5. ASSUME NEW t \in Tabs, refresh'[t].answer # 0
          PROVE  /\ storage'.access # refresh'[t].answer
                 /\ \A d \in Calls : /\ call'[d].token # refresh'[t].answer
                                     /\ call'[d].grant # refresh'[t].answer
                 /\ \A u \in Tabs \ {t} : refresh'[u].answer # refresh'[t].answer
      <3>1. refresh[t].answer # Len(tokens) + 1 /\ refresh'[t].answer = refresh[t].answer
        BY <1>1, TokenNumbers DEF TokensKnown
      <3> QED
        BY <1>1, <1>2, <1>4, <2>2, <2>3, <2>5, <3>1 DEF AnswerFresh
    <2> QED
      BY <2>4, <2>5 DEF AnswerFresh
  <1> QED
    BY <1>3, <1>4, ServeMoves

\* The answer to a refresh is a token in use nowhere.
LEMMA ServeRefreshFresh ==
    ASSUME TypeOK, TokensKnown, \A t \in Tabs : AnswerFresh(t), NEW t \in Tabs, ServeRefresh(t)
    PROVE  TokensKnown' /\ \A u \in Tabs : AnswerFresh(u)'
  <1>0. UNCHANGED <<storage, call>> /\ refresh \in [Tabs -> Refresh] /\ refresh[t] \in Refresh
    BY DEF ServeRefresh, client, TypeOK
  <1>1. CASE refresh' = [refresh EXCEPT ![t].at = "answered"] /\ UNCHANGED tokens
    <2>1. \A u \in Tabs : refresh'[u].answer = refresh[u].answer
      BY <1>0, <1>1 DEF Refresh
    <2> QED
      BY <1>0, <1>1, <2>1, NothingNew
  <1>2. CASE /\ Issue(refresh[t].token)
             /\ refresh' = [refresh EXCEPT ![t].at = "answered", ![t].answer = Len(tokens')]
    <2>1. refresh[t].token \in Token
      BY <1>0 DEF Refresh
    <2>2. Len(tokens') = Len(tokens) + 1
      BY <1>2, <2>1, IssueType
    <2>3. /\ refresh'[t].answer = Len(tokens) + 1
          /\ \A u \in Tabs \ {t} : refresh'[u] = refresh[u]
      BY <1>0, <1>2, <2>2 DEF Refresh
    <2>4. TokensKnown'
      BY <1>0, <2>2, <2>3, TokenNumbers DEF TokensKnown
    <2>5. /\ storage.access # Len(tokens) + 1
          /\ \A c \in Calls : call[c].token # Len(tokens) + 1 /\ call[c].grant # Len(tokens) + 1
          /\ \A u \in Tabs : refresh[u].answer # Len(tokens) + 1
      BY TokenNumbers DEF TokensKnown
    <2>6. ASSUME NEW u \in Tabs PROVE AnswerFresh(u)'
      <3>1. CASE u = t
        BY <1>0, <2>3, <2>5, <3>1 DEF AnswerFresh
      <3>2. CASE u # t
        <4>1. refresh'[u] = refresh[u]
          BY <2>3, <3>2
        <4>2. ASSUME refresh[u].answer # 0, NEW v \in Tabs \ {u}
              PROVE  refresh'[v].answer # refresh[u].answer
          BY <2>3, <2>5, <4>2 DEF AnswerFresh
        <4> QED
          BY <1>0, <4>1, <4>2 DEF AnswerFresh
      <3> QED
        BY <3>1, <3>2
    <2> QED
      BY <2>4, <2>6
  <1> QED
    BY <1>1, <1>2 DEF ServeRefresh

\* The token of a refresh that succeeds becomes the one in use.
LEMMA RefreshedFresh ==
    ASSUME TypeOK, TokensKnown, \A t \in Tabs : AnswerFresh(t),
           NEW t \in Tabs, QueueOK(t), RefreshSucceeds(t)
    PROVE  TokensKnown' /\ \A u \in Tabs : AnswerFresh(u)'
  <1> DEFINE a == refresh[t].answer
  <1>1. /\ Clears(t) /\ storage'.access = a /\ a # 0 /\ UNCHANGED tokens
    BY TabClears DEF EndRefresh, RefreshSucceeds, Stored, server, TypeOK
  <1>2. \A c \in Calls : /\ call'[c].token \in {call[c].token, a}
                         /\ call'[c].grant = call[c].grant
    BY <1>1 DEF Clears
  <1>3. refresh'[t].answer = 0 /\ \A u \in Tabs \ {t} : refresh'[u] = refresh[u]
    BY <1>1 DEF Clears, NoRefresh, TypeOK
  <1>4. TokensKnown'
    BY <1>1, <1>2, <1>3, TokenNumbers DEF TokensKnown
  <1>5. ASSUME NEW u \in Tabs, refresh'[u].answer # 0
        PROVE  /\ storage'.access # refresh'[u].answer
               /\ \A c \in Calls : /\ call'[c].token # refresh'[u].answer
                                   /\ call'[c].grant # refresh'[u].answer
               /\ \A v \in Tabs \ {u} : refresh'[v].answer # refresh'[u].answer
    <2>1. u # t /\ refresh'[u] = refresh[u]
      BY <1>3, <1>5
    <2>2. refresh[u].answer # a
      BY <1>1, <2>1 DEF AnswerFresh
    <2> HIDE DEF a
    <2> QED
      BY <1>1, <1>2, <1>3, <1>5, <2>1, <2>2 DEF AnswerFresh
  <1> QED
    BY <1>4, <1>5 DEF AnswerFresh

\* A step keeps what is known of the tokens.
LEMMA FreshStep ==
    ASSUME IInv, Next
    PROVE  TokensKnown' /\ \A t \in Tabs : AnswerFresh(t)'
  <1>0. TypeOK /\ TokensKnown /\ \A t \in Tabs : QueueOK(t) /\ AnswerFresh(t)
    BY DEF IInv
  <1>1. ASSUME NEW t \in Tabs, RefreshFails(t) \/ Unload(t)
        PROVE  TokensKnown' /\ \A u \in Tabs : AnswerFresh(u)'
    <2>1. /\ Clears(t) /\ storage'.access \in {storage.access, 0} /\ UNCHANGED tokens
          /\ \A c \in Calls : call'[c].token = call[c].token
      <3>1. \A c \in Calls : call[c] \in Call
        BY <1>0 DEF TypeOK
      <3>2. ASSUME NEW c \in Calls PROVE call'[c].token = call[c].token
        <4>1. CASE RefreshFails(t)
          BY <3>1, <4>1 DEF RefreshFails, Ended, Call
        <4>2. CASE Unload(t)
          BY <3>1, <4>2 DEF Unload, Call
        <4> QED
          BY <1>1, <4>1, <4>2
      <3>3. storage'.access \in {storage.access, 0} /\ UNCHANGED tokens
        BY <1>1 DEF RefreshFails, Unload, NoTokens, server
      <3> QED
        BY <1>0, <1>1, <3>2, <3>3, TabClears DEF EndRefresh
    <2>2. \A c \in Calls : call'[c].grant = call[c].grant
      BY <2>1 DEF Clears
    <2>3. \A u \in Tabs : refresh'[u].answer \in {refresh[u].answer, 0}
      BY <1>0, <2>1 DEF Clears, NoRefresh, TypeOK
    <2> QED
      BY <1>0, <2>1, <2>2, <2>3, NothingNew
  <1>2. ASSUME Expire \/ Idle
        PROVE  TokensKnown' /\ \A u \in Tabs : AnswerFresh(u)'
    <2>1. UNCHANGED <<storage, refresh, call>> /\ Len(tokens') = Len(tokens)
      BY <1>0, <1>2, ExpireType DEF Expire, Idle, vars, client, server
    <2> QED
      BY <1>0, <2>1, NothingNew
  <1> QED
    BY <1>0, <1>1, <1>2, OwnStepFresh, ServeFresh, ServeRefreshFresh, RefreshedFresh
       DEF Next, EndRefresh

-----------------------------------------------------------------------------
\* The invariant, and the properties it gives

\* IInv holds in the initial state.
LEMMA InitIInv == Init => IInv
  <1> SUFFICES ASSUME Init PROVE IInv
    OBVIOUS
  <1>1. \A t \in Tabs : QueueOK(t)
    <2>1. ASSUME NEW t \in Tabs PROVE QueueOK(t)
      <3>1. failedQueue[t] = <<>> /\ ~ isRefreshing[t] /\ refresh[t].at = "none"
        BY DEF Init, NoRefresh
      <3>2. \A c \in Calls : call[c].at = "new"
        BY DEF Init, NewCall
      <3>3. /\ Queued(t) = {} /\ Refreshing(t) = {}
            /\ {c \in Calls : Tab[c] = t /\ call[c].at = "queued"} = {}
        BY <3>1, <3>2 DEF Queued, Refreshing
      <3> QED
        BY <3>1, <3>3 DEF QueueOK
    <2> QED
      BY <2>1
  <1>2. TokensKnown
    <2>1. Len(tokens) = 1 /\ storage.access = 1
      BY DEF Init
    <2> QED
      BY <2>1 DEF Init, TokensKnown, NewCall, NoRefresh
  <1>3. \A t \in Tabs : AnswerFresh(t)
    BY DEF Init, AnswerFresh, NoRefresh
  <1> QED
    BY <1>1, <1>2, <1>3, InitType DEF IInv

\* A step keeps IInv.
LEMMA NextIInv == IInv /\ [Next]_vars => IInv'
  <1> SUFFICES ASSUME IInv, [Next]_vars PROVE IInv'
    OBVIOUS
  <1>1. CASE Next
    BY <1>1, TypeStep, QueueStep, FreshStep DEF IInv
  <1>2. CASE UNCHANGED vars
    BY <1>2 DEF IInv, TypeOK, QueueOK, TokensKnown, AnswerFresh, Queued, Refreshing,
                vars, client, server
  <1> QED
    BY <1>1, <1>2

\* The queues, the refreshes and the tokens are as IInv has them, in any number of
\* tabs and whatever the server answers (api/client.ts).
THEOREM InvariantHolds == Spec => []IInv
  <1> QED
    BY InitIInv, NextIInv, PTL DEF Spec

\* The storage, the calls and the tokens have their types.
THEOREM TypesHold == Spec => []TypeOK
  <1>1. IInv => TypeOK
    BY DEF IInv
  <1> QED
    BY <1>1, InvariantHolds, PTL

\* A queue without repetition is as long as its set of calls is large.
LEMMA QueueLength ==
    ASSUME TypeOK, NEW t \in Tabs, QueueOK(t)
    PROVE  Len(failedQueue[t]) = Cardinality(Queued(t))
  <1> DEFINE q == failedQueue[t]
             n == Len(q)
  <1>1. q \in Seq(Calls) /\ n \in Nat /\ DOMAIN q = 1 .. n
    BY DEF TypeOK
  <1>2. \A j, k \in 1 .. n : q[j] = q[k] => j = k
    BY <1>1 DEF QueueOK
  <1>3. Queued(t) = {q[k] : k \in 1 .. n}
    BY <1>1 DEF Queued
  <1> HIDE DEF n
  <1>4. [k \in 1 .. n |-> q[k]] \in Bijection(1 .. n, Queued(t))
    BY <1>2, <1>3 DEF Bijection, Injection, Surjection, IsInjective
  <1>5. ExistsBijection(1 .. n, Queued(t))
    BY <1>4 DEF ExistsBijection
  <1> QED
    BY <1>1, <1>5, FS_CountingElements DEF n

\* No call is left waiting: each waits once, in the queue of its tab, for a refresh
\* that one call of the tab has under way (the response interceptor's failedQueue).
THEOREM QueuesAreServed == Spec => []QueueIsServed
  <1>1. IInv => QueueIsServed
    <2> SUFFICES ASSUME IInv, NEW t \in Tabs
                 PROVE  /\ Queued(t) = {c \in Calls : Tab[c] = t /\ call[c].at = "queued"}
                        /\ Len(failedQueue[t]) = Cardinality(Queued(t))
                        /\ failedQueue[t] # <<>> => isRefreshing[t]
                        /\ isRefreshing[t] <=> refresh[t].at # "none"
                        /\ Cardinality(Refreshing(t)) = IF isRefreshing[t] THEN 1 ELSE 0
      BY DEF QueueIsServed
    <2>1. TypeOK /\ QueueOK(t)
      BY DEF IInv
    <2>2. Len(failedQueue[t]) = Cardinality(Queued(t))
      BY <2>1, QueueLength
    <2>3. Cardinality(Refreshing(t)) = IF isRefreshing[t] THEN 1 ELSE 0
      <3>1. CASE isRefreshing[t]
        <4>1. PICK c \in Calls : Refreshing(t) = {c}
          BY <2>1, <3>1 DEF QueueOK
        <4> QED
          BY <3>1, <4>1, FS_Singleton
      <3>2. CASE ~ isRefreshing[t]
        BY <2>1, <3>2, FS_EmptySet DEF QueueOK
      <3> QED
        BY <3>1, <3>2
    <2> QED
      BY <2>1, <2>2, <2>3 DEF QueueOK
  <1> QED
    BY <1>1, InvariantHolds, PTL

\* A call that was refused is sent again with a token it was not refused with: the
\* refreshed token, which nobody used before, is stored first.
THEOREM RetriesAreNew == Spec => RetriesUseNewToken
  <1> DEFINE New(c) == call[c].at \in {"queued", "refreshing"} /\ call'[c].at = "sent"
                           => call'[c].token # call[c].token
  <1>1. ASSUME IInv, Next, NEW c \in Calls PROVE New(c)
    <2>0. TypeOK /\ \A t \in Tabs : QueueOK(t) /\ AnswerFresh(t)
      BY <1>1 DEF IInv
    <2>1. ASSUME NEW d \in Calls, Make(d) \/ Handle(d) PROVE New(c)
      <3>1. Moves(d, {"new", "answered"}, {"ended", "sent", "queued", "refreshing"})
        BY <2>0, <2>1, CallMoves DEF Moves, Handle
      <3> QED
        BY <3>1 DEF Moves
    <2>2. ASSUME NEW d \in Calls, Serve(d) PROVE New(c)
      BY <2>0, <2>2, ServeMoves DEF Moves
    <2>3. ASSUME NEW t \in Tabs, RefreshSucceeds(t) PROVE New(c)
      <3>1. Clears(t)
        BY <2>0, <2>3, TabClears DEF EndRefresh
      <3>2. CASE Tab[c] # t
        BY <3>1, <3>2 DEF Clears
      <3>3. CASE Tab[c] = t /\ call[c].at \in {"queued", "refreshing"}
        <4>1. c \in Queued(t) \cup Refreshing(t)
          BY <2>0, <3>3 DEF QueueOK, Refreshing
        <4>2. call'[c] = Sent(call[c], storage') /\ storage'.access = refresh[t].answer
          BY <2>0, <2>3, <4>1 DEF RefreshSucceeds, Stored, TypeOK
        <4>3. call[c] \in Call
          BY <2>0 DEF TypeOK
        <4>4. call'[c].token = refresh[t].answer
          BY <4>2, <4>3 DEF Sent, Call
        <4> QED
          BY <2>0, <2>3, <4>4 DEF AnswerFresh, RefreshSucceeds
      <3> QED
        BY <3>2, <3>3
    <2>4. ASSUME NEW t \in Tabs, RefreshFails(t) \/ Unload(t) PROVE New(c)
      <3>1. call[c] \in Call
        BY <2>0 DEF TypeOK
      <3>2. call'[c] = call[c] \/ call'[c].at \in {"ended", "lost"}
        <4>1. CASE RefreshFails(t)
          BY <3>1, <4>1 DEF RefreshFails, Ended, Call
        <4>2. CASE Unload(t)
          BY <3>1, <4>2 DEF Unload, Call
        <4> QED
          BY <2>4, <4>1, <4>2
      <3> QED
        BY <3>2
    <2>5. ASSUME UNCHANGED call PROVE New(c)
      BY <2>5
    <2> QED
      BY <1>1, <2>1, <2>2, <2>3, <2>4, <2>5
         DEF Next, EndRefresh, ServeRefresh, Expire, Idle, vars
  <1>2. IInv /\ [Next]_vars => [\A c \in Calls : New(c)]_vars
    BY <1>1
  <1> QED
    BY <1>2, InvariantHolds, PTL DEF Spec, RetriesUseNewToken

-----------------------------------------------------------------------------
\* One tab that began in the app, and one login

OneTab   == \A t, u \in Tabs : t = u
InTheApp == StartPage = [t \in Tabs |-> "app"]
OneLogin == \A c, d \in Calls : Kind[c] = "login" /\ Kind[d] = "login" => c = d

\* A token keeps the session it was issued for.
LEMMA SessionsKept ==
    ASSUME TypeOK, Next, NEW k \in Nat \ {0}, k <= Len(tokens)
    PROVE  tokens'[k].session = tokens[k].session
  <1>0. k \in 1 .. Len(tokens)
    BY TokenNumbers
  <1>1. ASSUME NEW s \in Token, Issue(s) PROVE tokens'[k].session = tokens[k].session
    BY <1>0, <1>1, IssueType
  <1>2. ASSUME NEW c \in Calls, Serve(c) PROVE tokens'[k].session = tokens[k].session
    <2>1. CASE Issue(Len(tokens) + 1)
      <3>1. Len(tokens) + 1 \in Token
        BY <2>1, TokenAssumption, TokenNumbers DEF Issue, Token
      <3> QED
        BY <1>1, <2>1, <3>1
    <2> QED
      BY <1>2, <2>1, ServeMoves
  <1>3. ASSUME NEW t \in Tabs, ServeRefresh(t) PROVE tokens'[k].session = tokens[k].session
    <2>1. refresh[t].token \in Token
      BY DEF TypeOK, Refresh
    <2> QED
      BY <1>1, <1>3, <2>1 DEF ServeRefresh
  <1>4. CASE Expire
    BY <1>0, <1>4, ExpireType
  <1>5. ASSUME NEW c \in Calls, Make(c) \/ Handle(c) PROVE UNCHANGED tokens
    BY <1>5 DEF Make, Handle, Finish, JoinQueue, StartRefresh, NoRefreshToken, server
  <1>6. ASSUME NEW t \in Tabs, EndRefresh(t) \/ Unload(t) PROVE UNCHANGED tokens
    BY <1>6 DEF EndRefresh, RefreshSucceeds, RefreshFails, Unload, server
  <1>7. CASE Idle
    BY <1>7 DEF Idle, vars, server
  <1> QED
    BY <1>2, <1>3, <1>4, <1>5, <1>6, <1>7 DEF Next

\* What is known of the calls of a page survives a call that moves within it.
LEMMA CallsOnPage ==
    ASSUME TypeOK, NEW t \in Tabs, PagesOK(t), NEW c \in Calls,
           Moves(c, {"new", "sent", "answered"}, Places), UNCHANGED page,
           \/ InFlight(c)
           \/ /\ Kind[c] = "login" => page[t] = "login"
              /\ Kind[c] = "logout" => page[t] = "app"
    PROVE  /\ LoggedIn => LoggedIn'
           /\ \A d \in Calls : InFlight(d)' /\ Kind[d] = "login" => page'[t] = "login"
           /\ \A d \in Calls : InFlight(d)' /\ Kind[d] = "logout" => page'[t] = "app"
  <1>1. \A d \in Calls \ {c} : call'[d] = call[d]
    BY DEF Moves
  <1>2. call[c].at # "ended"
    BY DEF Moves
  <1>3. LoggedIn => LoggedIn'
    BY <1>1, <1>2 DEF LoggedIn
  <1>4. ASSUME NEW d \in Calls, InFlight(d)', d # c PROVE InFlight(d)
    BY <1>1, <1>4 DEF InFlight
  <1> QED
    BY <1>3, <1>4 DEF PagesOK

\* A step of a call in its page: the storage is emptied on the way to the login page,
\* and filled by the login only, when no refresh is under way.
LEMMA OwnTogether ==
    ASSUME IInv, TogetherInv, OneTab, OneLogin, NEW c \in Calls, Make(c) \/ Handle(c)
    PROVE  TogetherInv'
  <1> DEFINE t == Tab[c]
  <1>0. /\ TypeOK /\ t \in Tabs /\ \A u \in Tabs : u = t
        /\ QueueOK(t) /\ SessionsOK(t) /\ PagesOK(t) /\ TokensBelongTogether
    BY TokenAssumption DEF IInv, TogetherInv, OneTab
  <1>1. /\ Moves(c, {"new", "answered"}, {"ended", "sent", "queued", "refreshing"})
        /\ call'[c].grant = call[c].grant
    BY <1>0, CallMoves DEF Moves, Handle
  <1>2. UNCHANGED <<page, tokens>> /\ \A d \in Calls : call'[d].grant = call[d].grant
    BY <1>1 DEF Make, Handle, Finish, JoinQueue, StartRefresh, NoRefreshToken, server, Moves
  <1>3. /\ LoggedIn => LoggedIn'
        /\ \A d \in Calls : InFlight(d)' /\ Kind[d] = "login" => page'[t] = "login"
        /\ \A d \in Calls : InFlight(d)' /\ Kind[d] = "logout" => page'[t] = "app"
    <2>1. \/ InFlight(c)
          \/ /\ Kind[c] = "login" => page[t] = "login"
             /\ Kind[c] = "logout" => page[t] = "app"
      BY DEF Make, Handle, Finish, JoinQueue, StartRefresh, NoRefreshToken, Unauthorized,
             InFlight
    <2>2. Moves(c, {"new", "sent", "answered"}, Places)
      BY <1>1 DEF Moves, Places
    <2>3. UNCHANGED page
      BY <1>2
    <2> HIDE DEF t
    <2> QED
      BY <1>0, <2>1, <2>2, <2>3, CallsOnPage
  <1>4. page[t] \in {"app", "login"}
    BY <1>0 DEF TypeOK
  <1> SUFFICES TokensBelongTogether' /\ SessionsOK(t)' /\ PagesOK(t)'
    BY <1>0 DEF TogetherInv
  <1> HIDE DEF t
  <1>5. ASSUME storage' = NoTokens, UNCHANGED refresh,
               leaving'[t] \in {leaving[t], "login"},
               leaving'[t] = "login" => page[t] = "app"
        PROVE  TokensBelongTogether' /\ SessionsOK(t)' /\ PagesOK(t)'
    <2>1. storage'.access = 0 /\ storage'.refresh = 0
      BY <1>5 DEF NoTokens
    <2>2. TokensBelongTogether'
      BY <2>1 DEF TokensBelongTogether
    <2>3. SessionsOK(t)'
      BY <1>0, <1>2, <1>5, <2>1 DEF SessionsOK
    <2>4. PagesOK(t)'
      BY <1>0, <1>2, <1>3, <1>5, <2>1 DEF PagesOK
    <2> QED
      BY <2>2, <2>3, <2>4
  <1>6. ASSUME UNCHANGED <<storage, leaving, refresh>>
        PROVE  TokensBelongTogether' /\ SessionsOK(t)' /\ PagesOK(t)'
    BY <1>0, <1>2, <1>3, <1>6 DEF TokensBelongTogether, SessionsOK, PagesOK
  <1>7. CASE Make(c)
    <2>1. CASE Kind[c] = "logout" /\ storage.refresh = 0
      BY <1>0, <1>5, <1>7, <2>1 DEF Make, Leave, TypeOK, t
    <2>2. CASE ~(Kind[c] = "logout" /\ storage.refresh = 0)
      BY <1>6, <1>7, <2>2 DEF Make
    <2> QED
      BY <2>1, <2>2
  <1>8. CASE Finish(c)
    <2>1. CASE Kind[c] = "login" /\ call[c].answer = "ok"
      <3> DEFINE g == call[c].grant
      <3>1. /\ storage' = [access |-> g, refresh |-> g] /\ leaving'[t] = "app"
            /\ UNCHANGED refresh
        BY <1>0, <1>8, <2>1 DEF Finish, Leave, TypeOK, t
      <3>2. storage'.access = g /\ storage'.refresh = g
        BY <3>1
      <3>3. /\ InFlight(c) /\ page[t] = "login"
        BY <1>0, <1>8, <2>1 DEF Finish, InFlight, PagesOK, t
      <3>4. ~LoggedIn
        BY <1>8, <2>1 DEF LoggedIn, OneLogin, Finish
      <3>5. refresh[t].at = "none"
        BY <1>0, <3>3, <3>4 DEF PagesOK
      <3>6. LoggedIn'
        <4>1. call'[c].at = "ended"
          BY <1>0, <1>8, CallMoves DEF Moves
        <4> QED
          BY <2>1, <4>1 DEF LoggedIn
      <3>7. TokensBelongTogether'
        BY <1>0, <1>2, <3>2 DEF TokensBelongTogether, SessionsOK
      <3>8. SessionsOK(t)'
        BY <1>0, <1>2, <3>1, <3>5 DEF SessionsOK
      <3>9. PagesOK(t)'
        BY <1>3, <3>1, <3>6 DEF PagesOK
      <3> QED
        BY <3>7, <3>8, <3>9
    <2>2. CASE Kind[c] = "logout"
      <3>1. page[t] = "app"
        BY <1>0, <1>8, <2>2 DEF Finish, InFlight, PagesOK, t
      <3>2. storage' = NoTokens /\ leaving'[t] = "login" /\ UNCHANGED refresh
        BY <1>0, <1>8, <2>2 DEF Finish, LogoutStorage, Leave, TypeOK, t
      <3> QED
        BY <1>5, <3>1, <3>2
    <2>3. CASE ~(Kind[c] = "login" /\ call[c].answer = "ok") /\ Kind[c] # "logout"
      BY <1>6, <1>8, <2>3 DEF Finish
    <2> QED
      BY <2>1, <2>2, <2>3
  <1>9. CASE JoinQueue(c)
    BY <1>6, <1>9 DEF JoinQueue
  <1>10. CASE StartRefresh(c)
    <2>1. /\ refresh'[t].at = "sent" /\ refresh'[t].token = storage.refresh
          /\ refresh'[t].answer = 0
      BY <1>0, <1>10 DEF StartRefresh, TypeOK, t
    <2>2. UNCHANGED <<storage, leaving>> /\ storage.refresh # 0
      BY <1>10 DEF StartRefresh
    <2>3. TokensBelongTogether'
      BY <1>0, <1>2, <2>2 DEF TokensBelongTogether
    <2>4. SessionsOK(t)'
      BY <1>0, <1>2, <2>1, <2>2 DEF SessionsOK
    <2>5. PagesOK(t)'
      BY <1>0, <1>2, <1>3, <2>2 DEF PagesOK
    <2> QED
      BY <2>3, <2>4, <2>5
  <1>11. CASE NoRefreshToken(c)
    <2>1. storage' = NoTokens /\ UNCHANGED refresh
      BY <1>11 DEF NoRefreshToken
    <2>2. CASE Kind[c] = "logout"
      <3>1. page[t] = "app"
        BY <1>0, <1>11, <2>2 DEF NoRefreshToken, Unauthorized, InFlight, PagesOK, t
      <3>2. leaving'[t] = "login"
        BY <1>0, <1>11, <2>2 DEF NoRefreshToken, Leave, TypeOK, t
      <3> QED
        BY <1>5, <2>1, <3>1, <3>2
    <2>3. CASE Kind[c] # "logout"
      <3>1. leaving' = RedirectToLogin(t)
        BY <1>11, <2>3 DEF NoRefreshToken, t
      <3>2. CASE page[t] = "login"
        BY <1>0, <1>5, <2>1, <3>1, <3>2 DEF RedirectToLogin, PagesOK
      <3>3. CASE page[t] # "login"
        BY <1>0, <1>4, <1>5, <2>1, <3>1, <3>3 DEF RedirectToLogin, Leave, TypeOK
      <3> QED
        BY <3>2, <3>3
    <2> QED
      BY <2>2, <2>3
  <1> QED
    BY <1>7, <1>8, <1>9, <1>10, <1>11 DEF Handle

\* The server issues access tokens for the session they were asked for.
LEMMA ServeTogether ==
    ASSUME IInv, TogetherInv, Next, NEW c \in Calls, Serve(c)
    PROVE  TogetherInv'
  <1>0. TypeOK /\ TokensKnown
    BY DEF IInv
  <1>1. Moves(c, {"sent"}, {"answered"}) /\ UNCHANGED <<storage, refresh, page, leaving>>
    BY <1>0, ServeMoves DEF Serve, ServeApi, ServeLogin, ServeLogout, FailCall, client
  <1>2. Moves(c, {"new", "sent", "answered"}, Places) /\ InFlight(c) /\ UNCHANGED page
    BY <1>1 DEF Moves, InFlight, Places
  <1>3. \A k \in Nat \ {0} : k <= Len(tokens) => tokens'[k].session = tokens[k].session
    BY <1>0, SessionsKept
  <1>4. TokensBelongTogether'
    BY <1>0, <1>1, <1>3, TokenNumbers DEF TokensBelongTogether, TogetherInv, TokensKnown
  <1>5. ASSUME NEW d \in Calls, call'[d].grant # 0
        PROVE  tokens'[call'[d].grant].session = call'[d].grant
    <2>0. Tab[d] \in Tabs
      BY TokenAssumption
    <2>1. CASE call'[d].grant = call[d].grant
      BY <1>0, <1>3, <1>5, <2>0, <2>1, TokenNumbers DEF TogetherInv, SessionsOK, TokensKnown
    <2>2. CASE call'[d].grant # call[d].grant
      <3>1. d = c
        BY <1>1, <2>2 DEF Moves
      <3>2. Issue(Len(tokens) + 1) /\ call'[c].grant = Len(tokens')
        BY <1>0, <2>2, <3>1, ServeMoves
      <3>3. Len(tokens) + 1 \in Token
        BY <1>0, <3>2, TokenAssumption, TokenNumbers DEF Issue, Token
      <3> QED
        BY <1>0, <2>0, <3>1, <3>2, <3>3, IssueType
    <2> QED
      BY <2>1, <2>2
  <1>6. ASSUME NEW t \in Tabs PROVE SessionsOK(t)' /\ PagesOK(t)'
    <2>1. SessionsOK(t) /\ PagesOK(t)
      BY DEF TogetherInv
    <2>2. refresh[t].answer # 0 =>
             tokens'[refresh[t].answer].session = tokens[refresh[t].answer].session
      BY <1>0, <1>3, TokenNumbers DEF TokensKnown
    <2>3. SessionsOK(t)'
      BY <1>1, <1>5, <2>1, <2>2 DEF SessionsOK
    <2>4. /\ LoggedIn => LoggedIn'
          /\ \A d \in Calls : InFlight(d)' /\ Kind[d] = "login" => page'[t] = "login"
          /\ \A d \in Calls : InFlight(d)' /\ Kind[d] = "logout" => page'[t] = "app"
      BY <1>0, <1>2, <2>1, CallsOnPage
    <2>5. PagesOK(t)'
      BY <1>1, <2>1, <2>4 DEF PagesOK
    <2> QED
      BY <2>3, <2>5
  <1> QED
    BY <1>4, <1>6 DEF TogetherInv

\* So does the answer to a refresh; expiry changes no session.
LEMMA RefreshTogether ==
    ASSUME IInv, TogetherInv, Next, Expire \/ \E t \in Tabs : ServeRefresh(t)
    PROVE  TogetherInv'
  <1>0. TypeOK /\ TokensKnown
    BY DEF IInv
  <1>1. UNCHANGED <<storage, call, page, leaving>>
    BY DEF Expire, ServeRefresh, client
  <1>2. \A k \in Nat \ {0} : k <= Len(tokens) => tokens'[k].session = tokens[k].session
    BY <1>0, SessionsKept
  <1>3. TokensBelongTogether'
    BY <1>0, <1>1, <1>2, TokenNumbers DEF TokensBelongTogether, TogetherInv, TokensKnown
  <1>4. ASSUME NEW t \in Tabs
        PROVE  /\ refresh'[t].token = refresh[t].token
               /\ refresh'[t].at = "none" <=> refresh[t].at = "none"
               /\ refresh'[t].answer # 0 =>
                     tokens'[refresh'[t].answer].session = refresh[t].token
    <2>0. refresh \in [Tabs -> Refresh] /\ refresh[t] \in Refresh
      BY <1>0 DEF TypeOK
    <2>1. CASE refresh'[t] = refresh[t]
      BY <1>0, <1>2, <2>1, TokenNumbers DEF TogetherInv, SessionsOK, TokensKnown
    <2>2. CASE refresh'[t] # refresh[t]
      <3>1. ServeRefresh(t)
        BY <2>0, <2>2 DEF Expire, ServeRefresh
      <3>2. CASE /\ Issue(refresh[t].token)
                 /\ refresh' = [refresh EXCEPT ![t].at = "answered", ![t].answer = Len(tokens')]
        <4>1. refresh[t].token \in Token
          BY <2>0 DEF Refresh
        <4>2. tokens'[Len(tokens')].session = refresh[t].token
          BY <1>0, <3>2, <4>1, IssueType
        <4>3. /\ refresh'[t].token = refresh[t].token /\ refresh'[t].at = "answered"
              /\ refresh'[t].answer = Len(tokens')
          BY <2>0, <3>2 DEF Refresh
        <4> QED
          BY <3>1, <4>2, <4>3 DEF ServeRefresh
      <3>3. CASE refresh' = [refresh EXCEPT ![t].at = "answered"]
        <4>1. /\ refresh'[t].token = refresh[t].token /\ refresh'[t].at = "answered"
              /\ refresh'[t].answer = refresh[t].answer
          BY <2>0, <3>3 DEF Refresh
        <4> QED
          BY <1>0, <1>2, <3>1, <4>1, TokenNumbers
             DEF TogetherInv, SessionsOK, TokensKnown, ServeRefresh
      <3> QED
        BY <3>1, <3>2, <3>3 DEF ServeRefresh
    <2> QED
      BY <2>1, <2>2
  <1>5. ASSUME NEW d \in Calls, call[d].grant # 0
        PROVE  tokens'[call[d].grant].session = tokens[call[d].grant].session
    BY <1>0, <1>2, <1>5, TokenNumbers DEF TokensKnown
  <1>6. ASSUME NEW t \in Tabs PROVE SessionsOK(t)' /\ PagesOK(t)'
    <2>1. SessionsOK(t) /\ PagesOK(t)
      BY DEF TogetherInv
    <2>2. SessionsOK(t)'
      BY <1>1, <1>4, <1>5, <2>1 DEF SessionsOK
    <2>3. PagesOK(t)'
      BY <1>1, <1>4, <2>1 DEF PagesOK, LoggedIn, InFlight
    <2> QED
      BY <2>2, <2>3
  <1> QED
    BY <1>3, <1>6 DEF TogetherInv

\* The end of a refresh, and of a page: the token stored is of the session that asked
\* for it, and the login page is entered with an empty storage.
LEMMA EndTogether ==
    ASSUME IInv, TogetherInv, OneTab, NEW t \in Tabs, EndRefresh(t) \/ Unload(t)
    PROVE  TogetherInv'
  <1>0. /\ TypeOK /\ QueueOK(t) /\ SessionsOK(t) /\ PagesOK(t) /\ TokensBelongTogether
        /\ \A u \in Tabs : u = t
        /\ \A c \in Calls : call[c] \in Call /\ Tab[c] = t
    BY TokenAssumption DEF IInv, TogetherInv, OneTab, TypeOK
  <1>1. /\ Clears(t) /\ UNCHANGED tokens
        /\ refresh'[t].at = "none" /\ refresh'[t].answer = 0
    <2>1. Clears(t)
      BY <1>0, TabClears
    <2>2. UNCHANGED tokens
      BY DEF EndRefresh, RefreshSucceeds, RefreshFails, Unload, server
    <2>3. refresh'[t] = NoRefresh
      BY <1>0, <2>1 DEF Clears, TypeOK
    <2> QED
      BY <2>1, <2>2, <2>3 DEF NoRefresh
  <1>2. \A c \in Calls : call'[c].grant = call[c].grant
    BY <1>0, <1>1 DEF Clears
  <1>3. SessionsOK(t)'
    BY <1>0, <1>1, <1>2 DEF SessionsOK
  <1>4. page[t] \in {"app", "login"} /\ leaving[t] \in {"stay", "app", "login"}
    BY <1>0 DEF TypeOK
  <1> SUFFICES TokensBelongTogether' /\ PagesOK(t)'
    BY <1>0, <1>3 DEF TogetherInv
  <1>5. CASE EndRefresh(t)
    <2>1. \A c \in Calls : InFlight(c)' => InFlight(c)
      <3> SUFFICES ASSUME NEW c \in Calls, InFlight(c)' PROVE InFlight(c)
        OBVIOUS
      <3>1. CASE c \in Queued(t) \cup Refreshing(t)
        BY <1>0, <3>1 DEF QueueOK, Refreshing, InFlight
      <3>2. CASE c \notin Queued(t) \cup Refreshing(t)
        BY <1>5, <3>2 DEF EndRefresh, RefreshSucceeds, RefreshFails, Rejected, InFlight
      <3> QED
        BY <3>1, <3>2
    <2>2. LoggedIn => LoggedIn'
      <3> SUFFICES ASSUME NEW c \in Calls, call[c].at = "ended" PROVE call'[c].at = "ended"
        BY DEF LoggedIn
      <3>1. c \notin Queued(t) \cup Refreshing(t)
        BY <1>0 DEF QueueOK, Refreshing
      <3> QED
        BY <1>5, <3>1 DEF EndRefresh, RefreshSucceeds, RefreshFails, Rejected
    <2>3. UNCHANGED page
      BY <1>5 DEF EndRefresh, RefreshSucceeds, RefreshFails
    <2>4. CASE RefreshSucceeds(t)
      <3>1. /\ storage'.access = refresh[t].answer /\ storage'.refresh = storage.refresh
            /\ refresh[t].answer # 0 /\ refresh[t].at # "none" /\ UNCHANGED leaving
        BY <1>0, <2>4 DEF RefreshSucceeds, Stored, TypeOK
      <3>2. TokensBelongTogether'
        BY <1>0, <1>1, <3>1 DEF TokensBelongTogether, SessionsOK
      <3>3. PagesOK(t)'
        BY <1>0, <1>1, <2>1, <2>2, <2>3, <3>1 DEF PagesOK
      <3> QED
        BY <3>2, <3>3
    <2>5. CASE RefreshFails(t)
      <3>1. storage'.access = 0 /\ storage'.refresh = 0
        BY <2>5 DEF RefreshFails, NoTokens
      <3>2. leaving'[t] = "login" => page[t] = "app"
        <4>1. CASE \E c \in Rejected(t) : Kind[c] = "logout"
          <5>1. PICK c \in Queued(t) \cup Refreshing(t) : Kind[c] = "logout"
            BY <4>1 DEF Rejected
          <5>2. c \in Calls /\ InFlight(c)
            BY <1>0 DEF QueueOK, Refreshing, InFlight
          <5> QED
            BY <1>0, <5>1, <5>2 DEF PagesOK
        <4>2. CASE ~ \E c \in Rejected(t) : Kind[c] = "logout"
          <5>1. leaving' = RedirectToLogin(t)
            BY <2>5, <4>2 DEF RefreshFails
          <5> QED
            BY <1>0, <1>4, <5>1 DEF RedirectToLogin, Leave, PagesOK, TypeOK
        <4> QED
          BY <4>1, <4>2
      <3>3. TokensBelongTogether'
        BY <3>1 DEF TokensBelongTogether
      <3>4. PagesOK(t)'
        BY <1>0, <1>1, <2>1, <2>2, <2>3, <3>1, <3>2 DEF PagesOK
      <3> QED
        BY <3>3, <3>4
    <2> QED
      BY <1>5, <2>4, <2>5 DEF EndRefresh
  <1>6. CASE Unload(t)
    <2>1. /\ page'[t] = leaving[t] /\ leaving'[t] = "stay" /\ UNCHANGED storage
          /\ leaving[t] # "stay"
      BY <1>0, <1>6 DEF Unload, TypeOK
    <2>2. \A c \in Calls : ~ InFlight(c)'
      BY <1>0, <1>6 DEF Unload, InFlight, Call, Places
    <2>3. TokensBelongTogether'
      BY <1>0, <1>1, <2>1 DEF TokensBelongTogether
    <2>4. PagesOK(t)'
      BY <1>0, <1>1, <2>1, <2>2 DEF PagesOK
    <2> QED
      BY <2>3, <2>4
  <1> QED
    BY <1>5, <1>6

\* TogetherInv is an invariant of one tab that began in the app, with one login.
LEMMA TogetherHolds == OneTab /\ InTheApp /\ OneLogin => (Spec => []TogetherInv)
  <1> SUFFICES ASSUME OneTab, InTheApp, OneLogin PROVE Spec => []TogetherInv
    OBVIOUS
  <1>1. Init => TogetherInv
    <2> SUFFICES ASSUME Init PROVE TogetherInv
      OBVIOUS
    <2>1. TokensBelongTogether
      BY DEF Init, TokensBelongTogether
    <2>2. ASSUME NEW t \in Tabs PROVE SessionsOK(t)
      BY DEF Init, SessionsOK, NoRefresh, NewCall
    <2>3. ASSUME NEW t \in Tabs PROVE PagesOK(t)
      BY DEF Init, PagesOK, InFlight, NewCall, InTheApp
    <2> QED
      BY <2>1, <2>2, <2>3 DEF TogetherInv
  <1>2. IInv /\ TogetherInv /\ [Next]_vars => TogetherInv'
    <2> SUFFICES ASSUME IInv, TogetherInv, [Next]_vars PROVE TogetherInv'
      OBVIOUS
    <2>1. CASE UNCHANGED vars
      BY <2>1 DEF TogetherInv, TokensBelongTogether, SessionsOK, PagesOK, LoggedIn, InFlight,
                  vars, client, server
    <2>2. CASE Next
      BY <2>1, <2>2, OwnTogether, ServeTogether, RefreshTogether, EndTogether DEF Next, Idle
    <2> QED
      BY <2>1, <2>2
  <1> QED
    BY <1>1, <1>2, InvariantHolds, PTL DEF Spec

\* In one tab that began in the app, with one login, calls go out for the user who
\* logged in last: the access token stored is of the session of the refresh token
\* stored with it.
THEOREM TokensStayTogether ==
    OneTab /\ InTheApp /\ OneLogin => (Spec => []TokensBelongTogether)
  <1>1. TogetherInv => TokensBelongTogether
    BY DEF TogetherInv
  <1> QED
    BY <1>1, TogetherHolds, PTL
=============================================================================
