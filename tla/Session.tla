------------------------------ MODULE Session ------------------------------
(***************************************************************************)
(* Staying signed in: the tabs of one browser, their requests, the cookie  *)
(* they share and the rotated refresh tokens of the server.  A request     *)
(* that is answered 401 waits for its tab's one refresh and is sent once   *)
(* more.  The cookie is of the browser, the refresh in hand of the tab.    *)
(* The server answers before it commits: get_db() does that when the       *)
(* response has left, and it may fail.                                     *)
(***************************************************************************)
EXTENDS Integers, Sequences, FiniteSets

CONSTANTS
  Tabs,
  MaxRequests,
  MaxCalls,    \* refreshes and logouts on their way at a time
  NoTab,
  MaxTurns     \* sign-ins, requests, logouts and page loads in all

ASSUME SessionAssumption ==
  /\ NoTab \notin Tabs
  /\ MaxRequests \in Nat /\ MaxCalls \in Nat /\ MaxTurns \in Nat

VARIABLES
  tokens,      \* refresh_tokens: rows in the order they were inserted
  writes,      \* what was answered and is still to commit: the row to revoke
               \* and the row that was added, 0 for none
  cookie,      \* the row the browser's cookie stands for, 0 for none
  tab,         \* the auth store and refreshPromise of each tab
  call,        \* refreshes and logouts between tab and server
  req,         \* the other requests
  logins,      \* how often somebody signed in
  breaks,      \* how often somebody logged out or reloaded a page
  ended,       \* history: logins that were logged out by the server
  reused,      \* history: logins of which a rotated token came back
  broken,      \* history: logins of which a row that was answered came to nothing
  crossed      \* history: logins of which an answer was lost, or two calls
               \* that no single tab keeps apart were on their way at a time

table   == <<tokens, writes, ended, broken>>
vars    == <<table, cookie, tab, call, req, logins, breaks, reused, crossed>>

Calls == 1 .. MaxCalls
NoCall == 0
Requests == 1 .. MaxRequests

\* A sign-in is one row; each rotation adds another of the same login.
Token == [login : Nat, at : {"open", "in", "lost"}, revoked : BOOLEAN, next : Nat]
Tab   == [login : Nat, fresh : BOOLEAN, shell : BOOLEAN, pending : Calls \cup {NoCall}]
Call  == [pc : {"free", "sent", "read", "served", "refused"}, kind : {"refresh", "logout"},
          tab : Tabs \cup {NoTab}, token : Nat, new : Nat]
Req   == [pc : {"idle", "sent", "waiting", "resent", "over"},
          tab : Tabs \cup {NoTab}, fresh : BOOLEAN, call : Calls \cup {NoCall}]

SignedOut == [login |-> 0, fresh |-> FALSE, shell |-> FALSE, pending |-> NoCall]
FreeCall  == [pc |-> "free", kind |-> "refresh", tab |-> NoTab, token |-> 0, new |-> 0]
Unsent    == [pc |-> "idle", tab |-> NoTab, fresh |-> FALSE, call |-> NoCall]
Over      == [pc |-> "over", tab |-> NoTab, fresh |-> FALSE, call |-> NoCall]

TypeOK ==
  /\ tokens \in Seq(Token)
  /\ writes \subseteq [old : 0 .. Len(tokens), new : 0 .. Len(tokens)]
  /\ cookie \in 0 .. Len(tokens)
  /\ tab \in [Tabs -> Tab]
  /\ call \in [Calls -> Call]
  /\ \A c \in Calls : call[c].token \in 0 .. Len(tokens) /\ call[c].new \in 0 .. Len(tokens)
  /\ req \in [Requests -> Req]
  /\ \A r \in Requests : req[r].pc \notin {"idle", "over"} => req[r].tab \in Tabs
  /\ logins \in Nat
  /\ breaks \in Nat
  /\ ended \subseteq Nat /\ reused \subseteq Nat /\ broken \subseteq Nat /\ crossed \subseteq Nat

Init ==
  /\ tokens = <<>> /\ writes = {}
  /\ cookie = 0
  /\ tab = [b \in Tabs |-> SignedOut]
  /\ call = [c \in Calls |-> FreeCall]
  /\ req = [r \in Requests |-> Unsent]
  /\ logins = 0
  /\ breaks = 0
  /\ ended = {} /\ reused = {} /\ broken = {} /\ crossed = {}

LoginOf(t) == IF t = 0 THEN 0 ELSE tokens[t].login

\* A row the server finds and takes for usable.
Live(t) == tokens[t].at = "in" /\ ~tokens[t].revoked

AnotherTurn == logins + breaks + Cardinality({r \in Requests : req[r].pc # "idle"}) < MaxTurns

NewRow(l) == [login |-> l, at |-> "open", revoked |-> FALSE, next |-> 0]

-----------------------------------------------------------------------------
(* The client *)

\* The auth store and refreshPromise of a tab.
Store(b, login, fresh, shell, pending) ==
  tab' = [tab EXCEPT ![b] = [login |-> login, fresh |-> fresh, shell |-> shell, pending |-> pending]]

\* login(): a row, the cookie, the store.
SignIn(b) ==
  /\ ~tab[b].shell
  /\ AnotherTurn
  /\ logins' = logins + 1
  /\ tokens' = Append(tokens, NewRow(logins + 1))
  /\ writes' = writes \cup {[old |-> 0, new |-> Len(tokens) + 1]}
  /\ cookie' = Len(tokens) + 1
  /\ Store(b, logins + 1, TRUE, TRUE, tab[b].pending)
  /\ UNCHANGED <<call, req, breaks, ended, reused, broken, crossed>>

\* The calls on their way about the login of this cookie, and those of them that
\* the single flight of tab b does not hold back: all but its own refreshes.
AboutCookie == {c \in Calls : call[c].pc # "free" /\ LoginOf(call[c].token) = LoginOf(cookie)}

Rivals(b, kind) ==
  {c \in AboutCookie : ~(call[c].tab = b /\ call[c].kind = "refresh" /\ kind = "refresh")}

\* The names of calls and requests say nothing: the first free one is next.
FirstFree(c) == call[c].pc = "free" /\ \A d \in 1 .. c - 1 : call[d].pc # "free"

Ask(c, b, kind) ==
  /\ FirstFree(c)
  /\ call' = [call EXCEPT ![c] = [pc |-> "sent", kind |-> kind, tab |-> b, token |-> cookie, new |-> 0]]
  /\ crossed' = IF Rivals(b, kind) = {} THEN crossed ELSE crossed \cup {LoginOf(cookie)}

FirstIdle(r) == req[r].pc = "idle" /\ \A q \in 1 .. r - 1 : req[q].pc # "idle"

Send(r, b) ==
  /\ tab[b].shell
  /\ FirstIdle(r)
  /\ AnotherTurn
  /\ req' = [req EXCEPT ![r] = [pc |-> "sent", tab |-> b, fresh |-> tab[b].fresh, call |-> NoCall]]
  /\ UNCHANGED <<table, cookie, tab, call, logins, breaks, reused, crossed>>

Accepted(r) ==
  /\ req[r].pc \in {"sent", "resent"} /\ req[r].fresh
  /\ req' = [req EXCEPT ![r] = Over]
  /\ UNCHANGED <<table, cookie, tab, call, logins, breaks, reused, crossed>>

RequestFails(r) ==
  /\ req[r].pc \in {"sent", "resent"}
  /\ req' = [req EXCEPT ![r] = Over]
  /\ UNCHANGED <<table, cookie, tab, call, logins, breaks, reused, crossed>>

\* Mutant: every 401 asks for a refresh of its own.
StartRefreshEachTime(c, b) == Ask(c, b, "refresh")

\* refreshAccessToken() when the tab has none in hand, and when it has.
StartRefresh(c, b) == tab[b].pending = NoCall /\ Ask(c, b, "refresh")
JoinRefresh(c, b)  == tab[b].pending = c /\ UNCHANGED <<call, crossed>>

\* The interceptor: a first 401 waits for the refresh of its tab.
Unauthorized(r, c) ==
  /\ req[r].pc = "sent" /\ ~req[r].fresh
  /\ StartRefresh(c, req[r].tab) \/ JoinRefresh(c, req[r].tab)
  /\ LET b == req[r].tab IN Store(b, tab[b].login, tab[b].fresh, tab[b].shell, c)
  /\ req' = [req EXCEPT ![r] = [pc |-> "waiting", tab |-> req[r].tab, fresh |-> FALSE, call |-> c]]
  /\ UNCHANGED <<table, cookie, logins, breaks, reused>>

\* A second one is final.
UnauthorizedAgain(r) ==
  /\ req[r].pc = "resent" /\ ~req[r].fresh
  /\ req' = [req EXCEPT ![r] = Over]
  /\ UNCHANGED <<table, cookie, tab, call, logins, breaks, reused, crossed>>

LogOut(c, b) ==
  /\ AnotherTurn
  /\ breaks' = breaks + 1
  /\ tab[b].shell /\ tab[b].login # 0
  /\ Ask(c, b, "logout")
  /\ UNCHANGED <<table, cookie, tab, req, logins, reused>>

Orphan(k) == [pc |-> k.pc, kind |-> k.kind, tab |-> NoTab, token |-> k.token, new |-> k.new]

\* The page is loaded anew: what it had in memory is gone, a call on its way is
\* not, and boot() begins with a refresh.
Reload(c, b) ==
  /\ AnotherTurn
  /\ FirstFree(c)
  /\ breaks' = breaks + 1
  /\ call' = [d \in Calls |->
       IF d = c THEN [pc |-> "sent", kind |-> "refresh", tab |-> b, token |-> cookie, new |-> 0]
       ELSE IF call[d].tab = b THEN Orphan(call[d]) ELSE call[d]]
  /\ crossed' = IF AboutCookie # {} THEN crossed \cup {LoginOf(cookie)} ELSE crossed
  /\ Store(b, 0, FALSE, FALSE, c)
  /\ req' = [r \in Requests |-> IF req[r].tab = b THEN Over ELSE req[r]]
  /\ UNCHANGED <<table, cookie, logins, reused>>

\* The access token of a tab runs out, for the requests on their way as well.
Expire(b) ==
  /\ tab[b].fresh
  /\ Store(b, tab[b].login, FALSE, tab[b].shell, tab[b].pending)
  /\ req' = [r \in Requests |-> IF req[r].tab = b /\ req[r].pc \in {"sent", "resent"}
                                THEN [pc |-> req[r].pc, tab |-> b, fresh |-> FALSE, call |-> NoCall] ELSE req[r]]
  /\ UNCHANGED <<table, cookie, call, logins, breaks, reused, crossed>>

-----------------------------------------------------------------------------
(* The server *)

Goes(c, pc, new) ==
  call' = [call EXCEPT ![c] = [pc |-> pc, kind |-> call[c].kind, tab |-> call[c].tab,
                               token |-> call[c].token, new |-> new]]

Revoked(row) == [row EXCEPT !.revoked = TRUE]

\* rotate_refresh_token() finds a usable row,
ReadToken(c) ==
  /\ call[c].pc = "sent" /\ call[c].kind = "refresh" /\ call[c].token # 0
  /\ Live(call[c].token)
  /\ Goes(c, "read", 0)
  /\ UNCHANGED <<table, cookie, tab, req, logins, breaks, reused, crossed>>

\* or there is no cookie, no such row as yet, it has expired or its user is
\* inactive,
Refuse(c) ==
  /\ call[c].pc = "sent" /\ call[c].kind = "refresh"
  /\ Goes(c, "refused", 0)
  /\ UNCHANGED <<table, cookie, tab, req, logins, breaks, reused, crossed>>

\* _revoke_descendants(): the chain of replaced_by from a row on.
Chain(t) ==
  {u \in 1 .. Len(tokens) :
     \A S \in SUBSET (1 .. Len(tokens)) :
       (\A v \in S \cup {t} : tokens[v].next # 0 => tokens[v].next \in S) => u \in S}

\* or it was rotated before: everything that came of it is revoked, and that
\* is committed before the 401 leaves.
Reuse(c) ==
  LET t == call[c].token IN
  /\ call[c].pc = "sent" /\ call[c].kind = "refresh" /\ t # 0
  /\ tokens[t].revoked
  /\ tokens' = [u \in 1 .. Len(tokens) |->
                  IF u \in Chain(t) THEN Revoked(tokens[u]) ELSE tokens[u]]
  /\ Goes(c, "refused", 0)
  /\ reused' = reused \cup {LoginOf(t)}
  /\ UNCHANGED <<writes, cookie, tab, req, logins, breaks, ended, broken, crossed>>

\* The new row is there for its own transaction; the old one is revoked and
\* replaced, from what was read, when that commits.
Rotate(c) ==
  LET t == call[c].token
      new == Len(tokens) + 1
  IN
  /\ call[c].pc = "read"
  /\ tokens' = Append(tokens, NewRow(LoginOf(t)))
  /\ writes' = writes \cup {[old |-> t, new |-> new]}
  /\ Goes(c, "served", new)
  /\ UNCHANGED <<cookie, tab, req, logins, breaks, ended, reused, broken, crossed>>

\* revoke_refresh_token(): nothing, when there is no such row or it is revoked.
Revoke(c) ==
  LET t == call[c].token IN
  /\ call[c].pc = "sent" /\ call[c].kind = "logout"
  /\ writes' = IF t # 0 /\ Live(t) THEN writes \cup {[old |-> t, new |-> 0]} ELSE writes
  /\ Goes(c, "served", 0)
  /\ UNCHANGED <<tokens, cookie, tab, req, logins, breaks, ended, reused, broken, crossed>>

\* What a commit makes of a row.
Saved(w, u) ==
  IF u = w.new THEN [tokens[u] EXCEPT !.at = "in"]
  ELSE IF u # w.old THEN tokens[u]
  ELSE IF w.new = 0 THEN Revoked(tokens[u])
  ELSE [Revoked(tokens[u]) EXCEPT !.next = w.new]

\* get_db() after the response.
Save(w) ==
  /\ w \in writes
  /\ writes' = writes \ {w}
  /\ tokens' = [u \in 1 .. Len(tokens) |-> Saved(w, u)]
  /\ ended' = IF w.new = 0 THEN ended \cup {LoginOf(w.old)} ELSE ended
  /\ UNCHANGED <<cookie, tab, call, req, logins, breaks, reused, broken, crossed>>

\* The worker or its connection to the database is gone before that.
SaveFails(w) ==
  /\ w \in writes
  /\ writes' = writes \ {w}
  /\ tokens' = [u \in 1 .. Len(tokens) |->
                  IF u = w.new THEN [tokens[u] EXCEPT !.at = "lost"] ELSE tokens[u]]
  /\ broken' = IF w.new = 0 THEN broken ELSE broken \cup {LoginOf(w.new)}
  /\ UNCHANGED <<cookie, tab, call, req, logins, breaks, ended, reused, crossed>>

-----------------------------------------------------------------------------
(* The answers *)

\* The waiting requests go out again with what the refresh brought.
Resend(c) ==
  req' = [r \in Requests |->
            IF req[r].pc = "waiting" /\ req[r].call = c
            THEN [pc |-> "resent", tab |-> req[r].tab, fresh |-> TRUE, call |-> NoCall] ELSE req[r]]

\* Mutant: those who wait for a refresh that fails are not told.
GiveUpSilently(c) == UNCHANGED req

GiveUp(c) ==
  req' = [r \in Requests |->
            IF req[r].pc = "waiting" /\ req[r].call = c THEN Over ELSE req[r]]

Settled(b, c) == IF tab[b].pending = c THEN NoCall ELSE tab[b].pending

\* Mutant: the answer comes without the new cookie.
KeepCookie(c) == cookie' = cookie

\* _set_refresh_cookie().
SetCookie(c) == cookie' = call[c].new

\* setSession(); the answer to a page that is gone still sets the cookie.
Refreshed(c) ==
  LET b == call[c].tab
      l == LoginOf(call[c].new)
  IN
  /\ call[c].pc = "served" /\ call[c].kind = "refresh"
  /\ SetCookie(c)
  /\ IF b = NoTab THEN UNCHANGED <<tab, req>>
     ELSE /\ Store(b, l, TRUE, TRUE, Settled(b, c))
          /\ Resend(c)
  /\ call' = [call EXCEPT ![c] = FreeCall]
  /\ UNCHANGED <<table, logins, breaks, reused, crossed>>

\* clearSession(), on a refusal as on a broken connection.
ClearSession(c) ==
  LET b == call[c].tab IN
  /\ IF b = NoTab THEN UNCHANGED <<tab, req>>
     ELSE /\ Store(b, 0, FALSE, tab[b].shell, Settled(b, c))
          /\ IF call[c].kind = "refresh" THEN GiveUp(c) ELSE UNCHANGED req
  /\ call' = [call EXCEPT ![c] = FreeCall]
  /\ UNCHANGED <<table, cookie, logins, breaks, reused>>

RefreshRefused(c) ==
  /\ call[c].pc = "refused"
  /\ ClearSession(c)
  /\ UNCHANGED crossed

\* A request the server never sees, or an answer that does not come back.
CallLost(c) ==
  /\ call[c].pc \in {"sent", "served", "refused"}
  /\ ClearSession(c)
  /\ crossed' = IF call[c].pc = "served" THEN crossed \cup {LoginOf(call[c].token)} ELSE crossed

\* The answer to a logout drops the cookie, whichever it is by now; the tab
\* forgets its session and leaves for the sign-in page.
LoggedOut(c) ==
  LET b == call[c].tab IN
  /\ call[c].pc = "served" /\ call[c].kind = "logout"
  /\ cookie' = 0
  /\ IF b = NoTab THEN UNCHANGED tab ELSE Store(b, 0, FALSE, FALSE, tab[b].pending)
  /\ call' = [call EXCEPT ![c] = FreeCall]
  /\ UNCHANGED <<table, req, logins, breaks, reused, crossed>>

-----------------------------------------------------------------------------
Client ==
  \/ \E b \in Tabs : SignIn(b)
  \/ \E r \in Requests : RequestFails(r) \/ \E b \in Tabs : Send(r, b)
  \/ \E r \in Requests, c \in Calls : Unauthorized(r, c)
  \/ \E b \in Tabs : Expire(b)
  \/ \E b \in Tabs, c \in Calls : LogOut(c, b) \/ Reload(c, b)

Server(c) == ReadToken(c) \/ Refuse(c) \/ Reuse(c) \/ Rotate(c) \/ Revoke(c)
Answer(c) == Refreshed(c) \/ RefreshRefused(c) \/ LoggedOut(c)

Next ==
  \/ Client
  \/ \E r \in Requests : Accepted(r) \/ UnauthorizedAgain(r)
  \/ \E c \in Calls : Server(c) \/ Answer(c) \/ CallLost(c)
  \/ \E w \in writes : Save(w) \/ SaveFails(w)

Spec == Init /\ [][Next]_vars

\* Requests and calls run to their end: the interceptor, the server and the
\* network each get on with what they were given.  A call that is lost ends too.
Fairness ==
  /\ \A c \in Calls : WF_vars(Server(c)) /\ WF_vars(Answer(c))
  /\ \A r \in Requests : /\ WF_vars(Accepted(r) \/ UnauthorizedAgain(r))
                         /\ SF_vars(\E c \in Calls : Unauthorized(r, c))

FairSpec == Spec /\ Fairness

-----------------------------------------------------------------------------
(* What must hold *)

\* Of a sign-in whose calls were answered one by one there is at most one
\* usable token, none once it was logged out, and its rotated tokens do not
\* come back: one refresh per tab (axios.ts) is what keeps the server's reuse
\* detection from taking a tab's own second refresh for a theft.
OneSession ==
  \A l \in 1 .. logins \ crossed :
    LET live == {t \in 1 .. Len(tokens) : tokens[t].login = l /\ Live(t)} IN
    /\ \A t, u \in live : t = u
    /\ l \in ended => live = {}
    /\ l \notin reused

\* As long as the cookie is of the sign-in a tab works under, and nobody has
\* logged it out, its token can be used, now or when the transaction that gave
\* it has committed, or the answer with such a token is on its way: a refresh
\* leaves the browser with nothing to go on only when that commit fails.
Coming(t) == Live(t) \/ \E w \in writes : w.new = t

Backed ==
  \A b \in Tabs :
    LET l == tab[b].login IN
    (l # 0 /\ l = LoginOf(cookie) /\ l \notin ended \cup crossed \cup broken) =>
      \/ Coming(cookie)
      \/ \E c \in Calls : call[c].pc = "served" /\ LoginOf(call[c].new) = l /\ Coming(call[c].new)

\* Every request is answered or fails: none waits for a refresh that is over.
RequestsSettle ==
  \A r \in Requests : req[r].pc \in {"sent", "waiting", "resent"} ~> req[r].pc = "over"

=============================================================================
