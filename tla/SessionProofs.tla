---------------------------- MODULE SessionProofs ----------------------------
(* One session per sign-in, for any number of tabs, requests and calls.     *)
EXTENDS Session, TLAPS

-----------------------------------------------------------------------------
(* The inductive invariant *)

USE DEF table

About(c) == LoginOf(call[c].token)
Quiet(l) == l # 0 /\ l \notin crossed

\* A row that nobody has rotated or revoked, be it committed or not.
Unspent(t) == ~tokens[t].revoked

\* The login a transaction is about.
Of(w) == IF w.new = 0 THEN LoginOf(w.old) ELSE LoginOf(w.new)

\* What is numbered exists: logins of rows, and rows of logins that ended.
Known ==
  /\ \A t \in 1 .. Len(tokens) : tokens[t].login \in 1 .. logins
  /\ ended \subseteq 0 .. logins /\ reused \subseteq 0 .. logins

\* A rotated row is replaced by one of the same login, which has committed.
Kept ==
  \A t \in 1 .. Len(tokens) :
    tokens[t].next # 0 => /\ tokens[t].next \in 1 .. Len(tokens)
                          /\ tokens[tokens[t].next].login = tokens[t].login
                          /\ tokens[tokens[t].next].at = "in"

\* The refresh on its way for a tab is the one the tab has in hand.
InHand ==
  \A c \in Calls : call[c].pc # "free" /\ call[c].kind = "refresh" /\ call[c].tab # NoTab
                     => tab[call[c].tab].pending = c

\* A quiet login has at most one call on its way.
Alone ==
  \A c, d \in Calls : /\ call[c].pc # "free" /\ call[d].pc # "free"
                      /\ About(c) = About(d) /\ Quiet(About(c))
                      => c = d

\* What a call asks with is not spent when the server gets to it.
Usable ==
  \A c \in Calls : call[c].pc \in {"sent", "read"} /\ Quiet(About(c)) => Unspent(call[c].token)

\* A refresh that was read or served had a cookie, and the answer brings a
\* row of the same login.
Brings ==
  \A c \in Calls :
    /\ call[c].pc = "read" =>
         call[c].kind = "refresh" /\ call[c].token # 0 /\ tokens[call[c].token].at = "in"
    /\ call[c].pc = "refused" => call[c].kind = "refresh"
    /\ call[c].pc = "served" /\ call[c].kind = "refresh" =>
         /\ call[c].token # 0 /\ call[c].new # 0
         /\ LoginOf(call[c].new) = About(c)
         /\ Quiet(About(c)) => Unspent(call[c].new)

\* The cookie of a quiet login is not spent, or the answer to what spent it is
\* on its way.
CookieOK ==
  Quiet(LoginOf(cookie)) =>
    \/ Unspent(cookie)
    \/ \E c \in Calls : /\ call[c].pc = "served" /\ About(c) = LoginOf(cookie)
                        /\ call[c].kind = "logout" => About(c) \in ended

\* Only a row that has committed is ever revoked; the others are what an open
\* transaction added, or are lost.
Rows ==
  \A t \in 1 .. Len(tokens) :
    /\ tokens[t].at = "open" <=> \E w \in writes : w.new = t
    /\ tokens[t].at = "lost" => tokens[t].login \in broken
    /\ tokens[t].revoked => tokens[t].at = "in"

\* A transaction revokes a row that has committed and adds one of the same login.
Pairs ==
  \A w \in writes :
    /\ w.old # 0 \/ w.new # 0
    /\ w.old # 0 => tokens[w.old].at = "in" /\ LoginOf(w.old) = Of(w)
    /\ \A x \in writes : w.new # 0 /\ x.new = w.new => x = w

\* A quiet login has at most one open transaction,
Sole == \A w, x \in writes : Of(w) = Of(x) /\ Quiet(Of(w)) => w = x

\* which revokes its only usable row,
Only ==
  \A w \in writes : Quiet(Of(w)) =>
    /\ \A t \in 1 .. Len(tokens) : tokens[t].login = Of(w) /\ Live(t) => t = w.old
    /\ w.new # 0 => Of(w) \notin ended

\* and whose new row is what its call brings, or what the next one asks with.
Theirs ==
  \A w \in writes, c \in Calls : call[c].pc # "free" /\ About(c) = Of(w) /\ Quiet(Of(w)) =>
    /\ call[c].pc \in {"sent", "read"} => call[c].token = w.new
    /\ call[c].pc = "served" /\ call[c].kind = "refresh" => call[c].new = w.new

\* The cookie is that row already, or the answer of the call is on its way.
CookieNew ==
  \A w \in writes : Of(w) = LoginOf(cookie) /\ Quiet(Of(w)) =>
    \/ cookie = w.new
    \/ \E c \in Calls : /\ call[c].pc = "served" /\ About(c) = Of(w)
                        /\ call[c].kind = "logout" <=> w.new = 0

Core == Known /\ Kept /\ InHand /\ Alone /\ Usable /\ Brings /\ CookieOK /\ OneSession
Held == Rows /\ Pairs /\ Sole /\ Only
Pending == Held /\ Theirs /\ CookieNew

IInv == TypeOK /\ Core /\ Pending

-----------------------------------------------------------------------------
(* Types *)

LEMMA TypeInit == Init => TypeOK
<1> SUFFICES ASSUME Init PROVE TypeOK
  OBVIOUS
<1>1. tokens \in Seq(Token) /\ cookie \in 0 .. Len(tokens)
  BY DEF Init
<1>2. tab \in [Tabs -> Tab]
  BY DEF Init, SignedOut, Tab, NoCall
<1>3. call \in [Calls -> Call] /\ \A c \in Calls : call[c].token = 0 /\ call[c].new = 0
  BY DEF Init, FreeCall, Call
<1>4. req \in [Requests -> Req] /\ \A r \in Requests : req[r].pc = "idle"
  BY DEF Init, Unsent, Req, NoCall
<1>5. Len(tokens) = 0
  BY DEF Init
<1> QED
  BY <1>1, <1>2, <1>3, <1>4, <1>5 DEF Init, TypeOK

\* Logins of rows that are there stay what they are.
LEMMA TokensType ==
  ASSUME tokens \in Seq(Token), NEW t \in 1 .. Len(tokens)
  PROVE  /\ tokens[t] \in Token /\ tokens[t].login \in Nat /\ tokens[t].next \in Nat
         /\ tokens[t].revoked \in BOOLEAN /\ tokens[t].at \in {"open", "in", "lost"}
<1>1. tokens[t] \in Token
  OBVIOUS
<1> QED
  BY <1>1 DEF Token

\* A call that is put in its place.
CallsOK(f, n) == f \in [Calls -> Call] /\ \A c \in Calls : f[c].token \in 0 .. n /\ f[c].new \in 0 .. n

LEMMA PutCall ==
  ASSUME NEW f, NEW n \in Nat, NEW m \in Nat, n <= m, CallsOK(f, n),
         NEW c \in Calls, NEW k \in Call, k.token \in 0 .. m, k.new \in 0 .. m
  PROVE  CallsOK([f EXCEPT ![c] = k], m)
<1> DEFINE g == [f EXCEPT ![c] = k]
<1>1. g \in [Calls -> Call]
  BY DEF CallsOK
<1>2. \A d \in Calls : g[d] = IF d = c THEN k ELSE f[d]
  BY DEF CallsOK
<1>3. \A d \in Calls : g[d].token \in 0 .. m /\ g[d].new \in 0 .. m
  BY <1>2 DEF CallsOK
<1> QED
  BY <1>1, <1>3 DEF CallsOK

Writes(n) == [old : 0 .. n, new : 0 .. n]

ReqsOK(f) == f \in [Requests -> Req] /\ \A r \in Requests : f[r].pc \notin {"idle", "over"} => f[r].tab \in Tabs

LEMMA Typed ==
  TypeOK <=> /\ tokens \in Seq(Token) /\ writes \subseteq Writes(Len(tokens)) /\ cookie \in 0 .. Len(tokens) /\ tab \in [Tabs -> Tab]
             /\ CallsOK(call, Len(tokens)) /\ ReqsOK(req)
             /\ logins \in Nat /\ breaks \in Nat
             /\ ended \subseteq Nat /\ reused \subseteq Nat /\ broken \subseteq Nat /\ crossed \subseteq Nat
  BY DEF TypeOK, CallsOK, ReqsOK, Writes

LEMMA LoginType == ASSUME TypeOK, NEW t \in 0 .. Len(tokens) PROVE LoginOf(t) \in Nat
  BY TokensType DEF TypeOK, LoginOf

LEMMA OverType == ASSUME ReqsOK(req), NEW r \in Requests PROVE ReqsOK([req EXCEPT ![r] = Over])
<1>1. Over \in Req /\ Over.pc = "over"
  BY DEF Over, Req, NoCall
<1> QED
  BY <1>1 DEF ReqsOK

LEMMA AskType ==
  ASSUME TypeOK, NEW c \in Calls, NEW b \in Tabs, NEW k \in {"refresh", "logout"}, Ask(c, b, k)
  PROVE  CallsOK(call', Len(tokens)) /\ crossed' \subseteq Nat
<1>1. LoginOf(cookie) \in Nat /\ Len(tokens) \in Nat /\ CallsOK(call, Len(tokens)) /\ crossed \subseteq Nat
  BY LoginType, Typed DEF TypeOK
<1> DEFINE new == [pc |-> "sent", kind |-> k, tab |-> b, token |-> cookie, new |-> 0]
<1>2. new \in Call /\ new.token \in 0 .. Len(tokens) /\ new.new \in 0 .. Len(tokens)
  BY <1>1 DEF TypeOK, Call
<1>3. call' = [call EXCEPT ![c] = new]
  BY DEF Ask
<1> HIDE DEF new
<1>4. CallsOK(call', Len(tokens))
  <2>1. PICK n \in Nat : n = Len(tokens) /\ n <= n
    BY <1>1
  <2>2. CallsOK([call EXCEPT ![c] = new], n)
    BY <1>1, <1>2, <2>1, PutCall
  <2> QED
    BY <1>3, <2>1, <2>2
<1> QED
  BY <1>1, <1>4 DEF Ask

\* What a call carries stays within the rows.
LEMMA GoesType ==
  ASSUME TypeOK, NEW c \in Calls, NEW pc \in {"read", "served", "refused"}, NEW m \in Nat, Len(tokens) <= m,
         NEW new \in 0 .. m, Goes(c, pc, new)
  PROVE  CallsOK(call', m)
<1>1. CallsOK(call, Len(tokens)) /\ Len(tokens) \in Nat
  BY Typed DEF TypeOK
<1> DEFINE k == [pc |-> pc, kind |-> call[c].kind, tab |-> call[c].tab, token |-> call[c].token, new |-> new]
<1>2. k \in Call /\ k.token \in 0 .. m /\ k.new \in 0 .. m
  BY <1>1 DEF CallsOK, Call
<1>3. call' = [call EXCEPT ![c] = k]
  BY DEF Goes
<1> HIDE DEF k
<1> QED
  BY <1>1, <1>2, <1>3, PutCall

LEMMA FreeType ==
  ASSUME TypeOK, NEW c \in Calls, call' = [call EXCEPT ![c] = FreeCall]
  PROVE  CallsOK(call', Len(tokens))
<1>1. CallsOK(call, Len(tokens)) /\ Len(tokens) \in Nat
  BY Typed DEF TypeOK
<1>2. FreeCall \in Call /\ FreeCall.token \in 0 .. Len(tokens) /\ FreeCall.new \in 0 .. Len(tokens)
  BY <1>1 DEF FreeCall, Call
<1>3. PICK n \in Nat : n = Len(tokens) /\ n <= n
  BY <1>1
<1>4. CallsOK([call EXCEPT ![c] = FreeCall], n)
  BY <1>1, <1>2, <1>3, PutCall
<1> QED
  BY <1>3, <1>4

LEMMA StoreType ==
  ASSUME TypeOK, NEW b \in Tabs, NEW l \in Nat, NEW f \in BOOLEAN, NEW s \in BOOLEAN,
         NEW p \in Calls \cup {NoCall}, Store(b, l, f, s, p)
  PROVE  tab' \in [Tabs -> Tab]
  BY DEF Store, TypeOK, Tab

\* A table that is written anew.
LEMMA FunSeq ==
  ASSUME NEW S, NEW n \in Nat, NEW f \in [1 .. n -> S]
  PROVE  f \in Seq(S) /\ Len(f) = n
  OBVIOUS

LEMMA RevokedType == ASSUME NEW row \in Token PROVE Revoked(row) \in Token
  BY DEF Revoked, Token

\* A row that is added.
LEMMA Added ==
  ASSUME TypeOK, NEW l \in Nat, NEW n \in Nat, n = Len(tokens), tokens' = Append(tokens, NewRow(l))
  PROVE  /\ tokens' \in Seq(Token) /\ Len(tokens') = n + 1
         /\ tokens'[n + 1] = NewRow(l) /\ \A u \in 1 .. n : tokens'[u] = tokens[u]
<1>1. NewRow(l) \in Token
  BY DEF NewRow, Token
<1> QED
  BY <1>1 DEF TypeOK

\* A row that a commit, or its failure, changes.
LEMMA SavedType ==
  ASSUME TypeOK, NEW w \in writes, NEW u \in 1 .. Len(tokens)
  PROVE  /\ Saved(w, u) \in Token /\ [tokens[u] EXCEPT !.at = "lost"] \in Token
         /\ Saved(w, u).login = tokens[u].login
<1>1. w.new \in Nat /\ tokens[u] \in Token
  BY DEF TypeOK
<1> QED
  BY <1>1 DEF Saved, Revoked, Token

LEMMA TypeStep == TypeOK /\ [Next]_vars => TypeOK'
<1> SUFFICES ASSUME TypeOK, [Next]_vars PROVE TypeOK'
  OBVIOUS
<1>n. Len(tokens) \in Nat /\ tab \in [Tabs -> Tab] /\ ReqsOK(req) /\ CallsOK(call, Len(tokens))
  BY Typed DEF TypeOK
<1>u. ASSUME UNCHANGED vars PROVE TypeOK'
  BY <1>u DEF TypeOK, vars
<1>1. ASSUME NEW b \in Tabs, SignIn(b) PROVE TypeOK'
  <2>1. logins + 1 \in Nat /\ tokens' = Append(tokens, NewRow(logins + 1))
    BY <1>1 DEF SignIn, TypeOK
  <2>2. tokens' \in Seq(Token) /\ Len(tokens') = Len(tokens) + 1
    BY <1>n, <2>1, Added
  <2>3. tab' \in [Tabs -> Tab]
    BY <1>1 DEF SignIn, Store, TypeOK, Tab
  <2>4. writes' \subseteq Writes(Len(tokens'))
    BY <1>1, <1>n, <2>2 DEF SignIn, TypeOK, Writes
  <2>5. cookie' \in 0 .. Len(tokens') /\ CallsOK(call', Len(tokens')) /\ logins' \in Nat
    BY <1>1, <1>n, <2>2 DEF SignIn, CallsOK, TypeOK
  <2>6. UNCHANGED <<req, breaks, ended, reused, broken, crossed>>
    BY <1>1 DEF SignIn
  <2> QED
    BY <2>2, <2>3, <2>4, <2>5, <2>6 DEF TypeOK, CallsOK, Writes
<1>2. ASSUME NEW r \in Requests, NEW b \in Tabs, Send(r, b) PROVE TypeOK'
  BY <1>2 DEF Send, TypeOK, Req, Tab, NoCall
<1>3. ASSUME NEW r \in Requests, RequestFails(r) \/ Accepted(r) \/ UnauthorizedAgain(r) PROVE TypeOK'
  <2>1. ReqsOK(req')
    BY <1>n, <1>3, OverType DEF RequestFails, Accepted, UnauthorizedAgain
  <2>2. UNCHANGED <<tokens, writes, cookie, tab, call, logins, breaks, ended, reused, broken, crossed>>
    BY <1>3 DEF RequestFails, Accepted, UnauthorizedAgain
  <2> QED
    BY <2>1, <2>2 DEF ReqsOK, TypeOK
<1>4. ASSUME NEW r \in Requests, NEW c \in Calls, Unauthorized(r, c) PROVE TypeOK'
  <2>0. req[r].tab \in Tabs
    BY <1>4 DEF Unauthorized, TypeOK
  <2>1. tab' \in [Tabs -> Tab] /\ ReqsOK(req')
    BY <1>4, <2>0 DEF Unauthorized, Store, TypeOK, Tab, Req, ReqsOK
  <2>2. CallsOK(call', Len(tokens)) /\ crossed' \subseteq Nat
    BY <1>4, <1>n, <2>0, AskType DEF Unauthorized, StartRefresh, JoinRefresh, TypeOK
  <2> QED
    BY <1>4, <2>1, <2>2 DEF Unauthorized, TypeOK, CallsOK, ReqsOK
<1>5. ASSUME NEW b \in Tabs, Expire(b) PROVE TypeOK'
  BY <1>5 DEF Expire, Store, TypeOK, Tab, Req
<1>6. ASSUME NEW b \in Tabs, NEW c \in Calls, LogOut(c, b) PROVE TypeOK'
  <2>1. CallsOK(call', Len(tokens)) /\ crossed' \subseteq Nat
    BY <1>6, AskType DEF LogOut
  <2> QED
    BY <1>6, <2>1 DEF LogOut, TypeOK, CallsOK
<1>7. ASSUME NEW b \in Tabs, NEW c \in Calls, Reload(c, b) PROVE TypeOK'
  <2>1. LoginOf(cookie) \in Nat
    BY LoginType DEF TypeOK
  <2>2. [pc |-> "sent", kind |-> "refresh", tab |-> b, token |-> cookie, new |-> 0] \in Call
    BY DEF TypeOK, Call
  <2>3. call' \in [Calls -> Call]
    BY <1>7, <2>2 DEF Reload, Orphan, TypeOK, Call
  <2>4. tab' \in [Tabs -> Tab]
    BY <1>7 DEF Reload, Store, TypeOK, Tab
  <2>5. \A d \in Calls : call'[d].token \in 0 .. Len(tokens) /\ call'[d].new \in 0 .. Len(tokens)
    BY <1>7 DEF Reload, Orphan, TypeOK, Call
  <2>6. ReqsOK(req')
    <3>1. Over \in Req /\ Over.pc = "over"
      BY DEF Over, Req, NoCall
    <3>2. req' = [r \in Requests |-> IF req[r].tab = b THEN Over ELSE req[r]]
      BY <1>7 DEF Reload
    <3> QED
      <4>1. req' \in [Requests -> Req]
        BY <1>n, <3>1, <3>2 DEF ReqsOK
      <4>2. \A r \in Requests : req'[r] = IF req[r].tab = b THEN Over ELSE req[r]
        BY <3>2
      <4> QED
        BY <1>n, <3>1, <4>1, <4>2 DEF ReqsOK
  <2>7. crossed' \subseteq Nat
    <3>1. crossed' = crossed \/ crossed' = crossed \cup {LoginOf(cookie)}
      BY <1>7 DEF Reload
    <3> QED
      BY <2>1, <3>1 DEF TypeOK
  <2>8. breaks' \in Nat
    BY <1>7 DEF Reload, TypeOK
  <2> QED
    BY <1>7, <2>3, <2>4, <2>5, <2>6, <2>7, <2>8 DEF Reload, TypeOK, ReqsOK
<1>8. ASSUME NEW c \in Calls, ReadToken(c) \/ Refuse(c) PROVE TypeOK'
  <2>1. CallsOK(call', Len(tokens))
    BY <1>8, <1>n, GoesType DEF ReadToken, Refuse
  <2> QED
    BY <1>8, <2>1 DEF ReadToken, Refuse, CallsOK, TypeOK
<1>9. ASSUME NEW c \in Calls, Reuse(c) PROVE TypeOK'
  <2>1. tokens' \in Seq(Token) /\ Len(tokens') = Len(tokens)
    <3>1. \A u \in 1 .. Len(tokens) : Revoked(tokens[u]) \in Token /\ tokens[u] \in Token
      BY RevokedType DEF TypeOK
    <3>2. tokens' \in [1 .. Len(tokens) -> Token]
      BY <1>9, <3>1 DEF Reuse
    <3> QED
      BY <1>n, <3>2, FunSeq
  <2>2. LoginOf(call[c].token) \in Nat
    BY <1>n, LoginType DEF CallsOK
  <2>3. CallsOK(call', Len(tokens))
    BY <1>9, <1>n, GoesType DEF Reuse
  <2> QED
    BY <1>9, <2>1, <2>2, <2>3 DEF Reuse, CallsOK, TypeOK
<1>10. ASSUME NEW c \in Calls, Rotate(c) PROVE TypeOK'
  <2>1. LoginOf(call[c].token) \in Nat /\ tokens' = Append(tokens, NewRow(LoginOf(call[c].token)))
    BY <1>10, <1>n, LoginType DEF Rotate, CallsOK
  <2>2. tokens' \in Seq(Token) /\ Len(tokens') = Len(tokens) + 1
    BY <1>n, <2>1, Added
  <2>3. PICK new \in Nat : new = Len(tokens) + 1
    BY <1>n
  <2>4. CallsOK(call', new)
    <3>1. Goes(c, "served", new) /\ new \in 0 .. new /\ Len(tokens) <= new
      BY <1>10, <1>n, <2>3 DEF Rotate
    <3> QED
      BY <3>1, GoesType
  <2>5. writes' \subseteq Writes(new)
    BY <1>10, <1>n, <2>3 DEF Rotate, TypeOK, CallsOK, Writes
  <2>6. UNCHANGED <<cookie, tab, req, logins, breaks, ended, reused, broken, crossed>>
    BY <1>10 DEF Rotate
  <2>7. cookie' \in 0 .. new
    BY <1>n, <2>3, <2>6 DEF TypeOK
  <2> QED
    BY <2>2, <2>3, <2>4, <2>5, <2>6, <2>7 DEF CallsOK, TypeOK, Writes
<1>11. ASSUME NEW c \in Calls, Revoke(c) PROVE TypeOK'
  <2>1. CallsOK(call', Len(tokens))
    BY <1>11, <1>n, GoesType DEF Revoke
  <2>2. writes' \subseteq Writes(Len(tokens))
    BY <1>11, <1>n DEF Revoke, TypeOK, CallsOK, Writes
  <2>3. UNCHANGED <<tokens, cookie, tab, req, logins, breaks, ended, reused, broken, crossed>>
    BY <1>11 DEF Revoke
  <2> QED
    BY <2>1, <2>2, <2>3 DEF CallsOK, TypeOK, Writes
<1>12. ASSUME NEW c \in Calls, Refreshed(c) PROVE TypeOK'
  <2>1. CallsOK(call', Len(tokens))
    BY <1>12, FreeType DEF Refreshed
  <2>2. cookie' \in 0 .. Len(tokens) /\ LoginOf(call[c].new) \in Nat
    BY <1>12, <1>n, LoginType DEF Refreshed, SetCookie, CallsOK
  <2>3. tab' \in [Tabs -> Tab] /\ ReqsOK(req')
    <3>1. CASE call[c].tab = NoTab
      BY <1>12, <3>1, <1>n DEF Refreshed
    <3>2. CASE call[c].tab # NoTab
      <4>1. call[c].tab \in Tabs
        BY <3>2, <1>n DEF CallsOK, Call
      <4>2. Settled(call[c].tab, c) \in Calls \cup {NoCall}
        BY <4>1, <1>n DEF Settled, Tab
      <4>3. tab' \in [Tabs -> Tab]
        BY <1>12, <3>2, <4>1, <4>2, <2>2, StoreType DEF Refreshed
      <4>4. ReqsOK(req')
        <5> DEFINE again(r) == [pc |-> "resent", tab |-> req[r].tab, fresh |-> TRUE, call |-> NoCall]
        <5>1. \A r \in Requests : again(r) \in Req /\ again(r).tab = req[r].tab
          BY <1>n DEF ReqsOK, Req, NoCall
        <5>2. req' = [r \in Requests |-> IF req[r].pc = "waiting" /\ req[r].call = c THEN again(r) ELSE req[r]]
          BY <1>12, <3>2 DEF Refreshed, Resend
        <5> HIDE DEF again
        <5> QED
          BY <1>n, <5>1, <5>2 DEF ReqsOK
      <4> QED
        BY <4>3, <4>4
    <3> QED
      BY <3>1, <3>2
  <2> QED
    BY <1>12, <2>1, <2>2, <2>3 DEF Refreshed, CallsOK, ReqsOK, TypeOK
<1>13. ASSUME NEW c \in Calls, RefreshRefused(c) \/ CallLost(c) PROVE TypeOK'
  <2>0. ClearSession(c) /\ crossed' \subseteq Nat
    <3>1. LoginOf(call[c].token) \in Nat
      BY <1>n, LoginType DEF CallsOK
    <3> QED
      BY <1>13, <3>1 DEF RefreshRefused, CallLost, TypeOK
  <2>1. CallsOK(call', Len(tokens))
    BY <2>0, FreeType DEF ClearSession
  <2>2. tab' \in [Tabs -> Tab] /\ ReqsOK(req')
    <3>1. CASE call[c].tab = NoTab
      BY <2>0, <3>1, <1>n DEF ClearSession
    <3>2. CASE call[c].tab # NoTab
      <4>1. call[c].tab \in Tabs
        BY <3>2, <1>n DEF CallsOK, Call
      <4>2. Settled(call[c].tab, c) \in Calls \cup {NoCall} /\ tab[call[c].tab].shell \in BOOLEAN
        BY <4>1, <1>n DEF Settled, Tab
      <4>3. tab' \in [Tabs -> Tab]
        BY <2>0, <3>2, <4>1, <4>2, StoreType DEF ClearSession
      <4>4. ReqsOK(req')
        <5>1. Over \in Req /\ Over.pc = "over"
          BY DEF Over, Req, NoCall
        <5> QED
          BY <2>0, <3>2, <1>n, <5>1 DEF ClearSession, GiveUp, ReqsOK
      <4> QED
        BY <4>3, <4>4
    <3> QED
      BY <3>1, <3>2
  <2> QED
    BY <2>0, <2>1, <2>2 DEF ClearSession, CallsOK, ReqsOK, TypeOK
<1>14. ASSUME NEW c \in Calls, LoggedOut(c) PROVE TypeOK'
  <2>1. CallsOK(call', Len(tokens))
    BY <1>14, FreeType DEF LoggedOut
  <2>2. tab' \in [Tabs -> Tab]
    <3>1. CASE call[c].tab = NoTab
      BY <1>14, <3>1, <1>n DEF LoggedOut
    <3>2. CASE call[c].tab # NoTab
      <4>1. call[c].tab \in Tabs
        BY <3>2, <1>n DEF CallsOK, Call
      <4>2. tab[call[c].tab].pending \in Calls \cup {NoCall}
        BY <4>1, <1>n DEF Tab
      <4> QED
        BY <1>14, <3>2, <4>1, <4>2, StoreType DEF LoggedOut
    <3> QED
      BY <3>1, <3>2
  <2> QED
    BY <1>14, <2>1, <2>2, <1>n DEF LoggedOut, CallsOK, TypeOK
<1>15. ASSUME NEW w \in writes, Save(w) \/ SaveFails(w) PROVE TypeOK'
  <2>1. tokens' \in Seq(Token) /\ Len(tokens') = Len(tokens)
    <3>1. \A u \in 1 .. Len(tokens) : /\ Saved(w, u) \in Token /\ tokens[u] \in Token
                                      /\ [tokens[u] EXCEPT !.at = "lost"] \in Token
      BY SavedType DEF TypeOK
    <3>2. CASE Save(w)
      <4>1. tokens' \in [1 .. Len(tokens) -> Token]
        BY <3>1, <3>2 DEF Save
      <4> QED
        BY <1>n, <4>1, FunSeq
    <3>3. CASE SaveFails(w)
      <4>1. tokens' \in [1 .. Len(tokens) -> Token]
        BY <3>1, <3>3 DEF SaveFails
      <4> QED
        BY <1>n, <4>1, FunSeq
    <3> QED
      BY <1>15, <3>2, <3>3
  <2>2. ended' \subseteq Nat /\ broken' \subseteq Nat
    <3>1. LoginOf(w.old) \in Nat /\ LoginOf(w.new) \in Nat
      BY LoginType DEF TypeOK
    <3>2. /\ ended' = ended \/ ended' = ended \cup {LoginOf(w.old)}
          /\ broken' = broken \/ broken' = broken \cup {LoginOf(w.new)}
      BY <1>15 DEF Save, SaveFails
    <3> QED
      BY <3>1, <3>2 DEF TypeOK
  <2>3. writes' \subseteq writes /\ UNCHANGED <<cookie, tab, call, req, logins, breaks, reused, crossed>>
    BY <1>15 DEF Save, SaveFails
  <2> QED
    BY <2>1, <2>2, <2>3 DEF TypeOK
<1> QED
  BY <1>15, <1>u, <1>1, <1>2, <1>3, <1>4, <1>5, <1>6, <1>7, <1>8, <1>9, <1>10, <1>11, <1>12, <1>13, <1>14
  DEF Next, Client, Server, Answer

-----------------------------------------------------------------------------
(* The steps that leave the table alone                                     *)

LEMMA HeldStays ==
  ASSUME Held, UNCHANGED table, crossed \subseteq crossed'
  PROVE  Held'
<1>1. \A l : Quiet(l)' => Quiet(l)
  BY DEF Quiet
<1>2. \A x : Of(x)' = Of(x) /\ LoginOf(x)' = LoginOf(x) /\ Live(x)' = Live(x)
  BY DEF Of, LoginOf, Live
<1>3. Rows' /\ Pairs'
  BY <1>2 DEF Held, Rows, Pairs
<1>4. Sole' /\ Only'
  BY <1>1, <1>2 DEF Held, Sole, Only
<1> QED
  BY <1>3, <1>4 DEF Held

\* The calls are left alone too.
LEMMA Aside ==
  ASSUME TypeOK, Core, Pending, UNCHANGED <<table, cookie, call, logins, reused, crossed>>,
         \A b \in Tabs : tab'[b].pending = tab[b].pending
  PROVE  Core' /\ Pending'
<1>1. InHand'
  BY DEF Core, InHand, TypeOK, Call
<1>2. (Known /\ Kept /\ Alone /\ Usable /\ Brings /\ CookieOK /\ OneSession)'
  BY DEF Core, Known, Kept, Alone, Usable, Brings, CookieOK, OneSession, About, Quiet, LoginOf, Live, Unspent
<1>3. Held'
  BY HeldStays DEF Pending
<1>4. Theirs' /\ CookieNew'
  BY DEF Pending, Theirs, CookieNew, About, Quiet, LoginOf, Of
<1> QED
  BY <1>1, <1>2, <1>3, <1>4 DEF Core, Pending

\* A call that sets out.  Its login has no other on its way, or is crossed.
LEMMA AskCore ==
  ASSUME TypeOK, Core, Pending, NEW c \in Calls, NEW b \in Tabs, NEW k \in {"refresh", "logout"},
         call[c].pc = "free",
         call'[c] = [pc |-> "sent", kind |-> k, tab |-> b, token |-> cookie, new |-> 0],
         \A d \in Calls \ {c} : /\ call'[d].pc = call[d].pc /\ call'[d].kind = call[d].kind
                                /\ call'[d].token = call[d].token /\ call'[d].new = call[d].new,
         crossed \subseteq crossed',
         LoginOf(cookie) \notin crossed' => \A d \in Calls : call[d].pc # "free" => About(d) # LoginOf(cookie),
         UNCHANGED <<table, cookie, logins, reused>>,
         InHand'
  PROVE  Core' /\ Pending'
<1>1. \A t : LoginOf(t)' = LoginOf(t) /\ Unspent(t)' = Unspent(t)
  BY DEF LoginOf, Unspent
<1>2. \A d \in Calls \ {c} : About(d)' = About(d)
  BY <1>1 DEF About, LoginOf
<1>3. About(c)' = LoginOf(cookie)
  BY <1>1 DEF About, LoginOf
<1>4. \A l : Quiet(l)' => Quiet(l)
  BY DEF Quiet
<1>5. Quiet(LoginOf(cookie))' => \A d \in Calls : call[d].pc # "free" => About(d) # LoginOf(cookie)
  BY DEF Quiet, LoginOf
<1>6. Known' /\ Kept'
  BY DEF Core, Known, Kept
<1>7. Alone'
  BY <1>2, <1>3, <1>4, <1>5 DEF Core, Alone, LoginOf, Quiet
<1>8. Quiet(LoginOf(cookie))' => Unspent(cookie)
  BY <1>4, <1>5, <1>1 DEF Core, CookieOK, Quiet
<1>9. Usable'
  BY <1>1, <1>2, <1>3, <1>4, <1>8 DEF Core, Usable, Quiet, LoginOf, Unspent
<1>10. Brings'
  BY <1>1, <1>2, <1>4 DEF Core, Brings, Unspent, Quiet, LoginOf
<1>11. CookieOK'
  BY <1>1, <1>8 DEF CookieOK, Unspent, Quiet, LoginOf
<1>12. OneSession'
  BY DEF Core, OneSession, Live
<1>13. Held'
  BY HeldStays DEF Pending
<1>14. \A w : Of(w)' = Of(w)
  BY <1>1 DEF Of
<1>15. \A w \in writes : Of(w) = LoginOf(cookie) /\ Quiet(LoginOf(cookie))' => cookie = w.new
  <2>1. Quiet(LoginOf(cookie))' => Quiet(LoginOf(cookie))
    BY DEF Quiet, LoginOf
  <2> QED
    BY <1>5, <2>1 DEF Pending, CookieNew
<1>16. Theirs'
  BY <1>2, <1>3, <1>4, <1>14, <1>15 DEF Pending, Theirs, Quiet, LoginOf
<1>17. CookieNew'
  BY <1>1, <1>14, <1>15 DEF CookieNew, Quiet, LoginOf
<1> QED
  BY <1>6, <1>7, <1>9, <1>10, <1>11, <1>12, <1>13, <1>16, <1>17 DEF Core, Pending

\* A call that is over.  If it was served, the cookie is no longer what it used,
\* or its login is crossed.
LEMMA OverCore ==
  ASSUME TypeOK, Core, Pending, NEW c \in Calls,
         call' = [call EXCEPT ![c] = FreeCall],
         \A d \in Calls \ {c} : call[d].tab # NoTab /\ call[d].kind = "refresh" /\ tab[call[d].tab].pending = d
                               => tab'[call[d].tab].pending = d,
         crossed \subseteq crossed',
         UNCHANGED <<table, logins, reused>>,
         CookieOK', CookieNew'
  PROVE  Core' /\ Pending'
<1>1. \A t : LoginOf(t)' = LoginOf(t) /\ Unspent(t)' = Unspent(t)
  BY DEF LoginOf, Unspent
<1>2. \A d \in Calls \ {c} : call'[d] = call[d] /\ About(d)' = About(d)
  BY <1>1 DEF About, LoginOf, TypeOK
<1>3. call'[c].pc = "free"
  BY DEF FreeCall, TypeOK
<1>4. \A l : Quiet(l)' => Quiet(l)
  BY DEF Quiet
<1>5. Known' /\ Kept'
  BY DEF Core, Known, Kept
<1>6. InHand'
  BY <1>2, <1>3 DEF Core, InHand
<1>7. Alone'
  BY <1>2, <1>3, <1>4 DEF Core, Alone
<1>8. Usable'
  BY <1>1, <1>2, <1>3, <1>4 DEF Core, Usable
<1>9. Brings'
  BY <1>1, <1>2, <1>3, <1>4 DEF Core, Brings
<1>10. OneSession'
  BY DEF Core, OneSession, Live
<1>11. Held'
  BY HeldStays DEF Pending
<1>12. \A w : Of(w)' = Of(w)
  BY <1>1 DEF Of
<1>13. Theirs'
  BY <1>2, <1>3, <1>4, <1>12 DEF Pending, Theirs
<1> QED
  BY <1>5, <1>6, <1>7, <1>8, <1>9, <1>10, <1>11, <1>13 DEF Core, Pending

\* What an answer writes to its tab leaves the refreshes of others in hand.
LEMMA OthersInHand ==
  ASSUME TypeOK, NEW c \in Calls, NEW d \in Calls \ {c}, call[d].tab # NoTab, tab[call[d].tab].pending = d,
         NEW l, NEW f, NEW s, NEW p, p \in {tab[call[c].tab].pending, Settled(call[c].tab, c)},
         call[c].tab # NoTab => Store(call[c].tab, l, f, s, p),
         call[c].tab = NoTab => UNCHANGED tab
  PROVE  tab'[call[d].tab].pending = d
<1>1. call[c].tab \in Tabs \cup {NoTab} /\ call[d].tab \in Tabs
  BY DEF TypeOK, Call
<1>2. CASE call[c].tab = NoTab
  BY <1>2
<1>3. CASE call[c].tab \in Tabs /\ call[c].tab # call[d].tab
  BY <1>1, <1>3, SessionAssumption DEF Store, TypeOK
<1>4. CASE call[c].tab \in Tabs /\ call[c].tab = call[d].tab
  <2>1. p = d
    BY <1>4 DEF Settled
  <2>2. tab'[call[d].tab].pending = p
    BY <1>4, SessionAssumption DEF Store, TypeOK
  <2> QED
    BY <2>1, <2>2
<1> QED
  BY <1>1, <1>2, <1>3, <1>4

\* The cookie after an answer.
LEMMA LostCore ==
  ASSUME TypeOK, Core, Pending, NEW c \in Calls, ClearSession(c), call[c].pc # "free",
         crossed' = IF call[c].pc = "served" THEN crossed \cup {About(c)} ELSE crossed
  PROVE  Core' /\ Pending'
<1>1. call' = [call EXCEPT ![c] = FreeCall] /\ UNCHANGED <<table, cookie, logins, reused>> /\ crossed \subseteq crossed'
  BY DEF ClearSession
<1>2. \A t : LoginOf(t)' = LoginOf(t) /\ Unspent(t)' = Unspent(t)
  BY <1>1 DEF LoginOf, Unspent
<1>3. LoginOf(cookie)' = LoginOf(cookie) /\ Unspent(cookie)' = Unspent(cookie) /\ \A w : Of(w)' = Of(w)
  BY <1>1 DEF LoginOf, Unspent, Of
<1>4. \A l : Quiet(l)' => Quiet(l)
  BY <1>1 DEF Quiet
<1>5. \A d \in Calls : call[d].pc = "served" /\ Quiet(LoginOf(cookie))' /\ About(d) = LoginOf(cookie) =>
           call'[d] = call[d] /\ About(d)' = About(d)
  <2> SUFFICES ASSUME NEW d \in Calls, call[d].pc = "served", Quiet(LoginOf(cookie))', About(d) = LoginOf(cookie)
               PROVE  call'[d] = call[d] /\ About(d)' = About(d)
    OBVIOUS
  <2>1. About(d) \notin crossed'
    BY <1>3 DEF Quiet
  <2>2. d # c
    BY <2>1
  <2> QED
    BY <1>1, <2>2 DEF About, LoginOf, TypeOK
<1>6. CookieOK'
  BY <1>1, <1>3, <1>4, <1>5 DEF Core, CookieOK
<1>7. CookieNew'
  BY <1>1, <1>3, <1>4, <1>5 DEF Pending, CookieNew
<1>8. \A d \in Calls \ {c} : call[d].tab # NoTab /\ call[d].kind = "refresh" /\ tab[call[d].tab].pending = d
                           => tab'[call[d].tab].pending = d
  BY OthersInHand DEF ClearSession
<1> QED
  BY <1>1, <1>6, <1>7, <1>8, OverCore

LEMMA RefreshedCore ==
  ASSUME TypeOK, Core, Pending, NEW c \in Calls, Refreshed(c)
  PROVE  Core' /\ Pending'
<1>1. /\ call[c].new # 0 /\ LoginOf(call[c].new) = About(c)
      /\ Quiet(About(c)) => Unspent(call[c].new)
  BY DEF Core, Brings, Refreshed
<1>2. LoginOf(cookie)' = About(c) /\ Unspent(cookie)' = Unspent(call[c].new) /\ crossed' = crossed
  BY <1>1 DEF Refreshed, SetCookie, LoginOf, Unspent
<1>3. CookieOK'
  BY <1>1, <1>2 DEF CookieOK, Quiet
<1>4. CookieNew'
  <2>1. \A w : Of(w)' = Of(w)
    BY DEF Refreshed, Of, LoginOf
  <2>2. \A w \in writes : Of(w) = About(c) /\ Quiet(About(c)) => call[c].new = w.new
    BY DEF Pending, Theirs, Refreshed
  <2>3. writes' = writes /\ cookie' = call[c].new
    BY DEF Refreshed, SetCookie
  <2> QED
    BY <1>2, <2>1, <2>2, <2>3 DEF CookieNew, Quiet
<1>5. \A d \in Calls \ {c} : call[d].tab # NoTab /\ call[d].kind = "refresh" /\ tab[call[d].tab].pending = d
                           => tab'[call[d].tab].pending = d
  BY OthersInHand DEF Refreshed
<1> QED
  BY <1>2, <1>3, <1>4, <1>5, OverCore DEF Refreshed

LEMMA LoggedOutCore ==
  ASSUME TypeOK, Core, Pending, NEW c \in Calls, LoggedOut(c)
  PROVE  Core' /\ Pending'
<1>1. CookieOK' /\ CookieNew'
  BY DEF LoggedOut, CookieOK, CookieNew, Quiet, LoginOf
<1>2. \A d \in Calls \ {c} : call[d].tab # NoTab /\ call[d].kind = "refresh" /\ tab[call[d].tab].pending = d
                           => tab'[call[d].tab].pending = d
  BY OthersInHand DEF LoggedOut
<1> QED
  BY <1>1, <1>2, OverCore DEF LoggedOut

\* A refresh is read, or refused; a logout finds nothing to revoke.
LEMMA ReadCore ==
  ASSUME TypeOK, Core, Pending, NEW c \in Calls, ReadToken(c) \/ Refuse(c) \/ Revoke(c), UNCHANGED writes
  PROVE  Core' /\ Pending'
<1>1. \A t : LoginOf(t)' = LoginOf(t) /\ Unspent(t)' = Unspent(t)
  BY DEF LoginOf, Unspent, ReadToken, Refuse, Revoke
<1>2. \A d \in Calls \ {c} : call'[d] = call[d]
  BY DEF ReadToken, Refuse, Revoke, Goes, TypeOK
<1>3. /\ call'[c].pc \in {"read", "refused", "served"} /\ call'[c].kind = call[c].kind
      /\ call'[c].tab = call[c].tab /\ call'[c].token = call[c].token /\ call[c].pc = "sent"
      /\ call'[c].pc = "read" => call[c].token # 0 /\ tokens[call[c].token].at = "in"
      /\ call'[c].pc # "served" => call[c].kind = "refresh"
      /\ call'[c].pc = "served" => call[c].kind = "logout"
  BY DEF ReadToken, Refuse, Revoke, Goes, TypeOK, Live
<1>4. \A d \in Calls : About(d)' = About(d)
  BY <1>1, <1>2, <1>3 DEF About, LoginOf
<1>5. UNCHANGED <<table, cookie, tab, logins, reused, crossed>>
  BY DEF ReadToken, Refuse, Revoke
<1>6. \A l : Quiet(l)' = Quiet(l)
  BY <1>5 DEF Quiet
<1>7. Known' /\ Kept' /\ OneSession'
  BY <1>5 DEF Core, Known, Kept, OneSession, Live
<1>8. InHand'
  BY <1>2, <1>3, <1>5 DEF Core, InHand
<1>9. Alone'
  BY <1>2, <1>3, <1>4, <1>6 DEF Core, Alone
<1>10. Usable'
  BY <1>1, <1>2, <1>3, <1>4, <1>6 DEF Core, Usable
<1>11. Brings'
  BY <1>1, <1>2, <1>3, <1>4, <1>5, <1>6 DEF Core, Brings
<1>12. \A d \in Calls : call[d].pc = "served" => call'[d] = call[d]
  BY <1>2, <1>3
<1>13. LoginOf(cookie)' = LoginOf(cookie) /\ Unspent(cookie)' = Unspent(cookie) /\ \A w : Of(w)' = Of(w)
  BY <1>5 DEF LoginOf, Unspent, Of
<1>14. CookieOK'
  BY <1>4, <1>5, <1>6, <1>12, <1>13 DEF Core, CookieOK
<1>15. Held'
  BY <1>5, HeldStays DEF Pending
<1>16. Theirs'
  BY <1>2, <1>3, <1>4, <1>5, <1>6, <1>13 DEF Pending, Theirs
<1>17. CookieNew'
  BY <1>4, <1>5, <1>6, <1>12, <1>13 DEF Pending, CookieNew
<1> QED
  BY <1>7, <1>8, <1>9, <1>10, <1>11, <1>14, <1>15, <1>16, <1>17 DEF Core, Pending

-----------------------------------------------------------------------------
(* The steps that write                                                     *)

\* The rows after a step.
NextLogin(t)   == IF t = 0 THEN 0 ELSE tokens'[t].login
NextUnspent(t) == ~tokens'[t].revoked
NextLive(t)    == tokens'[t].at = "in" /\ ~tokens'[t].revoked

\* Rows keep their logins, calls what they carry, tabs what they have in hand.
Onward(n) ==
  /\ n = Len(tokens) /\ Len(tokens') \in Nat /\ n <= Len(tokens')
  /\ \A u \in 1 .. n : tokens'[u].login = tokens[u].login
  /\ \A d \in Calls : /\ call'[d].kind = call[d].kind /\ call'[d].tab = call[d].tab
                      /\ call'[d].token = call[d].token /\ (call'[d].pc = "free" <=> call[d].pc = "free")
  /\ \A b \in Tabs : tab'[b].pending = tab[b].pending
  /\ crossed' = crossed

LEMMA Ahead ==
  ASSUME TypeOK, Core, NEW n \in Nat, Onward(n)
  PROVE  /\ \A u \in 0 .. n : NextLogin(u) = LoginOf(u)
         /\ \A d \in Calls : About(d)' = About(d)
         /\ \A w \in writes : Of(w)' = Of(w)
         /\ \A l : Quiet(l)' = Quiet(l)
         /\ InHand' /\ Alone'
<1>1. \A u \in 0 .. n : NextLogin(u) = LoginOf(u)
  <2>1. \A u \in 0 .. n : u = 0 \/ u \in 1 .. n
    OBVIOUS
  <2> QED
    BY <2>1 DEF Onward, NextLogin, LoginOf
<1>2. \A d \in Calls : call[d].token \in 0 .. n
  BY DEF TypeOK, Onward
<1>3. \A d \in Calls : About(d)' = About(d)
  <2> TAKE d \in Calls
  <2>1. About(d)' = NextLogin(call'[d].token) /\ call'[d].token = call[d].token
    BY DEF About, LoginOf, NextLogin, Onward
  <2> QED
    BY <1>1, <1>2, <2>1 DEF About
<1>4. \A w \in writes : Of(w)' = Of(w)
  <2> TAKE w \in writes
  <2>1. w.old \in 0 .. n /\ w.new \in 0 .. n
    BY DEF TypeOK, Onward
  <2>2. LoginOf(w.old)' = NextLogin(w.old) /\ LoginOf(w.new)' = NextLogin(w.new)
    BY DEF LoginOf, NextLogin
  <2> QED
    BY <1>1, <2>1, <2>2 DEF Of
<1>5. \A l : Quiet(l)' = Quiet(l)
  BY DEF Quiet, Onward
<1>6. InHand'
  BY DEF Core, InHand, Onward, TypeOK, Call
<1>7. Alone'
  BY <1>3, <1>5 DEF Core, Alone, Onward
<1> QED
  BY <1>1, <1>3, <1>4, <1>5, <1>6, <1>7

\* When transactions end, those that are left are about the calls as before.
LEMMA Fewer ==
  ASSUME TypeOK, Core, Pending, NEW n \in Nat, Onward(n), writes' \subseteq writes, cookie' = cookie,
         \A d \in Calls : call'[d] = call[d] \/ (call[d].pc = "sent" /\ call'[d].pc = "refused")
  PROVE  Sole' /\ Theirs' /\ CookieNew'
<1>1. /\ \A d \in Calls : About(d)' = About(d)
      /\ \A w \in writes : Of(w)' = Of(w)
      /\ \A l : Quiet(l)' = Quiet(l)
  BY Ahead
<1>2. LoginOf(cookie)' = LoginOf(cookie)
  <2>1. LoginOf(cookie)' = NextLogin(cookie) /\ cookie \in 0 .. n
    BY DEF LoginOf, NextLogin, TypeOK, Onward
  <2> QED
    BY <2>1, Ahead
<1>3. Sole'
  BY <1>1 DEF Pending, Held, Sole
<1>4. Theirs'
  BY <1>1 DEF Pending, Theirs
<1>5. CookieNew'
  <2> SUFFICES ASSUME NEW w \in writes', Of(w)' = LoginOf(cookie)', Quiet(Of(w))', cookie # w.new
               PROVE  \E c \in Calls : /\ call'[c].pc = "served" /\ About(c)' = Of(w)'
                                       /\ call'[c].kind = "logout" <=> w.new = 0
    BY DEF CookieNew
  <2>1. w \in writes /\ Of(w) = LoginOf(cookie) /\ Quiet(Of(w)) /\ Of(w)' = Of(w)
    BY <1>1, <1>2
  <2>2. PICK c \in Calls : /\ call[c].pc = "served" /\ About(c) = Of(w)
                           /\ call[c].kind = "logout" <=> w.new = 0
    BY <2>1 DEF Pending, CookieNew
  <2>3. call'[c] = call[c]
    BY <2>2
  <2> QED
    BY <1>1, <2>1, <2>2, <2>3
<1> QED
  BY <1>3, <1>4, <1>5

\* One more transaction, the only one of its login L when that is quiet.
LEMMA More ==
  ASSUME TypeOK, Core, Pending, NEW n \in Nat, Onward(n), NEW w, NEW L, writes' = writes \cup {w}, Of(w)' = L,
         Quiet(L) => \A x \in writes : Of(x) # L,
         \A d \in Calls : call'[d] = call[d] \/ (call[d].pc # "served" /\ About(d) = L),
         Quiet(L) => \A d \in Calls : call'[d].pc # "free" /\ About(d) = L =>
                       /\ call'[d].pc \in {"sent", "read"} => call'[d].token = w.new
                       /\ call'[d].pc = "served" /\ call'[d].kind = "refresh" => call'[d].new = w.new,
         cookie' = cookie \/ NextLogin(cookie') = L,
         Quiet(L) /\ NextLogin(cookie') = L =>
           \/ cookie' = w.new
           \/ \E c \in Calls : /\ call'[c].pc = "served" /\ About(c) = L
                               /\ call'[c].kind = "logout" <=> w.new = 0
  PROVE  Sole' /\ Theirs' /\ CookieNew'
<1>1. /\ \A d \in Calls : About(d)' = About(d)
      /\ \A x \in writes : Of(x)' = Of(x)
      /\ \A l : Quiet(l)' = Quiet(l)
  BY Ahead
<1>2. LoginOf(cookie)' = NextLogin(cookie')
  BY DEF LoginOf, NextLogin
<1>3. cookie' = cookie => NextLogin(cookie') = LoginOf(cookie)
  <2>1. cookie \in 0 .. n
    BY DEF TypeOK, Onward
  <2> QED
    BY <2>1, Ahead
<1>4. Sole'
  BY <1>1 DEF Pending, Held, Sole
<1>5. Theirs'
  <2> SUFFICES ASSUME NEW x \in writes', NEW c \in Calls,
                      call'[c].pc # "free", About(c)' = Of(x)', Quiet(Of(x))'
               PROVE  /\ call'[c].pc \in {"sent", "read"} => call'[c].token = x.new
                      /\ call'[c].pc = "served" /\ call'[c].kind = "refresh" => call'[c].new = x.new
    BY DEF Theirs
  <2>1. CASE x = w
    BY <1>1, <2>1
  <2>2. CASE x \in writes
    <3>1. About(c) = Of(x) /\ Quiet(Of(x)) /\ Of(x) # L
      BY <1>1, <2>2
    <3>2. call'[c] = call[c]
      BY <3>1
    <3> QED
      BY <2>2, <3>1, <3>2 DEF Pending, Theirs
  <2> QED
    BY <2>1, <2>2
<1>6. CookieNew'
  <2> SUFFICES ASSUME NEW x \in writes', Of(x)' = LoginOf(cookie)', Quiet(Of(x))', cookie' # x.new
               PROVE  \E c \in Calls : /\ call'[c].pc = "served" /\ About(c)' = Of(x)'
                                       /\ call'[c].kind = "logout" <=> x.new = 0
    BY DEF CookieNew
  <2>1. CASE x = w
    BY <1>1, <1>2, <2>1
  <2>2. CASE x \in writes
    <3>1. Of(x)' = Of(x) /\ Quiet(Of(x)) /\ Of(x) # L
      BY <1>1, <2>2
    <3>2. cookie' = cookie /\ Of(x) = LoginOf(cookie)
      BY <1>2, <1>3, <3>1
    <3>3. PICK c \in Calls : /\ call[c].pc = "served" /\ About(c) = Of(x)
                             /\ call[c].kind = "logout" <=> x.new = 0
      BY <2>2, <3>1, <3>2 DEF Pending, CookieNew
    <3>4. call'[c] = call[c]
      BY <3>3
    <3> QED
      BY <1>1, <3>1, <3>3, <3>4
  <2> QED
    BY <2>1, <2>2
<1> QED
  BY <1>4, <1>5, <1>6

\* The commit of a transaction: its new row is in, its old one is spent.
LEMMA SaveCore ==
  ASSUME TypeOK, Core, Pending, NEW w \in writes, Save(w)
  PROVE  Core' /\ Pending'
<1>1. PICK n \in Nat : n = Len(tokens)
  BY DEF TypeOK
<1>2. PICK L : L = Of(w)
  OBVIOUS
<1>3. /\ w.old \in 0 .. n /\ w.new \in 0 .. n /\ w.old # w.new
      /\ w.old # 0 => tokens[w.old].at = "in" /\ tokens[w.old].login = L
      /\ w.new # 0 => tokens[w.new].at = "open" /\ tokens[w.new].login = L /\ ~tokens[w.new].revoked
      /\ w.new = 0 => w.old # 0
  <2>1. w.old \in 0 .. n /\ w.new \in 0 .. n
    BY <1>1 DEF TypeOK
  <2>2. /\ w.old # 0 \/ w.new # 0
        /\ w.old # 0 => tokens[w.old].at = "in" /\ LoginOf(w.old) = L
    BY <1>2 DEF Pending, Held, Pairs
  <2>3. w.new # 0 => tokens[w.new].at = "open" /\ ~tokens[w.new].revoked
    BY <1>1, <2>1 DEF Pending, Held, Rows
  <2>4. w.new # 0 => LoginOf(w.new) = L
    BY <1>2 DEF Of
  <2> QED
    BY <2>1, <2>2, <2>3, <2>4 DEF LoginOf
<1>4. /\ writes' = writes \ {w}
      /\ ended' = IF w.new = 0 THEN ended \cup {LoginOf(w.old)} ELSE ended
      /\ UNCHANGED <<cookie, tab, call, req, logins, reused, broken, crossed>>
  BY DEF Save
<1>5. ended \subseteq ended' /\ ended' \subseteq ended \cup {L} /\ (w.new = 0 => L \in ended') /\ (w.new # 0 => ended' = ended)
  <2>1. w.new = 0 => LoginOf(w.old) = L
    BY <1>2 DEF Of
  <2> QED
    BY <1>4, <2>1
<1>6. /\ Len(tokens') = n
      /\ \A u \in 1 .. n : /\ tokens'[u].login = tokens[u].login
                           /\ tokens'[u].at = IF u = w.new THEN "in" ELSE tokens[u].at
                           /\ tokens'[u].revoked = (tokens[u].revoked \/ u = w.old)
                           /\ tokens'[u].next = IF u = w.old /\ w.new # 0 THEN w.new ELSE tokens[u].next
  <2>1. tokens' = [u \in 1 .. n |-> Saved(w, u)]
    BY <1>1 DEF Save
  <2>2. \A u \in 1 .. n : tokens[u] \in Token /\ tokens[u].revoked \in BOOLEAN
    BY <1>1, TokensType DEF TypeOK
  <2>3. ASSUME NEW u \in 1 .. n
        PROVE  /\ Saved(w, u).login = tokens[u].login
               /\ Saved(w, u).at = IF u = w.new THEN "in" ELSE tokens[u].at
               /\ Saved(w, u).revoked = (tokens[u].revoked \/ u = w.old)
               /\ Saved(w, u).next = IF u = w.old /\ w.new # 0 THEN w.new ELSE tokens[u].next
    <3>1. PICK row \in Token : row = tokens[u]
      BY <2>2
    <3>2. CASE u = w.new
      BY <1>3, <3>1, <3>2 DEF Saved, Token
    <3>3. CASE u # w.new /\ u # w.old
      BY <3>1, <3>3 DEF Saved, Token
    <3>4. CASE u # w.new /\ u = w.old /\ w.new = 0
      BY <3>1, <3>4 DEF Saved, Revoked, Token
    <3>5. CASE u # w.new /\ u = w.old /\ w.new # 0
      BY <3>1, <3>5 DEF Saved, Revoked, Token
    <3> QED
      BY <3>2, <3>3, <3>4, <3>5
  <2>4. Len(tokens') = n /\ \A u \in 1 .. n : tokens'[u] = Saved(w, u)
    <3> HIDE DEF Saved
    <3> QED
      BY <2>1
  <2> QED
    BY <2>3, <2>4
<1>7. Onward(n)
  BY <1>1, <1>4, <1>6 DEF Onward
<1>8. /\ \A u \in 0 .. n : NextLogin(u) = LoginOf(u)
      /\ \A d \in Calls : About(d)' = About(d)
      /\ \A x \in writes : Of(x)' = Of(x)
      /\ \A l : Quiet(l)' = Quiet(l)
      /\ InHand' /\ Alone'
  BY <1>7, Ahead
<1>9. Sole' /\ Theirs' /\ CookieNew'
  BY <1>4, <1>7, Fewer
<1>10. \A u \in 1 .. n : Unspent(u) /\ ~NextUnspent(u) => u = w.old
  BY <1>6 DEF Unspent, NextUnspent
<1>11. Known'
  <2>1. LoginOf(w.old) \in 0 .. logins
    BY <1>1, <1>3 DEF Core, Known, LoginOf, TypeOK
  <2> QED
    BY <1>1, <1>4, <1>6, <2>1 DEF Core, Known
<1>12. Kept'
  <2> SUFFICES ASSUME NEW u \in 1 .. n, tokens'[u].next # 0
               PROVE  /\ tokens'[u].next \in 1 .. n /\ tokens'[tokens'[u].next].login = tokens'[u].login
                      /\ tokens'[tokens'[u].next].at = "in"
    BY <1>6 DEF Kept
  <2>1. CASE u = w.old /\ w.new # 0
    BY <1>3, <1>6, <2>1
  <2>2. CASE ~(u = w.old /\ w.new # 0)
    <3>1. PICK v \in 1 .. n : v = tokens[u].next /\ tokens[v].login = tokens[u].login /\ tokens[v].at = "in"
      BY <1>1, <1>6, <2>2 DEF Core, Kept
    <3> QED
      BY <1>6, <2>2, <3>1
  <2> QED
    BY <2>1, <2>2
<1>13. Usable'
  <2> SUFFICES ASSUME NEW d \in Calls, call[d].pc \in {"sent", "read"}, Quiet(About(d))
               PROVE  NextUnspent(call[d].token)
    BY <1>4, <1>8 DEF Usable, Unspent, NextUnspent
  <2>1. Unspent(call[d].token) /\ call[d].token \in 1 .. n
    BY <1>1 DEF Core, Usable, Quiet, About, LoginOf, TypeOK
  <2>2. call[d].token # w.old
    <3> SUFFICES ASSUME call[d].token = w.old PROVE FALSE
      OBVIOUS
    <3>1. About(d) = L
      BY <1>3, <2>1 DEF About, LoginOf
    <3>2. call[d].token = w.new
      BY <1>2, <3>1 DEF Pending, Theirs
    <3> QED
      BY <1>3, <3>2
  <2> QED
    BY <1>10, <2>1, <2>2
<1>14. Brings'
  <2> SUFFICES ASSUME NEW d \in Calls
               PROVE  /\ call[d].pc = "read" =>
                           call[d].kind = "refresh" /\ call[d].token # 0 /\ tokens'[call[d].token].at = "in"
                      /\ call[d].pc = "refused" => call[d].kind = "refresh"
                      /\ call[d].pc = "served" /\ call[d].kind = "refresh" =>
                           /\ call[d].token # 0 /\ call[d].new # 0
                           /\ NextLogin(call[d].new) = About(d)
                           /\ Quiet(About(d)) => NextUnspent(call[d].new)
    <3>1. \A e \in Calls : LoginOf(call[e].new)' = NextLogin(call[e].new) /\ (Unspent(call[e].new)' <=> NextUnspent(call[e].new))
      BY <1>4 DEF LoginOf, NextLogin, Unspent, NextUnspent
    <3> QED
      BY <1>4, <1>8, <3>1 DEF Brings
  <2>1. call[d].token \in 0 .. n /\ call[d].new \in 0 .. n
    BY <1>1 DEF TypeOK
  <2>2. call[d].pc = "read" => tokens'[call[d].token].at = "in"
    BY <1>6, <2>1 DEF Core, Brings
  <2>3. ASSUME call[d].pc = "served", call[d].kind = "refresh", Quiet(About(d)) PROVE NextUnspent(call[d].new)
    <3>1. call[d].new \in 1 .. n /\ LoginOf(call[d].new) = About(d) /\ Unspent(call[d].new)
      BY <2>1, <2>3 DEF Core, Brings
    <3>2. call[d].new # w.old
      <4> SUFFICES ASSUME call[d].new = w.old PROVE FALSE
        OBVIOUS
      <4>1. About(d) = L
        BY <1>3, <3>1 DEF LoginOf
      <4>2. call[d].new = w.new
        BY <1>2, <2>3, <4>1 DEF Pending, Theirs
      <4> QED
        BY <1>3, <4>2
    <3> QED
      BY <1>10, <3>1, <3>2
  <2> QED
    BY <1>8, <2>1, <2>2, <2>3 DEF Core, Brings
<1>15. LoginOf(cookie)' = LoginOf(cookie) /\ cookie \in 0 .. n /\ (Unspent(cookie)' <=> NextUnspent(cookie))
  <2>1. LoginOf(cookie)' = NextLogin(cookie) /\ (Unspent(cookie)' <=> NextUnspent(cookie)) /\ cookie \in 0 .. n
    BY <1>1, <1>4 DEF LoginOf, NextLogin, Unspent, NextUnspent, TypeOK
  <2> QED
    BY <1>8, <2>1
<1>16. CookieOK'
  <2> SUFFICES ASSUME Quiet(LoginOf(cookie)), ~NextUnspent(cookie)
               PROVE  \E c \in Calls : /\ call[c].pc = "served" /\ About(c) = LoginOf(cookie)
                                       /\ call[c].kind = "logout" => About(c) \in ended'
    BY <1>4, <1>8, <1>15 DEF CookieOK
  <2>1. CASE Unspent(cookie)
    <3>1. cookie \in 1 .. n
      BY <1>15 DEF Quiet, LoginOf
    <3>2. cookie = w.old
      BY <1>10, <2>1, <3>1
    <3>3. LoginOf(cookie) = L /\ cookie # w.new
      BY <1>3, <3>1, <3>2 DEF LoginOf
    <3>4. PICK c \in Calls : /\ call[c].pc = "served" /\ About(c) = Of(w)
                             /\ call[c].kind = "logout" <=> w.new = 0
      BY <1>2, <3>3 DEF Pending, CookieNew
    <3> QED
      BY <1>2, <1>5, <3>3, <3>4
  <2>2. CASE ~Unspent(cookie)
    BY <1>5, <2>2 DEF Core, CookieOK
  <2> QED
    BY <2>1, <2>2
<1>17. OneSession'
  <2> SUFFICES ASSUME NEW l \in 1 .. logins, l \notin crossed
               PROVE  /\ \A u, v \in 1 .. n :
                           tokens'[u].login = l /\ tokens'[v].login = l /\ NextLive(u) /\ NextLive(v) => u = v
                      /\ l \in ended' => \A u \in 1 .. n : tokens'[u].login = l => ~NextLive(u)
                      /\ l \notin reused
    BY <1>4, <1>6 DEF OneSession, Live, NextLive
  <2>1. /\ \A u, v \in 1 .. n : tokens[u].login = l /\ tokens[v].login = l /\ Live(u) /\ Live(v) => u = v
        /\ l \in ended => \A u \in 1 .. n : ~(tokens[u].login = l /\ Live(u))
        /\ l \notin reused
    BY <1>1 DEF Core, OneSession
  <2>2. \A u \in 1 .. n : NextLive(u) => u = w.new \/ (Live(u) /\ u # w.old)
    BY <1>6 DEF Live, NextLive
  <2>3. CASE l # L
    BY <1>3, <1>5, <1>6, <2>1, <2>2, <2>3
  <2>4. CASE l = L
    <3>1. Quiet(Of(w))
      BY <1>2, <2>4 DEF Quiet, TypeOK
    <3>2. /\ \A u \in 1 .. n : tokens[u].login = L /\ Live(u) => u = w.old
          /\ w.new # 0 => L \notin ended
      BY <1>1, <1>2, <3>1 DEF Pending, Held, Only
    <3>3. \A u \in 1 .. n : tokens'[u].login = L /\ NextLive(u) => u = w.new
      BY <1>6, <2>2, <3>2
    <3>4. w.new = 0 => \A u \in 1 .. n : tokens'[u].login = L => ~NextLive(u)
      BY <3>3
    <3> QED
      BY <1>5, <2>1, <2>4, <3>2, <3>3, <3>4
  <2> QED
    BY <2>3, <2>4
<1>18. Rows'
  <2> SUFFICES ASSUME NEW u \in 1 .. n
               PROVE  /\ tokens'[u].at = "open" <=> \E x \in writes' : x.new = u
                      /\ tokens'[u].at = "lost" => tokens'[u].login \in broken
                      /\ tokens'[u].revoked => tokens'[u].at = "in"
    BY <1>4, <1>6 DEF Rows
  <2>1. /\ tokens[u].at = "open" <=> \E x \in writes : x.new = u
        /\ tokens[u].at = "lost" => tokens[u].login \in broken
        /\ tokens[u].revoked => tokens[u].at = "in"
    BY <1>1 DEF Pending, Held, Rows
  <2>2. CASE u = w.new
    <3>1. \A x \in writes' : x.new # u
      BY <1>4, <2>2 DEF Pending, Held, Pairs
    <3> QED
      BY <1>6, <2>2, <3>1
  <2>3. CASE u # w.new
    <3>1. (\E x \in writes' : x.new = u) <=> (\E x \in writes : x.new = u)
      BY <1>4, <2>3
    <3>2. tokens'[u].at = tokens[u].at /\ tokens'[u].login = tokens[u].login
      BY <1>6, <2>3
    <3>3. tokens'[u].revoked => tokens[u].at = "in"
      <4>1. tokens'[u].revoked => tokens[u].revoked \/ u = w.old
        BY <1>6
      <4>2. u # 0
        OBVIOUS
      <4> QED
        BY <1>3, <2>1, <4>1, <4>2
    <3> QED
      BY <2>1, <3>1, <3>2, <3>3
  <2> QED
    BY <2>2, <2>3
<1>19. Pairs'
  <2> SUFFICES ASSUME NEW x \in writes'
               PROVE  /\ x.old # 0 \/ x.new # 0
                      /\ x.old # 0 => tokens'[x.old].at = "in" /\ LoginOf(x.old)' = Of(x)'
                      /\ \A y \in writes' : x.new # 0 /\ y.new = x.new => y = x
    BY DEF Pairs
  <2>1. x \in writes /\ x.old \in 0 .. n
    BY <1>1, <1>4 DEF TypeOK
  <2>2. LoginOf(x.old)' = LoginOf(x.old) /\ Of(x)' = Of(x)
    <3>1. LoginOf(x.old)' = NextLogin(x.old)
      BY DEF LoginOf, NextLogin
    <3> QED
      BY <1>8, <2>1, <3>1
  <2> QED
    BY <1>4, <1>6, <2>1, <2>2 DEF Pending, Held, Pairs
<1>20. Only'
  <2> SUFFICES ASSUME NEW x \in writes', Quiet(Of(x))
               PROVE  /\ \A u \in 1 .. n : tokens'[u].login = Of(x) /\ NextLive(u) => u = x.old
                      /\ x.new # 0 => Of(x) \notin ended'
    BY <1>4, <1>6, <1>8 DEF Only, Live, NextLive
  <2>1. x \in writes /\ x # w
    BY <1>4
  <2>2. Of(x) # L
    BY <1>2, <2>1 DEF Pending, Held, Sole
  <2>3. /\ \A u \in 1 .. n : tokens[u].login = Of(x) /\ Live(u) => u = x.old
        /\ x.new # 0 => Of(x) \notin ended
    BY <1>1, <2>1 DEF Pending, Held, Only
  <2>4. \A u \in 1 .. n : tokens'[u].login = Of(x) /\ NextLive(u) => tokens[u].login = Of(x) /\ Live(u)
    <3> SUFFICES ASSUME NEW u \in 1 .. n, tokens'[u].login = Of(x), NextLive(u)
                 PROVE  tokens[u].login = Of(x) /\ Live(u)
      OBVIOUS
    <3>1. tokens[u].login = Of(x) /\ u # w.new
      BY <1>3, <1>6, <2>2
    <3> QED
      BY <1>6, <3>1 DEF Live, NextLive
  <2> QED
    BY <1>5, <2>2, <2>3, <2>4
<1> QED
  BY <1>8, <1>9, <1>11, <1>12, <1>13, <1>14, <1>16, <1>17, <1>18, <1>19, <1>20 DEF Core, Pending, Held

\* A step that spends no row of a quiet login and leaves the cookie what it is:
\* a call that goes on is refused, or is served with a row of its login.
LEMMA Gentle ==
  ASSUME TypeOK, Core, Pending, NEW n \in Nat, Onward(n), ended' = ended,
         \A u \in 1 .. n : /\ Quiet(tokens[u].login) /\ Unspent(u) => NextUnspent(u)
                           /\ tokens[u].at = "in" => tokens'[u].at = "in"
                           /\ tokens'[u].next = tokens[u].next,
         \A u \in n + 1 .. Len(tokens') : tokens'[u].next = 0,
         \A d \in Calls :
           \/ call'[d] = call[d]
           \/ /\ call[d].pc \in {"sent", "read"} /\ call'[d].pc \in {"refused", "served"}
              /\ call'[d].pc = "refused" => call[d].kind = "refresh"
              /\ call'[d].pc = "served" /\ call[d].kind = "refresh" =>
                   /\ call[d].token # 0 /\ call'[d].new # 0
                   /\ NextLogin(call'[d].new) = About(d) /\ NextUnspent(call'[d].new)
  PROVE  Kept' /\ Usable' /\ Brings' /\ (cookie' = cookie => CookieOK')
<1>1. /\ \A u \in 0 .. n : NextLogin(u) = LoginOf(u)
      /\ \A d \in Calls : About(d)' = About(d)
      /\ \A l : Quiet(l)' = Quiet(l)
  BY Ahead
<1>2. /\ n = Len(tokens) /\ Len(tokens') \in Nat /\ n <= Len(tokens')
      /\ \A u \in 1 .. n : tokens'[u].login = tokens[u].login
      /\ \A d \in Calls : call'[d].kind = call[d].kind /\ call'[d].token = call[d].token
  BY DEF Onward
<1>3. \A d \in Calls : call[d].token \in 0 .. n /\ call[d].new \in 0 .. n
  BY <1>2 DEF TypeOK
<1>4. \A u \in 1 .. n : Quiet(LoginOf(u)) /\ Unspent(u) => NextUnspent(u)
  BY DEF LoginOf
<1>5. Kept'
  <2> SUFFICES ASSUME NEW u \in 1 .. Len(tokens'), tokens'[u].next # 0
               PROVE  /\ tokens'[u].next \in 1 .. Len(tokens') /\ tokens'[tokens'[u].next].login = tokens'[u].login
                      /\ tokens'[tokens'[u].next].at = "in"
    BY DEF Kept
  <2>1. u \in 1 .. n
    BY <1>2
  <2>2. PICK v \in 1 .. n : v = tokens[u].next /\ tokens[v].login = tokens[u].login /\ tokens[v].at = "in"
    BY <1>2, <2>1 DEF Core, Kept
  <2>3. v \in 1 .. Len(tokens')
    BY <1>2
  <2> QED
    BY <1>2, <2>1, <2>2, <2>3
<1>6. Usable'
  <2> SUFFICES ASSUME NEW d \in Calls, call'[d].pc \in {"sent", "read"}, Quiet(About(d))
               PROVE  NextUnspent(call'[d].token)
    BY <1>1 DEF Usable, Unspent, NextUnspent
  <2>1. call'[d] = call[d]
    OBVIOUS
  <2>2. Unspent(call[d].token) /\ call[d].token \in 1 .. n
    BY <1>3, <2>1 DEF Core, Usable, Quiet, About, LoginOf
  <2> QED
    BY <1>4, <2>1, <2>2 DEF About
<1>7. Brings'
  <2> SUFFICES ASSUME NEW d \in Calls
               PROVE  /\ call'[d].pc = "read" =>
                           call'[d].kind = "refresh" /\ call'[d].token # 0 /\ tokens'[call'[d].token].at = "in"
                      /\ call'[d].pc = "refused" => call'[d].kind = "refresh"
                      /\ call'[d].pc = "served" /\ call'[d].kind = "refresh" =>
                           /\ call'[d].token # 0 /\ call'[d].new # 0
                           /\ NextLogin(call'[d].new) = About(d)
                           /\ Quiet(About(d)) => NextUnspent(call'[d].new)
    <3>1. \A e \in Calls : LoginOf(call[e].new)' = NextLogin(call'[e].new) /\ (Unspent(call[e].new)' <=> NextUnspent(call'[e].new))
      BY DEF LoginOf, NextLogin, Unspent, NextUnspent
    <3> QED
      BY <1>1, <3>1 DEF Brings
  <2>1. CASE call'[d] # call[d]
    BY <1>2, <2>1
  <2>2. CASE call'[d] = call[d]
    <3>1. call[d].pc = "read" => tokens'[call[d].token].at = "in"
      BY <1>3 DEF Core, Brings
    <3>2. ASSUME call[d].pc = "served", call[d].kind = "refresh"
          PROVE  NextLogin(call[d].new) = About(d) /\ (Quiet(About(d)) => NextUnspent(call[d].new))
      <4>1. /\ call[d].new \in 1 .. n /\ LoginOf(call[d].new) = About(d)
            /\ Quiet(About(d)) => Unspent(call[d].new)
        BY <1>3, <3>2 DEF Core, Brings
      <4>2. NextLogin(call[d].new) = LoginOf(call[d].new)
        BY <1>1, <4>1
      <4> QED
        BY <1>4, <4>1, <4>2
    <3> QED
      BY <2>2, <3>1, <3>2 DEF Core, Brings
  <2> QED
    BY <2>1, <2>2
<1>8. ASSUME cookie' = cookie PROVE CookieOK'
  <2>1. LoginOf(cookie)' = LoginOf(cookie) /\ (Unspent(cookie)' <=> NextUnspent(cookie)) /\ cookie \in 0 .. n
    <3>1. LoginOf(cookie)' = NextLogin(cookie) /\ (Unspent(cookie)' <=> NextUnspent(cookie)) /\ cookie \in 0 .. n
      BY <1>2, <1>8 DEF LoginOf, NextLogin, Unspent, NextUnspent, TypeOK
    <3> QED
      BY <1>1, <3>1
  <2> SUFFICES ASSUME Quiet(LoginOf(cookie)), ~NextUnspent(cookie)
               PROVE  \E c \in Calls : /\ call'[c].pc = "served" /\ About(c)' = LoginOf(cookie)
                                       /\ call'[c].kind = "logout" => About(c)' \in ended
    BY <1>1, <2>1 DEF CookieOK
  <2>2. ~Unspent(cookie)
    <3>1. cookie \in 1 .. n
      BY <2>1 DEF Quiet, LoginOf
    <3> QED
      BY <1>4, <3>1
  <2>3. PICK c \in Calls : /\ call[c].pc = "served" /\ About(c) = LoginOf(cookie)
                           /\ call[c].kind = "logout" => About(c) \in ended
    BY <2>2 DEF Core, CookieOK
  <2>4. call'[c] = call[c]
    BY <2>3
  <2> QED
    BY <1>1, <2>3, <2>4
<1> QED
  BY <1>5, <1>6, <1>7, <1>8

\* A step after which no row can be used that could not be used before.
LEMMA NoneMore ==
  ASSUME TypeOK, Core, Pending, NEW n \in Nat, Onward(n),
         \A u \in 1 .. Len(tokens') : NextLive(u) => u \in 1 .. n /\ Live(u),
         ended' = ended, reused' \subseteq reused \cup crossed, logins' \in Nat, logins <= logins'
  PROVE  OneSession'
<1>1. /\ n = Len(tokens) /\ crossed' = crossed /\ \A u \in 1 .. n : tokens'[u].login = tokens[u].login
  BY DEF Onward
<1>2. /\ ended \subseteq 0 .. logins /\ reused \subseteq 0 .. logins /\ logins \in Nat
      /\ \A u \in 1 .. n : tokens[u].login \in 1 .. logins
  BY <1>1 DEF Core, Known, TypeOK
<1> SUFFICES ASSUME NEW l \in 1 .. logins', l \notin crossed
             PROVE  /\ \A u, v \in 1 .. Len(tokens') :
                         tokens'[u].login = l /\ tokens'[v].login = l /\ NextLive(u) /\ NextLive(v) => u = v
                    /\ l \in ended => \A u \in 1 .. Len(tokens') : tokens'[u].login = l => ~NextLive(u)
                    /\ l \notin reused'
  BY <1>1 DEF OneSession, Live, NextLive
<1>3. \A u \in 1 .. Len(tokens') : tokens'[u].login = l /\ NextLive(u) => u \in 1 .. n /\ tokens[u].login = l /\ Live(u)
  BY <1>1
<1>4. CASE l \in 1 .. logins
  <2>1. /\ \A u, v \in 1 .. n : tokens[u].login = l /\ tokens[v].login = l /\ Live(u) /\ Live(v) => u = v
        /\ l \in ended => \A u \in 1 .. n : ~(tokens[u].login = l /\ Live(u))
        /\ l \notin reused
    BY <1>1, <1>4 DEF Core, OneSession
  <2> QED
    BY <1>3, <2>1
<1>5. CASE l \notin 1 .. logins
  <2>1. l \notin ended /\ l \notin reused /\ \A u \in 1 .. n : tokens[u].login # l
    BY <1>2, <1>5
  <2> QED
    BY <1>3, <2>1
<1> QED
  BY <1>4, <1>5

\* A transaction that adds a row begins.
LEMMA Begin ==
  ASSUME TypeOK, Core, Pending, NEW n \in Nat, Onward(n), NEW w, NEW L,
         Len(tokens') = n + 1, tokens'[n + 1] = NewRow(L), \A u \in 1 .. n : tokens'[u] = tokens[u],
         w.new = n + 1, w.old \in 0 .. n, w.old # 0 => tokens[w.old].at = "in" /\ tokens[w.old].login = L,
         writes' = writes \cup {w}, ended' = ended, broken' = broken,
         Quiet(L) => L \notin ended /\ \A u \in 1 .. n : tokens[u].login = L /\ Live(u) => u = w.old
  PROVE  Rows' /\ Pairs' /\ Only' /\ Of(w)' = L
<1>1. /\ \A u \in 0 .. n : NextLogin(u) = LoginOf(u)
      /\ \A x \in writes : Of(x)' = Of(x)
      /\ \A l : Quiet(l)' = Quiet(l)
      /\ n = Len(tokens)
  BY Ahead DEF Onward
<1>2. \A x \in writes : x.old \in 0 .. n /\ x.new \in 0 .. n /\ x.new # n + 1
  <2>1. \A x \in writes : x.old \in 0 .. n /\ x.new \in 0 .. n
    BY <1>1 DEF TypeOK
  <2> QED
    BY <2>1
<1>3. tokens'[n + 1].login = L /\ tokens'[n + 1].at = "open" /\ ~tokens'[n + 1].revoked
  BY DEF NewRow
<1>4. \A u \in 1 .. n + 1 : u \in 1 .. n \/ u = n + 1
  OBVIOUS
<1>5. Of(w)' = L /\ (w.old # 0 => LoginOf(w.old)' = L)
  BY <1>3 DEF Of, LoginOf
<1>6. Rows'
  <2> SUFFICES ASSUME NEW u \in 1 .. n + 1
               PROVE  /\ tokens'[u].at = "open" <=> \E x \in writes' : x.new = u
                      /\ tokens'[u].at = "lost" => tokens'[u].login \in broken
                      /\ tokens'[u].revoked => tokens'[u].at = "in"
    BY DEF Rows
  <2>1. CASE u = n + 1
    BY <1>3, <2>1
  <2>2. CASE u \in 1 .. n
    <3>1. (\E x \in writes' : x.new = u) <=> (\E x \in writes : x.new = u)
      BY <2>2
    <3>2. /\ tokens[u].at = "open" <=> \E x \in writes : x.new = u
          /\ tokens[u].at = "lost" => tokens[u].login \in broken
          /\ tokens[u].revoked => tokens[u].at = "in"
      BY <1>1, <2>2 DEF Pending, Held, Rows
    <3> QED
      BY <2>2, <3>1, <3>2
  <2> QED
    BY <1>4, <2>1, <2>2
<1>7. Pairs'
  <2> SUFFICES ASSUME NEW x \in writes'
               PROVE  /\ x.old # 0 \/ x.new # 0
                      /\ x.old # 0 => tokens'[x.old].at = "in" /\ LoginOf(x.old)' = Of(x)'
                      /\ \A y \in writes' : x.new # 0 /\ y.new = x.new => y = x
    BY DEF Pairs
  <2>1. CASE x = w
    <3>1. \A y \in writes' : y.new = n + 1 => y = w
      BY <1>2
    <3>2. w.old # 0 => tokens'[w.old].at = "in"
      OBVIOUS
    <3> QED
      BY <1>5, <2>1, <3>1, <3>2
  <2>2. CASE x \in writes
    <3>1. LoginOf(x.old)' = LoginOf(x.old) /\ Of(x)' = Of(x)
      <4>1. LoginOf(x.old)' = NextLogin(x.old)
        BY DEF LoginOf, NextLogin
      <4> QED
        BY <1>1, <1>2, <2>2, <4>1
    <3>2. x.old # 0 => tokens'[x.old].at = tokens[x.old].at
      BY <1>2, <2>2
    <3> QED
      BY <1>2, <2>2, <3>1, <3>2 DEF Pending, Held, Pairs
  <2> QED
    BY <2>1, <2>2
<1>8. Only'
  <2> SUFFICES ASSUME NEW x \in writes', Quiet(Of(x)')
               PROVE  /\ \A u \in 1 .. n + 1 : tokens'[u].login = Of(x)' /\ NextLive(u) => u = x.old
                      /\ x.new # 0 => Of(x)' \notin ended
    BY <1>1 DEF Only, Live, NextLive
  <2>1. \A u \in 1 .. n + 1 : NextLive(u) => u \in 1 .. n /\ Live(u) /\ tokens'[u].login = tokens[u].login
    BY <1>3, <1>4 DEF Live, NextLive
  <2>2. CASE x = w
    BY <1>5, <2>1, <2>2
  <2>3. CASE x \in writes
    BY <1>1, <2>1, <2>3 DEF Pending, Held, Only
  <2> QED
    BY <2>2, <2>3
<1> QED
  BY <1>5, <1>6, <1>7, <1>8

\* A transaction that comes to nothing.
LEMMA SaveFailsCore ==
  ASSUME TypeOK, Core, Pending, NEW w \in writes, SaveFails(w)
  PROVE  Core' /\ Pending'
<1>1. PICK n \in Nat : n = Len(tokens)
  BY DEF TypeOK
<1>2. /\ writes' = writes \ {w} /\ broken \subseteq broken'
      /\ w.new # 0 => Of(w) \in broken'
      /\ UNCHANGED <<cookie, tab, call, req, logins, ended, reused, crossed>>
  BY DEF SaveFails, Of
<1>3. /\ Len(tokens') = n
      /\ \A u \in 1 .. n : /\ tokens'[u].login = tokens[u].login /\ tokens'[u].revoked = tokens[u].revoked
                           /\ tokens'[u].next = tokens[u].next
                           /\ tokens'[u].at = IF u = w.new THEN "lost" ELSE tokens[u].at
  <2>1. \A u \in 1 .. n : tokens[u] \in Token
    BY <1>1 DEF TypeOK
  <2>2. tokens' = [u \in 1 .. n |-> IF u = w.new THEN [tokens[u] EXCEPT !.at = "lost"] ELSE tokens[u]]
    BY <1>1 DEF SaveFails
  <2>3. Len(tokens') = n
    BY <2>2
  <2>4. \A u \in 1 .. n : tokens'[u] = IF u = w.new THEN [tokens[u] EXCEPT !.at = "lost"] ELSE tokens[u]
    BY <2>2
  <2> QED
    BY <2>1, <2>3, <2>4 DEF Token
<1>4. \A u \in 1 .. n : u = w.new => tokens[u].at = "open" /\ tokens[u].login = Of(w) /\ ~tokens[u].revoked
  BY <1>1 DEF Pending, Held, Rows, Of, LoginOf
<1>5. Onward(n)
  BY <1>1, <1>2, <1>3 DEF Onward
<1>6. /\ \A u \in 0 .. n : NextLogin(u) = LoginOf(u)
      /\ \A x \in writes : Of(x)' = Of(x)
      /\ \A l : Quiet(l)' = Quiet(l)
      /\ InHand' /\ Alone'
  BY <1>5, Ahead
<1>7. Sole' /\ Theirs' /\ CookieNew'
  BY <1>2, <1>5, Fewer
<1>8. \A u \in 1 .. n : /\ NextUnspent(u) <=> Unspent(u)
                        /\ NextLive(u) <=> Live(u)
                        /\ tokens[u].at = "in" => tokens'[u].at = "in"
  BY <1>3, <1>4 DEF NextUnspent, Unspent, NextLive, Live
<1>9. Kept' /\ Usable' /\ Brings' /\ CookieOK'
  BY <1>2, <1>3, <1>5, <1>8, Gentle
<1>10. OneSession'
  <2>1. logins \in Nat
    BY DEF TypeOK
  <2> QED
    BY <1>2, <1>3, <1>5, <1>8, <2>1, NoneMore
<1>11. Known'
  BY <1>1, <1>2, <1>3 DEF Core, Known
<1>12. Rows'
  <2> SUFFICES ASSUME NEW u \in 1 .. n
               PROVE  /\ tokens'[u].at = "open" <=> \E x \in writes' : x.new = u
                      /\ tokens'[u].at = "lost" => tokens'[u].login \in broken'
                      /\ tokens'[u].revoked => tokens'[u].at = "in"
    BY <1>3 DEF Rows
  <2>1. /\ tokens[u].at = "open" <=> \E x \in writes : x.new = u
        /\ tokens[u].at = "lost" => tokens[u].login \in broken
        /\ tokens[u].revoked => tokens[u].at = "in"
    BY <1>1 DEF Pending, Held, Rows
  <2>2. CASE u = w.new
    <3>1. \A x \in writes' : x.new # u
      BY <1>2, <2>2 DEF Pending, Held, Pairs
    <3> QED
      BY <1>2, <1>3, <1>4, <2>2, <3>1
  <2>3. CASE u # w.new
    <3>1. (\E x \in writes' : x.new = u) <=> (\E x \in writes : x.new = u)
      BY <1>2, <2>3
    <3> QED
      BY <1>2, <1>3, <2>1, <2>3, <3>1
  <2> QED
    BY <2>2, <2>3
<1>13. Pairs'
  <2> SUFFICES ASSUME NEW x \in writes'
               PROVE  /\ x.old # 0 \/ x.new # 0
                      /\ x.old # 0 => tokens'[x.old].at = "in" /\ LoginOf(x.old)' = Of(x)'
                      /\ \A y \in writes' : x.new # 0 /\ y.new = x.new => y = x
    BY DEF Pairs
  <2>1. x \in writes /\ x.old \in 0 .. n
    BY <1>1, <1>2 DEF TypeOK
  <2>2. LoginOf(x.old)' = LoginOf(x.old) /\ Of(x)' = Of(x)
    <3>1. LoginOf(x.old)' = NextLogin(x.old)
      BY DEF LoginOf, NextLogin
    <3> QED
      BY <1>6, <2>1, <3>1
  <2> QED
    BY <1>2, <1>8, <2>1, <2>2 DEF Pending, Held, Pairs
<1>14. Only'
  <2> SUFFICES ASSUME NEW x \in writes', Quiet(Of(x))
               PROVE  /\ \A u \in 1 .. n : tokens'[u].login = Of(x) /\ NextLive(u) => u = x.old
                      /\ x.new # 0 => Of(x) \notin ended
    BY <1>2, <1>3, <1>6 DEF Only, Live, NextLive
  <2> QED
    BY <1>1, <1>2, <1>3, <1>8 DEF Pending, Held, Only
<1> QED
  BY <1>6, <1>7, <1>9, <1>10, <1>11, <1>12, <1>13, <1>14 DEF Core, Pending, Held

LEMMA RotateCore ==
  ASSUME TypeOK, Core, Pending, NEW c \in Calls, Rotate(c)
  PROVE  Core' /\ Pending'
<1>1. PICK t : t = call[c].token
  OBVIOUS
<1>2. PICK L : L = About(c)
  OBVIOUS
<1>3. PICK n \in Nat : n = Len(tokens)
  BY DEF TypeOK
<1>4. call[c].pc = "read" /\ call[c].kind = "refresh" /\ t \in 1 .. n /\ t # 0 /\ tokens[t].at = "in"
  <2>1. call[c].pc = "read" /\ call[c].kind = "refresh" /\ t # 0 /\ tokens[t].at = "in"
    BY <1>1 DEF Rotate, Core, Brings
  <2> QED
    BY <1>1, <1>3, <2>1 DEF TypeOK
<1>5. L = tokens[t].login /\ L \in 1 .. logins /\ L # 0
  BY <1>1, <1>2, <1>3, <1>4 DEF About, LoginOf, Core, Known, TypeOK
<1>6. Len(tokens') = n + 1 /\ tokens'[n + 1] = NewRow(L) /\ \A u \in 1 .. n : tokens'[u] = tokens[u]
  <2>1. tokens' = Append(tokens, NewRow(L)) /\ L \in Nat
    BY <1>1, <1>2, <1>5 DEF Rotate, About, TypeOK
  <2> QED
    BY <1>3, <2>1, Added
<1>7. PICK w : w = [old |-> t, new |-> n + 1]
  OBVIOUS
<1>8. /\ writes' = writes \cup {w}
      /\ UNCHANGED <<cookie, tab, req, logins, ended, reused, broken, crossed>>
  BY <1>1, <1>3, <1>7 DEF Rotate
<1>9. /\ call'[c] = [pc |-> "served", kind |-> "refresh", tab |-> call[c].tab, token |-> t, new |-> n + 1]
      /\ \A d \in Calls \ {c} : call'[d] = call[d]
  BY <1>1, <1>3, <1>4 DEF Rotate, Goes, TypeOK
<1>10. Onward(n)
  BY <1>1, <1>3, <1>4, <1>6, <1>8, <1>9 DEF Onward
<1>11. NewRow(L).login = L /\ NewRow(L).at = "open" /\ ~NewRow(L).revoked /\ NewRow(L).next = 0
  BY DEF NewRow
<1>12. \A u \in 1 .. n + 1 : u \in 1 .. n \/ u = n + 1
  OBVIOUS
<1>13. NextLogin(n + 1) = L /\ NextUnspent(n + 1)
  BY <1>6, <1>11 DEF NextLogin, NextUnspent
<1>14. ASSUME Quiet(L)
       PROVE  /\ L \notin ended /\ \A u \in 1 .. n : tokens[u].login = L /\ Live(u) => u = t
              /\ \A x \in writes : Of(x) # L
              /\ \A d \in Calls \ {c} : call[d].pc # "free" => About(d) # L
  <2>1. Live(t)
    BY <1>1, <1>2, <1>4, <1>14 DEF Core, Usable, Live, Unspent
  <2>2. /\ \A u, v \in 1 .. n : tokens[u].login = L /\ tokens[v].login = L /\ Live(u) /\ Live(v) => u = v
        /\ L \in ended => \A u \in 1 .. n : ~(tokens[u].login = L /\ Live(u))
    BY <1>3, <1>5, <1>14 DEF Core, OneSession, Quiet
  <2>3. ASSUME NEW x \in writes, Of(x) = L PROVE FALSE
    <3>1. t = x.new
      BY <1>1, <1>2, <1>4, <1>14, <2>3 DEF Pending, Theirs
    <3>2. tokens[t].at = "open"
      BY <1>3, <1>4, <2>3, <3>1 DEF Pending, Held, Rows
    <3> QED
      BY <1>4, <3>2
  <2>4. \A d \in Calls \ {c} : call[d].pc # "free" => About(d) # L
    BY <1>2, <1>4, <1>14 DEF Core, Alone
  <2> QED
    BY <1>4, <1>5, <2>1, <2>2, <2>3, <2>4
<1>15. InHand' /\ Alone' /\ LoginOf(cookie)' = LoginOf(cookie) /\ NextLogin(cookie) = LoginOf(cookie)
  <2>1. LoginOf(cookie)' = NextLogin(cookie) /\ cookie \in 0 .. n
    BY <1>3, <1>8 DEF LoginOf, NextLogin, TypeOK
  <2> QED
    BY <1>10, <2>1, Ahead
<1>16. Kept' /\ Usable' /\ Brings' /\ CookieOK'
  <2>1. \A u \in 1 .. n : /\ Quiet(tokens[u].login) /\ Unspent(u) => NextUnspent(u)
                          /\ tokens[u].at = "in" => tokens'[u].at = "in"
                          /\ tokens'[u].next = tokens[u].next
    BY <1>6 DEF Unspent, NextUnspent
  <2>2. \A u \in n + 1 .. Len(tokens') : tokens'[u].next = 0
    BY <1>6, <1>11
  <2>3. \A d \in Calls :
           \/ call'[d] = call[d]
           \/ /\ call[d].pc \in {"sent", "read"} /\ call'[d].pc \in {"refused", "served"}
              /\ call'[d].pc = "refused" => call[d].kind = "refresh"
              /\ call'[d].pc = "served" /\ call[d].kind = "refresh" =>
                   /\ call[d].token # 0 /\ call'[d].new # 0
                   /\ NextLogin(call'[d].new) = About(d) /\ NextUnspent(call'[d].new)
    <3> TAKE d \in Calls
    <3>1. CASE d # c
      BY <1>9, <3>1
    <3>2. CASE d = c
      <4>1. n + 1 # 0
        OBVIOUS
      <4> QED
        BY <1>1, <1>2, <1>4, <1>9, <1>13, <3>2, <4>1
    <3> QED
      BY <3>1, <3>2
  <2> QED
    BY <1>8, <1>10, <2>1, <2>2, <2>3, Gentle
<1>17. OneSession'
  <2>1. \A u \in 1 .. Len(tokens') : NextLive(u) => u \in 1 .. n /\ Live(u)
    BY <1>6, <1>11, <1>12 DEF NextLive, Live
  <2>2. logins \in Nat
    BY DEF TypeOK
  <2> QED
    BY <1>8, <1>10, <2>1, <2>2, NoneMore
<1>18. Known'
  <2>1. \A u \in 1 .. n + 1 : tokens'[u].login \in 1 .. logins
    BY <1>3, <1>5, <1>6, <1>11, <1>12 DEF Core, Known
  <2> QED
    BY <1>6, <1>8, <2>1 DEF Core, Known
<1>19. Rows' /\ Pairs' /\ Only' /\ Of(w)' = L
  <2>1. w.new = n + 1 /\ w.old = t /\ t \in 0 .. n
    BY <1>4, <1>7
  <2> QED
    BY <1>4, <1>5, <1>6, <1>8, <1>10, <1>14, <2>1, Begin
<1>20. Sole' /\ Theirs' /\ CookieNew'
  <2>1. \A d \in Calls : call'[d] = call[d] \/ (call[d].pc # "served" /\ About(d) = L)
    BY <1>2, <1>4, <1>9
  <2>2. Quiet(L) => \A d \in Calls : call'[d].pc # "free" /\ About(d) = L =>
                       /\ call'[d].pc \in {"sent", "read"} => call'[d].token = w.new
                       /\ call'[d].pc = "served" /\ call'[d].kind = "refresh" => call'[d].new = w.new
    BY <1>7, <1>9, <1>14
  <2>3. \E d \in Calls : /\ call'[d].pc = "served" /\ About(d) = L
                         /\ call'[d].kind = "logout" <=> w.new = 0
    <3>1. w.new # 0
      BY <1>7
    <3> QED
      BY <1>2, <1>9, <3>1
  <2> QED
    BY <1>8, <1>10, <1>14, <1>19, <2>1, <2>2, <2>3, More
<1> QED
  BY <1>15, <1>16, <1>17, <1>18, <1>19, <1>20 DEF Core, Pending, Held

\* A logout that finds its row.
LEMMA RevokeCore ==
  ASSUME TypeOK, Core, Pending, NEW c \in Calls, Revoke(c), call[c].token # 0, Live(call[c].token)
  PROVE  Core' /\ Pending'
<1>1. PICK t : t = call[c].token
  OBVIOUS
<1>2. PICK L : L = About(c)
  OBVIOUS
<1>3. PICK n \in Nat : n = Len(tokens)
  BY DEF TypeOK
<1>4. t \in 1 .. n /\ t # 0 /\ tokens[t].at = "in" /\ Live(t)
  BY <1>1, <1>3 DEF TypeOK, Live
<1>5. L = tokens[t].login /\ L \in 1 .. logins /\ L # 0
  BY <1>1, <1>2, <1>3, <1>4 DEF About, LoginOf, Core, Known, TypeOK
<1>6. PICK w : w = [old |-> t, new |-> 0]
  OBVIOUS
<1>7. /\ writes' = writes \cup {w}
      /\ UNCHANGED <<tokens, cookie, tab, req, logins, ended, reused, broken, crossed>>
  BY <1>1, <1>6 DEF Revoke
<1>8. /\ call[c].pc = "sent" /\ call[c].kind = "logout"
      /\ call'[c].pc = "served" /\ call'[c].kind = "logout" /\ call'[c].tab = call[c].tab /\ call'[c].token = t
      /\ \A d \in Calls \ {c} : call'[d] = call[d]
  BY <1>1 DEF Revoke, Goes, TypeOK
<1>9. Onward(n)
  BY <1>1, <1>3, <1>7, <1>8 DEF Onward
<1>10. ASSUME Quiet(L)
       PROVE  /\ \A u \in 1 .. n : tokens[u].login = L /\ Live(u) => u = t
              /\ \A x \in writes : Of(x) # L
              /\ \A d \in Calls \ {c} : call[d].pc # "free" => About(d) # L
  <2>1. \A u, v \in 1 .. n : tokens[u].login = L /\ tokens[v].login = L /\ Live(u) /\ Live(v) => u = v
    BY <1>3, <1>5, <1>10 DEF Core, OneSession, Quiet
  <2>2. ASSUME NEW x \in writes, Of(x) = L PROVE FALSE
    <3>1. t = x.new
      BY <1>1, <1>2, <1>8, <1>10, <2>2 DEF Pending, Theirs
    <3>2. tokens[t].at = "open"
      BY <1>3, <1>4, <2>2, <3>1 DEF Pending, Held, Rows
    <3> QED
      BY <1>4, <3>2
  <2>3. \A d \in Calls \ {c} : call[d].pc # "free" => About(d) # L
    BY <1>2, <1>8, <1>10 DEF Core, Alone
  <2> QED
    BY <1>4, <1>5, <2>1, <2>2, <2>3
<1>11. /\ \A x \in writes : Of(x)' = Of(x)
       /\ \A l : Quiet(l)' = Quiet(l)
       /\ InHand' /\ Alone' /\ NextLogin(cookie) = LoginOf(cookie)
  <2>1. cookie \in 0 .. n
    BY <1>3 DEF TypeOK
  <2> QED
    BY <1>9, <2>1, Ahead
<1>12. Kept' /\ Usable' /\ Brings' /\ CookieOK'
  <2>1. \A u \in 1 .. n : /\ Quiet(tokens[u].login) /\ Unspent(u) => NextUnspent(u)
                          /\ tokens[u].at = "in" => tokens'[u].at = "in"
                          /\ tokens'[u].next = tokens[u].next
    BY <1>7 DEF Unspent, NextUnspent
  <2>2. \A u \in n + 1 .. Len(tokens') : tokens'[u].next = 0
    BY <1>3, <1>7
  <2>3. \A d \in Calls :
           \/ call'[d] = call[d]
           \/ /\ call[d].pc \in {"sent", "read"} /\ call'[d].pc \in {"refused", "served"}
              /\ call'[d].pc = "refused" => call[d].kind = "refresh"
              /\ call'[d].pc = "served" /\ call[d].kind = "refresh" =>
                   /\ call[d].token # 0 /\ call'[d].new # 0
                   /\ NextLogin(call'[d].new) = About(d) /\ NextUnspent(call'[d].new)
    BY <1>8
  <2> QED
    BY <1>7, <1>9, <2>1, <2>2, <2>3, Gentle
<1>13. Known' /\ OneSession'
  BY <1>7 DEF Core, Known, OneSession, Live
<1>14. Of(w)' = L /\ w.old = t /\ w.new = 0 /\ LoginOf(t)' = L
  BY <1>4, <1>5, <1>6, <1>7 DEF Of, LoginOf
<1>15. Rows'
  <2>1. \A u \in 1 .. n : (\E x \in writes' : x.new = u) <=> (\E x \in writes : x.new = u)
    BY <1>7, <1>14
  <2> QED
    BY <1>3, <1>7, <2>1 DEF Pending, Held, Rows
<1>16. Pairs'
  <2> SUFFICES ASSUME NEW x \in writes'
               PROVE  /\ x.old # 0 \/ x.new # 0
                      /\ x.old # 0 => tokens[x.old].at = "in" /\ LoginOf(x.old)' = Of(x)'
                      /\ \A y \in writes' : x.new # 0 /\ y.new = x.new => y = x
    BY <1>7 DEF Pairs
  <2>1. CASE x = w
    BY <1>4, <1>14, <2>1
  <2>2. CASE x \in writes
    <3>1. LoginOf(x.old)' = LoginOf(x.old) /\ Of(x)' = Of(x)
      BY <1>7, <1>11, <2>2 DEF LoginOf
    <3> QED
      BY <1>7, <1>14, <2>2, <3>1 DEF Pending, Held, Pairs
  <2> QED
    BY <1>7, <2>1, <2>2
<1>17. Only'
  <2> SUFFICES ASSUME NEW x \in writes', Quiet(Of(x)')
               PROVE  /\ \A u \in 1 .. n : tokens[u].login = Of(x)' /\ Live(u) => u = x.old
                      /\ x.new # 0 => Of(x)' \notin ended
    BY <1>3, <1>7, <1>11 DEF Only, Live
  <2>1. CASE x = w
    BY <1>10, <1>14, <2>1
  <2>2. CASE x \in writes
    BY <1>3, <1>11, <2>2 DEF Pending, Held, Only
  <2> QED
    BY <1>7, <2>1, <2>2
<1>18. Sole' /\ Theirs' /\ CookieNew'
  <2>1. \A d \in Calls : call'[d] = call[d] \/ (call[d].pc # "served" /\ About(d) = L)
    BY <1>2, <1>8
  <2>2. Quiet(L) => \A d \in Calls : call'[d].pc # "free" /\ About(d) = L =>
                       /\ call'[d].pc \in {"sent", "read"} => call'[d].token = w.new
                       /\ call'[d].pc = "served" /\ call'[d].kind = "refresh" => call'[d].new = w.new
    BY <1>8, <1>10
  <2>3. \E d \in Calls : /\ call'[d].pc = "served" /\ About(d) = L
                         /\ call'[d].kind = "logout" <=> w.new = 0
    BY <1>2, <1>8, <1>14
  <2> QED
    BY <1>7, <1>9, <1>10, <1>14, <2>1, <2>2, <2>3, More
<1> QED
  BY <1>11, <1>12, <1>13, <1>15, <1>16, <1>17, <1>18 DEF Core, Pending, Held

\* What came of a row is of its login, and has committed.
LEMMA ChainLogin ==
  ASSUME TypeOK, Kept, NEW t \in 1 .. Len(tokens), NEW u \in Chain(t)
  PROVE  u \in 1 .. Len(tokens) /\ tokens[u].login = tokens[t].login /\ tokens[u].at = "in"
<1> DEFINE S == {v \in 1 .. Len(tokens) : tokens[v].login = tokens[t].login /\ tokens[v].at = "in"}
<1>1. u \in 1 .. Len(tokens)
  BY DEF Chain
<1>2. S \in SUBSET (1 .. Len(tokens))
  OBVIOUS
<1>3. \A v \in S \cup {t} : tokens[v].next # 0 => tokens[v].next \in S
  BY DEF Kept
<1>4. u \in S
  <2> HIDE DEF S
  <2> QED
    BY <1>2, <1>3 DEF Chain
<1> QED
  BY <1>1, <1>4

\* A row comes back that was rotated: its login is no longer quiet.
LEMMA ReuseCore ==
  ASSUME TypeOK, Core, Pending, NEW c \in Calls, Reuse(c)
  PROVE  Core' /\ Pending'
<1>1. PICK t : t = call[c].token
  OBVIOUS
<1>2. PICK L : L = About(c)
  OBVIOUS
<1>3. PICK n \in Nat : n = Len(tokens)
  BY DEF TypeOK
<1>4. t \in 1 .. n /\ t # 0 /\ call[c].pc = "sent" /\ call[c].kind = "refresh" /\ ~Unspent(t)
  <2>1. t # 0 /\ call[c].pc = "sent" /\ call[c].kind = "refresh" /\ ~Unspent(t)
    BY <1>1 DEF Reuse, Unspent
  <2> QED
    BY <1>1, <1>3, <2>1 DEF TypeOK
<1>5. L = tokens[t].login /\ L \in 1 .. logins /\ L # 0
  BY <1>1, <1>2, <1>3, <1>4 DEF About, LoginOf, Core, Known, TypeOK
<1>6. L \in crossed
  BY <1>1, <1>2, <1>4, <1>5 DEF Core, Usable, Quiet
<1>7. Len(tokens') = n /\ \A u \in 1 .. n : tokens'[u] = IF u \in Chain(t) THEN Revoked(tokens[u]) ELSE tokens[u]
  BY <1>1, <1>3 DEF Reuse
<1>8. /\ UNCHANGED <<writes, cookie, tab, req, logins, ended, broken, crossed>>
      /\ reused' = reused \cup {L}
  BY <1>2 DEF Reuse, About
<1>9. /\ call'[c].pc = "refused" /\ call'[c].kind = call[c].kind /\ call'[c].tab = call[c].tab
      /\ call'[c].token = call[c].token
      /\ \A d \in Calls \ {c} : call'[d] = call[d]
  BY DEF Reuse, Goes, TypeOK
<1>10. \A u \in 1 .. n : /\ tokens'[u].login = tokens[u].login /\ tokens'[u].next = tokens[u].next
                         /\ tokens'[u].at = tokens[u].at
                         /\ tokens'[u].revoked => tokens[u].revoked \/ tokens[u].at = "in"
                         /\ ~tokens'[u].revoked => ~tokens[u].revoked
                         /\ tokens[u].login # L => tokens'[u] = tokens[u]
  <2>1. \A u \in Chain(t) : u \in 1 .. n /\ tokens[u].login = L /\ tokens[u].at = "in"
    BY <1>3, <1>4, <1>5, ChainLogin DEF Core
  <2>2. \A u \in 1 .. n : tokens[u] \in Token
    BY <1>3 DEF TypeOK
  <2>3. \A row \in Token : /\ Revoked(row).login = row.login /\ Revoked(row).next = row.next
                           /\ Revoked(row).at = row.at /\ Revoked(row).revoked
    BY DEF Revoked, Token
  <2> QED
    BY <1>7, <2>1, <2>2, <2>3
<1>11. Onward(n)
  BY <1>3, <1>4, <1>7, <1>8, <1>9, <1>10 DEF Onward
<1>12. /\ \A x \in writes : Of(x)' = Of(x)
       /\ \A l : Quiet(l)' = Quiet(l)
       /\ \A u \in 0 .. n : NextLogin(u) = LoginOf(u)
       /\ InHand' /\ Alone'
  BY <1>11, Ahead
<1>13. \A d \in Calls : call'[d] = call[d] \/ (call[d].pc = "sent" /\ call'[d].pc = "refused")
  BY <1>4, <1>9
<1>14. Sole' /\ Theirs' /\ CookieNew'
  BY <1>8, <1>11, <1>13, Fewer
<1>15. Kept' /\ Usable' /\ Brings' /\ CookieOK'
  <2>1. \A u \in 1 .. n : /\ Quiet(tokens[u].login) /\ Unspent(u) => NextUnspent(u)
                          /\ tokens[u].at = "in" => tokens'[u].at = "in"
                          /\ tokens'[u].next = tokens[u].next
    <3> TAKE u \in 1 .. n
    <3>1. Quiet(tokens[u].login) => tokens'[u] = tokens[u]
      BY <1>6, <1>10 DEF Quiet
    <3> QED
      BY <1>10, <3>1 DEF Unspent, NextUnspent
  <2>2. \A u \in n + 1 .. Len(tokens') : tokens'[u].next = 0
    BY <1>7
  <2>3. \A d \in Calls :
           \/ call'[d] = call[d]
           \/ /\ call[d].pc \in {"sent", "read"} /\ call'[d].pc \in {"refused", "served"}
              /\ call'[d].pc = "refused" => call[d].kind = "refresh"
              /\ call'[d].pc = "served" /\ call[d].kind = "refresh" =>
                   /\ call[d].token # 0 /\ call'[d].new # 0
                   /\ NextLogin(call'[d].new) = About(d) /\ NextUnspent(call'[d].new)
    BY <1>4, <1>9
  <2> QED
    BY <1>8, <1>11, <2>1, <2>2, <2>3, Gentle
<1>16. \A u \in 1 .. n : NextLive(u) => Live(u)
  BY <1>10 DEF NextLive, Live
<1>17. OneSession'
  <2>1. logins \in Nat /\ reused' \subseteq reused \cup crossed
    BY <1>6, <1>8 DEF TypeOK
  <2> QED
    BY <1>7, <1>8, <1>11, <1>16, <2>1, NoneMore
<1>18. Known'
  <2>1. L \in 0 .. logins
    BY <1>5 DEF TypeOK
  <2> QED
    BY <1>3, <1>7, <1>8, <1>10, <2>1 DEF Core, Known
<1>19. Rows'
  BY <1>3, <1>7, <1>8, <1>10 DEF Pending, Held, Rows
<1>20. Pairs'
  <2> SUFFICES ASSUME NEW x \in writes
               PROVE  /\ x.old # 0 \/ x.new # 0
                      /\ x.old # 0 => tokens'[x.old].at = "in" /\ LoginOf(x.old)' = Of(x)'
                      /\ \A y \in writes : x.new # 0 /\ y.new = x.new => y = x
    BY <1>8 DEF Pairs
  <2>1. x.old \in 0 .. n
    BY <1>3 DEF TypeOK
  <2>2. LoginOf(x.old)' = LoginOf(x.old) /\ Of(x)' = Of(x)
    <3>1. LoginOf(x.old)' = NextLogin(x.old)
      BY DEF LoginOf, NextLogin
    <3> QED
      BY <1>12, <2>1, <3>1
  <2> QED
    BY <1>10, <2>1, <2>2 DEF Pending, Held, Pairs
<1>21. Only'
  <2> SUFFICES ASSUME NEW x \in writes, Quiet(Of(x))
               PROVE  /\ \A u \in 1 .. n : tokens'[u].login = Of(x) /\ NextLive(u) => u = x.old
                      /\ x.new # 0 => Of(x) \notin ended
    BY <1>7, <1>8, <1>12 DEF Only, Live, NextLive
  <2> QED
    BY <1>3, <1>10, <1>16 DEF Pending, Held, Only
<1> QED
  BY <1>12, <1>14, <1>15, <1>17, <1>18, <1>19, <1>20, <1>21 DEF Core, Pending, Held

-----------------------------------------------------------------------------
(* The steps of the browser                                                 *)

LEMMA SignInCore ==
  ASSUME TypeOK, Core, Pending, NEW b \in Tabs, SignIn(b)
  PROVE  Core' /\ Pending'
<1>1. PICK n \in Nat : n = Len(tokens)
  BY DEF TypeOK
<1>2. PICK L \in Nat : L = logins + 1 /\ logins \in Nat /\ L # 0
  BY DEF TypeOK
<1>3. Len(tokens') = n + 1 /\ tokens'[n + 1] = NewRow(L) /\ \A u \in 1 .. n : tokens'[u] = tokens[u]
  <2>1. tokens' = Append(tokens, NewRow(L))
    BY <1>2 DEF SignIn
  <2> QED
    BY <1>1, <2>1, Added
<1>4. PICK w : w = [old |-> 0, new |-> n + 1]
  OBVIOUS
<1>5. /\ cookie' = n + 1 /\ logins' = L /\ writes' = writes \cup {w}
      /\ UNCHANGED <<call, ended, reused, broken, crossed>>
      /\ \A d \in Tabs : tab'[d].pending = tab[d].pending
  BY <1>1, <1>2, <1>4 DEF SignIn, Store, TypeOK
<1>6. Onward(n)
  BY <1>1, <1>3, <1>5 DEF Onward
<1>7. NewRow(L).login = L /\ NewRow(L).at = "open" /\ ~NewRow(L).revoked /\ NewRow(L).next = 0
  BY DEF NewRow
<1>8. \A u \in 1 .. n + 1 : u \in 1 .. n \/ u = n + 1
  OBVIOUS
<1>9. /\ \A u \in 1 .. n : tokens[u].login # L
      /\ L \notin ended
      /\ \A u \in 0 .. n : LoginOf(u) # L
  <2>1. \A u \in 1 .. n : tokens[u].login # L
    BY <1>1, <1>2 DEF Core, Known
  <2>2. L \notin ended
    BY <1>2 DEF Core, Known
  <2> QED
    BY <1>2, <2>1, <2>2 DEF LoginOf
<1>10. (\A x \in writes : Of(x) # L) /\ (\A d \in Calls : About(d) # L)
  <2>1. \A x \in writes : x.old \in 0 .. n /\ x.new \in 0 .. n
    BY <1>1 DEF TypeOK
  <2>2. \A d \in Calls : call[d].token \in 0 .. n
    BY <1>1 DEF TypeOK
  <2> QED
    BY <1>9, <2>1, <2>2 DEF Of, About
<1>11. InHand' /\ Alone'
  BY <1>6, Ahead
<1>12. Kept' /\ Usable' /\ Brings'
  <2>1. \A u \in 1 .. n : /\ Quiet(tokens[u].login) /\ Unspent(u) => NextUnspent(u)
                          /\ tokens[u].at = "in" => tokens'[u].at = "in"
                          /\ tokens'[u].next = tokens[u].next
    BY <1>3 DEF Unspent, NextUnspent
  <2>2. \A u \in n + 1 .. Len(tokens') : tokens'[u].next = 0
    BY <1>3, <1>7
  <2>3. \A d \in Calls : call'[d] = call[d]
    BY <1>5
  <2> QED
    BY <1>5, <1>6, <2>1, <2>2, <2>3, Gentle
<1>13. CookieOK'
  <2>1. Unspent(cookie)' <=> NextUnspent(n + 1)
    BY <1>5 DEF Unspent, NextUnspent
  <2> QED
    BY <1>3, <1>7, <2>1 DEF CookieOK, NextUnspent
<1>14. OneSession'
  <2>1. \A u \in 1 .. Len(tokens') : NextLive(u) => u \in 1 .. n /\ Live(u)
    BY <1>3, <1>7, <1>8 DEF NextLive, Live
  <2>2. logins' \in Nat /\ logins <= logins' /\ ended' = ended /\ reused' \subseteq reused \cup crossed
    BY <1>2, <1>5
  <2> QED
    BY <1>6, <2>1, <2>2, NoneMore
<1>15. Known'
  <2>1. \A u \in 1 .. n + 1 : tokens'[u].login \in 1 .. L
    BY <1>1, <1>2, <1>3, <1>7, <1>8 DEF Core, Known
  <2>2. ended \subseteq 0 .. L /\ reused \subseteq 0 .. L
    BY <1>2 DEF Core, Known
  <2> QED
    BY <1>3, <1>5, <2>1, <2>2 DEF Known
<1>16. Rows' /\ Pairs' /\ Only' /\ Of(w)' = L
  <2>1. w.new = n + 1 /\ w.old = 0 /\ 0 \in 0 .. n
    BY <1>4
  <2> QED
    BY <1>3, <1>5, <1>6, <1>9, <2>1, Begin
<1>17. Sole' /\ Theirs' /\ CookieNew'
  <2>1. NextLogin(cookie') = L /\ cookie' = w.new
    BY <1>3, <1>4, <1>5, <1>7 DEF NextLogin
  <2>2. \A d \in Calls : call'[d] = call[d]
    BY <1>5
  <2> QED
    BY <1>5, <1>6, <1>10, <1>16, <2>1, <2>2, More
<1> QED
  BY <1>11, <1>12, <1>13, <1>14, <1>15, <1>16, <1>17 DEF Core, Pending, Held

\* A tab that has no refresh in hand has none on its way.
LEMMA NoneInHand ==
  ASSUME Core, NEW b, tab[b].pending = NoCall, NEW d \in Calls, b # NoTab
  PROVE  ~(call[d].pc # "free" /\ call[d].kind = "refresh" /\ call[d].tab = b)
  BY DEF Core, InHand, Calls, NoCall

LEMMA UnauthorizedCore ==
  ASSUME TypeOK, Core, Pending, NEW r \in Requests, NEW c \in Calls, Unauthorized(r, c)
  PROVE  Core' /\ Pending'
<1>1. PICK b \in Tabs : b = req[r].tab
  BY DEF Unauthorized, TypeOK
<1>2. b # NoTab /\ tab'[b].pending = c /\ \A e \in Tabs \ {b} : tab'[e] = tab[e]
  BY <1>1, SessionAssumption DEF Unauthorized, Store, TypeOK
<1>3. UNCHANGED <<table, cookie, logins, breaks, reused>>
  BY DEF Unauthorized
<1>4. CASE JoinRefresh(c, b)
  <2>1. \A e \in Tabs : tab'[e].pending = tab[e].pending
    BY <1>2, <1>4 DEF JoinRefresh
  <2> QED
    BY <1>3, <1>4, <2>1, Aside DEF JoinRefresh
<1>5. CASE StartRefresh(c, b)
  <2> DEFINE new == [pc |-> "sent", kind |-> "refresh", tab |-> b, token |-> cookie, new |-> 0]
  <2>1. /\ call[c].pc = "free" /\ tab[b].pending = NoCall
        /\ call' = [call EXCEPT ![c] = new]
        /\ crossed' = IF Rivals(b, "refresh") = {} THEN crossed ELSE crossed \cup {LoginOf(cookie)}
    BY <1>5 DEF StartRefresh, Ask, FirstFree
  <2>2. call'[c] = new /\ \A d \in Calls \ {c} : call'[d] = call[d]
    BY <2>1 DEF TypeOK
  <2>3. LoginOf(cookie) \notin crossed' => \A d \in Calls : call[d].pc # "free" => About(d) # LoginOf(cookie)
    BY <1>2, <2>1, NoneInHand DEF Rivals, AboutCookie, About
  <2>4. InHand'
    <3> SUFFICES ASSUME NEW d \in Calls, call'[d].pc # "free", call'[d].kind = "refresh", call'[d].tab # NoTab
                 PROVE  tab'[call'[d].tab].pending = d
      BY DEF InHand
    <3>1. CASE d = c
      BY <1>2, <2>2, <3>1
    <3>2. CASE d # c
      <4>1. call'[d] = call[d] /\ call[d].tab \in Tabs
        BY <2>2, <3>2 DEF TypeOK, Call
      <4>2. call[d].tab # b
        BY <1>2, <2>1, <4>1, NoneInHand
      <4> QED
        BY <1>2, <4>1, <4>2 DEF Core, InHand
    <3> QED
      BY <3>1, <3>2
  <2>5. crossed \subseteq crossed'
    BY <2>1
  <2> QED
    BY <1>3, <2>1, <2>2, <2>3, <2>4, <2>5, AskCore
<1> QED
  BY <1>1, <1>4, <1>5 DEF Unauthorized

LEMMA LogOutCore ==
  ASSUME TypeOK, Core, Pending, NEW b \in Tabs, NEW c \in Calls, LogOut(c, b)
  PROVE  Core' /\ Pending'
<1> DEFINE new == [pc |-> "sent", kind |-> "logout", tab |-> b, token |-> cookie, new |-> 0]
<1>1. /\ call[c].pc = "free"
      /\ call' = [call EXCEPT ![c] = new]
      /\ crossed' = IF Rivals(b, "logout") = {} THEN crossed ELSE crossed \cup {LoginOf(cookie)}
      /\ UNCHANGED <<table, cookie, tab, logins, reused>>
  BY DEF LogOut, Ask, FirstFree
<1>2. call'[c] = new /\ \A d \in Calls \ {c} : call'[d] = call[d]
  BY <1>1 DEF TypeOK
<1>3. LoginOf(cookie) \notin crossed' => \A d \in Calls : call[d].pc # "free" => About(d) # LoginOf(cookie)
  BY <1>1 DEF Rivals, AboutCookie, About
<1>4. InHand'
  BY <1>1, <1>2 DEF Core, InHand
<1>5. crossed \subseteq crossed'
  BY <1>1
<1> QED
  BY <1>1, <1>2, <1>3, <1>4, <1>5, AskCore

LEMMA ReloadCore ==
  ASSUME TypeOK, Core, Pending, NEW b \in Tabs, NEW c \in Calls, Reload(c, b)
  PROVE  Core' /\ Pending'
<1> DEFINE new == [pc |-> "sent", kind |-> "refresh", tab |-> b, token |-> cookie, new |-> 0]
<1>1. /\ call[c].pc = "free" /\ call'[c] = new
      /\ \A d \in Calls \ {c} : call'[d] = IF call[d].tab = b THEN Orphan(call[d]) ELSE call[d]
      /\ crossed' = IF AboutCookie # {} THEN crossed \cup {LoginOf(cookie)} ELSE crossed
      /\ UNCHANGED <<table, cookie, logins, reused>>
  BY DEF Reload, FirstFree
<1>2. \A d \in Calls \ {c} : /\ call'[d].pc = call[d].pc /\ call'[d].kind = call[d].kind
                             /\ call'[d].token = call[d].token /\ call'[d].new = call[d].new
                             /\ call'[d].tab = IF call[d].tab = b THEN NoTab ELSE call[d].tab
  <2> TAKE d \in Calls \ {c}
  <2>1. CASE call[d].tab = b
    <3>1. call'[d] = Orphan(call[d])
      BY <1>1, <2>1
    <3> QED
      BY <2>1, <3>1 DEF Orphan
  <2>2. CASE call[d].tab # b
    <3>1. call'[d] = call[d]
      BY <1>1, <2>2
    <3> QED
      BY <2>2, <3>1
  <2> QED
    BY <2>1, <2>2
<1>3. LoginOf(cookie) \notin crossed' => \A d \in Calls : call[d].pc # "free" => About(d) # LoginOf(cookie)
  BY <1>1 DEF AboutCookie, About
<1>4. tab'[b].pending = c /\ \A e \in Tabs \ {b} : tab'[e] = tab[e]
  BY DEF Reload, Store, TypeOK
<1>5. InHand'
  <2> SUFFICES ASSUME NEW d \in Calls, call'[d].pc # "free", call'[d].kind = "refresh", call'[d].tab # NoTab
               PROVE  tab'[call'[d].tab].pending = d
    BY DEF InHand
  <2>1. CASE d = c
    BY <1>1, <1>4, <2>1
  <2>2. CASE d # c
    <3>1. call'[d].tab = call[d].tab /\ call[d].tab # b /\ call[d].tab \in Tabs
      BY <1>2, <2>2 DEF TypeOK, Call
    <3>2. tab[call[d].tab].pending = d
      BY <1>2, <2>2, <3>1 DEF Core, InHand
    <3> QED
      BY <1>4, <3>1, <3>2
  <2> QED
    BY <2>1, <2>2
<1>6. crossed \subseteq crossed'
  BY <1>1
<1> QED
  BY <1>1, <1>2, <1>3, <1>5, <1>6, AskCore

-----------------------------------------------------------------------------
(* The theorems *)

LEMMA Start == Init => IInv
<1> SUFFICES ASSUME Init PROVE Core /\ Pending
  BY TypeInit DEF IInv
<1>1. Len(tokens) = 0 /\ logins = 0 /\ cookie = 0 /\ ended = {} /\ reused = {} /\ writes = {}
  BY DEF Init
<1>2. \A c \in Calls : call[c].pc = "free"
  BY DEF Init, FreeCall
<1>3. Known /\ Kept
  BY <1>1 DEF Known, Kept
<1>4. InHand /\ Alone /\ Usable /\ Brings
  BY <1>2 DEF InHand, Alone, Usable, Brings
<1>5. CookieOK /\ OneSession
  BY <1>1 DEF CookieOK, Quiet, LoginOf, OneSession
<1>6. Pending
  BY <1>1 DEF Pending, Held, Rows, Pairs, Sole, Only, Theirs, CookieNew
<1> QED
  BY <1>3, <1>4, <1>5, <1>6 DEF Core

LEMMA Step == IInv /\ [Next]_vars => IInv'
<1> SUFFICES ASSUME TypeOK, Core, Pending, [Next]_vars PROVE Core' /\ Pending'
  BY TypeStep DEF IInv
<1>u. ASSUME UNCHANGED vars PROVE Core' /\ Pending'
  BY <1>u, Aside DEF vars
<1>1. ASSUME NEW b \in Tabs, SignIn(b) PROVE Core' /\ Pending'
  BY <1>1, SignInCore
<1>2. ASSUME NEW r \in Requests, NEW b \in Tabs, Send(r, b) PROVE Core' /\ Pending'
  BY <1>2, Aside DEF Send
<1>3. ASSUME NEW r \in Requests, RequestFails(r) \/ Accepted(r) \/ UnauthorizedAgain(r) PROVE Core' /\ Pending'
  BY <1>3, Aside DEF RequestFails, Accepted, UnauthorizedAgain
<1>4. ASSUME NEW r \in Requests, NEW c \in Calls, Unauthorized(r, c) PROVE Core' /\ Pending'
  BY <1>4, UnauthorizedCore
<1>5. ASSUME NEW b \in Tabs, Expire(b) PROVE Core' /\ Pending'
  <2>1. \A e \in Tabs : tab'[e].pending = tab[e].pending
    BY <1>5 DEF Expire, Store, TypeOK
  <2> QED
    BY <1>5, <2>1, Aside DEF Expire
<1>6. ASSUME NEW b \in Tabs, NEW c \in Calls, LogOut(c, b) \/ Reload(c, b) PROVE Core' /\ Pending'
  BY <1>6, LogOutCore, ReloadCore
<1>7. ASSUME NEW c \in Calls, ReadToken(c) \/ Refuse(c) PROVE Core' /\ Pending'
  BY <1>7, ReadCore DEF ReadToken, Refuse
<1>8. ASSUME NEW c \in Calls, Reuse(c) PROVE Core' /\ Pending'
  BY <1>8, ReuseCore
<1>9. ASSUME NEW c \in Calls, Rotate(c) PROVE Core' /\ Pending'
  BY <1>9, RotateCore
<1>10. ASSUME NEW c \in Calls, Revoke(c) PROVE Core' /\ Pending'
  <2>1. CASE call[c].token # 0 /\ Live(call[c].token)
    BY <1>10, <2>1, RevokeCore
  <2>2. CASE ~(call[c].token # 0 /\ Live(call[c].token))
    <3>1. UNCHANGED writes
      BY <1>10, <2>2 DEF Revoke
    <3> QED
      BY <1>10, <3>1, ReadCore
  <2> QED
    BY <2>1, <2>2
<1>11. ASSUME NEW c \in Calls, Refreshed(c) PROVE Core' /\ Pending'
  BY <1>11, RefreshedCore
<1>12. ASSUME NEW c \in Calls, LoggedOut(c) PROVE Core' /\ Pending'
  BY <1>12, LoggedOutCore
<1>13. ASSUME NEW c \in Calls, RefreshRefused(c) PROVE Core' /\ Pending'
  <2>1. crossed' = crossed /\ call[c].pc = "refused" /\ ClearSession(c)
    BY <1>13 DEF RefreshRefused
  <2> QED
    BY <2>1, LostCore
<1>14. ASSUME NEW c \in Calls, CallLost(c) PROVE Core' /\ Pending'
  <2>1. /\ call[c].pc # "free" /\ ClearSession(c)
        /\ crossed' = IF call[c].pc = "served" THEN crossed \cup {About(c)} ELSE crossed
    BY <1>14 DEF CallLost, About
  <2> QED
    BY <2>1, LostCore
<1>15. ASSUME NEW w \in writes, Save(w) \/ SaveFails(w) PROVE Core' /\ Pending'
  BY <1>15, SaveCore, SaveFailsCore
<1> QED
  BY <1>u, <1>1, <1>2, <1>3, <1>4, <1>5, <1>6, <1>7, <1>8, <1>9, <1>10, <1>11, <1>12, <1>13, <1>14, <1>15
  DEF Next, Client, Server, Answer

\* The invariant says that the cookie of a tab's sign-in can be used or replaced,
\* now or when the transaction it is waiting for commits.
LEMMA BackedByInv == IInv => Backed
<1> SUFFICES ASSUME IInv, NEW b \in Tabs, NEW l, l = tab[b].login,
                    l # 0, l = LoginOf(cookie), l \notin ended \cup crossed \cup broken
             PROVE  \/ Coming(cookie)
                    \/ \E c \in Calls : call[c].pc = "served" /\ LoginOf(call[c].new) = l /\ Coming(call[c].new)
  BY DEF Backed
<1>1. Quiet(LoginOf(cookie))
  BY DEF Quiet
<1>2. ASSUME NEW t \in 0 .. Len(tokens), LoginOf(t) = l, Unspent(t) PROVE Coming(t)
  <2>1. t \in 1 .. Len(tokens) /\ tokens[t].login = l
    BY <1>2 DEF LoginOf
  <2>2. tokens[t].at \in {"open", "in", "lost"}
    BY <2>1, TokensType DEF IInv, TypeOK
  <2>3. tokens[t].at # "lost"
    BY <2>1 DEF IInv, Pending, Held, Rows
  <2>4. CASE tokens[t].at = "in"
    BY <1>2, <2>4 DEF Coming, Live, Unspent
  <2>5. CASE tokens[t].at = "open"
    BY <2>1, <2>5 DEF IInv, Pending, Held, Rows, Coming
  <2> QED
    BY <2>2, <2>3, <2>4, <2>5
<1>3. ASSUME NEW c \in Calls, call[c].pc = "served", About(c) = LoginOf(cookie),
             call[c].kind = "logout" => About(c) \in ended
      PROVE  LoginOf(call[c].new) = l /\ Coming(call[c].new)
  <2>1. call[c].kind \in {"refresh", "logout"} /\ call[c].new \in 0 .. Len(tokens)
    BY DEF IInv, TypeOK, Call
  <2>2. call[c].kind = "refresh"
    BY <1>3, <2>1
  <2>3. LoginOf(call[c].new) = l /\ Unspent(call[c].new)
    BY <1>1, <1>3, <2>2 DEF IInv, Core, Brings
  <2> QED
    BY <1>2, <2>1, <2>3
<1>4. cookie \in 0 .. Len(tokens)
  BY DEF IInv, TypeOK
<1> QED
  BY <1>1, <1>2, <1>3, <1>4 DEF IInv, Core, CookieOK

\* The rows, the cookie, the tabs, the calls and the requests stay what
\* refresh_tokens, the browser and axios.ts say they are.
THEOREM TypeCorrect == Spec => []TypeOK
<1>1. IInv => TypeOK
  BY DEF IInv
<1> QED
  BY Start, Step, <1>1, PTL DEF Spec

\* However many tabs ask, expire, reload and log out: a sign-in whose calls were
\* answered one by one never has two usable tokens, none once it was logged out,
\* and rotate_refresh_token never takes one of its tokens for a stolen one.
THEOREM SessionIsOne == Spec => []OneSession
<1>1. IInv => OneSession
  BY DEF IInv, Core
<1> QED
  BY Start, Step, <1>1, PTL DEF Spec

\* Although get_db() commits after the answer with the cookie has left: the
\* browser's cookie can be used, will be when its transaction commits, or its
\* successor is on its way, unless such a commit failed.
THEOREM SessionIsBacked == Spec => []Backed
  BY Start, Step, BackedByInv, PTL DEF Spec
=============================================================================
