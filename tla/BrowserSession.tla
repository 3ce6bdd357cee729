--------------------------- MODULE BrowserSession ---------------------------
(***************************************************************************)
(* The browser's side of a session: tabs of one browser that share a pair  *)
(* of tokens in localStorage, send calls with it, refresh it when a call   *)
(* is refused, and send the user to the login page when that fails.  A     *)
(* portal browser is a retailer's: one token, never refreshed.             *)
(***************************************************************************)
EXTENDS AuthSessions

CONSTANT Duties   \* bound: the kinds of calls that call c stands for

ASSUME DutiesAssumption == Duties \in [Calls -> SUBSET CallKinds]

VARIABLES
  stored,      \* the pair of tokens in localStorage
  persisted,   \* the user kept by the auth store (portal: the profile)
  screen,      \* of each tab: the login form, or a page of the application
  refreshing   \* isRefreshing of each tab's client

browser == <<stored, persisted, screen, refreshing>>

vars == <<server, request, browser>>

TypeOK ==
  /\ ServerTypeOK
  /\ stored \in Issued \cup {Nothing}
  /\ persisted \in BOOLEAN
  /\ screen \in [Tabs -> {"form", "app"}]
  /\ refreshing \in [Tabs -> BOOLEAN]

Init ==
  /\ ServerInit
  /\ stored = Nothing /\ persisted = FALSE
  /\ screen = [t \in Tabs |-> "form"]
  /\ refreshing = [t \in Tabs |-> FALSE]

InTab(t) == {c \in Calls : request[c].tab = t}

\* The calls that wait for c's refresh.
Queue(c) == {d \in InTab(request[c].tab) : request[d].at = "queued"}

Sent(q, token) == [q EXCEPT !.at = "sent", !.token = token, !.pair = Nothing]

Starting(t, kind) == [NoCall EXCEPT !.tab = t, !.kind = kind]

\* The request interceptor attaches the token in storage.  A page loads its
\* data, or the user presses Logout.
Send(c, t, kind) ==
  /\ request[c].at = "idle" /\ screen[t] = "app" /\ kind \in Duties[c]
  /\ request' = [request EXCEPT ![c] = Sent(Starting(t, kind), stored)]
  /\ UNCHANGED <<server, browser>>

\* The login form, shown when the store remembers no user.
SignIn(c, t) ==
  /\ request[c].at = "idle" /\ screen[t] = "form"
  /\ \A d \in InTab(t) : request[d].gone \/ request[d].kind \notin {"login", "profile"}
  /\ "login" \in Duties[c] /\ active /\ Unused # {}
  /\ request' = [request EXCEPT ![c] = [Starting(t, "login") EXCEPT !.at = "renew"]]
  /\ UNCHANGED <<server, browser>>

-----------------------------------------------------------------------------
(* Answers.                                                                *)

\* A tab that leaves its page waits for none of its calls; the server goes on
\* with those it has begun to serve.
Abandoned(q) ==
  IF q.at \in AtServer \ {"sent"} THEN [q EXCEPT !.gone = TRUE] ELSE NoCall

\* Loading a page afresh: the store is read again, the guard lets a user in.
Visit(t) ==
  /\ \/ screen[t] = "form" /\ persisted /\ UNCHANGED mishaps
     \/ screen[t] = "app" /\ Mishap
  /\ screen' = [screen EXCEPT ![t] = IF persisted THEN "app" ELSE "form"]
  /\ refreshing' = [refreshing EXCEPT ![t] = FALSE]
  /\ request' = [c \in Calls |-> IF c \in InTab(t) THEN Abandoned(request[c]) ELSE request[c]]
  /\ UNCHANGED <<portal, session, fresh, cached, active, ending, stored, persisted>>

\* Calls that fail in tab t.  handleLogout clears the store whatever the
\* answer; anyone else shows the error.
Cleared(calls) == \E c \in calls : request[c].kind = "logout"

\* Mutant: the tokens stay in storage.
TokensKept(t, failed) ==
  /\ request' = [c \in Calls |-> IF c \in failed THEN NoCall ELSE request[c]]
  /\ refreshing' = [refreshing EXCEPT ![t] = FALSE]
  /\ UNCHANGED <<server, stored, persisted, screen>>

\* clearTokens leaves the store's user, and the login page sends a user it
\* finds there back to the dashboard; the portal removes the profile too.  A
\* refresh ends when it fails itself, or with the page it was begun by.
SessionLost(t, failed) ==
  LET reload == screen[t] = "app"
      keeps == persisted /\ ~portal /\ ~Cleared(failed)
      over == reload \/ \E c \in failed : request[c].at = "refused"
  IN
  /\ stored' = Nothing
  /\ persisted' = keeps
  /\ screen' = [screen EXCEPT ![t] = IF reload /\ ~keeps THEN "form" ELSE @]
  /\ refreshing' = [refreshing EXCEPT ![t] = @ /\ ~over]
  /\ request' = [c \in Calls |-> IF c \in failed THEN NoCall
                                 ELSE IF reload /\ c \in InTab(t) THEN Abandoned(request[c]) ELSE request[c]]
  /\ UNCHANGED server

\* An error shown to the user, or the end of a logout.
Settle(c) ==
  /\ request' = [request EXCEPT ![c] = NoCall]
  /\ IF request[c].kind = "logout"
     THEN /\ stored' = Nothing /\ persisted' = FALSE
          /\ screen' = [screen EXCEPT ![request[c].tab] = "form"]
          /\ UNCHANGED <<server, refreshing>>
     ELSE UNCHANGED <<server, browser>>

Expects(c, at) == request[c].at = at /\ ~request[c].gone

\* A 401: wait for the refresh of the tab, or begin one with the refresh
\* token that is in storage now.
Wait(c) ==
  /\ Expects(c, "unauthorized") /\ ~portal
  /\ ~request[c].retried /\ stored # Nothing
  /\ refreshing[request[c].tab]
  /\ request' = [request EXCEPT ![c].at = "queued", ![c].retried = TRUE, ![c].token = Nothing]
  /\ UNCHANGED <<server, browser>>

StartRefresh(c) ==
  /\ Expects(c, "unauthorized") /\ ~portal
  /\ ~request[c].retried /\ stored # Nothing
  /\ ~refreshing[request[c].tab]
  /\ refreshing' = [refreshing EXCEPT ![request[c].tab] = TRUE]
  /\ request' = [request EXCEPT ![c].at = "match", ![c].retried = TRUE,
                                ![c].token = Nothing, ![c].pair = stored]
  /\ UNCHANGED <<server, stored, persisted, screen>>

\* A 401 with nothing to refresh, or that a refresh has not helped.
GiveUp(c) ==
  /\ Expects(c, "unauthorized") /\ ~portal
  /\ IF request[c].retried THEN Settle(c)
     ELSE stored = Nothing /\ SessionLost(request[c].tab, {c})

\* The portal's interceptor.
GiveUpPortal(c) ==
  /\ Expects(c, "unauthorized") /\ portal
  /\ SessionLost(request[c].tab, {c})

\* Mutant: the calls that wait are forgotten.
OnlyItself(c) == {c}

\* The calls sent again once the refresh of c has an answer.
SentAgain(c) == {c} \cup Queue(c)

OnRefreshed(c) ==
  /\ Expects(c, "renewed") /\ request[c].kind # "login"
  /\ stored' = request[c].pair
  /\ refreshing' = [refreshing EXCEPT ![request[c].tab] = FALSE]
  /\ request' = [d \in Calls |-> IF d \in SentAgain(c) THEN Sent(request[d], request[c].pair) ELSE request[d]]
  /\ UNCHANGED <<server, persisted, screen>>

OnRefused(c) ==
  /\ Expects(c, "refused")
  /\ SessionLost(request[c].tab, SentAgain(c))

\* The login page stores the pair and asks for the profile.
OnSignedIn(c) ==
  /\ Expects(c, "renewed") /\ request[c].kind = "login" /\ ~portal
  /\ stored' = request[c].pair
  /\ request' = [request EXCEPT ![c] = [Sent(Starting(request[c].tab, "profile"), request[c].pair)
                                        EXCEPT !.login = request[c].pair]]
  /\ UNCHANGED <<server, persisted, screen, refreshing>>

\* The portal's answer has the profile in it.
OnRetailerSignedIn(c) ==
  /\ Expects(c, "renewed") /\ request[c].kind = "login" /\ portal
  /\ stored' = request[c].pair
  /\ persisted' = TRUE
  /\ screen' = [screen EXCEPT ![request[c].tab] = "app"]
  /\ request' = [request EXCEPT ![c] = NoCall]
  /\ UNCHANGED <<server, refreshing>>

\* setSession stores the login's pair again, with the user.
OnProfile(c) ==
  /\ Expects(c, "ok") /\ request[c].kind = "profile"
  /\ stored' = request[c].login
  /\ persisted' = TRUE
  /\ screen' = [screen EXCEPT ![request[c].tab] = "app"]
  /\ request' = [request EXCEPT ![c] = NoCall]
  /\ UNCHANGED <<server, refreshing>>

OnAnswer(c) ==
  /\ Expects(c, "ok") \/ Expects(c, "error")
  /\ ~(request[c].at = "ok" /\ request[c].kind = "profile")
  /\ Settle(c)

ClientStep(c) ==
  \/ Wait(c) \/ StartRefresh(c) \/ GiveUp(c) \/ GiveUpPortal(c) \/ OnRefreshed(c)
  \/ OnRefused(c) \/ OnSignedIn(c) \/ OnRetailerSignedIn(c) \/ OnProfile(c) \/ OnAnswer(c)

Next ==
  \/ ServerNext /\ UNCHANGED browser
  \/ \E c \in Calls : ClientStep(c)
  \/ \E t \in Tabs : \/ \E c \in Calls : Send(c, t, "page") \/ Send(c, t, "logout") \/ SignIn(c, t)
                     \/ Visit(t)

Spec == Init /\ [][Next]_vars

\* A handler goes on or breaks, the browser handles what it is answered, a
\* user who is let in goes on using the pages, and access tokens expire.
Advance(c) ==
  \/ ServerStep(c) /\ UNCHANGED browser
  \/ ClientStep(c)
  \/ \E t \in Tabs : Send(c, t, "page")

Fairness ==
  /\ \A c \in Calls : WF_vars(Advance(c))
  /\ \A s \in Sessions : WF_vars(AccessExpires(s) /\ UNCHANGED browser)

FairSpec == Spec /\ Fairness

-----------------------------------------------------------------------------
(* Correctness.                                                            *)

RefreshersOf(t) ==
  {c \in InTab(t) : request[c].at \in Refreshing /\ request[c].kind # "login" /\ ~request[c].gone}

\* A tab refreshes its tokens once at a time, and calls wait only while it
\* does: no call is left in refreshQueue (isRefreshing and refreshQueue in
\* client.ts, reset on every way out of the handler).
QueuedIsAwaited ==
  \A t \in Tabs :
    /\ \A c, d \in RefreshersOf(t) : c = d
    /\ refreshing[t] <=> RefreshersOf(t) # {}
    /\ \A c \in InTab(t) : request[c].at = "queued" => refreshing[t]

Revoked(s) == session[s] \in {"rotated", "ended"}

BeingForgotten(s) ==
  \E c \in Calls : \/ (request[c].at = "forget" /\ request[c].token = s)
                  \/ (request[c].at = "forgetOld" /\ request[c].pair = s)

\* While nothing fails, a session that was logged out or refreshed is no longer
\* served from Redis once its handler is through, whoever used or refreshed it
\* at the same time (AuthService.refresh, logout, validateSession).
RevokedIsForgotten ==
  mishaps = Mishaps => \A s \in cached : Revoked(s) => BeingForgotten(s)

HoldsRevoked == stored # Nothing /\ session[stored] \in {"rotated", "ended", "endedByAll"}

\* A browser that is in use does not stay with a revoked pair, whatever left
\* it there: the refresh of another tab, one that was broken off, a login that
\* wrote its pair back, a logout of all devices.
InUse == \E t \in Tabs : screen[t] = "app"

RevokedPairIsReplaced == (HoldsRevoked /\ InUse) ~> ~(HoldsRevoked /\ InUse)

-----------------------------------------------------------------------------
(* The inductive invariants of FrontEndProofs.                             *)

\* A login is made once: it is neither refreshed nor sent again.
LoginsAreNew ==
  \A c \in Calls : request[c].kind = "login" => request[c].at \in {"renew", "cache", "renewed", "error"}

\* A call is a tab's, and its handler has the session it works on.
HandlersKnow ==
  \A c \in Calls :
    /\ request[c].at # "idle" => request[c].tab \in Tabs
    /\ request[c].at \in {"fill", "serve", "forget"} => request[c].token \in Sessions
    /\ request[c].at \in {"match", "rotate", "forgetOld", "cache"} => request[c].pair \in Sessions

TabInv == TypeOK /\ HandlersKnow /\ LoginsAreNew /\ QueuedIsAwaited

\* A pair that is on its way into Redis is known to nobody yet.
IsSecret(c) ==
  LET s == request[c].pair IN
  /\ stored # s
  /\ request[c].token # s /\ request[c].login # s
  /\ \A d \in Calls \ {c} : s \notin {request[d].token, request[d].pair, request[d].login}

BeingCached(s) == \E c \in Calls : request[c].at = "cache" /\ request[c].pair = s

\* While nothing fails, Redis is asked for the sessions it knows: a live one
\* with a good access token is there, or is about to be, so that no handler
\* puts a session back that another one has revoked.
NothingToFill ==
  /\ ending.at = "idle"
  /\ \A c \in Calls : request[c].at # "fill"
  /\ \A c \in Calls : request[c].at = "cache" => Readable(request[c].pair)
  /\ ~portal => \A s \in fresh : Readable(s) => s \in cached \/ BeingCached(s)

PortalHasNoCache ==
  portal => cached = {} /\ \A c \in Calls : request[c].at \notin {"fill", "cache"}

ForgetsRevoked ==
  \A c \in Calls : /\ request[c].at = "forget" => Revoked(request[c].token)
                   /\ request[c].at = "forgetOld" => Revoked(request[c].pair)

CacheInv ==
  /\ mishaps <= Mishaps
  /\ \A c \in Calls : request[c].at = "cache" => IsSecret(c)
  /\ ForgetsRevoked /\ PortalHasNoCache
  /\ mishaps = Mishaps => NothingToFill
  /\ RevokedIsForgotten
=============================================================================
