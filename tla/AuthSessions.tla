---------------------------- MODULE AuthSessions ----------------------------
(***************************************************************************)
(* Sessions on the server: the Session and RetailerSession rows, the Redis *)
(* entries that remember a session as valid for a while, and the handlers  *)
(* that check, create, rotate and revoke sessions.  Each handler awaits    *)
(* the database and Redis in turn, so that other handlers run in between;  *)
(* Redis may be down, which skips a command.                               *)
(***************************************************************************)
EXTENDS Naturals, FiniteSets, Functions

CONSTANTS
  Sessions,   \* bound: the rows that may be created; a session also stands for
              \* the access and the refresh token that name it
  Calls,      \* HTTP calls under way
  Tabs,       \* what makes them
  Mishaps,    \* bound: how often Redis, the server, the network or a page fails,
              \* a refresh token lapses, a user is suspended or logged out everywhere
  Nothing

ASSUME SessionsAssumption == Nothing \notin Sessions /\ Mishaps \in Nat

VARIABLES
  portal,     \* the sessions are retailers', not users'
  session,    \* status of each row; why it was revoked is for the properties only
  fresh,      \* sessions whose access token has not expired
  cached,     \* session:<id>:valid keys in Redis
  active,     \* the user's status is ACTIVE
  ending,     \* sessions logoutAll has listed, and how far it is
  mishaps,    \* how many are still to come
  request     \* what each call is for and where it stands

server == <<portal, session, fresh, cached, active, ending, mishaps>>

SessionStatus == {"none", "live", "lapsed", "rotated", "ended", "endedByAll"}

\* Where the server has the call.
AtServer == {"sent", "fill", "serve", "forget",
             "match", "rotate", "forgetOld", "renew", "cache"}

\* Where the browser has it: answered, or waiting for another call's refresh.
AtClient == {"ok", "unauthorized", "error", "renewed", "refused", "queued"}

CallKinds == {"page", "logout", "login", "profile"}

\* The rows there are.
Issued == {s \in Sessions : session[s] # "none"}

\* token: the access token sent; pair: what a refresh rotates and then what it,
\* or a login, is given; login: what the login before a profile was given;
\* gone: the tab no longer waits.
CallType == [at : {"idle"} \cup AtServer \cup AtClient, kind : CallKinds,
             token : Sessions \cup {Nothing}, pair : Sessions \cup {Nothing},
             login : Sessions \cup {Nothing}, tab : Tabs \cup {Nothing}, retried : BOOLEAN, gone : BOOLEAN]

ServerTypeOK ==
  /\ portal \in BOOLEAN
  /\ session \in [Sessions -> SessionStatus]
  /\ fresh \subseteq Sessions /\ cached \subseteq Sessions
  /\ active \in BOOLEAN
  /\ ending \in [at : {"idle", "listed", "forget"}, left : SUBSET Sessions]
  /\ mishaps \in Nat
  /\ request \in [Calls -> CallType]
  /\ \A c \in Calls : {request[c].token, request[c].pair, request[c].login} \subseteq Issued \cup {Nothing}

NoCall == [at |-> "idle", kind |-> "page", token |-> Nothing, pair |-> Nothing, login |-> Nothing,
         tab |-> Nothing, retried |-> FALSE, gone |-> FALSE]

ServerInit ==
  /\ portal \in BOOLEAN
  /\ session = [s \in Sessions |-> "none"]
  /\ fresh = {} /\ cached = {}
  /\ active = TRUE
  /\ ending = [at |-> "idle", left |-> {}]
  /\ mishaps = Mishaps
  /\ request = [c \in Calls |-> NoCall]

\* Nothing comes of an answer a tab no longer waits for, nor of one a page
\* only shows.
Ends(q, at) == at \in AtClient /\ (q.gone \/ (q.kind = "page" /\ at \in {"ok", "error"}))

After(q, at) == IF Ends(q, at) THEN NoCall ELSE [q EXCEPT !.at = at]

Goto(c, at) == request' = [request EXCEPT ![c] = After(request[c], at)]

Mishap == mishaps > 0 /\ mishaps' = mishaps - 1

\* rSet and rDel, which do nothing when Redis does not answer.
Remember(s) == \/ cached' = cached \cup {s} /\ UNCHANGED mishaps
               \/ Mishap /\ UNCHANGED cached

ForgetOne(s) == \/ cached' = cached \ {s} /\ UNCHANGED mishaps
                \/ Mishap /\ UNCHANGED cached

\* The row validateSession finds: revokedAt null and expiresAt to come.
Readable(s) == session[s] = "live"

\* The strategy ends with the user's status; only logout has more to do.
Pass(c) ==
  Goto(c, IF ~active THEN "unauthorized" ELSE IF request[c].kind = "logout" THEN "serve" ELSE "ok")

\* JwtStrategy.validate and AuthService.validateSession.
Authenticate(c) ==
  /\ ~portal /\ request[c].at = "sent"
  /\ LET s == request[c].token IN
       IF s \notin fresh THEN Goto(c, "unauthorized")
       ELSE IF s \in cached THEN Pass(c)
       ELSE Goto(c, IF Readable(s) THEN "fill" ELSE "unauthorized")
  /\ UNCHANGED server

Fill(c) ==
  /\ request[c].at = "fill"
  /\ Remember(request[c].token)
  /\ Pass(c)
  /\ UNCHANGED <<portal, session, fresh, active, ending>>

RevokeOne(c) ==
  /\ ~portal /\ request[c].at = "serve"
  /\ session' = [session EXCEPT ![request[c].token] = "ended"]
  /\ Goto(c, "forget")
  /\ UNCHANGED <<portal, fresh, cached, active, ending, mishaps>>

Forget(c) ==
  /\ request[c].at = "forget"
  /\ ForgetOne(request[c].token)
  /\ Goto(c, "ok")
  /\ UNCHANGED <<portal, session, fresh, active, ending>>

-----------------------------------------------------------------------------
(* Refreshing: match the token, revoke its session, create another.        *)

Match(c) ==
  /\ request[c].at = "match"
  /\ Goto(c, IF session[request[c].pair] = "live" /\ active THEN "rotate" ELSE "refused")
  /\ UNCHANGED server

Rotate(c) ==
  /\ request[c].at = "rotate"
  /\ session' = [session EXCEPT ![request[c].pair] = "rotated"]
  /\ Goto(c, "forgetOld")
  /\ UNCHANGED <<portal, fresh, cached, active, ending, mishaps>>

\* Mutant: refreshing leaves the old session in Redis.
ForgetNothing(c) ==
  /\ request[c].at = "forgetOld"
  /\ Goto(c, "renew")
  /\ UNCHANGED server

ForgetOld(c) ==
  /\ request[c].at = "forgetOld"
  /\ ForgetOne(request[c].pair)
  /\ Goto(c, "renew")
  /\ UNCHANGED <<portal, session, fresh, active, ending>>

Unused == Sessions \ Issued

Created(c, at) ==
  /\ request[c].at = "renew"
  /\ Unused # {}
  /\ LET s == CHOOSE u \in Unused : TRUE IN
       /\ session' = [session EXCEPT ![s] = "live"]
       /\ fresh' = fresh \cup {s}
       /\ request' = [request EXCEPT ![c] = After([@ EXCEPT !.pair = s], at)]
  /\ UNCHANGED <<portal, cached, active, ending, mishaps>>

\* createSession, also the end of a login.
Renew(c) == ~portal /\ Created(c, "cache")

CacheNew(c) ==
  /\ request[c].at = "cache"
  /\ Remember(request[c].pair)
  /\ Goto(c, "renewed")
  /\ UNCHANGED <<portal, session, fresh, active, ending>>

\* The server stops, the call times out at 30 s or its answer is lost: an
\* error that is not a 401.  Nothing a handler did before is undone.  With no
\* session left to create, the bound on sessions ends the call.
Refreshing == {"match", "rotate", "forgetOld", "renew", "cache", "renewed", "refused"}

Break(c) ==
  /\ request[c].at \in AtServer
  /\ \/ Mishap
     \/ request[c].at = "renew" /\ Unused = {} /\ UNCHANGED mishaps
  /\ Goto(c, IF request[c].at \in Refreshing /\ request[c].kind # "login" THEN "refused" ELSE "error")
  /\ UNCHANGED <<portal, session, fresh, cached, active, ending>>

-----------------------------------------------------------------------------
(* Retailers: no cache, and nothing to refresh with.                       *)

\* RetailerJwtStrategy.validate and validateRetailerSession.
AuthenticateRetailer(c) ==
  /\ portal /\ request[c].at = "sent"
  /\ Goto(c, IF request[c].token \in fresh /\ Readable(request[c].token)
             THEN IF request[c].kind = "logout" THEN "serve" ELSE "ok"
             ELSE "unauthorized")
  /\ UNCHANGED server

\* RetailerAuthService.login.
RenewRetailer(c) == portal /\ Created(c, "renewed")

\* RetailerAuthService.logout.
RevokeRetailer(c) ==
  /\ portal /\ request[c].at = "serve"
  /\ session' = [session EXCEPT ![request[c].token] = "ended"]
  /\ Goto(c, "ok")
  /\ UNCHANGED <<portal, fresh, cached, active, ending, mishaps>>

-----------------------------------------------------------------------------
(* logoutAll, which also ends resetPassword; called by no screen.          *)

LiveOnes == {s \in Sessions : session[s] \in {"live", "lapsed"}}

ListAll ==
  /\ ending.at = "idle" /\ ~portal /\ LiveOnes # {} /\ Mishap
  /\ ending' = [at |-> "listed", left |-> LiveOnes]
  /\ UNCHANGED <<portal, session, fresh, cached, active, request>>

RevokeAll ==
  /\ ending.at = "listed"
  /\ session' = [s \in Sessions |-> IF s \in LiveOnes THEN "endedByAll" ELSE session[s]]
  /\ ending' = [ending EXCEPT !.at = "forget"]
  /\ UNCHANGED <<portal, fresh, cached, active, mishaps, request>>

\* One rDel after the other.
ForgetListed ==
  /\ ending.at = "forget"
  /\ \/ cached' = cached \ ending.left /\ UNCHANGED mishaps
     \/ Mishap /\ \E skipped \in ending.left : cached' = cached \ (ending.left \ {skipped})
  /\ ending' = [at |-> "idle", left |-> {}]
  /\ UNCHANGED <<portal, session, fresh, active, request>>

-----------------------------------------------------------------------------
(* Time, and the user's status.                                            *)

AccessExpires(s) ==
  /\ s \in fresh
  /\ fresh' = fresh \ {s}
  /\ UNCHANGED <<portal, session, cached, active, ending, mishaps, request>>

\* Seven days, long after the access token.
RefreshLapses(s) ==
  /\ session[s] = "live" /\ s \notin fresh /\ Mishap
  /\ session' = [session EXCEPT ![s] = "lapsed"]
  /\ UNCHANGED <<portal, fresh, cached, active, ending, request>>

\* Redis keeps an entry for 900 s from when it is set, and a token is good for
\* 15 minutes from when it is issued: an entry outlives its token.
CacheExpires(s) ==
  /\ s \in cached \ fresh
  /\ cached' = cached \ {s}
  /\ UNCHANGED <<portal, session, fresh, active, ending, mishaps, request>>

Suspend ==
  /\ active /\ Mishap
  /\ active' = FALSE
  /\ UNCHANGED <<portal, session, fresh, cached, ending, request>>

ServerStep(c) ==
  \/ Authenticate(c) \/ Fill(c) \/ RevokeOne(c) \/ Forget(c)
  \/ Match(c) \/ Rotate(c) \/ ForgetOld(c) \/ Renew(c) \/ CacheNew(c)
  \/ AuthenticateRetailer(c) \/ RenewRetailer(c) \/ RevokeRetailer(c)
  \/ Break(c)

ServerNext ==
  \/ \E c \in Calls : ServerStep(c)
  \/ ListAll \/ RevokeAll \/ ForgetListed
  \/ \E s \in Sessions : AccessExpires(s) \/ RefreshLapses(s) \/ CacheExpires(s)
  \/ Suspend
=============================================================================
