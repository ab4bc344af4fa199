------------------------------ MODULE WebClient ------------------------------
(***************************************************************************)
(* The pages of one browser and the session they share (platform/api.js,   *)
(* platform/ws.js): every page keeps its own access token and at most one  *)
(* refresh under way, all of them send the same refresh cookie.  A request *)
(* that gets 401 waits for the page's refresh and is sent once more; the   *)
(* /calls socket of a page does the same when its handshake is refused.    *)
(* The server's side is the rotation of services/auth.ts with its grace    *)
(* window, as AuthSessions models it in detail.                            *)
(*                                                                         *)
(* A request, its answer and what the browser does with the answer are     *)
(* steps of their own.  A page that is left aborts what it has under way.  *)
(***************************************************************************)
EXTENDS Integers, FiniteSets

CONSTANTS
    Pages,          \* pages (tabs) open in the browser
    Calls,          \* authenticated requests a page may have under way
    MaxWebSessions,    \* bound of the model: sessions the server creates
    MaxEvents       \* bound of the model: expiries, page changes and logins

ASSUME WebBounds == MaxWebSessions \in Nat \ {0} /\ MaxEvents \in Nat

WebSessions == 1..MaxWebSessions

VARIABLES
    status,     \* status[s]: a row of sessions
    succ,       \* succ[s]: replaced_by_session_id, 0 if none
    family,     \* family[s]: token_family_id, named by its first session
    jar,        \* the refresh cookie: a session, 0 if there is none
    at,         \* at[p]: where page p is
    token,      \* token[p]: accessToken, and whether the server would take it
    refresh,    \* refresh[p]: the request behind 'refreshing'
    call,       \* call[p][c]: an authFetch
    socket,     \* socket[p]: the /calls socket and its 'recovering' latch
    burned,     \* history: refreshes the socket asked for since it was connected
    orphans,    \* cookies presented by pages that were left before the answer
    odds,       \* history: what happened that may cost the user the session
    events      \* expiries, page changes and logins so far

server == <<status, succ, family>>
page   == <<at, token, call, socket, burned>>
webVars   == <<server, jar, page, refresh, orphans, odds, events>>

\* Rotated a moment ago ("graced"), rotated before that, or revoked with
\* nothing in its place.
Statuses == {"absent", "live", "graced", "rotated", "revoked"}
Tokens   == {"none", "good", "stale"}
Places   == {"booting", "working", "leaving", "login"}
Carried  == {"good", "stale"}

NoRefresh   == [st |-> "none"]
Sent(s)     == [st |-> "sent", with |-> s]
Granted(s, cookie) == [st |-> "granted", for |-> s, cookie |-> cookie]
Refused(clear)     == [st |-> "refused", clear |-> clear]
Refreshes ==
    {NoRefresh} \cup {Sent(s) : s \in 0..MaxWebSessions}
        \cup {Granted(s, b) : s \in WebSessions, b \in BOOLEAN}
        \cup {Refused(b) : b \in BOOLEAN}

\* An authFetch: the first request with the token it carries, the wait for
\* the refresh, the second request.
Resting == [st |-> "idle"]
First(t)  == [st |-> "first", with |-> t]
Hanging   == [st |-> "waiting"]
Second(t) == [st |-> "second", with |-> t]
Fetches == {Resting, Hanging} \cup {First(t) : t \in Tokens} \cup {Second(t) : t \in Tokens}

\* The socket: off, connected, or in a handshake; "waiting" and "second" are
\* the states in which recovering is set.
Off == [st |-> "off"]
Up  == [st |-> "up"]
Links == {Off, Up, Hanging} \cup {First(t) : t \in Tokens} \cup {Second(t) : t \in Tokens}

Odds == {"lost", "ended", "overlap", "login", "asleep"}

WebInit ==
    /\ status = [s \in WebSessions |-> IF s = 1 THEN "live" ELSE "absent"]
    /\ succ = [s \in WebSessions |-> 0]
    /\ family = [s \in WebSessions |-> 1]
    /\ jar = 1
    /\ at = [p \in Pages |-> "working"]
    /\ token = [p \in Pages |-> "good"]
    /\ refresh = [p \in Pages |-> NoRefresh]
    /\ call = [p \in Pages |-> [c \in Calls |-> Resting]]
    /\ socket = [p \in Pages |-> Off]
    /\ burned = [p \in Pages |-> 0]
    /\ orphans = {}
    /\ odds = {}
    /\ events = 0

Event == events < MaxEvents /\ events' = events + 1

----------------------------------------------------------------------------
(* The server: POST /auth/refresh, login and the ways a session ends.      *)

Unused == {s \in WebSessions : status[s] = "absent"}
Fresh == CHOOSE s \in Unused : \A t \in Unused : s <= t

\* revokeTokenFamily: rows that were revoked before keep what they say.
RevokeFamily(f) ==
    status' = [s \in WebSessions |-> IF status[s] = "live" /\ family[s] = f
                                  THEN "revoked" ELSE status[s]]

BugRotationKeepsOld(s, answer) ==
    /\ status[s] = "live"
    /\ Unused # {}
    /\ status' = [status EXCEPT ![Fresh] = "live"]
    /\ succ' = [succ EXCEPT ![s] = Fresh]
    /\ family' = [family EXCEPT ![Fresh] = family[s]]
    /\ answer = Granted(Fresh, TRUE)

\* A live session hands its place to a new one, and only that answer carries
\* a cookie.
Rotation(s, answer) ==
    /\ status[s] = "live"
    /\ Unused # {}
    /\ status' = [status EXCEPT ![s] = "graced", ![Fresh] = "live"]
    /\ succ' = [succ EXCEPT ![s] = Fresh]
    /\ family' = [family EXCEPT ![Fresh] = family[s]]
    /\ answer = Granted(Fresh, TRUE)

\* Definitions named Bug... are plausible mistakes; PROJECT.json names the
\* definition each one replaces and the property that then fails.
\* withinGrace, and the replacement is still good.
InGrace(s) == status[s] = "graced" /\ status[succ[s]] = "live"

BugGraceRotates(s, answer) ==
    /\ InGrace(s)
    /\ Unused # {}
    /\ status' = [status EXCEPT ![succ[s]] = "graced", ![Fresh] = "live"]
    /\ succ' = [succ EXCEPT ![succ[s]] = Fresh]
    /\ family' = [family EXCEPT ![Fresh] = family[s]]
    /\ answer = Granted(Fresh, FALSE)

GraceAnswer(s, answer) ==
    /\ InGrace(s)
    /\ answer = Granted(succ[s], FALSE)
    /\ UNCHANGED server

\* Anything else that was revoked takes its family with it.
Reuse(s, answer) ==
    /\ status[s] \in {"graced", "rotated", "revoked"}
    /\ ~InGrace(s)
    /\ RevokeFamily(family[s])
    /\ answer = Refused(TRUE)
    /\ UNCHANGED <<succ, family>>

\* POST /auth/refresh with the cookie s.
Serve(s, answer) ==
    \/ s = 0 /\ answer = Refused(FALSE) /\ UNCHANGED server
    \/ s # 0 /\ (Rotation(s, answer) \/ GraceAnswer(s, answer) \/ Reuse(s, answer))

ServeRefresh(p) ==
    /\ refresh[p].st = "sent"
    /\ \E answer \in Refreshes :
          /\ Serve(refresh[p].with, answer)
          /\ refresh' = [refresh EXCEPT ![p] = answer]
    /\ UNCHANGED <<jar, page, orphans, odds, events>>

\* The request of a page that was left reaches the server all the same ...
ServeOrphan(s) ==
    /\ s \in orphans
    /\ \E answer \in Refreshes : Serve(s, answer)
    /\ orphans' = orphans \ {s}
    /\ UNCHANGED <<jar, page, refresh, odds, events>>

\* ... or does not.
DropOrphan(s) ==
    /\ s \in orphans
    /\ orphans' = orphans \ {s}
    /\ UNCHANGED <<server, jar, page, refresh, odds, events>>

\* refreshGraceWindowSeconds have passed since the rotation of s.
GracePasses(s) ==
    /\ status[s] = "graced"
    /\ status' = [status EXCEPT ![s] = "rotated"]
    /\ UNCHANGED <<succ, family, jar, page, refresh, orphans, odds, events>>

\* The session is ended elsewhere: a member disabled, a password reset.
EndSession(s) ==
    /\ status[s] = "live"
    /\ "ended" \notin odds
    /\ status' = [status EXCEPT ![s] = "revoked"]
    /\ odds' = odds \cup {"ended"}
    /\ UNCHANGED <<succ, family, jar, page, refresh, orphans, events>>

----------------------------------------------------------------------------
(* A page: authFetch and refreshAccessToken.                               *)

OtherPages(p) == Pages \ {p}
Overlapping(p) == orphans # {} \/ \E q \in OtherPages(p) : refresh[q] # NoRefresh

\* refreshAccessToken: a refresh under way is shared.
AskRefresh(p) ==
    /\ refresh' = IF refresh[p] = NoRefresh THEN [refresh EXCEPT ![p] = Sent(jar)] ELSE refresh
    /\ odds' = IF refresh[p] = NoRefresh /\ Overlapping(p) THEN odds \cup {"overlap"} ELSE odds

Working(p) == at[p] = "working"
Running(p) == at[p] \in {"working", "leaving"}

StartCall(p, c) ==
    /\ Working(p)
    /\ call[p][c] = Resting
    /\ call' = [call EXCEPT ![p][c] = First(token[p])]
    /\ UNCHANGED <<server, jar, at, token, socket, burned, refresh, orphans, odds, events>>

\* requireAuth takes the token, or the network fails and authFetch throws.
CallEnds(p, c) ==
    /\ Running(p)
    /\ call[p][c].st \in {"first", "second"}
    /\ call[p][c].with = "good"
    /\ call' = [call EXCEPT ![p][c] = Resting]
    /\ UNCHANGED <<server, jar, at, token, socket, burned, refresh, orphans, odds, events>>

\* The first 401.
CallRefused(p, c) ==
    /\ Running(p)
    /\ call[p][c].st = "first" /\ call[p][c].with # "good"
    /\ call' = [call EXCEPT ![p][c] = Hanging]
    /\ AskRefresh(p)
    /\ UNCHANGED <<server, jar, at, token, socket, burned, orphans, events>>

\* loginRedirect replaces the page; what it had under way is aborted.
ToLogin(p) ==
    /\ at' = [at EXCEPT ![p] = "login"]
    /\ token' = [token EXCEPT ![p] = "none"]
    /\ call' = [call EXCEPT ![p] = [c \in Calls |-> Resting]]
    /\ socket' = [socket EXCEPT ![p] = Off]
    /\ burned' = [burned EXCEPT ![p] = 0]

\* The 401 of the second request is terminal.
SecondRefused(p, c) ==
    /\ Running(p)
    /\ call[p][c].st = "second" /\ call[p][c].with # "good"
    /\ ToLogin(p)
    /\ UNCHANGED <<server, jar, refresh, orphans, odds, events>>

BugRetryKeepsToken(p) == token[p]

\* The token of the second request is the one the refresh left in accessToken.
RetryToken(p) == "good"

BugLatchForgotten(p) == First("good")

\* With a fresh token, and recovering left set.
DialAgain(p) == Second("good")

\* The answer arrives: the browser stores the cookie, then everyone who waits
\* for the promise goes on.
RefreshGranted(p) ==
    /\ refresh[p].st = "granted"
    /\ jar' = IF refresh[p].cookie THEN refresh[p].for ELSE jar
    /\ refresh' = [refresh EXCEPT ![p] = NoRefresh]
    /\ IF at[p] = "login"
       THEN UNCHANGED page
       ELSE /\ token' = [token EXCEPT ![p] = "good"]
            /\ call' = [call EXCEPT ![p] = [c \in Calls |->
                          IF call[p][c] = Hanging THEN Second(RetryToken(p)) ELSE call[p][c]]]
            /\ socket' = [socket EXCEPT ![p] = IF @ = Hanging THEN DialAgain(p) ELSE @]
            /\ at' = [at EXCEPT ![p] = IF @ = "booting" THEN "working" ELSE @]
            /\ UNCHANGED burned
    /\ UNCHANGED <<server, orphans, odds, events>>

BugOnlyTheSocketWaits(p) == at[p] = "booting" \/ socket[p] = Hanging

\* Does anything on the page wait for the refresh?
Awaited(p) ==
    at[p] = "booting" \/ socket[p] = Hanging \/ \E c \in Calls : call[p][c] = Hanging

RefreshRefused(p) ==
    /\ refresh[p].st = "refused"
    /\ jar' = IF refresh[p].clear THEN 0 ELSE jar
    /\ refresh' = [refresh EXCEPT ![p] = NoRefresh]
    /\ IF Awaited(p) THEN ToLogin(p) ELSE UNCHANGED page
    /\ UNCHANGED <<server, orphans, odds, events>>

\* The network loses the request or its answer.
RefreshLost(p) ==
    /\ refresh[p] # NoRefresh
    /\ Event
    /\ orphans' = IF refresh[p].st = "sent" THEN orphans \cup ({refresh[p].with} \ {0}) ELSE orphans
    /\ refresh' = [refresh EXCEPT ![p] = NoRefresh]
    /\ odds' = odds \cup {"lost"}
    /\ IF Awaited(p) THEN ToLogin(p) ELSE UNCHANGED page
    /\ UNCHANGED <<server, jar>>

----------------------------------------------------------------------------
(* The /calls socket of a page: connectCallNamespace.                      *)

Dial(p) ==
    /\ Working(p)
    /\ socket[p] \in {Off, Up}      \* Up: the transport dropped, reconnect_attempt
    /\ socket' = [socket EXCEPT ![p] = First(token[p])]
    /\ UNCHANGED <<server, jar, at, token, call, burned, refresh, orphans, odds, events>>

Connected(p) ==
    /\ Running(p)
    /\ socket[p].st \in {"first", "second"} /\ socket[p].with = "good"
    /\ socket' = [socket EXCEPT ![p] = Up]
    /\ burned' = [burned EXCEPT ![p] = 0]
    /\ UNCHANGED <<server, jar, at, token, call, refresh, orphans, odds, events>>

\* connect_error with recovering unset.
HandshakeRefused(p) ==
    /\ Running(p)
    /\ socket[p].st = "first" /\ socket[p].with # "good"
    /\ socket' = [socket EXCEPT ![p] = Hanging]
    /\ burned' = [burned EXCEPT ![p] = @ + 1]
    /\ AskRefresh(p)
    /\ UNCHANGED <<server, jar, at, token, call, orphans, events>>

\* connect_error with recovering set: onAuthFailure.
SecondHandshakeRefused(p) ==
    /\ Running(p)
    /\ socket[p].st = "second" /\ socket[p].with # "good"
    /\ ToLogin(p)
    /\ UNCHANGED <<server, jar, refresh, orphans, odds, events>>

----------------------------------------------------------------------------
(* The user and the clock.                                                 *)

\* A token is past its time, or names a role the member no longer has.
Aged(f) == IF f = First("good") THEN First("stale")
           ELSE IF f = Second("good") THEN Second("stale") ELSE f

\* The token of a page expires, also the one a request on its way carries.
\* It outlives the round trip after the refresh that brought it, unless the
\* computer sleeps.
Expire(p) ==
    /\ token[p] = "good"
    /\ Event
    /\ token' = [token EXCEPT ![p] = "stale"]
    /\ call' = [call EXCEPT ![p] = [c \in Calls |-> Aged(call[p][c])]]
    /\ socket' = [socket EXCEPT ![p] = Aged(@)]
    /\ odds' = IF Second("good") \in {call[p][c] : c \in Calls} \cup {socket[p]}
               THEN odds \cup {"asleep"} ELSE odds
    /\ UNCHANGED <<server, jar, at, burned, refresh, orphans>>

\* The user opens another page in the tab: scripts start with no token and
\* ask for one.  The answer to a refresh under way is aborted; its cookie is
\* stored only if it had arrived.
OpenPage(p) ==
    /\ at[p] \in {"working", "booting"}
    /\ Event
    /\ \E kept \in {jar} \cup (IF refresh[p].st = "granted" /\ refresh[p].cookie
                               THEN {refresh[p].for} ELSE {}) :
          /\ jar' = kept
          /\ refresh' = [refresh EXCEPT ![p] = Sent(kept)]
          /\ odds' = odds
                \cup (IF refresh[p] # NoRefresh /\ kept = jar THEN {"lost"} ELSE {})
                \cup (IF Overlapping(p) THEN {"overlap"} ELSE {})
    /\ orphans' = IF refresh[p].st = "sent" THEN orphans \cup ({refresh[p].with} \ {0}) ELSE orphans
    /\ at' = [at EXCEPT ![p] = "booting"]
    /\ token' = [token EXCEPT ![p] = "none"]
    /\ call' = [call EXCEPT ![p] = [c \in Calls |-> Resting]]
    /\ socket' = [socket EXCEPT ![p] = Off]
    /\ burned' = [burned EXCEPT ![p] = 0]
    /\ UNCHANGED server

\* login(), from the login page, opens a family of its own.
Login(p) ==
    /\ at[p] = "login"
    /\ Unused # {}
    /\ Event
    /\ status' = [status EXCEPT ![Fresh] = "live"]
    /\ family' = [family EXCEPT ![Fresh] = Fresh]
    /\ jar' = Fresh
    /\ at' = [at EXCEPT ![p] = "working"]
    /\ token' = [token EXCEPT ![p] = "good"]
    /\ odds' = odds \cup {"login"}
    /\ UNCHANGED <<succ, call, socket, burned, refresh, orphans>>

\* logout(): the request leaves with the cookie of the moment.
AskLogout(p) ==
    /\ Working(p)
    /\ "ended" \notin odds
    /\ odds' = odds \cup {"ended"}
    /\ at' = [at EXCEPT ![p] = "leaving"]
    /\ UNCHANGED <<server, jar, token, call, socket, burned, refresh, orphans, events>>

\* The route revokes the session of the cookie and clears the cookie; a
\* session that was rotated meanwhile stays as it is.
AnswerLogout(p) ==
    /\ at[p] = "leaving"
    /\ status' = [s \in WebSessions |-> IF s = jar /\ status[s] = "live"
                                     THEN "revoked" ELSE status[s]]
    /\ jar' = 0
    /\ ToLogin(p)
    /\ UNCHANGED <<succ, family, refresh, orphans, odds, events>>

\* The request fails: the page forgets its token all the same.
LogoutFails(p) ==
    /\ at[p] = "leaving"
    /\ Event
    /\ ToLogin(p)
    /\ UNCHANGED <<server, jar, refresh, orphans, odds>>

----------------------------------------------------------------------------
Answered(p) ==
    \/ ServeRefresh(p) \/ RefreshGranted(p) \/ RefreshRefused(p)
    \/ AnswerLogout(p)
    \/ \E c \in Calls : CallEnds(p, c) \/ CallRefused(p, c) \/ SecondRefused(p, c)
    \/ Connected(p) \/ HandshakeRefused(p) \/ SecondHandshakeRefused(p)

User(p) ==
    \/ \E c \in Calls : StartCall(p, c)
    \/ Dial(p) \/ Expire(p) \/ OpenPage(p) \/ Login(p) \/ AskLogout(p)

WebNext ==
    \/ \E p \in Pages : Answered(p) \/ User(p) \/ RefreshLost(p) \/ LogoutFails(p)
    \/ \E s \in WebSessions : ServeOrphan(s) \/ DropOrphan(s) \/ GracePasses(s) \/ EndSession(s)

WebSpec == WebInit /\ [][WebNext]_webVars

RefreshGoesOn(p) == ServeRefresh(p) \/ RefreshGranted(p) \/ RefreshRefused(p)

\* The fetch behind a refresh is answered or fails in the end, and a promise
\* that is settled runs its continuations.
WebFairSpec == WebSpec /\ \A p \in Pages : WF_webVars(RefreshGoesOn(p))

----------------------------------------------------------------------------
(* Properties.                                                             *)

Awaiting(p) ==
    at[p] = "booting" \/ Hanging \in {call[p][c] : c \in Calls} \cup {socket[p]}

\* Every variable has its type, and whoever waits on a page has a refresh
\* under way to wait for.
WebTypeOK ==
    /\ status \in [WebSessions -> Statuses]
    /\ succ \in [WebSessions -> 0..MaxWebSessions]
    /\ family \in [WebSessions -> WebSessions]
    /\ jar \in 0..MaxWebSessions
    /\ at \in [Pages -> Places]
    /\ token \in [Pages -> Tokens]
    /\ refresh \in [Pages -> Refreshes]
    /\ call \in [Pages -> [Calls -> Fetches]]
    /\ socket \in [Pages -> Links]
    /\ burned \in [Pages -> Nat]
    /\ orphans \in SUBSET WebSessions
    /\ odds \in SUBSET Odds
    /\ events \in 0..MaxEvents
    /\ \A p \in Pages : Awaiting(p) => refresh[p] # NoRefresh

\* The browser can always get at the live session: as long as no answer was
\* lost and the user neither left nor logged in again, the cookie of the live
\* session is in the jar or on its way there, however the refreshes of
\* the pages overlap.
OnItsWay(s) == jar = s \/ \E p \in Pages : refresh[p] = Granted(s, TRUE)
LiveSessionInReach ==
    odds \cap {"lost", "ended", "login"} = {} =>
        \A s \in WebSessions : status[s] = "live" => OnItsWay(s)

\* Nobody is sent to the login page for nothing: pages whose refreshes do not
\* overlap keep the user signed in, with any number of requests that are
\* refused together or late, unless an answer was lost or the session ended.
BouncedForAReason == odds = {} => \A p \in Pages : at[p] # "login"

\* A socket asks for one refresh between two connections: a server that goes
\* on refusing it does not make it rotate the session for ever.
SocketAsksOnce == \A p \in Pages : burned[p] <= 1

\* The server of this module keeps the promise of AuthSessions, one chain per
\* login, from the session the pages start with on: however refreshes overlap,
\* come twice or late, a session gives its place to one successor of its
\* family, and so a family never has two sessions that can be refreshed.
WebChain == INSTANCE SessionChain WITH
    Sessions <- WebSessions, None <- 0,
    live <- {s \in WebSessions : status[s] = "live"},
    used <- {s \in WebSessions : status[s] # "absent"},
    successor <- succ,
    family <- [s \in WebSessions |-> IF status[s] = "absent" THEN 0 ELSE family[s]],
    factor <- {}
OneEndEach ==
    \A s, t \in WebSessions :
        status[s] = "live" /\ status[t] = "live" /\ family[s] = family[t] => s = t
ServerKeepsChain == OneEndEach /\ [][WebChain!Next]_(WebChain!vars)

\* The user stays signed in as far as the pages have it in their hands.
StaysSignedIn == LiveSessionInReach /\ BouncedForAReason /\ SocketAsksOnce

\* Requests, sockets and scripts of a page that wait for a token get one or
\* the page goes to the login page: nobody is left hanging on a refresh that
\* is over, or on one that was never sent.
WaitersReleased == \A p \in Pages : Awaiting(p) ~> ~Awaiting(p)

\* What the route says of a refresh answered in the grace window: the browser
\* has received the new cookie, or at least it is on its way.
GraceMeansCookieReceived ==
    [][\A p \in Pages :
          refresh[p].st = "sent" /\ refresh'[p].st = "granted" /\ ~refresh'[p].cookie
              => OnItsWay(refresh'[p].for)]_webVars
==============================================================================
